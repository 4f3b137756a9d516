---------------------------- MODULE CopyForward ----------------------------
(***************************************************************************)
(* One device at the copy server: the workers that store its measurements  *)
(* (CopyService.cpp, EnqueueAndNotifyThread, after the acknowledgement) and *)
(* the thread that hands them to a copy process (getDataFromQueueThread).  *)
(*                                                                         *)
(* They meet in three hash maps: the device's queue, its mutex and its     *)
(* condition variable are found by key, and made when they are not there,  *)
(* without a lock.  A bucket holds one key's entries only, the newest      *)
(* first: a look-up sees the newest.  Mutexes and condition variables are  *)
(* numbered in the order they are linked; pairs[i] is the i-th queue.      *)
(*                                                                         *)
(* A queue is a list with a head, a tail and a size: two threads that are  *)
(* in it at once, under different mutexes or none, may damage it.  Nobody  *)
(* knows what a damaged list holds: the model keeps nothing of it, and     *)
(* anything or nothing may come out.                                       *)
(***************************************************************************)
EXTENDS Naturals, Sequences, SequencesExt, FiniteSetsExt

CONSTANTS
  Workers,      \* the pool of EnqueueAndNotifyThread threads
  Consumer,     \* the device's getDataFromQueueThread
  MaxReceived   \* bound: measurements workers read, repeated ones included

Thread == Workers \cup {Consumer}

ASSUME ConstantsAssumption ==
  /\ Consumer \notin Workers
  /\ IsFiniteSet(Workers) /\ Workers # {}
  /\ MaxReceived \in Nat

VARIABLES
  pairs,      \* messageQueues: the device's entries, the newest last
  nmtx, ncv,  \* queueMtxs and dataCondition: entries linked so far
  torn,       \* two threads were in the queue at once and have damaged the list
  pc,         \* where each thread is
  mtx, cv,    \* the pointers each thread holds, 0 for none
  data,       \* data of a worker, m of the consumer; 0 for garbage
  cq,         \* the queue the consumer is about to dequeue from
  \* the environment
  active,     \* the worker that reads the original's current connection
  proc,       \* the copy process: absent, up or down
  broken,     \* sends to it fail from now on
  \* history and bounds; got and swallowed end when the list is damaged
  fresh,      \* the maps had no entry for the device at first
  arrived,    \* measurements read from the original
  got,        \* measurements sent to the copy process while it was up
  swallowed,  \* measurements buffered for a process that was down
  retries

mapVars == <<pairs, nmtx, ncv, torn>>
envVars == <<active, proc, broken>>
histVars == <<fresh, arrived, got, swallowed, retries>>
vars == <<mapVars, pc, mtx, cv, data, cq, envVars, histVars>>

\* get_queue_for_key: the newest entry, which is what pairs ends with.
Queue == IF pairs = <<>> THEN <<>> ELSE Last(pairs)

\* Places of the consumer at which it holds its mutex.
Locked == {"findcv", "linkcv", "test", "block"}

\* Nobody holds mutex k; the other critical sections are single steps.
Free(k) == pc[Consumer] \in Locked => mtx[Consumer] # k

\* Another thread may be in the queue while t is: the mutexes they hold, if any,
\* are not the same.  Then the list is left damaged, or it is not.
InQueue == {"scanq", "enqueue", "dequeue", "putback"}
Meddled(t) ==
  \E u \in Thread \ {t} : pc[u] \in InQueue /\ mtx[u] # mtx[t] /\ Free(mtx[u])
Tear(t) == torn' \in {torn, torn \/ Meddled(t)}

\* The k-th queue becomes q, unless the list is damaged.
Put(k, q) == pairs' = [pairs EXCEPT ![k] = IF torn' THEN <<>> ELSE q]

Goto(t, place) == pc' = [pc EXCEPT ![t] = place]

\* The end of an iteration: the thread's local variables are gone.
Leave(t) ==
  /\ mtx' = [mtx EXCEPT ![t] = 0]
  /\ cv' = [cv EXCEPT ![t] = 0]
  /\ data' = [data EXCEPT ![t] = 0]

\* The device is new, or it has been served before and all is drained.  Any
\* worker may be the one that has the connection.
Init ==
  /\ fresh \in BOOLEAN
  /\ pairs = IF fresh THEN <<>> ELSE << <<>> >>
  /\ nmtx = (IF fresh THEN 0 ELSE 1) /\ ncv = nmtx /\ torn = FALSE
  /\ proc = IF fresh THEN "absent" ELSE "up"
  /\ pc = [t \in Thread |-> IF t # Consumer THEN "idle"
                            ELSE IF fresh THEN "noproc" ELSE "findmtx"]
  /\ mtx = [t \in Thread |-> 0] /\ cv = [t \in Thread |-> 0]
  /\ data = [t \in Thread |-> 0] /\ cq = 0
  /\ active = (CHOOSE w \in Workers : TRUE) /\ broken = FALSE
  /\ arrived = 0 /\ got = <<>> /\ swallowed = {} /\ retries = 0

-----------------------------------------------------------------------------
(* The maps of mutexes and condition variables, used by all threads.       *)

\* (Each Wrong... operator is a plausible bug in the definition after it; no
\* specification uses it.)
WrongFindMutex(t) ==
  /\ pc[t] = "findmtx"
  /\ Goto(t, "linkmtx")
  /\ UNCHANGED <<mapVars, mtx, cv, data, cq, envVars, histVars>>

\* contains_key_mtx, the search of insert_mtx_to_map and get_mtx_for_key.
\* Entries never go away, so what counts is whether the last of these searches
\* finds one; the consumer goes on to lock the mutex.
FindMutex(t) ==
  /\ pc[t] = "findmtx"
  /\ IF nmtx = 0
     THEN Goto(t, "linkmtx") /\ UNCHANGED mtx
     ELSE /\ mtx' = [mtx EXCEPT ![t] = nmtx]
          /\ Goto(t, IF t = Consumer THEN "lock" ELSE "findcv")
  /\ UNCHANGED <<mapVars, cv, data, cq, envVars, histVars>>

\* The new entry is put in front of what is in the bucket by now.
LinkMutex(t) ==
  /\ pc[t] = "linkmtx"
  /\ nmtx' = nmtx + 1
  /\ Goto(t, "findmtx")
  /\ UNCHANGED <<pairs, ncv, torn, mtx, cv, data, cq, envVars, histVars>>

WrongFindCondVar(t) ==
  /\ pc[t] = "findcv"
  /\ cv' = [cv EXCEPT ![t] = ncv]
  /\ Goto(t, IF t = Consumer THEN "test" ELSE "enqueue")
  /\ UNCHANGED <<mapVars, mtx, data, cq, envVars, histVars>>

\* The same for the condition variable; the consumer holds its mutex here.
FindCondVar(t) ==
  /\ pc[t] = "findcv"
  /\ IF ncv = 0
     THEN Goto(t, "linkcv") /\ UNCHANGED cv
     ELSE /\ cv' = [cv EXCEPT ![t] = ncv]
          /\ Goto(t, IF t = Consumer THEN "test" ELSE "enqueue")
  /\ UNCHANGED <<mapVars, mtx, data, cq, envVars, histVars>>

LinkCondVar(t) ==
  /\ pc[t] = "linkcv"
  /\ ncv' = ncv + 1
  /\ Goto(t, "findcv")
  /\ UNCHANGED <<pairs, nmtx, torn, mtx, cv, data, cq, envVars, histVars>>

-----------------------------------------------------------------------------
(* A worker of the copy server.                                            *)

\* The next measurement is read from the original's connection, and
\* acknowledged.
Receive(w) ==
  /\ pc[w] = "idle" /\ w = active
  /\ arrived + retries < MaxReceived
  /\ arrived' = arrived + 1
  /\ data' = [data EXCEPT ![w] = arrived + 1]
  /\ Goto(w, "hasq")
  /\ UNCHANGED <<mapVars, mtx, cv, cq, envVars, fresh, got, swallowed, retries>>

\* The original has given up waiting for the last acknowledgement: another
\* worker gets its new connection and the same measurement.
ReceiveAgain(w) ==
  /\ pc[w] = "idle" /\ w # active
  /\ arrived > 0
  /\ arrived + retries < MaxReceived
  /\ retries' = retries + 1
  /\ active' = w
  /\ data' = [data EXCEPT ![w] = arrived]
  /\ Goto(w, "hasq")
  /\ UNCHANGED <<mapVars, mtx, cv, cq, proc, broken, fresh, arrived, got, swallowed>>

\* contains_key on messageQueues ...
HasQueue(w) ==
  /\ pc[w] = "hasq"
  /\ Goto(w, IF pairs = <<>> THEN "scanq" ELSE "findmtx")
  /\ UNCHANGED <<mapVars, mtx, cv, data, cq, envVars, histVars>>

\* ... insert_queue_to_map searches again, and empties what is there by now,
\* under no mutex ...
ScanQueue(w) ==
  /\ pc[w] = "scanq"
  /\ IF pairs = <<>>
     THEN Goto(w, "linkq") /\ UNCHANGED <<pairs, torn>>
     ELSE Goto(w, "findmtx") /\ Tear(w) /\ Put(Len(pairs), <<>>)
  /\ UNCHANGED <<nmtx, ncv, mtx, cv, data, cq, envVars, histVars>>

\* ... or puts a new entry in front.
LinkQueue(w) ==
  /\ pc[w] = "linkq"
  /\ pairs' = Append(pairs, <<>>)
  /\ Goto(w, "findmtx")
  /\ UNCHANGED <<nmtx, ncv, torn, mtx, cv, data, cq, envVars, histVars>>

WrongEnqueueToMap(w) ==
  /\ pc[w] = "enqueue"
  /\ Tear(w)
  /\ Put(Len(pairs), Append(Queue, data[w]))
  /\ Goto(w, "notify")
  /\ UNCHANGED <<nmtx, ncv, mtx, cv, data, cq, envVars, histVars>>

\* EnqueueToMap, under the mutex the worker found; the device has a queue.
EnqueueToMap(w) ==
  /\ pc[w] = "enqueue"
  /\ Free(mtx[w])
  /\ Tear(w)
  /\ Put(Len(pairs), Append(Queue, data[w]))
  /\ Goto(w, "notify")
  /\ UNCHANGED <<nmtx, ncv, mtx, cv, data, cq, envVars, histVars>>

WrongNotify(w) ==
  /\ pc[w] = "notify"
  /\ pc' = [pc EXCEPT ![w] = "idle"]
  /\ Leave(w)
  /\ UNCHANGED <<mapVars, cq, envVars, histVars>>

\* notify_all reaches the consumer if it waits on that condition variable.
Notify(w) ==
  /\ pc[w] = "notify"
  /\ pc' = [pc EXCEPT ![w] = "idle",
                      ![Consumer] = IF @ = "blocked" /\ cv[Consumer] = cv[w]
                                    THEN "woken" ELSE @]
  /\ Leave(w)
  /\ UNCHANGED <<mapVars, cq, envVars, histVars>>

-----------------------------------------------------------------------------
(* getDataFromQueueThread.                                                 *)

\* The first connection of a copy process is taken and never changed again.
TakeProcess ==
  /\ pc[Consumer] = "noproc"
  /\ proc # "absent"
  /\ Goto(Consumer, "findmtx")
  /\ UNCHANGED <<mapVars, mtx, cv, data, cq, envVars, histVars>>

LockMutex ==
  /\ pc[Consumer] = "lock"
  /\ Goto(Consumer, "findcv")
  /\ UNCHANGED <<mapVars, mtx, cv, data, cq, envVars, histVars>>

WrongTestQueue ==
  /\ pc[Consumer] \in {"test", "woken"}
  /\ Goto(Consumer, IF pc[Consumer] = "test" /\ Queue = <<>> THEN "block" ELSE "getq")
  /\ UNCHANGED <<mapVars, mtx, cv, data, cq, envVars, histVars>>

\* The predicate of the wait, before it and whenever it ends; a thread that was
\* woken first takes the mutex again.  It reads the size, which tells nothing
\* of a damaged list ...
TestQueue ==
  /\ pc[Consumer] \in {"test", "woken"}
  /\ \E found \in BOOLEAN :
       /\ torn \/ found = (Queue # <<>>)
       /\ Goto(Consumer, IF found THEN "getq" ELSE "block")
  /\ UNCHANGED <<mapVars, mtx, cv, data, cq, envVars, histVars>>

\* ... and the wait itself, which lets go of the mutex.
Block ==
  /\ pc[Consumer] = "block"
  /\ Goto(Consumer, "blocked")
  /\ UNCHANGED <<mapVars, mtx, cv, data, cq, envVars, histVars>>

SpuriousWakeup ==
  /\ pc[Consumer] = "blocked"
  /\ Goto(Consumer, "woken")
  /\ UNCHANGED <<mapVars, mtx, cv, data, cq, envVars, histVars>>

\* Outside the mutex the queue is looked up again ...
GetQueue ==
  /\ pc[Consumer] = "getq"
  /\ cq' = Len(pairs)
  /\ Goto(Consumer, "dequeue")
  /\ UNCHANGED <<mapVars, mtx, cv, data, envVars, histVars>>

WrongSafeDequeue ==
  /\ pc[Consumer] = "dequeue"
  /\ Tear(Consumer)
  /\ \/ /\ torn' \/ cq = 0 \/ pairs[cq] = <<>>
        /\ \E m \in 0..arrived : data' = [data EXCEPT ![Consumer] = m]
        /\ Put(cq, <<>>)
     \/ /\ ~torn' /\ cq # 0 /\ pairs[cq] # <<>>
        /\ data' = [data EXCEPT ![Consumer] = Last(pairs[cq])]
        /\ Put(cq, Front(pairs[cq]))
  /\ Goto(Consumer, "send")
  /\ UNCHANGED <<nmtx, ncv, mtx, cv, cq, envVars, histVars>>

\* ... and SafeDequeue takes its head under the mutex.  If there is none, or no
\* queue, m stays what the stack held: garbage, or an earlier measurement.  So
\* it does if the list is damaged: its head may be NULL while its size is not 0.
SafeDequeue ==
  /\ pc[Consumer] = "dequeue"
  /\ Tear(Consumer)
  /\ \/ /\ torn' \/ cq = 0 \/ pairs[cq] = <<>>
        /\ \E m \in 0..arrived : data' = [data EXCEPT ![Consumer] = m]
        /\ Put(cq, <<>>)
     \/ /\ ~torn' /\ cq # 0 /\ pairs[cq] # <<>>
        /\ data' = [data EXCEPT ![Consumer] = Head(pairs[cq])]
        /\ Put(cq, Tail(pairs[cq]))
  /\ Goto(Consumer, "send")
  /\ UNCHANGED <<nmtx, ncv, mtx, cv, cq, envVars, histVars>>

\* send() puts the measurement into the connection, for nobody if the process
\* is down and the reset has not come back yet.
SendToProcess ==
  /\ pc[Consumer] = "send"
  /\ ~broken
  /\ \/ torn /\ UNCHANGED <<got, swallowed>>
     \/ /\ ~torn /\ proc = "up"
        /\ got' = Append(got, data[Consumer]) /\ UNCHANGED swallowed
     \/ /\ ~torn /\ proc # "up"
        /\ swallowed' = swallowed \cup {data[Consumer]} /\ UNCHANGED got
  /\ Goto(Consumer, "findmtx") /\ Leave(Consumer) /\ cq' = 0
  /\ UNCHANGED <<mapVars, envVars, fresh, arrived, retries>>

\* Once it has failed it fails for good: the socket stays the same.
SendFails ==
  /\ pc[Consumer] = "send"
  /\ proc = "down"
  /\ broken' = TRUE
  /\ Goto(Consumer, "putback")
  /\ UNCHANGED <<mapVars, mtx, cv, data, cq, active, proc, histVars>>

WrongPutBack ==
  /\ pc[Consumer] = "putback"
  /\ Goto(Consumer, "findmtx") /\ Leave(Consumer) /\ cq' = 0
  /\ UNCHANGED <<mapVars, envVars, histVars>>

\* SafeEnqueue: the measurement goes to the tail of its queue.
PutBack ==
  /\ pc[Consumer] = "putback"
  /\ Tear(Consumer)
  /\ Put(Len(pairs), Append(Queue, data[Consumer]))
  /\ Goto(Consumer, "findmtx") /\ Leave(Consumer) /\ cq' = 0
  /\ UNCHANGED <<nmtx, ncv, envVars, histVars>>

-----------------------------------------------------------------------------
(* The copy process.                                                       *)

\* The acceptor queues its connection and notifies, under socketMtxQueue.
ProcessConnects ==
  /\ proc = "absent"
  /\ proc' = "up"
  /\ UNCHANGED <<mapVars, pc, mtx, cv, data, cq, active, broken, histVars>>

ProcessDies ==
  /\ proc = "up"
  /\ proc' = "down"
  /\ UNCHANGED <<mapVars, pc, mtx, cv, data, cq, active, broken, histVars>>

-----------------------------------------------------------------------------

UseMaps(t) ==
  \/ FindMutex(t) \/ LinkMutex(t)
  \/ FindCondVar(t) \/ LinkCondVar(t)

StoreStep(w) ==
  \/ HasQueue(w) \/ ScanQueue(w) \/ LinkQueue(w)
  \/ UseMaps(w) \/ EnqueueToMap(w) \/ Notify(w)

ConsumerStep ==
  \/ TakeProcess \/ UseMaps(Consumer)
  \/ LockMutex \/ TestQueue \/ Block
  \/ GetQueue \/ SafeDequeue
  \/ SendToProcess \/ SendFails \/ PutBack

Next ==
  \/ \E w \in Workers : Receive(w) \/ ReceiveAgain(w) \/ StoreStep(w)
  \/ ConsumerStep \/ SpuriousWakeup
  \/ ProcessConnects \/ ProcessDies

Spec == Init /\ [][Next]_vars

\* The threads keep running and the copy process, which the consumer itself
\* starts, connects; nothing has to arrive, to be late, to die or to wake up by
\* itself.  A worker gets a mutex it finds free again and again (strongly fair),
\* for a consumer that woke up by itself for ever would take it ever again.
FairSpec ==
  /\ Spec
  /\ \A w \in Workers : WF_vars(StoreStep(w)) /\ SF_vars(EnqueueToMap(w))
  /\ WF_vars(ConsumerStep)
  /\ WF_vars(ProcessConnects)

-----------------------------------------------------------------------------
(* Properties.                                                             *)

WorkerPlace == {"idle", "hasq", "scanq", "linkq", "findmtx", "linkmtx",
                "findcv", "linkcv", "enqueue", "notify"}
ConsumerPlace == {"noproc", "findmtx", "linkmtx", "lock", "findcv", "linkcv",
                  "test", "block", "blocked", "woken", "getq", "dequeue", "send",
                  "putback"}

\* Types; no thread links more than one entry into a map.
TypeOK ==
  /\ pairs \in Seq(Seq(0..MaxReceived)) /\ Len(pairs) \in 0..Cardinality(Workers)
  /\ nmtx \in 0..Cardinality(Thread)
  /\ ncv \in 0..Cardinality(Thread)
  /\ torn \in BOOLEAN
  /\ pc \in [Thread -> WorkerPlace \cup ConsumerPlace]
  /\ \A w \in Workers : pc[w] \in WorkerPlace
  /\ pc[Consumer] \in ConsumerPlace
  /\ mtx \in [Thread -> 0..nmtx]
  /\ cv \in [Thread -> 0..ncv]
  /\ data \in [Thread -> 0..MaxReceived]
  /\ cq \in 0..Len(pairs)
  /\ active \in Workers
  /\ proc \in {"absent", "up", "down"}
  /\ broken \in BOOLEAN /\ fresh \in BOOLEAN
  /\ arrived \in 0..MaxReceived
  /\ got \in Seq(0..MaxReceived)
  /\ swallowed \subseteq 0..MaxReceived
  /\ retries \in 0..MaxReceived

\* A thread never uses the null pointer a look-up would give it if the entry
\* were missing: the code tests the mutex for it, not the condition variable,
\* and relies on the insertion that came before.
NoNullPointer ==
  \A t \in Thread :
    /\ pc[t] \in Locked \cup {"lock", "enqueue", "notify", "blocked", "woken", "dequeue"} =>
         mtx[t] # 0
    /\ pc[t] \in {"enqueue", "notify", "test", "block", "blocked", "woken", "dequeue"} => cv[t] # 0

\* What a worker has read and not yet stored.
Unstored == {data[w] : w \in {v \in Workers : pc[v] \notin {"idle", "notify"}}}

\* What the consumer has taken out and not yet sent or put back.
Taken == IF pc[Consumer] \in {"send", "putback"} THEN <<data[Consumer]>> ELSE <<>>

\* As long as the original repeats nothing, each measurement is in one place:
\* with a worker, in the queue, with the consumer, at the process or gone with
\* a process that had died; a failed send loses and doubles nothing.  Only two
\* mutexes for the device can end that, once two threads are in its queue at
\* once.
Conserved ==
  retries = 0 =>
    /\ torn => nmtx > 1
    /\ ~torn =>
         /\ got \o Taken \o Queue \in [1..Len(got \o Taken \o Queue) -> 1..arrived]
         /\ ToSet(got \o Taken \o Queue) \cup swallowed \cup Unstored = 1..arrived
         /\ Len(got \o Taken \o Queue) + Cardinality(swallowed) + Cardinality(Unstored)
              = arrived

\* The copy process receives the measurements in order and without gaps, unless
\* two threads were in the queue at once.
ForwardedInOrder == retries = 0 /\ ~torn => got = [i \in 1..Len(got) |-> i]

\* The queue the consumer has found not to be empty still is not when it
\* dequeues, although it has let go of the mutex in between: it never sends a
\* measurement nobody produced.  A retry on a new device may empty it, and two
\* threads in it at once may damage it.
NothingInvented ==
  pc[Consumer] = "dequeue" /\ ~(fresh /\ retries > 0) /\ ~torn =>
    cq # 0 /\ pairs[cq] # <<>>

\* A map got two entries for the device.
Raced == nmtx > 1 \/ ncv > 1

\* The consumer does not sleep on a queue that holds something, unless a worker
\* is about to wake it.
NoMissedWakeup ==
  pc[Consumer] = "blocked" /\ Queue # <<>> /\ ~Raced /\ ~torn =>
    \E w \in Workers : pc[w] = "notify" /\ cv[w] = cv[Consumer]

\* Whatever workers have read is at the copy process sooner or later, as long
\* as that lives.
AllForwarded == []<>(1..arrived \subseteq ToSet(got) \/ proc = "down")

\* So it is, if no map was raced on and no queue emptied.
ForwardedUnlessRaced ==
  []<>(\/ 1..arrived \subseteq ToSet(got) \/ proc = "down"
       \/ Raced \/ (fresh /\ retries > 0))

=============================================================================
