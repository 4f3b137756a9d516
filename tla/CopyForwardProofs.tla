------------------------- MODULE CopyForwardProofs -------------------------
(***************************************************************************)
(* What holds of a device at the copy server for any number of workers and *)
(* of measurements.                                                        *)
(***************************************************************************)
EXTENDS CopyForward, SequenceLemmas, FiniteSetTheorems

\* The types that need no counting.
Numbers == 0..MaxReceived
MapTypes == pairs \in Seq(Seq(Numbers)) /\ nmtx \in Nat /\ ncv \in Nat /\ torn \in BOOLEAN
PlaceTypes ==
  /\ pc \in [Thread -> WorkerPlace \cup ConsumerPlace]
  /\ \A w \in Workers : pc[w] \in WorkerPlace
  /\ pc[Consumer] \in ConsumerPlace
LocalTypes ==
  /\ mtx \in [Thread -> 0..nmtx]
  /\ cv \in [Thread -> 0..ncv]
  /\ data \in [Thread -> Numbers]
  /\ cq \in 0..Len(pairs)
HistTypes ==
  /\ active \in Workers
  /\ proc \in {"absent", "up", "down"}
  /\ broken \in BOOLEAN /\ fresh \in BOOLEAN
  /\ arrived \in Nat /\ retries \in Nat /\ arrived + retries <= MaxReceived
  /\ got \in Seq(Numbers)
  /\ swallowed \subseteq Numbers
Types == MapTypes /\ PlaceTypes /\ LocalTypes /\ HistTypes

\* Who is about to link an entry, on top of those that are linked.
At(T, place) == {t \in T : pc[t] = place}
QueuesCounted == Len(pairs) + Cardinality(At(Workers, "linkq")) <= Cardinality(Workers)
MutexesCounted == nmtx + Cardinality(At(Thread, "linkmtx")) <= Cardinality(Thread)
CondVarsCounted == ncv + Cardinality(At(Thread, "linkcv")) <= Cardinality(Thread)
Counted == QueuesCounted /\ MutexesCounted /\ CondVarsCounted

-----------------------------------------------------------------------------
(* Types.                                                                  *)

LEMMA Threads ==
  /\ Consumer \in Thread /\ Consumer \notin Workers /\ Workers \subseteq Thread
  /\ \A t \in Thread : t # Consumer => t \in Workers
  /\ \E w \in Workers : TRUE
  /\ MaxReceived \in Nat
  BY ConstantsAssumption DEF Thread

\* Where a worker's notification leaves the threads.
LEMMA NotifyPlaces ==
  ASSUME PlaceTypes, NEW w \in Workers, Notify(w)
  PROVE  /\ pc' \in [Thread -> WorkerPlace \cup ConsumerPlace]
         /\ pc'[w] = "idle"
         /\ pc'[Consumer] = IF pc[Consumer] = "blocked" /\ cv[Consumer] = cv[w]
                            THEN "woken" ELSE pc[Consumer]
         /\ \A t \in Thread \ {w, Consumer} : pc'[t] = pc[t]
<1>1. pc' = [pc EXCEPT ![w] = "idle",
                       ![Consumer] = IF @ = "blocked" /\ cv[Consumer] = cv[w]
                                     THEN "woken" ELSE @]
  BY DEF Notify
<1>2. w # Consumer /\ w \in Thread /\ Consumer \in Thread
  BY Threads
<1> QED
  BY <1>1, <1>2 DEF PlaceTypes, WorkerPlace, ConsumerPlace

\* Where the other steps of a thread take it.
LEMMA PlaceTypesStep == Types /\ [Next]_vars => PlaceTypes'
<1> SUFFICES ASSUME Types, [Next]_vars PROVE PlaceTypes'
  OBVIOUS
<1> USE Threads DEF Types
<1>go. ASSUME NEW t \in Thread, NEW place, Goto(t, place),
              IF t = Consumer THEN place \in ConsumerPlace ELSE place \in WorkerPlace
       PROVE  PlaceTypes'
  BY <1>go DEF Goto, PlaceTypes
<1>1. ASSUME NEW w \in Workers, Receive(w) \/ ReceiveAgain(w) \/ StoreStep(w)
      PROVE  PlaceTypes'
  <2>1. CASE Notify(w)
    <3>1. pc'[Consumer] \in ConsumerPlace /\ pc'[w] \in WorkerPlace
      BY <2>1, NotifyPlaces DEF PlaceTypes, WorkerPlace, ConsumerPlace
    <3> QED BY <2>1, <3>1, NotifyPlaces DEF PlaceTypes
  <2>2. CASE ~Notify(w)
    <3>1. \E place \in WorkerPlace : Goto(w, place)
      BY <1>1, <2>2 DEF Receive, ReceiveAgain, StoreStep, HasQueue, ScanQueue, LinkQueue,
         UseMaps, FindMutex, LinkMutex, FindCondVar, LinkCondVar, EnqueueToMap, WorkerPlace
    <3> QED BY <3>1, <1>go
  <2> QED BY <2>1, <2>2
<1>2. CASE ConsumerStep \/ SpuriousWakeup
  <2>1. \E place \in ConsumerPlace : Goto(Consumer, place)
    BY <1>2 DEF ConsumerStep, SpuriousWakeup, TakeProcess, UseMaps, FindMutex, LinkMutex,
       FindCondVar, LinkCondVar, LockMutex, TestQueue, Block, GetQueue, SafeDequeue,
       SendToProcess, SendFails, PutBack, ConsumerPlace
  <2> QED BY <2>1, <1>go
<1>3. CASE ProcessConnects \/ ProcessDies \/ UNCHANGED vars
  BY <1>3 DEF ProcessConnects, ProcessDies, vars, PlaceTypes
<1> QED
  BY <1>1, <1>2, <1>3 DEF Next

\* Replacing one of a sequence of sequences.
LEMMA Replaced ==
  ASSUME NEW S, NEW ps \in Seq(Seq(S)), NEW k \in 1..Len(ps), NEW q \in Seq(S)
  PROVE  /\ [ps EXCEPT ![k] = q] \in Seq(Seq(S))
         /\ Len([ps EXCEPT ![k] = q]) = Len(ps)
         /\ [ps EXCEPT ![k] = q][k] = q
         /\ \A i \in 1..Len(ps) : i # k => [ps EXCEPT ![k] = q][i] = ps[i]
         /\ ps[k] \in Seq(S)
  BY ExceptSeq

\* What the steps do to the queues: nothing, a new entry, or a change of one.
Store(k, q) == /\ k \in 1..Len(pairs) /\ q \in Seq(Numbers)
               /\ pairs' = [pairs EXCEPT ![k] = q]

\* Only a place that has an entry is written to: workers have made sure of one,
\* and the consumer has found something in it.
HasPairs ==
  /\ \A w \in Workers :
       pc[w] \in {"findmtx", "linkmtx", "findcv", "linkcv", "enqueue", "notify"} => pairs # <<>>
  /\ pc[Consumer] \in {"getq", "dequeue", "send", "putback"} => pairs # <<>>
  /\ torn => pairs # <<>>

\* A list that is damaged stays so, and was one that a thread is in.
LEMMA TornStep ==
  Types /\ HasPairs /\ [Next]_vars => torn' \in BOOLEAN /\ (torn => torn') /\ (torn' => pairs # <<>>)
<1> SUFFICES ASSUME Types, HasPairs, [Next]_vars
             PROVE  torn' \in BOOLEAN /\ (torn => torn') /\ (torn' => pairs # <<>>)
  OBVIOUS
<1> USE Threads
<1>1. ASSUME NEW t \in Thread, Tear(t) PROVE torn' \in BOOLEAN /\ (torn => torn')
  BY <1>1 DEF Tear, Types, MapTypes, Meddled
<1>2. ASSUME NEW w \in Workers, StoreStep(w)
      PROVE  torn' \in BOOLEAN /\ (torn => torn') /\ (torn' => pairs # <<>>)
  BY <1>1, <1>2 DEF StoreStep, HasQueue, ScanQueue, LinkQueue, EnqueueToMap, UseMaps, FindMutex,
     LinkMutex, FindCondVar, LinkCondVar, Notify, mapVars, HasPairs, Types, MapTypes
<1>3. ASSUME ConsumerStep
      PROVE  torn' \in BOOLEAN /\ (torn => torn') /\ (torn' => pairs # <<>>)
  BY <1>1, <1>3 DEF ConsumerStep, TakeProcess, UseMaps, FindMutex, LinkMutex,
     FindCondVar, LinkCondVar, LockMutex, TestQueue, Block, GetQueue, SafeDequeue,
     SendToProcess, SendFails, PutBack, mapVars, HasPairs, Types, MapTypes
<1> QED
  BY <1>2, <1>3 DEF Next, Receive, ReceiveAgain, SpuriousWakeup, ProcessConnects,
     ProcessDies, vars, mapVars, HasPairs, Types, MapTypes

LEMMA PairsStep ==
  Types /\ HasPairs /\ [Next]_vars =>
    \/ UNCHANGED pairs
    \/ \E w \in Workers : LinkQueue(w) \/ (ScanQueue(w) /\ Store(Len(pairs), <<>>))
    \/ torn' /\ \E k : Store(k, <<>>)
    \/ /\ ~torn'
       /\ \/ \E w \in Workers :
               EnqueueToMap(w) /\ Store(Len(pairs), Append(pairs[Len(pairs)], data[w]))
          \/ SafeDequeue /\ cq \in 1..Len(pairs) /\ pairs[cq] # <<>> /\ Store(cq, Tail(pairs[cq]))
          \/ PutBack /\ Store(Len(pairs), Append(pairs[Len(pairs)], data[Consumer]))
<1> SUFFICES ASSUME Types, HasPairs, [Next]_vars, pairs' # pairs
             PROVE  \/ \E w \in Workers :
                         LinkQueue(w) \/ (ScanQueue(w) /\ Store(Len(pairs), <<>>))
                    \/ torn' /\ \E k : Store(k, <<>>)
                    \/ /\ ~torn'
                       /\ \/ \E w \in Workers :
                               /\ EnqueueToMap(w)
                               /\ Store(Len(pairs), Append(pairs[Len(pairs)], data[w]))
                          \/ SafeDequeue /\ cq \in 1..Len(pairs) /\ pairs[cq] # <<>>
                               /\ Store(cq, Tail(pairs[cq]))
                          \/ /\ PutBack
                             /\ Store(Len(pairs), Append(pairs[Len(pairs)], data[Consumer]))
  OBVIOUS
<1> USE Threads
<1>t. /\ pairs \in Seq(Seq(Numbers)) /\ Len(pairs) \in Nat
      /\ \A k \in 1..Len(pairs) : pairs[k] \in Seq(Numbers)
      /\ pairs # <<>> => Len(pairs) \in 1..Len(pairs) /\ Queue = pairs[Len(pairs)]
      /\ \A t \in Thread : data[t] \in Numbers
      /\ <<>> \in Seq(Numbers)
  BY DEF Types, MapTypes, LocalTypes, Queue, Last
<1>put. ASSUME NEW k, NEW q \in Seq(Numbers), Put(k, q), pairs # <<>>
        PROVE  /\ k \in 1..Len(pairs)
               /\ Store(k, IF torn' THEN <<>> ELSE q)
  <2>1. pairs' = [pairs EXCEPT ![k] = IF torn' THEN <<>> ELSE q]
    BY <1>put DEF Put
  <2>2. k \in 1..Len(pairs)
    <3> SUFFICES ASSUME k \notin 1..Len(pairs) PROVE FALSE
      OBVIOUS
    <3>1. DOMAIN pairs = 1..Len(pairs)
      BY <1>t
    <3> QED BY <2>1, <3>1, <1>t
  <2> QED BY <2>1, <2>2, <1>t DEF Store
<1>end. ASSUME NEW m \in Numbers, pairs # <<>>, Put(Len(pairs), Append(Queue, m))
        PROVE  \/ torn' /\ Store(Len(pairs), <<>>)
               \/ ~torn' /\ Store(Len(pairs), Append(pairs[Len(pairs)], m))
  <2>1. Append(pairs[Len(pairs)], m) \in Seq(Numbers)
    BY <1>end, <1>t, AppendProperties
  <2> QED BY <2>1, <1>end, <1>put, <1>t
<1>1. ASSUME NEW w \in Workers, StoreStep(w)
      PROVE  \/ LinkQueue(w)
             \/ ScanQueue(w) /\ Store(Len(pairs), <<>>)
             \/ torn' /\ \E k : Store(k, <<>>)
             \/ /\ ~torn' /\ EnqueueToMap(w)
                /\ Store(Len(pairs), Append(pairs[Len(pairs)], data[w]))
  <2>1. CASE LinkQueue(w)
    BY <2>1
  <2>2. CASE ScanQueue(w)
    <3>1. pairs # <<>> /\ Put(Len(pairs), <<>>)
      BY <2>2 DEF ScanQueue
    <3>2. Store(Len(pairs), IF torn' THEN <<>> ELSE <<>>)
      BY <3>1, <1>put, <1>t
    <3>3. (IF torn' THEN <<>> ELSE <<>>) = <<>>
      OBVIOUS
    <3> QED BY <2>2, <3>2, <3>3
  <2>3. CASE EnqueueToMap(w)
    <3>1. pairs # <<>> /\ Put(Len(pairs), Append(Queue, data[w]))
      BY <2>3 DEF EnqueueToMap, HasPairs
    <3> QED BY <2>3, <3>1, <1>t, <1>end
  <2> QED BY <1>1, <2>1, <2>2, <2>3 DEF StoreStep, HasQueue, UseMaps, FindMutex, LinkMutex,
             FindCondVar, LinkCondVar, Notify, mapVars
<1>2. ASSUME ConsumerStep
      PROVE  \/ torn' /\ \E k : Store(k, <<>>)
             \/ /\ ~torn'
                /\ \/ SafeDequeue /\ cq \in 1..Len(pairs) /\ pairs[cq] # <<>>
                        /\ Store(cq, Tail(pairs[cq]))
                   \/ PutBack /\ Store(Len(pairs), Append(pairs[Len(pairs)], data[Consumer]))
  <2>1. CASE SafeDequeue
    <3>1. pairs # <<>>
      BY <2>1 DEF SafeDequeue, HasPairs
    <3>2. CASE Put(cq, <<>>) /\ (torn' \/ cq = 0 \/ pairs[cq] = <<>>)
      <4>1. cq \in 1..Len(pairs) /\ Store(cq, IF torn' THEN <<>> ELSE <<>>)
        BY <3>1, <3>2, <1>put, <1>t
      <4>2. Store(cq, <<>>)
        BY <4>1
      <4>3. torn'
        <5> SUFFICES ASSUME ~torn' PROVE FALSE
          OBVIOUS
        <5>1. pairs[cq] = <<>> /\ pairs' = [pairs EXCEPT ![cq] = <<>>]
          BY <3>2, <4>1, <4>2 DEF Store
        <5> QED BY <5>1, <4>1, <1>t
      <4> QED BY <4>2, <4>3
    <3>3. CASE ~torn' /\ cq # 0 /\ pairs[cq] # <<>> /\ Put(cq, Tail(pairs[cq]))
      <4>1. cq \in 1..Len(pairs)
        BY <3>3 DEF Types, LocalTypes
      <4>2. Tail(pairs[cq]) \in Seq(Numbers)
        BY <3>3, <4>1, <1>t, HeadTailProperties
      <4> QED BY <2>1, <3>1, <3>3, <4>1, <4>2, <1>put
    <3> QED BY <2>1, <3>2, <3>3 DEF SafeDequeue
  <2>2. CASE PutBack
    <3>1. pairs # <<>> /\ Put(Len(pairs), Append(Queue, data[Consumer]))
      BY <2>2 DEF PutBack, HasPairs
    <3> QED BY <2>2, <3>1, <1>t, <1>end
  <2> QED BY <1>2, <2>1, <2>2 DEF ConsumerStep, TakeProcess, UseMaps, FindMutex, LinkMutex,
             FindCondVar, LinkCondVar, LockMutex, TestQueue, Block, GetQueue, SendToProcess,
             SendFails, mapVars
<1> QED
  BY <1>1, <1>2 DEF Next, Receive, ReceiveAgain, SpuriousWakeup, ProcessConnects,
     ProcessDies, vars, mapVars

LEMMA MapTypesStep ==
  Types /\ HasPairs /\ [Next]_vars =>
    /\ MapTypes'
    /\ Len(pairs') >= Len(pairs) /\ nmtx' >= nmtx /\ ncv' >= ncv
    /\ pairs # <<>> => pairs' # <<>>
<1> SUFFICES ASSUME Types, HasPairs, [Next]_vars
             PROVE  /\ MapTypes'
                    /\ Len(pairs') >= Len(pairs) /\ nmtx' >= nmtx /\ ncv' >= ncv
                    /\ pairs # <<>> => pairs' # <<>>
  OBVIOUS
<1>t. pairs \in Seq(Seq(Numbers)) /\ nmtx \in Nat /\ ncv \in Nat
  BY DEF Types, MapTypes
<1>1. nmtx' \in {nmtx, nmtx + 1} /\ ncv' \in {ncv, ncv + 1}
  BY DEF Next, Receive, ReceiveAgain, StoreStep, HasQueue, ScanQueue, LinkQueue, UseMaps,
     FindMutex, LinkMutex, FindCondVar, LinkCondVar, EnqueueToMap, Notify, ConsumerStep,
     TakeProcess, LockMutex, TestQueue, Block, GetQueue, SafeDequeue, SendToProcess,
     SendFails, PutBack, SpuriousWakeup, ProcessConnects, ProcessDies, vars, mapVars
<1>b. torn' \in BOOLEAN
  BY TornStep
<1>2. ASSUME NEW k, NEW q, Store(k, q)
      PROVE  pairs' \in Seq(Seq(Numbers)) /\ Len(pairs') = Len(pairs)
  BY <1>2, <1>t, Replaced DEF Store
<1>3. ASSUME NEW w \in Workers, LinkQueue(w)
      PROVE  pairs' \in Seq(Seq(Numbers)) /\ Len(pairs') = Len(pairs) + 1
  BY <1>3, <1>t, AppendProperties DEF LinkQueue
<1>4. pairs' \in Seq(Seq(Numbers)) /\ Len(pairs') >= Len(pairs)
  <2>1. Len(pairs) \in Nat
    BY <1>t
  <2> QED BY <1>t, <2>1, <1>2, <1>3, PairsStep
<1>5. pairs # <<>> => pairs' # <<>>
  BY <1>t, <1>4, EmptySeq
<1> QED
  BY <1>t, <1>b, <1>1, <1>4, <1>5 DEF MapTypes

LEMMA HasPairsStep == Types /\ HasPairs /\ [Next]_vars => HasPairs'
<1> SUFFICES ASSUME Types, HasPairs, [Next]_vars PROVE HasPairs'
  OBVIOUS
<1> USE Threads
<1>t. /\ PlaceTypes /\ pairs \in Seq(Seq(Numbers))
      /\ pairs # <<>> => pairs' # <<>>
      /\ torn' => pairs' # <<>>
  BY MapTypesStep, TornStep DEF Types, MapTypes
<1>go. ASSUME NEW t \in Thread, NEW place, Goto(t, place),
              t # Consumer /\ place \in {"findmtx", "linkmtx", "findcv", "linkcv", "enqueue",
                                         "notify"} => pairs' # <<>>,
              t = Consumer /\ place \in {"getq", "dequeue", "send", "putback"} => pairs' # <<>>
       PROVE  HasPairs'
  BY <1>go, <1>t DEF Goto, PlaceTypes, HasPairs
<1>1. ASSUME NEW w \in Workers, Receive(w) \/ ReceiveAgain(w) \/ StoreStep(w)
      PROVE  HasPairs'
  <2>1. CASE Notify(w)
    BY <2>1, <1>t, NotifyPlaces DEF HasPairs
  <2>2. CASE LinkQueue(w)
    <3>1. pairs' # <<>>
      BY <2>2, <1>t, Appended DEF LinkQueue
    <3>2. Goto(w, "findmtx")
      BY <2>2 DEF LinkQueue
    <3> QED BY <3>1, <3>2, <1>go
  <2>3. CASE ~Notify(w) /\ ~LinkQueue(w)
    <3>1. \E place : /\ Goto(w, place)
                     /\ place \in {"findmtx", "linkmtx", "findcv", "linkcv", "enqueue",
                                   "notify"} => pairs # <<>>
      BY <1>1, <2>3 DEF Receive, ReceiveAgain, StoreStep, HasQueue, ScanQueue,
         UseMaps, FindMutex, LinkMutex, FindCondVar, LinkCondVar, EnqueueToMap, HasPairs
    <3> QED BY <3>1, <1>t, <1>go
  <2> QED BY <2>1, <2>2, <2>3
<1>2. CASE ConsumerStep \/ SpuriousWakeup
  <2>1. \E place : /\ Goto(Consumer, place)
                   /\ place \in {"getq", "dequeue", "send", "putback"} => pairs # <<>>
    BY <1>2 DEF ConsumerStep, SpuriousWakeup, TakeProcess, UseMaps, FindMutex, LinkMutex,
       FindCondVar, LinkCondVar, LockMutex, TestQueue, Block, GetQueue, SafeDequeue,
       SendToProcess, SendFails, PutBack, HasPairs, Queue
  <2> QED BY <2>1, <1>t, <1>go
<1>3. CASE ProcessConnects \/ ProcessDies \/ UNCHANGED vars
  BY <1>3, <1>t DEF ProcessConnects, ProcessDies, vars, HasPairs
<1> QED
  BY <1>1, <1>2, <1>3 DEF Next

LEMMA LocalTypesStep == Types /\ HasPairs /\ [Next]_vars => LocalTypes'
<1> SUFFICES ASSUME Types, HasPairs, [Next]_vars PROVE LocalTypes'
  OBVIOUS
<1> USE Threads
<1>t. /\ LocalTypes /\ HistTypes /\ MapTypes /\ PlaceTypes
      /\ nmtx' \in Nat /\ ncv' \in Nat /\ pairs' \in Seq(Seq(Numbers))
      /\ nmtx' >= nmtx /\ ncv' >= ncv /\ Len(pairs') >= Len(pairs)
  BY MapTypesStep DEF Types, MapTypes
<1>n. /\ Len(pairs) \in Nat /\ Len(pairs') \in Nat
      /\ 0..nmtx \subseteq 0..nmtx' /\ 0..ncv \subseteq 0..ncv'
      /\ 0..Len(pairs) \subseteq 0..Len(pairs')
      /\ 0 \in 0..nmtx' /\ 0 \in 0..ncv' /\ 0 \in Numbers /\ 0 \in 0..Len(pairs')
  <2>1. Len(pairs) \in Nat /\ Len(pairs') \in Nat
    BY <1>t DEF MapTypes
  <2> QED BY <1>t, <2>1 DEF MapTypes, Numbers
<1>mtx. ASSUME NEW t \in Thread, NEW k \in 0..nmtx', mtx' = [mtx EXCEPT ![t] = k]
        PROVE  mtx' \in [Thread -> 0..nmtx']
  BY <1>mtx, <1>t, <1>n DEF LocalTypes
<1>cv. ASSUME NEW t \in Thread, NEW k \in 0..ncv', cv' = [cv EXCEPT ![t] = k]
       PROVE  cv' \in [Thread -> 0..ncv']
  BY <1>cv, <1>t, <1>n DEF LocalTypes
<1>data. ASSUME NEW t \in Thread, NEW m \in Numbers, data' = [data EXCEPT ![t] = m]
         PROVE  data' \in [Thread -> Numbers]
  BY <1>data, <1>t DEF LocalTypes
<1>same. /\ UNCHANGED mtx => mtx' \in [Thread -> 0..nmtx']
         /\ UNCHANGED cv => cv' \in [Thread -> 0..ncv']
         /\ UNCHANGED data => data' \in [Thread -> Numbers]
         /\ UNCHANGED cq => cq' \in 0..Len(pairs')
  BY <1>t, <1>n DEF LocalTypes
<1>leave. ASSUME NEW t \in Thread, Leave(t)
          PROVE  /\ mtx' \in [Thread -> 0..nmtx'] /\ cv' \in [Thread -> 0..ncv']
                 /\ data' \in [Thread -> Numbers]
  BY <1>leave, <1>n, <1>mtx, <1>cv, <1>data DEF Leave
<1>maps. ASSUME NEW t \in Thread, UseMaps(t) PROVE LocalTypes'
  <2>1. nmtx \in 0..nmtx' /\ ncv \in 0..ncv'
    BY <1>t DEF MapTypes
  <2> QED BY <1>maps, <2>1, <1>mtx, <1>cv, <1>same DEF UseMaps, FindMutex, LinkMutex,
             FindCondVar, LinkCondVar, LocalTypes
<1>1. ASSUME NEW w \in Workers, Receive(w) \/ ReceiveAgain(w) PROVE LocalTypes'
  <2>1. arrived + 1 \in Numbers \/ ~Receive(w)
    BY <1>t DEF Receive, HistTypes, Numbers
  <2>2. arrived \in Numbers
    BY <1>t DEF HistTypes, Numbers
  <2> QED BY <1>1, <2>1, <2>2, <1>data, <1>same DEF Receive, ReceiveAgain, LocalTypes
<1>2. ASSUME NEW w \in Workers, StoreStep(w) PROVE LocalTypes'
  BY <1>2, <1>maps, <1>leave, <1>same
  DEF StoreStep, HasQueue, ScanQueue, LinkQueue, EnqueueToMap, Notify, LocalTypes
<1>3. CASE SafeDequeue
  <2>1. \E m \in Numbers : data' = [data EXCEPT ![Consumer] = m]
    <3>1. 0..arrived \subseteq Numbers
      BY <1>t DEF HistTypes, Numbers
    <3>2. CASE \E m \in 0..arrived : data' = [data EXCEPT ![Consumer] = m]
      BY <3>1, <3>2
    <3>3. CASE /\ cq # 0 /\ pairs[cq] # <<>>
               /\ data' = [data EXCEPT ![Consumer] = Head(pairs[cq])]
      <4>1. pairs[cq] \in Seq(Numbers)
        BY <3>3, <1>t DEF LocalTypes, MapTypes
      <4>2. Head(pairs[cq]) \in Numbers
        BY <3>3, <4>1, HeadTailProperties
      <4> QED BY <3>3, <4>2
    <3> QED BY <1>3, <3>2, <3>3 DEF SafeDequeue
  <2> QED BY <1>3, <2>1, <1>data, <1>same DEF SafeDequeue, LocalTypes
<1>4. CASE ConsumerStep /\ ~SafeDequeue
  <2>1. Len(pairs) \in 0..Len(pairs')
    BY <1>t, <1>n
  <2> QED BY <1>4, <2>1, <1>n, <1>maps, <1>leave, <1>same
          DEF ConsumerStep, TakeProcess, LockMutex, TestQueue, Block, GetQueue,
              SendToProcess, SendFails, PutBack, LocalTypes
<1>5. CASE SpuriousWakeup \/ ProcessConnects \/ ProcessDies \/ UNCHANGED vars
  BY <1>5, <1>same DEF SpuriousWakeup, ProcessConnects, ProcessDies, vars, LocalTypes
<1> QED
  BY <1>1, <1>2, <1>3, <1>4, <1>5 DEF Next

LEMMA HistTypesStep == Types /\ [Next]_vars => HistTypes'
<1> SUFFICES ASSUME Types, [Next]_vars PROVE HistTypes'
  OBVIOUS
<1> USE Threads DEF HistTypes, envVars, histVars
<1>t. HistTypes /\ LocalTypes
  BY DEF Types
<1>1. ASSUME NEW w \in Workers, Receive(w) \/ ReceiveAgain(w) PROVE HistTypes'
  BY <1>1, <1>t DEF Receive, ReceiveAgain
<1>2. CASE SendToProcess
  <2>1. data[Consumer] \in Numbers
    BY <1>t DEF LocalTypes
  <2>2. Append(got, data[Consumer]) \in Seq(Numbers)
    BY <1>t, <2>1, AppendProperties
  <2> QED BY <1>2, <1>t, <2>1, <2>2 DEF SendToProcess
<1>3. CASE SendFails \/ ProcessConnects \/ ProcessDies
  BY <1>3, <1>t DEF SendFails, ProcessConnects, ProcessDies
<1>4. CASE UNCHANGED <<envVars, histVars>>
  BY <1>4, <1>t
<1> QED
  BY <1>1, <1>2, <1>3, <1>4 DEF Next, StoreStep, HasQueue, ScanQueue, LinkQueue, UseMaps,
     FindMutex, LinkMutex, FindCondVar, LinkCondVar, EnqueueToMap, Notify, ConsumerStep,
     TakeProcess, LockMutex, TestQueue, Block, GetQueue, SafeDequeue, PutBack,
     SpuriousWakeup, vars

LEMMA TypesStep == Types /\ HasPairs /\ [Next]_vars => Types' /\ HasPairs'
  BY MapTypesStep, PlaceTypesStep, LocalTypesStep, HistTypesStep, HasPairsStep DEF Types

-----------------------------------------------------------------------------
(* How many entries there can be.                                          *)

LEMMA Finite == /\ IsFiniteSet(Workers) /\ IsFiniteSet(Thread)
                /\ Cardinality(Workers) \in Nat \ {0} /\ Cardinality(Thread) \in Nat \ {0}
<1>1. IsFiniteSet(Workers) /\ IsFiniteSet(Thread)
  BY ConstantsAssumption, FS_AddElement DEF Thread
<1>2. Cardinality(Workers) \in Nat /\ Cardinality(Thread) \in Nat
  BY <1>1, FS_CardinalityType
<1>3. Workers # {} /\ Thread # {}
  BY ConstantsAssumption DEF Thread
<1> QED BY <1>1, <1>2, <1>3, FS_EmptySet

LEMMA Fewer ==
  ASSUME NEW T, IsFiniteSet(T), NEW A \in SUBSET T, NEW B \in SUBSET T
  PROVE  /\ Cardinality(A) \in Nat /\ Cardinality(A) <= Cardinality(T)
         /\ B \subseteq A => Cardinality(B) <= Cardinality(A)
         /\ \A t \in A : B \subseteq A \ {t} => Cardinality(B) + 1 <= Cardinality(A)
<1>1. IsFiniteSet(A) /\ IsFiniteSet(B)
  BY FS_Subset
<1>2. Cardinality(A) \in Nat /\ Cardinality(B) \in Nat
  BY <1>1, FS_CardinalityType
<1>3. Cardinality(A) <= Cardinality(T)
  BY FS_Subset
<1>4. B \subseteq A => Cardinality(B) <= Cardinality(A)
  BY <1>1, FS_Subset
<1>5. ASSUME NEW t \in A, B \subseteq A \ {t} PROVE Cardinality(B) + 1 <= Cardinality(A)
  <2>1. IsFiniteSet(A \ {t}) /\ Cardinality(A \ {t}) = Cardinality(A) - 1
    BY <1>1, FS_RemoveElement
  <2>2. Cardinality(B) <= Cardinality(A \ {t})
    BY <1>5, <2>1, FS_Subset
  <2> QED BY <1>2, <2>1, <2>2
<1> QED BY <1>2, <1>3, <1>4, <1>5

\* A number that grows when a thread leaves a place, and is 0 when one enters it.
LEMMA CountStep ==
  ASSUME NEW T, IsFiniteSet(T), NEW A \in SUBSET T, NEW B \in SUBSET T,
         NEW n \in Nat, NEW k \in Nat, n + Cardinality(A) <= Cardinality(T),
         \/ k = 0
         \/ k = n /\ B \subseteq A
         \/ k = n + 1 /\ \E t \in A : B \subseteq A \ {t}
  PROVE  k + Cardinality(B) <= Cardinality(T)
  BY Fewer, FS_CardinalityType

LEMMA CountedStep == Types /\ HasPairs /\ Counted /\ [Next]_vars => Counted'
<1> SUFFICES ASSUME Types, HasPairs, Counted, [Next]_vars PROVE Counted'
  OBVIOUS
<1> USE Threads
<1>t. /\ PlaceTypes /\ PlaceTypes'
      /\ nmtx \in Nat /\ ncv \in Nat /\ nmtx' \in Nat /\ ncv' \in Nat
      /\ pairs \in Seq(Seq(Numbers)) /\ pairs' \in Seq(Seq(Numbers))
      /\ Len(pairs) \in Nat /\ Len(pairs') \in Nat
  BY TypesStep DEF Types, MapTypes
<1>go. ASSUME NEW t \in Thread, NEW place, Goto(t, place)
       PROVE  /\ pc'[t] = place /\ \A k \in Thread \ {t} : pc'[k] = pc[k]
  BY <1>go, <1>t DEF Goto, PlaceTypes
<1>1. QueuesCounted'
  <2> DEFINE A == At(Workers, "linkq")
             B == {w \in Workers : pc'[w] = "linkq"}
  <2>1. \/ Len(pairs') = 0
        \/ Len(pairs') = Len(pairs) /\ B \subseteq A
        \/ Len(pairs') = Len(pairs) + 1 /\ \E w \in A : B \subseteq A \ {w}
    <3>1. ASSUME NEW w \in Workers, LinkQueue(w)
          PROVE  Len(pairs') = Len(pairs) + 1 /\ w \in A /\ B \subseteq A \ {w}
      <4>1. Len(pairs') = Len(pairs) + 1 /\ pc[w] = "linkq" /\ Goto(w, "findmtx")
        BY <3>1, <1>t, Appended DEF LinkQueue
      <4> QED BY <4>1, <1>go DEF At
    <3>2. ASSUME NEW w \in Workers, ScanQueue(w), pairs = <<>> PROVE Len(pairs') = 0
      BY <3>2 DEF ScanQueue
    <3>3. ASSUME \A w \in Workers : ~LinkQueue(w) PROVE Len(pairs') = Len(pairs)
      <4>1. ASSUME NEW k, NEW q, Store(k, q) PROVE Len(pairs') = Len(pairs)
        BY <4>1, <1>t, Replaced DEF Store
      <4> QED BY <3>3, <4>1, PairsStep
    <3>4. ASSUME NEW w \in Workers, pc'[w] = "linkq", pc[w] # "linkq"
          PROVE  ScanQueue(w) /\ pairs = <<>>
      <4>1. ASSUME NEW v \in Workers, Receive(v) \/ ReceiveAgain(v) \/ StoreStep(v)
            PROVE  ScanQueue(w) /\ pairs = <<>>
        <5>1. CASE Notify(v)
          BY <5>1, <3>4, <1>t, NotifyPlaces
        <5>2. CASE ~Notify(v)
          <6>1. \E place : /\ Goto(v, place)
                           /\ place = "linkq" => ScanQueue(v) /\ pairs = <<>>
            BY <4>1, <5>2 DEF Receive, ReceiveAgain, StoreStep, HasQueue, ScanQueue,
               LinkQueue, UseMaps, FindMutex, LinkMutex, FindCondVar, LinkCondVar,
               EnqueueToMap
          <6> QED BY <6>1, <3>4, <1>go
        <5> QED BY <5>1, <5>2
      <4>2. CASE ConsumerStep \/ SpuriousWakeup
        <5>1. \E place : Goto(Consumer, place)
          BY <4>2 DEF ConsumerStep, SpuriousWakeup, TakeProcess, UseMaps, FindMutex,
             LinkMutex, FindCondVar, LinkCondVar, LockMutex, TestQueue, Block, GetQueue,
             SafeDequeue, SendToProcess, SendFails, PutBack
        <5> QED BY <5>1, <3>4, <1>go
      <4>3. CASE UNCHANGED pc
        BY <4>3, <3>4
      <4> QED BY <4>1, <4>2, <4>3 DEF Next, ProcessConnects, ProcessDies, vars
    <3>5. CASE \E w \in Workers : LinkQueue(w)
      BY <3>1, <3>5
    <3>6. CASE \A w \in Workers : ~LinkQueue(w)
      <4>1. CASE B \subseteq A
        BY <3>3, <3>6, <4>1
      <4>2. CASE ~(B \subseteq A)
        <5>1. PICK w \in Workers : pc'[w] = "linkq" /\ pc[w] # "linkq"
          BY <4>2 DEF At
        <5> QED BY <5>1, <3>2, <3>4
      <4> QED BY <4>1, <4>2
    <3> QED BY <3>5, <3>6
  <2>2. Len(pairs) + Cardinality(A) <= Cardinality(Workers)
    BY DEF Counted, QueuesCounted
  <2>3. A \in SUBSET Workers /\ B \in SUBSET Workers
    BY DEF At
  <2> DEFINE n == Len(pairs)
             k == Len(pairs')
  <2>4. n \in Nat /\ k \in Nat
    BY <1>t
  <2>5. k + Cardinality(B) <= Cardinality(Workers)
    <3> HIDE DEF A, B, n, k
    <3>1. n + Cardinality(A) <= Cardinality(Workers)
      BY <2>2 DEF n
    <3>2. \/ k = 0
          \/ k = n /\ B \subseteq A
          \/ k = n + 1 /\ \E w \in A : B \subseteq A \ {w}
      BY <2>1 DEF n, k
    <3> QED BY <2>3, <2>4, <3>1, <3>2, Finite, CountStep
  <2> QED BY <2>5 DEF QueuesCounted, At
<1>places. ASSUME NEW t \in Thread, pc'[t] # pc[t]
           PROVE  /\ pc'[t] = "linkmtx" => FindMutex(t) /\ nmtx = 0
                  /\ pc'[t] = "linkcv" => FindCondVar(t) /\ ncv = 0
  <2>1. ASSUME NEW v \in Workers, Receive(v) \/ ReceiveAgain(v) \/ StoreStep(v)
        PROVE  /\ pc'[t] = "linkmtx" => FindMutex(t) /\ nmtx = 0
               /\ pc'[t] = "linkcv" => FindCondVar(t) /\ ncv = 0
    <3>1. CASE Notify(v)
      BY <3>1, <1>places, <1>t, NotifyPlaces
    <3>2. CASE ~Notify(v)
      <4>1. \E place : /\ Goto(v, place)
                       /\ place = "linkmtx" => FindMutex(v) /\ nmtx = 0
                       /\ place = "linkcv" => FindCondVar(v) /\ ncv = 0
        BY <2>1, <3>2 DEF Receive, ReceiveAgain, StoreStep, HasQueue, ScanQueue,
           LinkQueue, UseMaps, FindMutex, LinkMutex, FindCondVar, LinkCondVar, EnqueueToMap
      <4> QED BY <4>1, <1>places, <1>go
    <3> QED BY <3>1, <3>2
  <2>2. CASE ConsumerStep \/ SpuriousWakeup
    <3>1. \E place : /\ Goto(Consumer, place)
                     /\ place = "linkmtx" => FindMutex(Consumer) /\ nmtx = 0
                     /\ place = "linkcv" => FindCondVar(Consumer) /\ ncv = 0
      BY <2>2 DEF ConsumerStep, SpuriousWakeup, TakeProcess, UseMaps, FindMutex,
         LinkMutex, FindCondVar, LinkCondVar, LockMutex, TestQueue, Block, GetQueue,
         SafeDequeue, SendToProcess, SendFails, PutBack
    <3> QED BY <3>1, <1>places, <1>go
  <2> QED BY <2>1, <2>2, <1>places DEF Next, ProcessConnects, ProcessDies, vars
<1>links. /\ nmtx' = nmtx \/ \E t \in Thread : LinkMutex(t)
          /\ ncv' = ncv \/ \E t \in Thread : LinkCondVar(t)
  <2>1. ASSUME NEW t \in Thread, UseMaps(t)
        PROVE  /\ nmtx' = nmtx \/ LinkMutex(t)
               /\ ncv' = ncv \/ LinkCondVar(t)
    BY <2>1 DEF UseMaps, FindMutex, LinkMutex, FindCondVar, LinkCondVar, mapVars
  <2>2. UNCHANGED <<nmtx, ncv>> \/ \E t \in Thread : UseMaps(t)
    <3>1. ASSUME NEW w \in Workers, StoreStep(w) PROVE UNCHANGED <<nmtx, ncv>> \/ UseMaps(w)
      BY <3>1 DEF StoreStep, HasQueue, ScanQueue, LinkQueue, EnqueueToMap, Notify, mapVars
    <3>2. ASSUME ConsumerStep PROVE UNCHANGED <<nmtx, ncv>> \/ UseMaps(Consumer)
      BY <3>2 DEF ConsumerStep, TakeProcess, LockMutex, TestQueue, Block, GetQueue,
         SafeDequeue, SendToProcess, SendFails, PutBack, mapVars
    <3> QED BY <3>1, <3>2 DEF Next, Receive, ReceiveAgain, SpuriousWakeup, ProcessConnects,
               ProcessDies, vars, mapVars
  <2> QED BY <2>1, <2>2
<1>2. MutexesCounted'
  <2> DEFINE A == At(Thread, "linkmtx")
             B == {t \in Thread : pc'[t] = "linkmtx"}
  <2>1. \/ nmtx' = 0
        \/ nmtx' = nmtx /\ B \subseteq A
        \/ nmtx' = nmtx + 1 /\ \E t \in A : B \subseteq A \ {t}
    <3>1. ASSUME NEW t \in Thread, LinkMutex(t)
          PROVE  nmtx' = nmtx + 1 /\ t \in A /\ B \subseteq A \ {t}
      <4>1. nmtx' = nmtx + 1 /\ pc[t] = "linkmtx" /\ Goto(t, "findmtx")
        BY <3>1 DEF LinkMutex
      <4> QED BY <4>1, <1>go DEF At
    <3>2. CASE B \subseteq A
      BY <3>1, <3>2, <1>links
    <3>3. CASE ~(B \subseteq A)
      <4>1. PICK t \in Thread : pc'[t] = "linkmtx" /\ pc[t] # "linkmtx"
        BY <3>3 DEF At
      <4> QED BY <4>1, <1>places DEF FindMutex, mapVars
    <3> QED BY <3>2, <3>3
  <2>2. nmtx + Cardinality(A) <= Cardinality(Thread)
    BY DEF Counted, MutexesCounted
  <2>3. A \in SUBSET Thread /\ B \in SUBSET Thread
    BY DEF At
  <2>4. nmtx' + Cardinality(B) <= Cardinality(Thread)
    <3> HIDE DEF A, B
    <3> QED BY <2>1, <2>2, <2>3, <1>t, Finite, CountStep
  <2> QED BY <2>4 DEF MutexesCounted, At
<1>3. CondVarsCounted'
  <2> DEFINE A == At(Thread, "linkcv")
             B == {t \in Thread : pc'[t] = "linkcv"}
  <2>1. \/ ncv' = 0
        \/ ncv' = ncv /\ B \subseteq A
        \/ ncv' = ncv + 1 /\ \E t \in A : B \subseteq A \ {t}
    <3>1. ASSUME NEW t \in Thread, LinkCondVar(t)
          PROVE  ncv' = ncv + 1 /\ t \in A /\ B \subseteq A \ {t}
      <4>1. ncv' = ncv + 1 /\ pc[t] = "linkcv" /\ Goto(t, "findcv")
        BY <3>1 DEF LinkCondVar
      <4> QED BY <4>1, <1>go DEF At
    <3>2. CASE B \subseteq A
      BY <3>1, <3>2, <1>links
    <3>3. CASE ~(B \subseteq A)
      <4>1. PICK t \in Thread : pc'[t] = "linkcv" /\ pc[t] # "linkcv"
        BY <3>3 DEF At
      <4> QED BY <4>1, <1>places DEF FindCondVar, mapVars
    <3> QED BY <3>2, <3>3
  <2>2. ncv + Cardinality(A) <= Cardinality(Thread)
    BY DEF Counted, CondVarsCounted
  <2>3. A \in SUBSET Thread /\ B \in SUBSET Thread
    BY DEF At
  <2>4. ncv' + Cardinality(B) <= Cardinality(Thread)
    <3> HIDE DEF A, B
    <3> QED BY <2>1, <2>2, <2>3, <1>t, Finite, CountStep
  <2> QED BY <2>4 DEF CondVarsCounted, At
<1> QED
  BY <1>1, <1>2, <1>3 DEF Counted

-----------------------------------------------------------------------------
(* Null pointers.                                                          *)

\* NoNullPointer, and what the consumer keeps on the way to SafeDequeue.
Pointers ==
  \A t \in Thread :
    /\ pc[t] \in Locked \cup {"lock", "enqueue", "notify", "blocked", "woken", "getq",
                              "dequeue", "send", "putback"} => mtx[t] # 0
    /\ pc[t] \in {"enqueue", "notify", "test", "block", "blocked", "woken", "getq",
                  "dequeue"} => cv[t] # 0

LEMMA PointersStep == Types /\ Pointers /\ [Next]_vars => Pointers'
<1> SUFFICES ASSUME Types, Pointers, [Next]_vars PROVE Pointers'
  OBVIOUS
<1> USE Threads
<1>t. PlaceTypes /\ LocalTypes
  BY DEF Types
<1>go. ASSUME NEW t \in Thread, NEW place, Goto(t, place),
              \A k \in Thread \ {t} : mtx'[k] = mtx[k] /\ cv'[k] = cv[k],
              place \in Locked \cup {"lock", "enqueue", "notify", "blocked", "woken", "getq",
                                     "dequeue", "send", "putback"} => mtx'[t] # 0,
              place \in {"enqueue", "notify", "test", "block", "blocked", "woken", "getq",
                         "dequeue"} => cv'[t] # 0
       PROVE  Pointers'
  <2>1. pc'[t] = place /\ \A k \in Thread \ {t} : pc'[k] = pc[k]
    BY <1>go, <1>t DEF Goto, PlaceTypes
  <2> QED BY <1>go, <2>1 DEF Pointers
<1>maps. ASSUME NEW t \in Thread, UseMaps(t) PROVE Pointers'
  <2>1. CASE FindMutex(t)
    <3>1. CASE nmtx = 0
      BY <1>go, <2>1, <3>1 DEF FindMutex, Locked
    <3>2. CASE nmtx # 0
      <4>1. mtx'[t] # 0 /\ \A k \in Thread \ {t} : mtx'[k] = mtx[k] /\ cv'[k] = cv[k]
        BY <1>t, <2>1, <3>2 DEF FindMutex, LocalTypes
      <4>2. \E place \in {"lock", "findcv"} : Goto(t, place)
        BY <2>1, <3>2 DEF FindMutex
      <4> QED BY <1>go, <4>1, <4>2
    <3> QED BY <3>1, <3>2
  <2>2. CASE LinkMutex(t)
    BY <1>go, <2>2 DEF LinkMutex, Locked
  <2>3. CASE FindCondVar(t)
    <3>1. mtx[t] # 0
      BY <2>3 DEF FindCondVar, Pointers, Locked
    <3>2. CASE ncv = 0
      BY <1>go, <2>3, <3>1, <3>2 DEF FindCondVar
    <3>3. CASE ncv # 0
      <4>1. cv'[t] # 0 /\ \A k \in Thread \ {t} : mtx'[k] = mtx[k] /\ cv'[k] = cv[k]
        BY <1>t, <2>3, <3>3 DEF FindCondVar, LocalTypes
      <4>2. (\E place : Goto(t, place)) /\ UNCHANGED mtx
        BY <2>3, <3>3 DEF FindCondVar
      <4> QED BY <1>go, <3>1, <4>1, <4>2
    <3> QED BY <3>2, <3>3
  <2>4. CASE LinkCondVar(t)
    <3>1. mtx[t] # 0
      BY <2>4 DEF LinkCondVar, Pointers, Locked
    <3> QED BY <1>go, <2>4, <3>1 DEF LinkCondVar
  <2> QED BY <1>maps, <2>1, <2>2, <2>3, <2>4 DEF UseMaps
<1>leave. ASSUME NEW t \in Thread, Leave(t)
          PROVE  \A k \in Thread \ {t} : mtx'[k] = mtx[k] /\ cv'[k] = cv[k]
  BY <1>leave, <1>t DEF Leave, LocalTypes
<1>1. ASSUME NEW w \in Workers, Receive(w) \/ ReceiveAgain(w) PROVE Pointers'
  BY <1>1, <1>go DEF Receive, ReceiveAgain, Locked
<1>2. ASSUME NEW w \in Workers, HasQueue(w) \/ ScanQueue(w) \/ LinkQueue(w) PROVE Pointers'
  <2>1. /\ \E place \in {"scanq", "findmtx", "linkq"} : Goto(w, place)
        /\ UNCHANGED <<mtx, cv>>
    BY <1>2 DEF HasQueue, ScanQueue, LinkQueue
  <2> QED BY <2>1, <1>go DEF Locked
<1>3. ASSUME NEW w \in Workers, EnqueueToMap(w) PROVE Pointers'
  <2>1. mtx[w] # 0 /\ cv[w] # 0 /\ Goto(w, "notify") /\ UNCHANGED <<mtx, cv>>
    BY <1>3 DEF EnqueueToMap, Pointers
  <2> QED BY <2>1, <1>go
<1>4. ASSUME NEW w \in Workers, Notify(w) PROVE Pointers'
  <2>1. \A k \in Thread \ {w} : mtx'[k] = mtx[k] /\ cv'[k] = cv[k]
    BY <1>4, <1>leave DEF Notify
  <2>2. \A k \in Thread \ {w} :
          pc'[k] = pc[k] \/ (pc[k] = "blocked" /\ pc'[k] = "woken")
    BY <1>4, <1>t, NotifyPlaces
  <2>3. pc'[w] = "idle"
    BY <1>4, <1>t, NotifyPlaces
  <2> QED BY <2>1, <2>2, <2>3 DEF Pointers, Locked
<1>5. CASE LockMutex \/ TestQueue \/ Block \/ GetQueue \/ SpuriousWakeup
  <2>1. pc[Consumer] \in {"lock", "test", "block", "blocked", "woken", "getq"}
    BY <1>5 DEF LockMutex, TestQueue, Block, GetQueue, SpuriousWakeup
  <2>2. mtx[Consumer] # 0 /\ (cv[Consumer] # 0 \/ LockMutex)
    BY <1>5, <2>1 DEF Pointers, LockMutex, TestQueue, Block, GetQueue, SpuriousWakeup, Locked
  <2> QED BY <1>5, <2>2, <1>go
          DEF LockMutex, TestQueue, Block, GetQueue, SpuriousWakeup, Locked
<1>6. CASE TakeProcess \/ SafeDequeue \/ SendFails
  <2>1. /\ \E place \in {"findmtx", "send", "putback"} :
             Goto(Consumer, place) /\ (place # "findmtx" => mtx[Consumer] # 0)
        /\ UNCHANGED <<mtx, cv>>
    BY <1>6 DEF TakeProcess, SafeDequeue, SendFails, Pointers
  <2> QED BY <2>1, <1>go DEF Locked
<1>7. CASE SendToProcess \/ PutBack
  <2>1. Goto(Consumer, "findmtx") /\ Leave(Consumer)
    BY <1>7 DEF SendToProcess, PutBack
  <2> QED BY <2>1, <1>go, <1>leave DEF Locked
<1>8. CASE ProcessConnects \/ ProcessDies \/ UNCHANGED vars
  BY <1>8 DEF ProcessConnects, ProcessDies, vars, Pointers
<1> QED
  BY <1>1, <1>2, <1>3, <1>4, <1>5, <1>6, <1>7, <1>8, <1>maps
  DEF Next, StoreStep, ConsumerStep

-----------------------------------------------------------------------------
(* Wakeups.                                                                *)

\* The consumer begins to wait on an empty queue: whoever stores something has
\* the same mutex, if no second one was made.
BlocksOnEmpty == pc[Consumer] = "block" /\ ~Raced /\ ~torn => Queue = <<>>

\* What the steps do to the newest queue.
LEMMA QueueSteps ==
  Types /\ HasPairs /\ [Next]_vars =>
    \/ UNCHANGED pairs /\ Queue' = Queue
    \/ Queue' = <<>> /\ \E w \in Workers : LinkQueue(w) \/ ScanQueue(w)
    \/ \E w \in Workers : EnqueueToMap(w)
    \/ SafeDequeue \/ PutBack \/ torn'
<1> SUFFICES ASSUME Types, HasPairs, [Next]_vars
             PROVE  \/ UNCHANGED pairs /\ Queue' = Queue
                    \/ Queue' = <<>> /\ \E w \in Workers : LinkQueue(w) \/ ScanQueue(w)
                    \/ \E w \in Workers : EnqueueToMap(w)
                    \/ SafeDequeue \/ PutBack \/ torn'
  OBVIOUS
<1>t. pairs \in Seq(Seq(Numbers)) /\ pairs' \in Seq(Seq(Numbers))
  BY TypesStep DEF Types, MapTypes
<1>1. UNCHANGED pairs => Queue' = Queue
  BY DEF Queue
<1>2. ASSUME NEW w \in Workers, LinkQueue(w) PROVE Queue' = <<>>
  <2>1. pairs' = Append(pairs, <<>>) /\ <<>> \in Seq(Numbers)
    BY <1>2 DEF LinkQueue
  <2>2. pairs' # <<>> /\ pairs'[Len(pairs')] = <<>>
    BY <1>t, <2>1, Appended
  <2> QED BY <2>2 DEF Queue, Last
<1>3. ASSUME NEW w \in Workers, Store(Len(pairs), <<>>) PROVE Queue' = <<>>
  <2>1. pairs'[Len(pairs)] = <<>> /\ Len(pairs') = Len(pairs)
    BY <1>t, <1>3, Replaced DEF Store
  <2> QED BY <2>1 DEF Queue, Last
<1> QED
  BY <1>1, <1>2, <1>3, PairsStep

LEMMA WakeupStep ==
  Types /\ HasPairs /\ Pointers /\ BlocksOnEmpty /\ NoMissedWakeup /\ [Next]_vars =>
    BlocksOnEmpty' /\ NoMissedWakeup'
<1> SUFFICES ASSUME Types, HasPairs, Pointers, BlocksOnEmpty, NoMissedWakeup, [Next]_vars,
                    ~Raced', ~torn'
             PROVE  BlocksOnEmpty' /\ NoMissedWakeup'
  BY DEF BlocksOnEmpty, NoMissedWakeup
<1> USE Threads
<1>t. /\ PlaceTypes /\ LocalTypes /\ nmtx \in Nat /\ ncv \in Nat
      /\ nmtx <= 1 /\ ncv <= 1 /\ ~Raced /\ ~torn
  BY MapTypesStep, TornStep DEF Types, MapTypes, Raced
<1>one. /\ \A t \in Thread : mtx[t] # 0 => mtx[t] = 1
        /\ \A t \in Thread : cv[t] # 0 => cv[t] = 1
  BY <1>t DEF LocalTypes
<1>go. ASSUME NEW t \in Thread, NEW place, Goto(t, place)
       PROVE  pc'[t] = place /\ \A k \in Thread \ {t} : pc'[k] = pc[k]
  BY <1>go, <1>t DEF Goto, PlaceTypes
<1>1. ASSUME NEW w \in Workers, EnqueueToMap(w) PROVE BlocksOnEmpty' /\ NoMissedWakeup'
  <2>1. pc'[w] = "notify" /\ pc'[Consumer] = pc[Consumer] /\ UNCHANGED <<mtx, cv>>
    BY <1>1, <1>go DEF EnqueueToMap
  <2>2. mtx[w] = 1 /\ cv[w] = 1
    BY <1>1, <1>one DEF EnqueueToMap, Pointers
  <2>3. pc[Consumer] # "block"
    BY <1>1, <1>one, <2>2 DEF EnqueueToMap, Free, Pointers, Locked
  <2>4. pc[Consumer] = "blocked" => cv[Consumer] = 1
    BY <1>one DEF Pointers
  <2> QED BY <2>1, <2>2, <2>3, <2>4 DEF BlocksOnEmpty, NoMissedWakeup
<1>2. CASE SafeDequeue \/ PutBack
  <2>1. pc'[Consumer] \in {"send", "findmtx"}
    BY <1>2, <1>go DEF SafeDequeue, PutBack
  <2> QED BY <2>1 DEF BlocksOnEmpty, NoMissedWakeup
<1>3. CASE Queue' = <<>>
  BY <1>3 DEF BlocksOnEmpty, NoMissedWakeup
<1>4. ASSUME Queue' = Queue, Queue # <<>>, UNCHANGED pairs
      PROVE  BlocksOnEmpty' /\ NoMissedWakeup'
  <2>1. pc[Consumer] # "block"
    BY <1>4, <1>t DEF BlocksOnEmpty
  <2>2. ASSUME NEW w \in Workers, Notify(w) PROVE BlocksOnEmpty' /\ NoMissedWakeup'
    <3>1. cv'[Consumer] = cv[Consumer] /\ \A v \in Workers \ {w} : cv'[v] = cv[v]
      BY <2>2, <1>t DEF Notify, Leave, LocalTypes
    <3>2. /\ pc'[Consumer] # "block"
          /\ pc'[Consumer] = "blocked" =>
               pc[Consumer] = "blocked" /\ cv[Consumer] # cv[w]
          /\ \A v \in Workers \ {w} : pc'[v] = pc[v]
      BY <2>1, <2>2, <1>t, NotifyPlaces
    <3>3. pc'[Consumer] = "blocked" =>
            \E v \in Workers \ {w} : pc[v] = "notify" /\ cv[v] = cv[Consumer]
      BY <3>2, <1>4, <1>t DEF NoMissedWakeup
    <3> QED BY <3>1, <3>2, <3>3 DEF BlocksOnEmpty, NoMissedWakeup
  <2>3. ASSUME NEW w \in Workers, Receive(w) \/ ReceiveAgain(w) \/ StoreStep(w), ~Notify(w)
        PROVE  BlocksOnEmpty' /\ NoMissedWakeup'
    <3>1. CASE EnqueueToMap(w)
      BY <3>1, <1>1
    <3>2. CASE ~EnqueueToMap(w)
      <4>1. /\ pc[w] # "notify" /\ \E place : Goto(w, place)
            /\ \A k \in Thread \ {w} : cv'[k] = cv[k]
        BY <2>3, <3>2, <1>t DEF Receive, ReceiveAgain, StoreStep, HasQueue, ScanQueue,
           LinkQueue, UseMaps, FindMutex, LinkMutex, FindCondVar, LinkCondVar, LocalTypes
      <4>2. \A k \in Thread \ {w} : pc'[k] = pc[k]
        BY <4>1, <1>go
      <4> QED BY <4>1, <4>2, <2>1, <1>4, <1>t DEF BlocksOnEmpty, NoMissedWakeup
    <3> QED BY <3>1, <3>2
  <2>4. CASE ConsumerStep \/ SpuriousWakeup
    <3>1. \E place \in ConsumerPlace \ {"block", "blocked"} : Goto(Consumer, place)
      BY <2>4, <2>1, <1>4, <1>t DEF ConsumerStep, SpuriousWakeup, TakeProcess, UseMaps, FindMutex,
         LinkMutex, FindCondVar, LinkCondVar, LockMutex, TestQueue, Block, GetQueue,
         SafeDequeue, SendToProcess, SendFails, PutBack, ConsumerPlace
    <3>2. pc'[Consumer] \notin {"block", "blocked"}
      BY <3>1, <1>go
    <3> QED BY <3>2 DEF BlocksOnEmpty, NoMissedWakeup
  <2>5. CASE ProcessConnects \/ ProcessDies \/ UNCHANGED vars
    BY <2>1, <2>5, <1>4, <1>t DEF ProcessConnects, ProcessDies, vars, BlocksOnEmpty,
       NoMissedWakeup
  <2> QED BY <2>2, <2>3, <2>4, <2>5 DEF Next
<1> QED
  BY <1>1, <1>2, <1>3, <1>4, QueueSteps

-----------------------------------------------------------------------------
(* One queue, which only the consumer shortens.                            *)

\* No retry has come to a device that had no queue, and no two threads have been
\* in the queue at once.
Calm == ~(fresh /\ retries > 0) /\ ~torn

OneWorker == retries = 0 => \A w \in Workers \ {active} : pc[w] = "idle"

Single ==
  /\ ~fresh => pairs # <<>>
  /\ Calm =>
       /\ Len(pairs) <= 1
       /\ \A w \in Workers : pc[w] \in {"scanq", "linkq"} => pairs = <<>>
       /\ pc[Consumer] = "getq" => Queue # <<>>
       /\ pc[Consumer] = "dequeue" => cq = Len(pairs) /\ Queue # <<>>

LEMMA OneWorkerStep == Types /\ OneWorker /\ [Next]_vars => OneWorker'
<1> SUFFICES ASSUME Types, OneWorker, [Next]_vars, retries' = 0 PROVE OneWorker'
  BY DEF OneWorker
<1> USE Threads
<1>t. PlaceTypes /\ HistTypes
  BY DEF Types
<1>1. ASSUME NEW w \in Workers, Receive(w) \/ StoreStep(w) PROVE OneWorker'
  <2>1. retries = 0 /\ UNCHANGED active
    BY <1>1 DEF Receive, StoreStep, HasQueue, ScanQueue, LinkQueue, UseMaps, FindMutex,
       LinkMutex, FindCondVar, LinkCondVar, EnqueueToMap, Notify, histVars, envVars
  <2>2. w = active
    <3>1. w = active \/ pc[w] # "idle"
      BY <1>1 DEF Receive, StoreStep, HasQueue, ScanQueue, LinkQueue, UseMaps, FindMutex,
         LinkMutex, FindCondVar, LinkCondVar, EnqueueToMap, Notify
    <3> QED BY <2>1, <3>1 DEF OneWorker
  <2>3. \A k \in Workers \ {w} : pc'[k] = pc[k]
    <3>1. CASE Notify(w)
      BY <3>1, <1>t, NotifyPlaces
    <3>2. CASE ~Notify(w)
      <4>1. \E place : Goto(w, place)
        BY <1>1, <3>2 DEF Receive, StoreStep, HasQueue, ScanQueue, LinkQueue, UseMaps,
           FindMutex, LinkMutex, FindCondVar, LinkCondVar, EnqueueToMap
      <4> QED BY <4>1, <1>t DEF Goto, PlaceTypes
    <3> QED BY <3>1, <3>2
  <2> QED BY <2>1, <2>2, <2>3 DEF OneWorker
<1>2. ASSUME NEW w \in Workers, ReceiveAgain(w) PROVE OneWorker'
  BY <1>2, <1>t DEF ReceiveAgain, HistTypes
<1>3. CASE ConsumerStep \/ SpuriousWakeup
  <2>1. retries = 0 /\ UNCHANGED active
    BY <1>3 DEF ConsumerStep, SpuriousWakeup, TakeProcess, UseMaps, FindMutex, LinkMutex,
       FindCondVar, LinkCondVar, LockMutex, TestQueue, Block, GetQueue, SafeDequeue,
       SendToProcess, SendFails, PutBack, histVars, envVars
  <2>2. \E place : Goto(Consumer, place)
    BY <1>3 DEF ConsumerStep, SpuriousWakeup, TakeProcess, UseMaps, FindMutex, LinkMutex,
       FindCondVar, LinkCondVar, LockMutex, TestQueue, Block, GetQueue, SafeDequeue,
       SendToProcess, SendFails, PutBack
  <2>3. \A k \in Workers : pc'[k] = pc[k]
    BY <2>2, <1>t DEF Goto, PlaceTypes
  <2> QED BY <2>1, <2>3 DEF OneWorker
<1>4. CASE ProcessConnects \/ ProcessDies \/ UNCHANGED vars
  BY <1>4 DEF ProcessConnects, ProcessDies, vars, histVars, envVars, OneWorker
<1> QED
  BY <1>1, <1>2, <1>3, <1>4 DEF Next

\* What the steps do to the one queue there is.
LEMMA CalmQueue ==
  Types /\ HasPairs /\ OneWorker /\ Single /\ [Next]_vars /\ Calm' =>
    /\ Calm
    /\ Len(pairs') <= 1
    /\ \/ Queue' = Queue /\ ~SafeDequeue /\ ~PutBack /\ \A w \in Workers : ~EnqueueToMap(w)
       \/ \E w \in Workers : EnqueueToMap(w) /\ Queue' = Append(Queue, data[w])
       \/ /\ SafeDequeue /\ Queue # <<>> /\ Queue' = Tail(Queue)
          /\ data' = [data EXCEPT ![Consumer] = Head(Queue)]
       \/ PutBack /\ Queue' = Append(Queue, data[Consumer])
<1> SUFFICES ASSUME Types, HasPairs, OneWorker, Single, [Next]_vars, Calm'
             PROVE  /\ Calm
                    /\ Len(pairs') <= 1
                    /\ \/ /\ Queue' = Queue /\ ~SafeDequeue /\ ~PutBack
                          /\ \A w \in Workers : ~EnqueueToMap(w)
                       \/ \E w \in Workers : EnqueueToMap(w) /\ Queue' = Append(Queue, data[w])
                       \/ /\ SafeDequeue /\ Queue # <<>> /\ Queue' = Tail(Queue)
                          /\ data' = [data EXCEPT ![Consumer] = Head(Queue)]
                       \/ PutBack /\ Queue' = Append(Queue, data[Consumer])
  OBVIOUS
<1> USE Threads
<1>t. /\ pairs \in Seq(Seq(Numbers)) /\ pairs' \in Seq(Seq(Numbers))
      /\ Len(pairs) \in Nat /\ Len(pairs') \in Nat /\ LocalTypes /\ HistTypes
  BY TypesStep DEF Types, MapTypes
<1>z. ~torn' /\ ~torn
  BY TornStep DEF Calm
<1>c. Calm
  BY <1>t, <1>z DEF Calm, HistTypes, Next, Receive, ReceiveAgain, StoreStep, HasQueue, ScanQueue,
     LinkQueue, UseMaps, FindMutex, LinkMutex, FindCondVar, LinkCondVar, EnqueueToMap, Notify,
     ConsumerStep, TakeProcess, LockMutex, TestQueue, Block, GetQueue, SafeDequeue,
     SendToProcess, SendFails, PutBack, SpuriousWakeup, ProcessConnects, ProcessDies, vars,
     histVars, envVars
<1>s. /\ Len(pairs) <= 1
      /\ \A w \in Workers : pc[w] \in {"scanq", "linkq"} => pairs = <<>>
      /\ pc[Consumer] = "dequeue" => cq = Len(pairs) /\ Queue # <<>>
  BY <1>c DEF Single
<1>l. Len(pairs) <= 1
  BY <1>s
<1>e. (pairs = <<>> <=> Len(pairs) = 0) /\ (pairs' = <<>> <=> Len(pairs') = 0)
  BY <1>t, EmptySeq
<1>q. /\ pairs = <<>> => Queue = <<>>
      /\ pairs # <<>> => Len(pairs) = 1 /\ Queue = pairs[1]
      /\ pairs' # <<>> => Queue' = pairs'[Len(pairs')]
  <2>1. pairs # <<>> => Len(pairs) = 1
    <3> DEFINE n == Len(pairs)
    <3>1. n \in Nat /\ n <= 1 /\ (pairs = <<>> <=> n = 0)
      BY <1>t, <1>l, <1>e
    <3> HIDE DEF n
    <3>2. pairs # <<>> => n = 1
      BY <3>1
    <3> QED BY <3>2 DEF n
  <2> QED BY <2>1 DEF Queue, Last
<1>store. ASSUME NEW k, NEW q, Store(k, q)
          PROVE  Len(pairs') <= 1 /\ Queue' = q /\ k = Len(pairs) /\ Queue = pairs[k]
  <2>1. k \in 1..Len(pairs) /\ q \in Seq(Numbers) /\ pairs' = [pairs EXCEPT ![k] = q]
    BY <1>store DEF Store
  <2>2. k = 1 /\ Len(pairs) = 1
    <3> DEFINE n == Len(pairs)
    <3>1. n \in Nat /\ n <= 1 /\ k \in 1..n
      BY <2>1, <1>t, <1>l
    <3> HIDE DEF n
    <3>2. k = 1 /\ n = 1
      BY <3>1
    <3> QED BY <3>2 DEF n
  <2>3. Len(pairs') = 1 /\ pairs'[1] = q
    BY <2>1, <2>2, <1>t, Replaced
  <2>4. pairs' # <<>> /\ pairs # <<>>
    BY <2>2, <2>3, <1>e
  <2> QED BY <2>2, <2>3, <2>4, <1>q
<1>1. CASE UNCHANGED pairs
  <2>1. Queue' = Queue /\ Len(pairs') <= 1
    BY <1>1, <1>s DEF Queue
  <2>2. ASSUME NEW w \in Workers PROVE ~EnqueueToMap(w)
    <3> SUFFICES ASSUME EnqueueToMap(w) PROVE FALSE
      OBVIOUS
    <3>1. pairs # <<>> /\ pairs' = [pairs EXCEPT ![Len(pairs)] = Append(Queue, data[w])]
      BY <1>z DEF EnqueueToMap, HasPairs, Put
    <3>2. Len(pairs) = 1 /\ pairs[1] \in Seq(Numbers) /\ data[w] \in Numbers
      BY <3>1, <1>q, <1>t DEF LocalTypes
    <3>3. pairs'[1] = Append(pairs[1], data[w])
      BY <3>1, <3>2, <1>t, <1>q
    <3>4. Len(pairs'[1]) = Len(pairs[1]) + 1 /\ Len(pairs[1]) \in Nat
      BY <3>2, <3>3, Appended
    <3> QED BY <1>1, <3>4
  <2>3. ~SafeDequeue
    <3> SUFFICES ASSUME SafeDequeue PROVE FALSE
      OBVIOUS
    <3>1. pc[Consumer] = "dequeue" /\ cq = Len(pairs) /\ Queue # <<>>
      BY <1>s DEF SafeDequeue
    <3>2. pairs # <<>> /\ cq = 1 /\ pairs[1] # <<>>
      BY <3>1, <1>q
    <3>3. pairs' = [pairs EXCEPT ![1] = Tail(pairs[1])] /\ Len(pairs) = 1
      BY <3>1, <3>2, <1>q, <1>z DEF SafeDequeue, Put
    <3>4. pairs'[1] = Tail(pairs[1]) /\ pairs[1] \in Seq(Numbers)
      BY <3>3, <1>t
    <3>5. Len(pairs'[1]) = Len(pairs[1]) - 1 /\ Len(pairs[1]) \in Nat
      BY <3>2, <3>4, Shortened
    <3> QED BY <1>1, <3>5
  <2>4. ~PutBack
    <3> SUFFICES ASSUME PutBack PROVE FALSE
      OBVIOUS
    <3>1. pairs # <<>> /\ pairs' = [pairs EXCEPT ![Len(pairs)] = Append(Queue, data[Consumer])]
      BY <1>z DEF PutBack, HasPairs, Put
    <3>2. Len(pairs) = 1 /\ pairs[1] \in Seq(Numbers) /\ data[Consumer] \in Numbers
      BY <3>1, <1>q, <1>t DEF LocalTypes
    <3>3. pairs'[1] = Append(pairs[1], data[Consumer])
      BY <3>1, <3>2, <1>t, <1>q
    <3>4. Len(pairs'[1]) = Len(pairs[1]) + 1 /\ Len(pairs[1]) \in Nat
      BY <3>2, <3>3, Appended
    <3> QED BY <1>1, <3>4
  <2> QED BY <2>1, <2>2, <2>3, <2>4, <1>c
<1>2. ASSUME NEW w \in Workers, LinkQueue(w) \/ (ScanQueue(w) /\ Store(Len(pairs), <<>>))
      PROVE  /\ Len(pairs') <= 1 /\ Queue' = Queue /\ ~SafeDequeue /\ ~PutBack
             /\ \A v \in Workers : ~EnqueueToMap(v)
  <2>1. pairs = <<>> /\ LinkQueue(w) /\ Queue = <<>>
    BY <1>2, <1>s, <1>q DEF LinkQueue, ScanQueue, Store
  <2>2. pairs' = Append(pairs, <<>>) /\ <<>> \in Seq(Numbers)
    BY <2>1 DEF LinkQueue
  <2>3. Len(pairs') = 1 /\ pairs'[1] = <<>>
    BY <2>1, <2>2
  <2>4. Queue' = <<>>
    BY <2>3, <1>q
  <2>5. ~SafeDequeue /\ ~PutBack /\ \A v \in Workers : ~EnqueueToMap(v)
    BY <2>1, <1>s DEF HasPairs, SafeDequeue, PutBack, EnqueueToMap
  <2> QED BY <2>1, <2>3, <2>4, <2>5
<1>3. ASSUME SafeDequeue, cq \in 1..Len(pairs), pairs[cq] # <<>>, Store(cq, Tail(pairs[cq]))
      PROVE  /\ Len(pairs') <= 1 /\ Queue # <<>> /\ Queue' = Tail(Queue)
             /\ data' = [data EXCEPT ![Consumer] = Head(Queue)]
  <2>1. Len(pairs') <= 1 /\ Queue' = Tail(pairs[cq]) /\ Queue = pairs[cq]
    BY <1>3, <1>store
  <2>2. cq # 0 /\ pairs[cq] # <<>>
    BY <1>3, <1>t
  <2>3. data' = [data EXCEPT ![Consumer] = Head(pairs[cq])]
    BY <1>3, <2>2, <1>z DEF SafeDequeue
  <2> QED BY <2>1, <2>2, <2>3
<1>4. ASSUME NEW m, Store(Len(pairs), Append(pairs[Len(pairs)], m))
      PROVE  Len(pairs') <= 1 /\ Queue' = Append(Queue, m)
  BY <1>4, <1>store
<1> QED
  BY <1>c, <1>z, <1>1, <1>2, <1>3, <1>4, PairsStep

\* Who moves in a step.
WorkerMoves(w) ==
  /\ Receive(w) \/ ReceiveAgain(w) \/ StoreStep(w)
  /\ \A v \in Workers \ {w} : pc'[v] = pc[v]
  /\ \/ pc'[Consumer] = pc[Consumer]
     \/ pc[Consumer] = "blocked" /\ pc'[Consumer] = "woken"
ConsumerMoves ==
  /\ ConsumerStep \/ SpuriousWakeup
  /\ \A v \in Workers : pc'[v] = pc[v]
NobodyMoves ==
  /\ ProcessConnects \/ ProcessDies \/ UNCHANGED vars
  /\ UNCHANGED pc

LEMMA Movers ==
  Types /\ [Next]_vars => (\E w \in Workers : WorkerMoves(w)) \/ ConsumerMoves \/ NobodyMoves
<1> SUFFICES ASSUME Types, [Next]_vars
             PROVE  (\E w \in Workers : WorkerMoves(w)) \/ ConsumerMoves \/ NobodyMoves
  OBVIOUS
<1> USE Threads
<1>t. PlaceTypes
  BY DEF Types
<1>go. ASSUME NEW t \in Thread, NEW place, Goto(t, place)
       PROVE  \A k \in Thread \ {t} : pc'[k] = pc[k]
  BY <1>go, <1>t DEF Goto, PlaceTypes
<1>1. ASSUME NEW w \in Workers, Receive(w) \/ ReceiveAgain(w) \/ StoreStep(w)
      PROVE  WorkerMoves(w)
  <2>1. CASE Notify(w)
    <3>1. /\ \A v \in Workers \ {w} : pc'[v] = pc[v]
          /\ \/ pc'[Consumer] = pc[Consumer]
             \/ pc[Consumer] = "blocked" /\ pc'[Consumer] = "woken"
      BY <2>1, <1>t, NotifyPlaces
    <3> QED BY <1>1, <3>1 DEF WorkerMoves
  <2>2. CASE ~Notify(w)
    <3>1. \E place : Goto(w, place)
      BY <1>1, <2>2 DEF Receive, ReceiveAgain, StoreStep, HasQueue, ScanQueue, LinkQueue,
         UseMaps, FindMutex, LinkMutex, FindCondVar, LinkCondVar, EnqueueToMap
    <3>2. \A k \in Thread \ {w} : pc'[k] = pc[k]
      BY <3>1, <1>go
    <3> QED BY <1>1, <3>2 DEF WorkerMoves
  <2> QED BY <2>1, <2>2
<1>2. CASE ConsumerStep \/ SpuriousWakeup
  <2>1. \E place : Goto(Consumer, place)
    BY <1>2 DEF ConsumerStep, SpuriousWakeup, TakeProcess, UseMaps, FindMutex, LinkMutex,
       FindCondVar, LinkCondVar, LockMutex, TestQueue, Block, GetQueue, SafeDequeue,
       SendToProcess, SendFails, PutBack
  <2> QED BY <2>1, <1>2, <1>go DEF ConsumerMoves
<1>3. CASE ProcessConnects \/ ProcessDies \/ UNCHANGED vars
  BY <1>3 DEF ProcessConnects, ProcessDies, vars, NobodyMoves
<1> QED
  BY <1>1, <1>2, <1>3 DEF Next

LEMMA SingleStep ==
  Types /\ HasPairs /\ OneWorker /\ Single /\ [Next]_vars => Single'
<1> SUFFICES ASSUME Types, HasPairs, OneWorker, Single, [Next]_vars PROVE Single'
  OBVIOUS
<1> USE Threads
<1>t. /\ PlaceTypes /\ LocalTypes /\ HistTypes
      /\ pairs \in Seq(Seq(Numbers)) /\ Len(pairs) \in Nat
      /\ pairs' \in Seq(Seq(Numbers)) /\ Len(pairs') \in Nat
      /\ pairs # <<>> => pairs' # <<>>
  BY MapTypesStep, TypesStep DEF Types, MapTypes
<1>1. fresh' = fresh
  BY DEF Next, Receive, ReceiveAgain, StoreStep, HasQueue, ScanQueue, LinkQueue, UseMaps,
     FindMutex, LinkMutex, FindCondVar, LinkCondVar, EnqueueToMap, Notify, ConsumerStep,
     TakeProcess, LockMutex, TestQueue, Block, GetQueue, SafeDequeue, SendToProcess,
     SendFails, PutBack, SpuriousWakeup, ProcessConnects, ProcessDies, vars, histVars
<1>2. ~fresh' => pairs' # <<>>
  BY <1>t, <1>1 DEF Single
<1> SUFFICES ASSUME Calm'
             PROVE  /\ Len(pairs') <= 1
                    /\ \A w \in Workers : pc'[w] \in {"scanq", "linkq"} => pairs' = <<>>
                    /\ pc'[Consumer] = "getq" => Queue' # <<>>
                    /\ pc'[Consumer] = "dequeue" => cq' = Len(pairs') /\ Queue' # <<>>
  BY <1>2 DEF Single
<1>c. Calm /\ Len(pairs') <= 1
  BY CalmQueue
<1>s. /\ \A w \in Workers : pc[w] \in {"scanq", "linkq"} => pairs = <<>>
      /\ pc[Consumer] = "getq" => Queue # <<>>
      /\ pc[Consumer] = "dequeue" => cq = Len(pairs) /\ Queue # <<>>
  BY <1>c DEF Single
<1>3. ASSUME NEW w \in Workers, pc'[w] \in {"scanq", "linkq"} PROVE pairs' = <<>>
  <2>1. CASE pc[w] \in {"scanq", "linkq"}
    <3>1. pairs = <<>> /\ fresh
      BY <2>1, <1>s DEF Single
    <3>2. retries = 0
      BY <3>1, <1>c, <1>t DEF Calm, HistTypes
    <3>3. \A v \in Workers \ {w} : pc[v] = "idle"
      BY <2>1, <3>2 DEF OneWorker
    <3>4. ASSUME NEW v \in Workers, LinkQueue(v) PROVE FALSE
      <4>1. v = w /\ Goto(w, "findmtx")
        BY <3>3, <3>4 DEF LinkQueue
      <4> QED BY <4>1, <1>3, <1>t DEF Goto, PlaceTypes
    <3> QED BY <3>1, <3>4, PairsStep DEF Store
  <2>2. CASE pc[w] \notin {"scanq", "linkq"}
    <3>1. WorkerMoves(w)
      BY <1>3, <2>2, Movers DEF WorkerMoves, ConsumerMoves, NobodyMoves
    <3>2. ~Notify(w)
      BY <1>3, <1>t, NotifyPlaces
    <3>3. \E place : Goto(w, place) /\ (place \in {"scanq", "linkq"} =>
                                          pairs = <<>> /\ UNCHANGED pairs)
      BY <3>1, <3>2, <2>2 DEF WorkerMoves, Receive, ReceiveAgain, StoreStep, HasQueue,
         ScanQueue, LinkQueue, UseMaps, FindMutex, LinkMutex, FindCondVar, LinkCondVar,
         EnqueueToMap, mapVars
    <3> QED BY <3>3, <1>3, <1>t DEF Goto, PlaceTypes
  <2> QED BY <2>1, <2>2
<1>4. ASSUME Queue # <<>>, ~SafeDequeue PROVE Queue' # <<>>
  <2>1. Queue \in Seq(Numbers)
    BY <1>t, EmptySeq DEF Queue, Last
  <2>2. \A t \in Thread : data[t] \in Numbers
    BY <1>t DEF LocalTypes
  <2>3. \A t \in Thread : Append(Queue, data[t]) # <<>>
    BY <2>1, <2>2, Appended
  <2> QED BY <1>4, <2>3, CalmQueue
<1>5. ASSUME pc'[Consumer] = "getq" PROVE Queue' # <<>>
  <2>1. CASE pc[Consumer] = "getq"
    BY <2>1, <1>s, <1>4 DEF SafeDequeue
  <2>2. CASE pc[Consumer] # "getq"
    <3>1. ConsumerStep \/ SpuriousWakeup
      BY <1>5, <2>2, Movers DEF WorkerMoves, ConsumerMoves, NobodyMoves
    <3>2. \E place : Goto(Consumer, place) /\ (place = "getq" =>
                                                 Queue # <<>> /\ UNCHANGED pairs)
      BY <3>1, <1>c DEF Calm, ConsumerStep, SpuriousWakeup, TakeProcess, UseMaps, FindMutex, LinkMutex,
         FindCondVar, LinkCondVar, LockMutex, TestQueue, Block, GetQueue, SafeDequeue,
         SendToProcess, SendFails, PutBack, mapVars
    <3>3. Queue # <<>> /\ UNCHANGED pairs
      BY <3>2, <1>5, <1>t DEF Goto, PlaceTypes
    <3> QED BY <3>3 DEF Queue
  <2> QED BY <2>1, <2>2
<1>6. ASSUME pc'[Consumer] = "dequeue" PROVE cq' = Len(pairs') /\ Queue' # <<>>
  <2>1. CASE pc[Consumer] = "dequeue"
    <3>1. ~ConsumerStep /\ ~SpuriousWakeup
      <4>1. SafeDequeue => Goto(Consumer, "send")
        BY DEF SafeDequeue
      <4>2. ConsumerStep \/ SpuriousWakeup => SafeDequeue
        BY <2>1 DEF ConsumerStep, SpuriousWakeup, TakeProcess, UseMaps, FindMutex, LinkMutex,
           FindCondVar, LinkCondVar, LockMutex, TestQueue, Block, GetQueue, SendToProcess,
           SendFails, PutBack
      <4> QED BY <4>1, <4>2, <1>6, <1>t DEF Goto, PlaceTypes
    <3>2. cq' = cq
      BY <3>1, Movers DEF WorkerMoves, ConsumerMoves, NobodyMoves, Receive, ReceiveAgain,
         StoreStep, HasQueue, ScanQueue, LinkQueue, UseMaps, FindMutex, LinkMutex,
         FindCondVar, LinkCondVar, EnqueueToMap, Notify, ProcessConnects, ProcessDies, vars
    <3>3. ~SafeDequeue
      BY <3>1 DEF ConsumerStep
    <3>4. cq = Len(pairs) /\ Queue # <<>>
      BY <2>1, <1>s
    <3>5. Len(pairs') = Len(pairs)
      <4>1. pairs # <<>> /\ pairs' # <<>>
        BY <3>4, <1>t DEF Queue
      <4> DEFINE n == Len(pairs)
                 k == Len(pairs')
      <4>2. n \in Nat /\ k \in Nat /\ n # 0 /\ k # 0 /\ n <= 1 /\ k <= 1
        BY <4>1, <1>t, <1>c, EmptySeq DEF Single
      <4> HIDE DEF n, k
      <4>3. n = k
        BY <4>2
      <4> QED BY <4>3 DEF n, k
    <3> QED BY <3>2, <3>3, <3>4, <3>5, <1>4
  <2>2. CASE pc[Consumer] # "dequeue"
    <3>1. ConsumerStep \/ SpuriousWakeup
      BY <1>6, <2>2, Movers DEF WorkerMoves, ConsumerMoves, NobodyMoves
    <3>2. \E place : Goto(Consumer, place) /\ (place = "dequeue" => GetQueue)
      BY <3>1 DEF ConsumerStep, SpuriousWakeup, TakeProcess, UseMaps, FindMutex, LinkMutex,
         FindCondVar, LinkCondVar, LockMutex, TestQueue, Block, GetQueue, SafeDequeue,
         SendToProcess, SendFails, PutBack
    <3>3. GetQueue
      BY <3>2, <1>6, <1>t DEF Goto, PlaceTypes
    <3>4. Queue # <<>> /\ UNCHANGED pairs /\ cq' = Len(pairs)
      BY <3>3, <1>s DEF GetQueue, mapVars
    <3> QED BY <3>4 DEF Queue
  <2> QED BY <2>1, <2>2
<1> QED
  BY <1>c, <1>3, <1>5, <1>6

-----------------------------------------------------------------------------
(* Order.                                                                  *)

\* The consumer is there once a copy process is.
Served == pc[Consumer] # "noproc" => proc # "absent"

\* The numbers sent, with the consumer, in the queue and with the worker follow
\* each other.
Sent == Len(got) + (IF pc[Consumer] = "send" THEN 1 ELSE 0)
Coming == IF pc[active] \in {"idle", "notify"} THEN 0 ELSE 1
InLine ==
  retries = 0 /\ ~torn /\ proc # "down" =>
    /\ pc[Consumer] # "putback"
    /\ arrived = Sent + Len(Queue) + Coming
    /\ pc[Consumer] = "send" => data[Consumer] = Sent
    /\ \A i \in 1..Len(Queue) : Queue[i] = Sent + i
    /\ pc[active] \notin {"idle", "notify"} => data[active] = arrived
GotInOrder == retries = 0 /\ ~torn => \A i \in 1..Len(got) : got[i] = i

\* With the consumer, between dequeuing and sending or putting back, and with
\* the worker that has read it.
Held == IF pc[Consumer] \in {"send", "putback"} THEN {data[Consumer]} ELSE {}
Read == IF pc[active] \in {"idle", "notify"} THEN {} ELSE {data[active]}

\* All that was read is somewhere, and as much as was read; what is not yet at
\* the process is in one place only.
Placed ==
  retries = 0 /\ ~torn =>
    /\ ToSet(got) \cup Held \cup ToSet(Queue) \cup swallowed \cup Read = 1..arrived
    /\ Len(got) + Len(Taken) + Len(Queue) + Cardinality(swallowed) + Coming = arrived
    /\ IsInjective(Queue)
    /\ Held \cap ToSet(Queue) = {} /\ Held \cap swallowed = {} /\ Held \cap Read = {}
    /\ ToSet(Queue) \cap swallowed = {} /\ ToSet(Queue) \cap Read = {}
    /\ swallowed \cap Read = {}

\* Without repetitions only two mutexes let two threads into the queue at once.
Undamaged == retries = 0 /\ torn => nmtx > 1

IInv ==
  /\ Types /\ HasPairs /\ Counted
  /\ Pointers /\ BlocksOnEmpty /\ NoMissedWakeup
  /\ OneWorker /\ Single
  /\ Served /\ InLine /\ GotInOrder
  /\ Placed /\ Undamaged

LEMMA ServedStep == Types /\ Served /\ [Next]_vars => Served'
<1> SUFFICES ASSUME Types, Served, [Next]_vars, pc'[Consumer] # "noproc", proc' = "absent"
             PROVE  FALSE
  BY DEF Served
<1> USE Threads
<1>1. proc = "absent"
  BY DEF Next, Receive, ReceiveAgain, StoreStep, HasQueue, ScanQueue, LinkQueue, UseMaps,
     FindMutex, LinkMutex, FindCondVar, LinkCondVar, EnqueueToMap, Notify, ConsumerStep,
     TakeProcess, LockMutex, TestQueue, Block, GetQueue, SafeDequeue, SendToProcess,
     SendFails, PutBack, SpuriousWakeup, ProcessConnects, ProcessDies, vars, envVars
<1>2. pc[Consumer] = "noproc"
  BY <1>1 DEF Served
<1>3. TakeProcess
  <2>1. ConsumerStep \/ SpuriousWakeup
    BY <1>2, Movers DEF WorkerMoves, ConsumerMoves, NobodyMoves
  <2> QED BY <2>1, <1>2 DEF ConsumerStep, SpuriousWakeup, UseMaps, FindMutex, LinkMutex,
             FindCondVar, LinkCondVar, LockMutex, TestQueue, Block, GetQueue, SafeDequeue,
             SendToProcess, SendFails, PutBack
<1> QED
  BY <1>1, <1>3 DEF TakeProcess

LEMMA OrderStep ==
  Types /\ HasPairs /\ OneWorker /\ Single /\ Served /\ InLine /\ GotInOrder /\ [Next]_vars =>
    InLine' /\ GotInOrder'
<1> SUFFICES ASSUME Types, HasPairs, OneWorker, Single, Served, InLine, GotInOrder,
                    [Next]_vars, retries' = 0, ~torn'
             PROVE  InLine' /\ GotInOrder'
  BY DEF InLine, GotInOrder
<1> USE Threads
<1>t. /\ PlaceTypes /\ LocalTypes
      /\ got \in Seq(Numbers) /\ Len(got) \in Nat
      /\ arrived \in Nat /\ retries \in Nat /\ active \in Workers
      /\ Queue \in Seq(Numbers) /\ Len(Queue) \in Nat
      /\ \A t \in Thread : data[t] \in Numbers
  <2>1. Types /\ PlaceTypes /\ LocalTypes /\ HistTypes /\ pairs \in Seq(Seq(Numbers))
    BY DEF Types, MapTypes
  <2>2. Queue \in Seq(Numbers)
    BY <2>1, EmptySeq DEF Queue, Last
  <2>3. Len(got) \in Nat /\ Len(Queue) \in Nat
    BY <2>1, <2>2, LenProperties DEF HistTypes
  <2> QED BY <2>1, <2>2, <2>3 DEF HistTypes, LocalTypes
<1>r. retries = 0 /\ \A w \in Workers : ~ReceiveAgain(w)
  <2>1. ASSUME NEW w \in Workers PROVE ~ReceiveAgain(w)
    BY <1>t DEF ReceiveAgain
  <2> QED BY <2>1, <1>t DEF Next, Receive, StoreStep, HasQueue, ScanQueue, LinkQueue,
       UseMaps, FindMutex, LinkMutex, FindCondVar, LinkCondVar, EnqueueToMap, Notify,
       ConsumerStep, TakeProcess, LockMutex, TestQueue, Block, GetQueue, SafeDequeue,
       SendToProcess, SendFails, PutBack, SpuriousWakeup, ProcessConnects, ProcessDies, vars,
       histVars
<1>z. ~torn
  BY TornStep
<1>c. Calm'
  BY DEF Calm
<1>w. ASSUME NEW w \in Workers, Receive(w) \/ StoreStep(w)
      PROVE  w = active /\ UNCHANGED <<active, proc, got>>
  <2>1. UNCHANGED <<active, proc, got>>
    BY <1>w DEF Receive, StoreStep, HasQueue, ScanQueue, LinkQueue, UseMaps, FindMutex,
       LinkMutex, FindCondVar, LinkCondVar, EnqueueToMap, Notify, histVars, envVars
  <2>2. w = active \/ pc[w] # "idle"
    BY <1>w DEF Receive, StoreStep, HasQueue, ScanQueue, LinkQueue, UseMaps, FindMutex,
       LinkMutex, FindCondVar, LinkCondVar, EnqueueToMap, Notify
  <2> QED BY <2>1, <2>2, <1>r DEF OneWorker
<1>1. GotInOrder'
  <2>1. CASE UNCHANGED got
    BY <2>1, <1>r, <1>z DEF GotInOrder
  <2>2. CASE got' # got
    <3>1. SendToProcess /\ proc = "up" /\ got' = Append(got, data[Consumer])
      BY <2>2 DEF Next, Receive, ReceiveAgain, StoreStep, HasQueue, ScanQueue, LinkQueue,
         UseMaps, FindMutex, LinkMutex, FindCondVar, LinkCondVar, EnqueueToMap, Notify,
         ConsumerStep, TakeProcess, LockMutex, TestQueue, Block, GetQueue, SafeDequeue,
         SendToProcess, SendFails, PutBack, SpuriousWakeup, ProcessConnects, ProcessDies,
         vars, histVars
    <3>2. data[Consumer] = Len(got) + 1
      BY <3>1, <1>r DEF SendToProcess, InLine, Sent
    <3>3. /\ Len(got') = Len(got) + 1 /\ got'[Len(got) + 1] = Len(got) + 1
          /\ \A i \in 1..Len(got) : got'[i] = got[i]
      BY <3>1, <3>2, <1>t, Appended
    <3>4. \A i \in 1..Len(got) : got[i] = i
      BY <1>r, <1>z DEF GotInOrder
    <3>5. \A i \in 1..(Len(got) + 1) : i \in 1..Len(got) \/ i = Len(got) + 1
      BY <1>t
    <3> QED BY <3>3, <3>4, <3>5 DEF GotInOrder
  <2> QED BY <2>1, <2>2
<1>2. InLine'
  <2> SUFFICES ASSUME proc' # "down" PROVE InLine'
    BY DEF InLine
  <2>p. proc # "down"
    BY DEF Next, Receive, ReceiveAgain, StoreStep, HasQueue, ScanQueue, LinkQueue, UseMaps,
       FindMutex, LinkMutex, FindCondVar, LinkCondVar, EnqueueToMap, Notify, ConsumerStep,
       TakeProcess, LockMutex, TestQueue, Block, GetQueue, SafeDequeue, SendToProcess,
       SendFails, PutBack, SpuriousWakeup, ProcessConnects, ProcessDies, vars, envVars
  <2>i. /\ pc[Consumer] # "putback"
        /\ arrived = Sent + Len(Queue) + Coming
        /\ pc[Consumer] = "send" => data[Consumer] = Sent
        /\ \A i \in 1..Len(Queue) : Queue[i] = Sent + i
        /\ pc[active] \notin {"idle", "notify"} => data[active] = arrived
        /\ Sent \in Nat /\ Coming \in {0, 1}
    <3>1. /\ pc[Consumer] # "putback"
          /\ arrived = Sent + Len(Queue) + Coming
          /\ pc[Consumer] = "send" => data[Consumer] = Sent
          /\ \A i \in 1..Len(Queue) : Queue[i] = Sent + i
          /\ pc[active] \notin {"idle", "notify"} => data[active] = arrived
      BY <1>r, <1>z, <2>p DEF InLine
    <3>2. Sent \in Nat
      BY <1>t DEF Sent
    <3>3. Coming \in {0, 1}
      BY DEF Coming
    <3> QED BY <3>1, <3>2, <3>3
  <2>q. \/ Queue' = Queue /\ ~SafeDequeue /\ ~PutBack /\ \A w \in Workers : ~EnqueueToMap(w)
        \/ \E w \in Workers : EnqueueToMap(w) /\ Queue' = Append(Queue, data[w])
        \/ /\ SafeDequeue /\ Queue # <<>> /\ Queue' = Tail(Queue)
           /\ data' = [data EXCEPT ![Consumer] = Head(Queue)]
    BY <1>c, <2>i, CalmQueue DEF PutBack
  <2>same. ASSUME Queue' = Queue, Sent' = Sent, active' = active,
                  Coming' - Coming = arrived' - arrived, arrived' \in Nat,
                  pc'[Consumer] # "putback",
                  pc'[Consumer] = "send" => data'[Consumer] = Sent,
                  pc'[active] \notin {"idle", "notify"} => data'[active] = arrived'
           PROVE  InLine'
    <3>1. arrived' = Sent' + Len(Queue') + Coming'
      <4>1. Coming' \in {0, 1} /\ arrived = Sent + Len(Queue) + Coming
        BY <2>i DEF Coming
      <4> QED BY <4>1, <2>same, <2>i, <1>t
    <3> QED BY <2>same, <3>1, <2>i DEF InLine
  <2>1. ASSUME NEW w \in Workers, Receive(w) PROVE InLine'
    <3>1. /\ w = active /\ UNCHANGED <<active, got>> /\ Queue' = Queue
          /\ arrived' = arrived + 1 /\ pc[w] = "idle"
          /\ data' = [data EXCEPT ![w] = arrived + 1] /\ Goto(w, "hasq")
      BY <2>1, <1>w DEF Receive, mapVars, Queue
    <3>2. /\ data'[w] = arrived + 1 /\ data'[Consumer] = data[Consumer]
          /\ pc'[w] = "hasq" /\ pc'[Consumer] = pc[Consumer]
      BY <3>1, <1>t DEF Goto, PlaceTypes, LocalTypes
    <3>3. Sent' = Sent /\ Coming' = 1 /\ Coming = 0
      BY <3>1, <3>2 DEF Sent, Coming
    <3> QED BY <3>1, <3>2, <3>3, <2>i, <1>t, <2>same
  <2>2. ASSUME NEW w \in Workers, EnqueueToMap(w) PROVE InLine'
    <3>1. w = active /\ UNCHANGED <<active, got>>
      BY <2>2, <1>w DEF StoreStep
    <3>2. /\ pc[w] = "enqueue" /\ pc'[w] = "notify" /\ pc'[Consumer] = pc[Consumer]
          /\ UNCHANGED <<data, arrived>>
      BY <2>2, <1>t DEF EnqueueToMap, Goto, PlaceTypes, histVars
    <3>3. ~SafeDequeue
      BY <2>2, <3>2, <1>t DEF SafeDequeue, Goto, PlaceTypes
    <3>4. Queue' = Append(Queue, data[w])
      <4>1. PICK v \in Workers : EnqueueToMap(v) /\ Queue' = Append(Queue, data[v])
        BY <2>2, <2>q, <3>3
      <4>2. v = active
        BY <4>1, <1>w DEF StoreStep
      <4> QED BY <3>1, <4>1, <4>2
    <3>5. /\ Len(Queue') = Len(Queue) + 1 /\ Queue'[Len(Queue) + 1] = data[w]
          /\ \A i \in 1..Len(Queue) : Queue'[i] = Queue[i]
      BY <3>4, <1>t, Appended
    <3>6. Sent' = Sent /\ Coming = 1 /\ Coming' = 0 /\ data[w] = arrived
      BY <3>1, <3>2, <2>i DEF Sent, Coming
    <3>7. arrived = Sent + Len(Queue) + 1
      BY <3>6, <2>i
    <3>8. arrived' = Sent' + Len(Queue') + Coming'
      BY <3>2, <3>5, <3>6, <3>7, <2>i, <1>t
    <3>9. \A i \in 1..Len(Queue') : Queue'[i] = Sent' + i
      <4> TAKE i \in 1..Len(Queue')
      <4>1. i \in 1..Len(Queue) \/ i = Len(Queue) + 1
        BY <3>5, <1>t
      <4> QED BY <4>1, <3>5, <3>6, <3>7, <2>i, <1>t
    <3> QED BY <3>1, <3>2, <3>6, <3>8, <3>9, <2>i DEF InLine
  <2>3. ASSUME NEW w \in Workers, Notify(w) PROVE InLine'
    <3>1. /\ w = active /\ UNCHANGED <<active, got, arrived>> /\ pc[w] = "notify"
      BY <2>3, <1>w DEF StoreStep, Notify, histVars
    <3>2. /\ data'[Consumer] = data[Consumer] /\ pc'[w] = "idle"
          /\ pc'[Consumer] = pc[Consumer] \/ (pc[Consumer] = "blocked" /\ pc'[Consumer] = "woken")
      BY <2>3, <1>t, NotifyPlaces DEF Notify, Leave, LocalTypes
    <3>3. Queue' = Queue
      BY <2>3 DEF Notify, mapVars, Queue
    <3>4. Sent' = Sent /\ Coming' = 0 /\ Coming = 0
      BY <3>1, <3>2 DEF Sent, Coming
    <3> QED BY <3>1, <3>2, <3>3, <3>4, <2>i, <1>t, <2>same
  <2>4. ASSUME NEW w \in Workers, StoreStep(w), ~Notify(w), ~EnqueueToMap(w) PROVE InLine'
    <3>1. /\ w = active /\ UNCHANGED <<active, got, arrived, data>>
          /\ pc[w] \notin {"idle", "notify"}
          /\ \E place : Goto(w, place) /\ place \notin {"idle", "notify"}
      BY <2>4, <1>w DEF StoreStep, HasQueue, ScanQueue, LinkQueue, UseMaps, FindMutex,
         LinkMutex, FindCondVar, LinkCondVar, histVars
    <3>2. pc'[w] \notin {"idle", "notify"} /\ pc'[Consumer] = pc[Consumer]
      BY <3>1, <1>t DEF Goto, PlaceTypes
    <3>3. Queue' = Queue
      <4>1. ~SafeDequeue
        BY <3>2, <1>t DEF SafeDequeue, Goto, PlaceTypes
      <4>2. ASSUME NEW v \in Workers PROVE ~EnqueueToMap(v)
        BY <2>4, <3>1, <1>w DEF StoreStep
      <4> QED BY <4>1, <4>2, <2>q
    <3>4. Sent' = Sent /\ Coming' = 1 /\ Coming = 1
      BY <3>1, <3>2 DEF Sent, Coming
    <3> QED BY <3>1, <3>2, <3>3, <3>4, <2>i, <1>t, <2>same
  <2>5. CASE SafeDequeue
    <3>1. /\ pc[Consumer] = "dequeue" /\ pc'[Consumer] = "send"
          /\ \A w \in Workers : pc'[w] = pc[w]
          /\ UNCHANGED <<got, arrived, active>>
      BY <2>5, <1>t DEF SafeDequeue, Goto, PlaceTypes, envVars, histVars
    <3>2. /\ Queue # <<>> /\ Queue' = Tail(Queue)
          /\ data' = [data EXCEPT ![Consumer] = Head(Queue)]
      <4>1. \A w \in Workers : ~EnqueueToMap(w)
        BY <3>1, <1>t DEF EnqueueToMap, Goto, PlaceTypes
      <4> QED BY <2>5, <4>1, <2>q
    <3>3. data'[Consumer] = Head(Queue) /\ data'[active] = data[active]
      BY <3>2, <1>t DEF LocalTypes
    <3>4. /\ Head(Queue) = Queue[1] /\ Len(Queue) \in Nat \ {0}
          /\ Len(Queue') = Len(Queue) - 1
          /\ \A i \in 1..Len(Queue') : Queue'[i] = Queue[i + 1]
      BY <3>2, <1>t, Shortened
    <3>5. Sent' = Sent + 1 /\ Coming' = Coming
      BY <3>1, <1>t DEF Sent, Coming
    <3>6. Head(Queue) = Sent + 1
      <4>1. 1 \in 1..Len(Queue)
        BY <3>4
      <4> QED BY <4>1, <3>4, <2>i
    <3>7. \A i \in 1..Len(Queue') : Queue'[i] = Sent' + i
      <4> TAKE i \in 1..Len(Queue')
      <4>1. i + 1 \in 1..Len(Queue) /\ Queue'[i] = Queue[i + 1]
        BY <3>4
      <4>2. Queue[i + 1] = Sent + (i + 1)
        BY <4>1, <2>i
      <4> QED BY <4>1, <4>2, <3>5, <2>i
    <3>8. arrived' = Sent' + Len(Queue') + Coming'
      BY <3>1, <3>4, <3>5, <2>i
    <3> QED BY <3>1, <3>3, <3>5, <3>6, <3>7, <3>8, <2>i, <1>t DEF InLine
  <2>6. CASE SendToProcess
    <3>1. /\ pc[Consumer] = "send" /\ pc'[Consumer] = "findmtx"
          /\ \A w \in Workers : pc'[w] = pc[w]
          /\ UNCHANGED <<pairs, arrived, active>>
      BY <2>6, <1>t DEF SendToProcess, Goto, PlaceTypes, mapVars, envVars
    <3>2. proc = "up"
      BY <3>1, <2>p, <1>t DEF Served, Types, HistTypes
    <3>3. got' = Append(got, data[Consumer])
      BY <2>6, <3>2, <1>z DEF SendToProcess
    <3>4. Len(got') = Len(got) + 1
      BY <3>3, <1>t, Appended
    <3>5. data'[active] = data[active]
      BY <2>6, <1>t DEF SendToProcess, Leave, LocalTypes
    <3>6. Sent' = Sent /\ Coming' = Coming /\ Queue' = Queue
      BY <3>1, <3>4, <1>t DEF Sent, Coming, Queue
    <3> QED BY <3>1, <3>5, <3>6, <2>i, <1>t, <2>same
  <2>7. ASSUME ConsumerStep \/ SpuriousWakeup, ~SafeDequeue, ~SendToProcess PROVE InLine'
    <3>1. ~SendFails /\ ~PutBack
      BY <2>p, <2>i DEF SendFails, PutBack
    <3>2. /\ UNCHANGED <<got, arrived, active, data>>
          /\ pc[Consumer] # "send"
          /\ \E place : Goto(Consumer, place) /\ place \notin {"send", "putback"}
      BY <2>7, <3>1 DEF ConsumerStep, SpuriousWakeup, TakeProcess, UseMaps, FindMutex,
         LinkMutex, FindCondVar, LinkCondVar, LockMutex, TestQueue, Block, GetQueue,
         histVars, envVars
    <3>3. pc'[Consumer] \notin {"send", "putback"} /\ \A w \in Workers : pc'[w] = pc[w]
      BY <3>2, <1>t DEF Goto, PlaceTypes
    <3>4. Queue' = Queue
      <4>1. UNCHANGED pairs
        BY <2>7, <3>1 DEF ConsumerStep, SpuriousWakeup, TakeProcess, UseMaps, FindMutex,
           LinkMutex, FindCondVar, LinkCondVar, LockMutex, TestQueue, Block, GetQueue, mapVars
      <4> QED BY <4>1 DEF Queue
    <3>5. Sent' = Sent /\ Coming' = Coming
      BY <3>2, <3>3, <1>t DEF Sent, Coming
    <3> QED BY <3>2, <3>3, <3>4, <3>5, <2>i, <1>t, <2>same
  <2>8. CASE ProcessConnects \/ ProcessDies \/ UNCHANGED vars
    <3>1. UNCHANGED <<got, arrived, active, data, pc, pairs>>
      BY <2>8 DEF ProcessConnects, ProcessDies, vars, histVars, envVars, mapVars
    <3>2. Sent' = Sent /\ Coming' = Coming /\ Queue' = Queue
      BY <3>1 DEF Sent, Coming, Queue
    <3> QED BY <3>1, <3>2, <2>i, <1>t, <2>same
  <2> QED BY <2>1, <2>2, <2>3, <2>4, <2>5, <2>6, <2>7, <2>8, <1>r DEF Next, StoreStep
<1> QED
  BY <1>1, <1>2

-----------------------------------------------------------------------------
(* Every measurement in one place.                                         *)

LEMMA PlacedStep ==
  Types /\ HasPairs /\ OneWorker /\ Single /\ Placed /\ [Next]_vars => Placed'
<1> SUFFICES ASSUME Types, HasPairs, OneWorker, Single, Placed, [Next]_vars,
                    retries' = 0, ~torn'
             PROVE  Placed'
  BY DEF Placed
<1> USE Threads
<1>t. /\ PlaceTypes /\ LocalTypes
      /\ got \in Seq(Numbers) /\ Len(got) \in Nat /\ swallowed \subseteq Numbers
      /\ arrived \in Nat /\ retries \in Nat /\ active \in Workers
      /\ Queue \in Seq(Numbers) /\ Len(Queue) \in Nat
      /\ \A t \in Thread : data[t] \in Numbers
  <2>1. Types /\ PlaceTypes /\ LocalTypes /\ HistTypes /\ pairs \in Seq(Seq(Numbers))
    BY DEF Types, MapTypes
  <2>2. Queue \in Seq(Numbers)
    BY <2>1, EmptySeq DEF Queue, Last
  <2>3. Len(got) \in Nat /\ Len(Queue) \in Nat
    BY <2>1, <2>2, LenProperties DEF HistTypes
  <2> QED BY <2>1, <2>2, <2>3 DEF HistTypes, LocalTypes
<1>r. retries = 0 /\ \A w \in Workers : ~ReceiveAgain(w)
  <2>1. ASSUME NEW w \in Workers PROVE ~ReceiveAgain(w)
    BY <1>t DEF ReceiveAgain
  <2> QED BY <2>1, <1>t DEF Next, Receive, StoreStep, HasQueue, ScanQueue, LinkQueue,
       UseMaps, FindMutex, LinkMutex, FindCondVar, LinkCondVar, EnqueueToMap, Notify,
       ConsumerStep, TakeProcess, LockMutex, TestQueue, Block, GetQueue, SafeDequeue,
       SendToProcess, SendFails, PutBack, SpuriousWakeup, ProcessConnects, ProcessDies, vars,
       histVars
<1>z. ~torn
  BY TornStep
<1>w. ASSUME NEW w \in Workers, Receive(w) \/ StoreStep(w)
      PROVE  w = active /\ UNCHANGED <<active, got, swallowed>>
  <2>1. UNCHANGED <<active, got, swallowed>>
    BY <1>w DEF Receive, StoreStep, HasQueue, ScanQueue, LinkQueue, UseMaps, FindMutex,
       LinkMutex, FindCondVar, LinkCondVar, EnqueueToMap, Notify, histVars, envVars
  <2>2. w = active \/ pc[w] # "idle"
    BY <1>w DEF Receive, StoreStep, HasQueue, ScanQueue, LinkQueue, UseMaps, FindMutex,
       LinkMutex, FindCondVar, LinkCondVar, EnqueueToMap, Notify
  <2> QED BY <2>1, <2>2, <1>r DEF OneWorker
\* Places and amounts, before the step and as far as it leaves them alone.
<1> DEFINE G == ToSet(got)
           Q == ToSet(Queue)
           S == swallowed
           hold == Len(Taken)
           lost == Cardinality(swallowed)
<1>n. /\ IsFiniteSet(swallowed) /\ lost \in Nat
      /\ Coming \in {0, 1}
      /\ hold = IF pc[Consumer] \in {"send", "putback"} THEN 1 ELSE 0
      /\ hold' = IF pc'[Consumer] \in {"send", "putback"} THEN 1 ELSE 0
  <2>1. IsFiniteSet(swallowed)
    <3>1. IsFiniteSet(0..MaxReceived)
      BY FS_Interval
    <3> QED BY <3>1, <1>t, FS_Subset DEF Numbers
  <2>2. lost \in Nat
    BY <2>1, FS_CardinalityType
  <2>3. Len(<<>>) = 0 /\ \A m : Len(<<m>>) = 1
    OBVIOUS
  <2> QED BY <2>1, <2>2, <2>3 DEF Taken, Coming
<1>p. /\ G \cup Held \cup Q \cup S \cup Read = 1..arrived
      /\ Len(got) + hold + Len(Queue) + lost + Coming = arrived
      /\ IsInjective(Queue)
      /\ Held \cap Q = {} /\ Held \cap S = {} /\ Held \cap Read = {}
      /\ Q \cap S = {} /\ Q \cap Read = {} /\ S \cap Read = {}
  BY <1>r, <1>z DEF Placed
<1> HIDE DEF hold, lost
<1>a. /\ Len(got) + hold + Len(Queue) + lost + Coming = arrived
      /\ Len(got) \in Nat /\ hold \in Nat /\ Len(Queue) \in Nat /\ lost \in Nat /\ Coming \in Nat
  BY <1>n, <1>p, <1>t
<1>q. \/ Queue' = Queue /\ ~SafeDequeue /\ ~PutBack /\ \A w \in Workers : ~EnqueueToMap(w)
      \/ \E w \in Workers : EnqueueToMap(w) /\ Queue' = Append(Queue, data[w])
      \/ /\ SafeDequeue /\ Queue # <<>> /\ Queue' = Tail(Queue)
         /\ data' = [data EXCEPT ![Consumer] = Head(Queue)]
      \/ PutBack /\ Queue' = Append(Queue, data[Consumer])
  <2>1. Calm'
    BY DEF Calm
  <2> QED BY <2>1, CalmQueue
\* A step that moves nothing.
<1>same. ASSUME Queue' = Queue, UNCHANGED <<got, swallowed, arrived>>,
                Held' = Held, hold' = hold, Read' = Read, Coming' = Coming
         PROVE  Placed'
  <2>1. lost' = lost /\ G' = G /\ Q' = Q
    BY <1>same DEF lost, ToSet
  <2>2. Len(got') + hold' + Len(Queue') + lost' + Coming' = arrived'
    BY <1>same, <1>a, <2>1
  <2>3. Len(got') + Len(Taken)' + Len(Queue') + Cardinality(swallowed)' + Coming' = arrived'
    BY <2>2 DEF hold, lost
  <2>4. IsInjective(Queue)' = IsInjective(Queue)
    BY <1>same DEF IsInjective
  <2> QED BY <1>same, <1>p, <2>1, <2>3, <2>4 DEF Placed
\* The amounts are as Placed counts them, and so are the places.
<1>placed. ASSUME G' \cup Held' \cup ToSet(Queue)' \cup swallowed' \cup Read' = 1..arrived',
                  Len(got') + hold' + Len(Queue') + lost' + Coming' = arrived',
                  IsInjective(Queue)',
                  Held' \cap Q' = {}, Held' \cap swallowed' = {}, Held' \cap Read' = {},
                  Q' \cap swallowed' = {}, Q' \cap Read' = {}, swallowed' \cap Read' = {}
           PROVE  Placed'
  <2>1. Len(got') + Len(Taken)' + Len(Queue') + Cardinality(swallowed)' + Coming' = arrived'
    BY <1>placed DEF hold, lost
  <2> QED BY <1>placed, <2>1 DEF Placed
<1>1. ASSUME NEW w \in Workers, Receive(w) PROVE Placed'
  <2>1. /\ w = active /\ UNCHANGED <<active, got, swallowed>>
        /\ Queue' = Queue
        /\ arrived' = arrived + 1 /\ pc[w] = "idle"
        /\ data' = [data EXCEPT ![w] = arrived + 1] /\ Goto(w, "hasq")
    BY <1>1, <1>w DEF Receive, mapVars, Queue
  <2>2. /\ data'[w] = arrived + 1 /\ data'[Consumer] = data[Consumer]
        /\ pc'[w] = "hasq" /\ pc'[Consumer] = pc[Consumer]
    BY <2>1, <1>t DEF Goto, PlaceTypes, LocalTypes
  <2>3. /\ Held' = Held /\ hold' = hold
        /\ Read = {} /\ Read' = {arrived + 1} /\ Coming = 0 /\ Coming' = 1
    BY <2>1, <2>2, <1>n DEF Held, Read, Coming
  <2>4. lost' = lost /\ G' = G /\ Q' = Q
    BY <2>1 DEF lost, ToSet
  <2>5. Len(got') + hold' + Len(Queue') + lost' + Coming' = arrived'
    BY <2>1, <2>3, <2>4, <1>a
  <2>6. 1..arrived' = 1..arrived \cup {arrived + 1} /\ arrived + 1 \notin 1..arrived
    BY <2>1, <1>t
  <2>7. IsInjective(Queue)'
    BY <2>1, <1>p DEF IsInjective
  <2> HIDE DEF G, Q
  <2>8. /\ G' \cup Held' \cup Q' \cup swallowed' \cup Read' = 1..arrived'
        /\ Held' \cap Q' = {} /\ Held' \cap swallowed' = {} /\ Held' \cap Read' = {}
        /\ Q' \cap swallowed' = {} /\ Q' \cap Read' = {} /\ swallowed' \cap Read' = {}
    BY <2>1, <2>3, <2>4, <2>6, <1>p
  <2> QED BY <2>5, <2>7, <2>8, <1>placed DEF Q
<1>2. ASSUME NEW w \in Workers, EnqueueToMap(w) PROVE Placed'
  <2>1. w = active /\ UNCHANGED <<active, got, swallowed>>
    BY <1>2, <1>w DEF StoreStep
  <2>2. /\ pc[w] = "enqueue" /\ pc'[w] = "notify" /\ pc'[Consumer] = pc[Consumer]
        /\ UNCHANGED <<data, arrived>>
    BY <1>2, <1>t DEF EnqueueToMap, Goto, PlaceTypes, histVars
  <2>3. Queue' = Append(Queue, data[w])
    <3>1. ~SafeDequeue /\ ~PutBack
      BY <2>2, <1>2, <1>t DEF SafeDequeue, PutBack, Goto, PlaceTypes
    <3>2. PICK v \in Workers : EnqueueToMap(v) /\ Queue' = Append(Queue, data[v])
      BY <1>2, <1>q, <3>1
    <3>3. v = active
      BY <3>2, <1>w DEF StoreStep
    <3> QED BY <2>1, <3>2, <3>3
  <2>4. Held' = Held /\ hold' = hold /\ Read = {data[w]} /\ Read' = {} /\ Coming = 1 /\ Coming' = 0
    BY <2>1, <2>2, <1>n DEF Held, Read, Coming
  <2>5. /\ Len(Queue') = Len(Queue) + 1 /\ ToSet(Queue') = ToSet(Queue) \cup {data[w]}
    BY <2>3, <1>t, Appended, ToSetAppend
  <2>6. data[w] \notin ToSet(Queue)
    BY <2>4, <1>p
  <2>7. IsInjective(Queue)'
    <3>1. IsInjective(Append(Queue, data[w]))
      BY <2>6, <1>p, <1>t, InjectiveAppend
    <3> QED BY <3>1, <2>3 DEF IsInjective
  <2>8. lost' = lost /\ G' = G /\ Q' = Q \cup {data[w]}
    BY <2>1, <2>5 DEF lost, ToSet
  <2>9. Len(got') + hold' + Len(Queue') + lost' + Coming' = arrived'
    <3>1. Len(got') = Len(got) /\ Len(Queue') = Len(Queue) + 1 /\ arrived' = arrived
      BY <2>1, <2>2, <2>5
    <3> QED BY <2>4, <2>8, <3>1, <1>a
  <2> HIDE DEF G, Q
  <2>10. /\ G' \cup Held' \cup Q' \cup swallowed' \cup Read' = 1..arrived'
         /\ Held' \cap Q' = {} /\ Held' \cap swallowed' = {} /\ Held' \cap Read' = {}
         /\ Q' \cap swallowed' = {} /\ Q' \cap Read' = {} /\ swallowed' \cap Read' = {}
    BY <2>1, <2>2, <2>4, <2>8, <1>p
  <2> QED BY <2>7, <2>9, <2>10, <1>placed DEF Q
<1>3. ASSUME NEW w \in Workers, StoreStep(w), ~EnqueueToMap(w) PROVE Placed'
  <2>1. /\ w = active /\ UNCHANGED <<active, got, swallowed, arrived>>
        /\ data'[Consumer] = data[Consumer]
        /\ pc'[Consumer] = pc[Consumer]
           \/ (pc[Consumer] = "blocked" /\ pc'[Consumer] = "woken")
        /\ pc[w] \in {"idle", "notify"} <=> pc'[w] \in {"idle", "notify"}
        /\ pc[w] \in {"idle", "notify"} \/ data'[w] = data[w]
    <3>1. CASE Notify(w)
      <4>1. /\ pc[w] = "notify" /\ pc'[w] = "idle"
            /\ pc'[Consumer] = pc[Consumer]
               \/ (pc[Consumer] = "blocked" /\ pc'[Consumer] = "woken")
        BY <3>1, <1>t, NotifyPlaces DEF Notify
      <4>2. data'[Consumer] = data[Consumer] /\ UNCHANGED arrived
        BY <3>1, <1>t DEF Notify, Leave, LocalTypes, histVars
      <4> QED BY <4>1, <4>2, <1>3, <1>w
    <3>2. CASE ~Notify(w)
      <4>1. /\ UNCHANGED <<arrived, data>> /\ pc[w] \notin {"idle", "notify"}
            /\ \E place : Goto(w, place) /\ place \notin {"idle", "notify"}
        BY <1>3, <3>2 DEF StoreStep, HasQueue, ScanQueue, LinkQueue, UseMaps, FindMutex,
           LinkMutex, FindCondVar, LinkCondVar, histVars
      <4>2. pc'[w] \notin {"idle", "notify"} /\ pc'[Consumer] = pc[Consumer]
        BY <4>1, <1>t DEF Goto, PlaceTypes
      <4> QED BY <4>1, <4>2, <1>3, <1>w
    <3> QED BY <3>1, <3>2
  <2>2. Queue' = Queue
    <3>1. ~SafeDequeue /\ ~PutBack
      BY <2>1, <1>t DEF SafeDequeue, PutBack, Goto, PlaceTypes
    <3>2. ASSUME NEW v \in Workers PROVE ~EnqueueToMap(v)
      BY <1>3, <2>1, <1>w DEF StoreStep
    <3> QED BY <3>1, <3>2, <1>q
  <2>3. Held' = Held /\ hold' = hold
    BY <2>1, <1>n DEF Held
  <2>4. Read' = Read /\ Coming' = Coming
    BY <2>1 DEF Read, Coming
  <2> QED BY <2>1, <2>2, <2>3, <2>4, <1>same
<1>4. CASE SafeDequeue
  <2>1. /\ pc[Consumer] = "dequeue" /\ pc'[Consumer] = "send"
        /\ \A w \in Workers : pc'[w] = pc[w]
        /\ UNCHANGED <<got, swallowed, arrived, active>>
    BY <1>4, <1>t DEF SafeDequeue, Goto, PlaceTypes, envVars, histVars
  <2>2. /\ Queue # <<>> /\ Queue' = Tail(Queue)
        /\ data' = [data EXCEPT ![Consumer] = Head(Queue)]
    <3>1. \A w \in Workers : ~EnqueueToMap(w)
      BY <2>1, <1>t DEF EnqueueToMap, Goto, PlaceTypes
    <3>2. ~PutBack
      BY <2>1 DEF PutBack
    <3> QED BY <1>4, <3>1, <3>2, <1>q
  <2>3. data'[Consumer] = Head(Queue) /\ data'[active] = data[active]
    BY <2>2, <1>t DEF LocalTypes
  <2>4. /\ Held = {} /\ Held' = {Head(Queue)} /\ hold = 0 /\ hold' = 1
        /\ Read' = Read /\ Coming' = Coming
    BY <2>1, <2>3, <1>n, <1>t DEF Held, Read, Coming
  <2>5. /\ Len(Queue') = Len(Queue) - 1
        /\ ToSet(Queue) = {Head(Queue)} \cup ToSet(Queue')
        /\ Head(Queue) \notin ToSet(Queue')
    BY <2>2, <1>t, <1>p, Shortened, ToSetTail, InjectiveTail
  <2>6. IsInjective(Queue)'
    <3>1. IsInjective(Tail(Queue))
      BY <2>2, <1>p, <1>t, InjectiveTail
    <3> QED BY <3>1, <2>2 DEF IsInjective
  <2>7. lost' = lost /\ G' = G /\ Q = {Head(Queue)} \cup Q' /\ Head(Queue) \notin Q'
    BY <2>1, <2>5 DEF lost, ToSet
  <2>8. Len(got') + hold' + Len(Queue') + lost' + Coming' = arrived'
    BY <2>1, <2>4, <2>5, <2>7, <1>a
  <2> HIDE DEF G, Q
  <2>9. /\ G' \cup Held' \cup Q' \cup swallowed' \cup Read' = 1..arrived'
        /\ Held' \cap Q' = {} /\ Held' \cap swallowed' = {} /\ Held' \cap Read' = {}
        /\ Q' \cap swallowed' = {} /\ Q' \cap Read' = {} /\ swallowed' \cap Read' = {}
    BY <2>1, <2>4, <2>7, <1>p
  <2> QED BY <2>6, <2>8, <2>9, <1>placed DEF Q
\* It reaches the process, or is lost on the way to one that is down.
<1>5. CASE SendToProcess
  <2> DEFINE d == data[Consumer]
  <2>1. /\ pc[Consumer] = "send" /\ pc'[Consumer] = "findmtx"
        /\ \A w \in Workers : pc'[w] = pc[w]
        /\ UNCHANGED <<pairs, arrived, active>>
        /\ data'[active] = data[active]
    BY <1>5, <1>t DEF SendToProcess, Goto, Leave, PlaceTypes, LocalTypes, mapVars, envVars
  <2>2. /\ Held = {d} /\ Held' = {} /\ hold = 1 /\ hold' = 0
        /\ Read' = Read /\ Coming' = Coming /\ Queue' = Queue
    BY <2>1, <1>n, <1>t DEF Held, Read, Coming, Queue
  <2>3. IsInjective(Queue)'
    BY <2>2, <1>p DEF IsInjective
  <2>4. Q' = Q
    BY <2>2 DEF ToSet
  <2>5. d \in Numbers
    BY <1>t
  <2>6. CASE got' = Append(got, d) /\ swallowed' = swallowed
    <3>1. Len(got') = Len(got) + 1 /\ ToSet(got') = ToSet(got) \cup {d}
      BY <2>5, <2>6, <1>t, Appended, ToSetAppend
    <3>2. lost' = lost /\ G' = G \cup {d}
      BY <2>6, <3>1 DEF lost, ToSet
    <3>3. Len(got') + hold' + Len(Queue') + lost' + Coming' = arrived'
      BY <2>1, <2>2, <3>1, <3>2, <1>a
    <3> HIDE DEF G, Q, d
    <3>4. /\ G' \cup Held' \cup Q' \cup swallowed' \cup Read' = 1..arrived'
          /\ Held' \cap Q' = {} /\ Held' \cap swallowed' = {} /\ Held' \cap Read' = {}
          /\ Q' \cap swallowed' = {} /\ Q' \cap Read' = {} /\ swallowed' \cap Read' = {}
      BY <2>1, <2>2, <2>4, <2>6, <3>2, <1>p
    <3> QED BY <2>3, <3>3, <3>4, <1>placed DEF Q
  <2>7. CASE swallowed' = swallowed \cup {d} /\ got' = got
    <3>1. d \notin swallowed
      BY <2>2, <1>p
    <3>2. lost' = lost + 1
      BY <2>7, <3>1, <1>n, FS_AddElement DEF lost
    <3>3. G' = G
      BY <2>7 DEF ToSet
    <3>4. Len(got') + hold' + Len(Queue') + lost' + Coming' = arrived'
      BY <2>1, <2>2, <2>7, <3>2, <1>a
    <3> HIDE DEF G, Q, d
    <3>5. /\ G' \cup Held' \cup Q' \cup swallowed' \cup Read' = 1..arrived'
          /\ Held' \cap Q' = {} /\ Held' \cap swallowed' = {} /\ Held' \cap Read' = {}
          /\ Q' \cap swallowed' = {} /\ Q' \cap Read' = {} /\ swallowed' \cap Read' = {}
      BY <2>1, <2>2, <2>4, <2>7, <3>3, <1>p
    <3> QED BY <2>3, <3>4, <3>5, <1>placed DEF Q
  <2> QED BY <1>5, <1>z, <2>6, <2>7 DEF SendToProcess
<1>6. CASE SendFails
  <2>1. /\ pc[Consumer] = "send" /\ pc'[Consumer] = "putback"
        /\ \A w \in Workers : pc'[w] = pc[w]
        /\ UNCHANGED <<pairs, got, swallowed, arrived, active, data>>
    BY <1>6, <1>t DEF SendFails, Goto, PlaceTypes, mapVars, histVars
  <2>2. Held' = Held /\ hold' = hold /\ Read' = Read /\ Coming' = Coming /\ Queue' = Queue
    BY <2>1, <1>n, <1>t DEF Held, Read, Coming, Queue
  <2> QED BY <2>1, <2>2, <1>same
<1>7. CASE PutBack
  <2> DEFINE d == data[Consumer]
  <2>1. /\ pc[Consumer] = "putback" /\ pc'[Consumer] = "findmtx"
        /\ \A w \in Workers : pc'[w] = pc[w]
        /\ UNCHANGED <<got, swallowed, arrived, active>>
        /\ data'[active] = data[active]
    BY <1>7, <1>t DEF PutBack, Goto, Leave, PlaceTypes, LocalTypes, envVars, histVars
  <2>2. Held = {d} /\ Held' = {} /\ hold = 1 /\ hold' = 0 /\ Read' = Read /\ Coming' = Coming
    BY <2>1, <1>n, <1>t DEF Held, Read, Coming
  <2>3. Queue' = Append(Queue, d) /\ d \in Numbers
    <3>1. ~SafeDequeue /\ \A w \in Workers : ~EnqueueToMap(w)
      BY <2>1, <1>t DEF SafeDequeue, EnqueueToMap, Goto, PlaceTypes
    <3> QED BY <1>7, <3>1, <1>q, <1>t
  <2>4. Len(Queue') = Len(Queue) + 1 /\ ToSet(Queue') = ToSet(Queue) \cup {d}
    BY <2>3, <1>t, Appended, ToSetAppend
  <2>5. d \notin ToSet(Queue)
    BY <2>2, <1>p
  <2>6. IsInjective(Queue)'
    <3>1. IsInjective(Append(Queue, d))
      BY <2>3, <2>5, <1>p, <1>t, InjectiveAppend
    <3> QED BY <3>1, <2>3 DEF IsInjective
  <2>7. lost' = lost /\ G' = G /\ Q' = Q \cup {d}
    BY <2>1, <2>4 DEF lost, ToSet
  <2>8. Len(got') + hold' + Len(Queue') + lost' + Coming' = arrived'
    BY <2>1, <2>2, <2>4, <2>7, <1>a
  <2> HIDE DEF G, Q, d
  <2>9. /\ G' \cup Held' \cup Q' \cup swallowed' \cup Read' = 1..arrived'
        /\ Held' \cap Q' = {} /\ Held' \cap swallowed' = {} /\ Held' \cap Read' = {}
        /\ Q' \cap swallowed' = {} /\ Q' \cap Read' = {} /\ swallowed' \cap Read' = {}
    BY <2>1, <2>2, <2>7, <1>p
  <2> QED BY <2>6, <2>8, <2>9, <1>placed DEF Q
<1>8. ASSUME ConsumerStep \/ SpuriousWakeup,
             ~SafeDequeue, ~SendToProcess, ~SendFails, ~PutBack
      PROVE  Placed'
  <2>1. /\ UNCHANGED <<pairs, got, swallowed, arrived, active, data>>
        /\ pc[Consumer] \notin {"send", "putback"}
        /\ \E place : Goto(Consumer, place) /\ place \notin {"send", "putback"}
    BY <1>8 DEF ConsumerStep, SpuriousWakeup, TakeProcess, UseMaps, FindMutex,
       LinkMutex, FindCondVar, LinkCondVar, LockMutex, TestQueue, Block, GetQueue,
       histVars, envVars, mapVars
  <2>2. pc'[Consumer] \notin {"send", "putback"} /\ \A w \in Workers : pc'[w] = pc[w]
    BY <2>1, <1>t DEF Goto, PlaceTypes
  <2>3. Held' = Held /\ hold' = hold /\ Read' = Read /\ Coming' = Coming /\ Queue' = Queue
    BY <2>1, <2>2, <1>n, <1>t DEF Held, Read, Coming, Queue
  <2> QED BY <2>1, <2>3, <1>same
<1>9. CASE ProcessConnects \/ ProcessDies \/ UNCHANGED vars
  <2>1. UNCHANGED <<pairs, got, swallowed, arrived, active, data, pc>>
    BY <1>9 DEF ProcessConnects, ProcessDies, vars, histVars, envVars, mapVars
  <2>2. Held' = Held /\ hold' = hold /\ Read' = Read /\ Coming' = Coming /\ Queue' = Queue
    BY <2>1, <1>n DEF Held, Read, Coming, Queue
  <2> QED BY <2>1, <2>2, <1>same
<1> QED
  BY <1>1, <1>2, <1>3, <1>4, <1>5, <1>6, <1>7, <1>8, <1>9, <1>r DEF Next

LEMMA UndamagedStep ==
  Types /\ HasPairs /\ Pointers /\ OneWorker /\ Single /\ Undamaged /\ [Next]_vars => Undamaged'
<1> SUFFICES ASSUME Types, HasPairs, Pointers, OneWorker, Single, Undamaged, [Next]_vars,
                    retries' = 0, torn'
             PROVE  nmtx' > 1
  BY DEF Undamaged
<1> USE Threads
<1>t. /\ nmtx \in Nat /\ nmtx' \in Nat /\ nmtx' >= nmtx /\ retries \in Nat
      /\ LocalTypes
  BY MapTypesStep DEF Types, MapTypes, HistTypes
<1>r. retries = 0
  <2>1. retries' = retries \/ retries' = retries + 1
    BY DEF Next, Receive, ReceiveAgain, StoreStep, HasQueue, ScanQueue, LinkQueue,
     UseMaps, FindMutex, LinkMutex, FindCondVar, LinkCondVar, EnqueueToMap, Notify,
     ConsumerStep, TakeProcess, LockMutex, TestQueue, Block, GetQueue, SafeDequeue,
     SendToProcess, SendFails, PutBack, SpuriousWakeup, ProcessConnects, ProcessDies, vars,
     histVars
  <2> QED BY <2>1, <1>t
<1>1. CASE torn
  BY <1>1, <1>r, <1>t DEF Undamaged
<1>2. CASE ~torn
  <2>1. PICK t \in Thread : Meddled(t) /\ pc[t] \in InQueue
    <3>1. ASSUME NEW w \in Workers, StoreStep(w) PROVE Meddled(w) /\ pc[w] \in InQueue
      BY <1>2, <3>1 DEF StoreStep, HasQueue, ScanQueue, LinkQueue, UseMaps, FindMutex,
         LinkMutex, FindCondVar, LinkCondVar, EnqueueToMap, Notify, mapVars, Tear, InQueue
    <3>2. ASSUME ConsumerStep PROVE Meddled(Consumer) /\ pc[Consumer] \in InQueue
      BY <1>2, <3>2 DEF ConsumerStep, TakeProcess, UseMaps, FindMutex, LinkMutex, FindCondVar,
         LinkCondVar, LockMutex, TestQueue, Block, GetQueue, SafeDequeue, SendToProcess,
         SendFails, PutBack, mapVars, Tear, InQueue
    <3> QED BY <1>2, <3>1, <3>2 DEF Next, Receive, ReceiveAgain, SpuriousWakeup,
               ProcessConnects, ProcessDies, vars, mapVars
  <2>2. PICK u \in Thread \ {t} : pc[u] \in InQueue /\ mtx[u] # mtx[t]
    BY <2>1 DEF Meddled
  \* One of the two is the consumer, for only one worker is not idle.
  <2>3. PICK w \in Workers : /\ {t, u} = {w, Consumer}
    <3>1. \A v \in Workers : pc[v] \in InQueue => v = active
      BY <1>r DEF OneWorker, InQueue
    <3> QED BY <2>1, <2>2, <3>1
  <2>4. pc[w] \in InQueue /\ pc[Consumer] \in InQueue /\ mtx[w] # mtx[Consumer]
    BY <2>1, <2>2, <2>3
  <2>5. pc[Consumer] \in {"dequeue", "putback"} /\ pc[w] \in {"scanq", "enqueue"}
    BY <2>4 DEF InQueue, Types, PlaceTypes, WorkerPlace, ConsumerPlace
  <2>6. pc[w] = "enqueue"
    <3>1. pairs # <<>>
      BY <2>5 DEF HasPairs
    <3>2. Calm
      BY <1>2, <1>r DEF Calm
    <3> QED BY <2>5, <3>1, <3>2 DEF Single
  <2>7. mtx[w] # 0 /\ mtx[Consumer] # 0
    BY <2>5, <2>6 DEF Pointers
  <2>8. mtx[w] \in 0..nmtx /\ mtx[Consumer] \in 0..nmtx
    BY <1>t DEF LocalTypes
  <2> QED BY <2>4, <2>7, <2>8, <1>t
<1> QED
  BY <1>1, <1>2

-----------------------------------------------------------------------------
(* The theorems.                                                           *)

LEMMA InitIInv == Init => IInv
<1> SUFFICES ASSUME Init PROVE IInv
  OBVIOUS
<1> USE Threads
<1>p. /\ pairs \in {<<>>, << <<>> >>} /\ pairs = (IF fresh THEN <<>> ELSE << <<>> >>)
      /\ fresh \in BOOLEAN /\ Queue = <<>>
      /\ nmtx \in {0, 1} /\ ncv \in {0, 1}
      /\ \A w \in Workers : pc[w] = "idle"
      /\ pc[Consumer] = IF fresh THEN "noproc" ELSE "findmtx"
      /\ arrived = 0 /\ got = <<>> /\ retries = 0 /\ torn = FALSE
  BY DEF Init, Queue, Last
<1>1. Types
  <2>1. MapTypes
    <3>1. <<>> \in Seq(Seq(Numbers)) /\ << <<>> >> \in Seq(Seq(Numbers))
      OBVIOUS
    <3>2. pairs \in Seq(Seq(Numbers)) /\ nmtx \in Nat /\ ncv \in Nat
      BY <1>p, <3>1
    <3>3. torn \in BOOLEAN
      BY <1>p
    <3> QED BY <3>2, <3>3 DEF MapTypes
  <2>2. PlaceTypes
    BY DEF Init, PlaceTypes, WorkerPlace, ConsumerPlace
  <2>3. LocalTypes
    <3>1. 0 \in Numbers /\ 0 \in 0..nmtx /\ 0 \in 0..ncv /\ 0 \in 0..Len(pairs)
      BY <1>p DEF Numbers
    <3> QED BY <3>1 DEF Init, LocalTypes
  <2>4. HistTypes
    <3>1. active \in Workers
      BY DEF Init
    <3>2. got \in Seq(Numbers) /\ swallowed \subseteq Numbers
      BY DEF Init
    <3>3. proc \in {"absent", "up", "down"} /\ broken \in BOOLEAN
      BY DEF Init
    <3>4. arrived \in Nat /\ retries \in Nat /\ arrived + retries <= MaxReceived
      BY <1>p
    <3> QED BY <3>1, <3>2, <3>3, <3>4, <1>p DEF HistTypes
  <2> QED BY <2>1, <2>2, <2>3, <2>4 DEF Types
<1>2. HasPairs /\ Pointers /\ BlocksOnEmpty /\ NoMissedWakeup
  BY <1>p DEF HasPairs, Pointers, BlocksOnEmpty, NoMissedWakeup, Locked, Init, Thread
<1>3. Counted
  <2>1. /\ At(Workers, "linkq") = {} /\ At(Thread, "linkmtx") = {} /\ At(Thread, "linkcv") = {}
    BY <1>p DEF At, Thread
  <2>2. Len(pairs) \in {0, 1}
    BY <1>p
  <2>3. /\ Cardinality(At(Workers, "linkq")) = 0 /\ Cardinality(At(Thread, "linkmtx")) = 0
        /\ Cardinality(At(Thread, "linkcv")) = 0
    BY <2>1, FS_EmptySet
  <2>4. \A n \in {0, 1} : n + 0 <= Cardinality(Workers) /\ n + 0 <= Cardinality(Thread)
    BY Finite
  <2>5. QueuesCounted
    BY <2>2, <2>3, <2>4 DEF QueuesCounted
  <2>6. MutexesCounted
    BY <1>p, <2>3, <2>4 DEF MutexesCounted
  <2>7. CondVarsCounted
    BY <1>p, <2>3, <2>4 DEF CondVarsCounted
  <2> QED BY <2>5, <2>6, <2>7 DEF Counted
<1>4. OneWorker /\ Single
  BY <1>p DEF OneWorker, Single
<1>5. Served /\ InLine /\ GotInOrder
  BY <1>1, <1>p DEF Init, Served, InLine, GotInOrder, Sent, Coming, Types, HistTypes
<1>6. Placed
  <2>1. /\ ToSet(got) = {} /\ ToSet(Queue) = {} /\ IsInjective(Queue)
        /\ Len(got) = 0 /\ Len(Queue) = 0
    BY <1>p, ToSetEmpty, InjectiveEmpty
  <2>2. Held = {} /\ Taken = <<>>
    BY <1>p DEF Held, Taken
  <2>3. active \in Workers /\ swallowed = {}
    BY DEF Init
  <2>4. Read = {} /\ Coming = 0
    BY <1>p, <2>3 DEF Read, Coming
  <2>5. Cardinality(swallowed) = 0 /\ Len(Taken) = 0
    BY <2>2, <2>3, FS_EmptySet
  <2> QED BY <1>p, <2>1, <2>2, <2>3, <2>4, <2>5 DEF Placed
<1>7. Undamaged
  BY <1>p DEF Undamaged
<1> QED
  BY <1>1, <1>2, <1>3, <1>4, <1>5, <1>6, <1>7 DEF IInv

LEMMA Invariance == Spec => []IInv
<1>1. IInv /\ [Next]_vars => IInv'
  BY TypesStep, CountedStep, PointersStep, WakeupStep, OneWorkerStep, SingleStep,
     ServedStep, OrderStep, PlacedStep, UndamagedStep DEF IInv
<1> QED
  BY InitIInv, <1>1, PTL DEF Spec

\* Every variable keeps its type; in particular the unlocked insertions into the
\* three maps make at most one entry per thread.
THEOREM TypeCorrect == Spec => []TypeOK
<1>1. IInv => TypeOK
  <2> SUFFICES ASSUME IInv PROVE TypeOK
    OBVIOUS
  <2>1. MapTypes /\ PlaceTypes /\ LocalTypes /\ HistTypes /\ Counted
    BY DEF IInv, Types
  <2>2. /\ At(Workers, "linkq") \in SUBSET Workers
        /\ At(Thread, "linkmtx") \in SUBSET Thread /\ At(Thread, "linkcv") \in SUBSET Thread
    BY DEF At
  <2>3. /\ Cardinality(At(Workers, "linkq")) \in Nat
        /\ Cardinality(At(Thread, "linkmtx")) \in Nat
        /\ Cardinality(At(Thread, "linkcv")) \in Nat
    BY <2>2, Finite, FS_Subset, FS_CardinalityType
  <2>4. Len(pairs) \in Nat
    BY <2>1 DEF MapTypes
  <2>5. /\ Len(pairs) \in 0..Cardinality(Workers)
        /\ nmtx \in 0..Cardinality(Thread) /\ ncv \in 0..Cardinality(Thread)
    BY <2>1, <2>3, <2>4, Finite
       DEF MapTypes, Counted, QueuesCounted, MutexesCounted, CondVarsCounted
  <2>6. arrived \in 0..MaxReceived /\ retries \in 0..MaxReceived
    BY <2>1, Threads DEF HistTypes
  <2> QED BY <2>1, <2>5, <2>6
          DEF TypeOK, MapTypes, PlaceTypes, LocalTypes, HistTypes, Numbers
<1> QED
  BY <1>1, Invariance, PTL

\* However the threads race on the maps of mutexes and condition variables, none
\* of them uses the null pointer of an entry that is not there.
THEOREM PointersAreValid == Spec => []NoNullPointer
<1>1. IInv => NoNullPointer
  BY DEF IInv, Pointers, NoNullPointer
<1> QED
  BY <1>1, Invariance, PTL

\* With one mutex and one condition variable the consumer sleeps on a queue that
\* holds something only while a worker is about to notify it.
THEOREM WakeupsArrive == Spec => []NoMissedWakeup
<1>1. IInv => NoMissedWakeup
  BY DEF IInv
<1> QED
  BY <1>1, Invariance, PTL

\* The consumer dequeues from a queue that holds something, although it has let
\* go of the mutex since it looked, unless the queue was emptied by a repetition
\* or two threads were in it at once.
THEOREM DequeuesSomething == Spec => []NothingInvented
<1>1. IInv => NothingInvented
  <2> SUFFICES ASSUME IInv, pc[Consumer] = "dequeue", Calm
               PROVE  cq # 0 /\ pairs[cq] # <<>>
    BY DEF NothingInvented, Calm
  <2>1. cq = Len(pairs) /\ Queue # <<>>
    BY DEF IInv, Single
  <2>2. pairs # <<>> /\ Queue = pairs[Len(pairs)]
    BY <2>1 DEF Queue, Last
  <2>3. pairs \in Seq(Seq(Numbers))
    BY DEF IInv, Types, MapTypes
  <2> QED BY <2>1, <2>2, <2>3, EmptySeq
<1> QED
  BY <1>1, Invariance, PTL

\* The copy process gets the measurements in the order in which the original
\* sent them, unless the original repeats one or two threads were in the queue
\* at once.
THEOREM ForwardsInOrder == Spec => []ForwardedInOrder
<1>1. IInv => ForwardedInOrder
  <2> SUFFICES ASSUME IInv, retries = 0, ~torn PROVE got = [i \in 1..Len(got) |-> i]
    BY DEF ForwardedInOrder
  <2>1. got \in Seq(Numbers) /\ \A i \in 1..Len(got) : got[i] = i
    BY DEF IInv, Types, HistTypes, GotInOrder
  <2> QED BY <2>1
<1> QED
  BY <1>1, Invariance, PTL

\* As long as the original repeats nothing, each measurement a worker has read is
\* in exactly one place, whether the copy process lives or not: nothing is lost
\* or doubled by the hand-over through the maps or by a failed send, until two
\* threads are in the queue at once, for which it takes two mutexes.
THEOREM NothingLostOrDoubled == Spec => []Conserved
<1>1. IInv => Conserved
  <2> SUFFICES ASSUME IInv, retries = 0, ~torn
               PROVE  LET s == got \o Taken \o Queue IN
                      /\ s \in [1..Len(s) -> 1..arrived]
                      /\ ToSet(s) \cup swallowed \cup Unstored = 1..arrived
                      /\ Len(s) + Cardinality(swallowed) + Cardinality(Unstored) = arrived
    <3>1. IInv /\ retries = 0 /\ torn => nmtx > 1
      BY DEF IInv, Undamaged
    <3> QED BY <3>1 DEF Conserved
  <2> DEFINE q == got \o Taken
             s == q \o Queue
  <2>1. /\ got \in Seq(Numbers) /\ Queue \in Seq(Numbers) /\ active \in Workers
        /\ data[Consumer] \in Numbers
    <3>1. pairs \in Seq(Seq(Numbers)) /\ HistTypes /\ LocalTypes
      BY DEF IInv, Types, MapTypes
    <3> QED BY <3>1, Threads, EmptySeq DEF HistTypes, LocalTypes, Queue, Last
  <2>2. Taken \in Seq(Numbers) /\ ToSet(Taken) = Held
    <3>1. CASE pc[Consumer] \in {"send", "putback"}
      <4>1. Taken = <<data[Consumer]>>
        BY <3>1 DEF Taken
      <4>2. <<data[Consumer]>> \in Seq(Numbers)
        BY <2>1
      <4> QED BY <3>1, <4>1, <4>2, ToSetOne DEF Held
    <3>2. CASE pc[Consumer] \notin {"send", "putback"}
      <4>1. Taken = <<>> /\ <<>> \in Seq(Numbers)
        BY <3>2 DEF Taken
      <4> QED BY <3>2, <4>1, ToSetEmpty DEF Held
    <3> QED BY <3>1, <3>2
  <2>3. Unstored = Read /\ Cardinality(Unstored) = Coming
    <3>1. {v \in Workers : pc[v] \notin {"idle", "notify"}}
          = IF pc[active] \in {"idle", "notify"} THEN {} ELSE {active}
      BY <2>1 DEF IInv, OneWorker
    <3>2. Unstored = Read
      BY <3>1 DEF Unstored, Read
    <3>3. Cardinality(Read) = Coming
      BY FS_EmptySet, FS_Singleton DEF Read, Coming
    <3> QED BY <3>2, <3>3
  <2>4. /\ s \in Seq(Numbers) /\ Len(s) = Len(got) + Len(Taken) + Len(Queue)
        /\ ToSet(s) = ToSet(got) \cup Held \cup ToSet(Queue)
    <3>1. /\ q \in Seq(Numbers) /\ Len(q) = Len(got) + Len(Taken)
          /\ ToSet(q) = ToSet(got) \cup ToSet(Taken)
      BY <2>1, <2>2, ToSetConcat
    <3> HIDE DEF q
    <3>2. /\ s \in Seq(Numbers) /\ Len(s) = Len(q) + Len(Queue)
          /\ ToSet(s) = ToSet(q) \cup ToSet(Queue)
      BY <2>1, <3>1, ToSetConcat, SMTT(30)
    <3> HIDE DEF s
    <3>3. Len(s) = Len(got) + Len(Taken) + Len(Queue)
      BY <3>1, <3>2
    <3>4. ToSet(s) = ToSet(got) \cup Held \cup ToSet(Queue)
      BY <2>2, <3>1, <3>2
    <3> QED BY <3>2, <3>3, <3>4
  <2> HIDE DEF q, s
  <2>5. /\ ToSet(got) \cup Held \cup ToSet(Queue) \cup swallowed \cup Read = 1..arrived
        /\ Len(got) + Len(Taken) + Len(Queue) + Cardinality(swallowed) + Coming = arrived
    BY DEF IInv, Placed
  <2>6. s \in [1..Len(s) -> 1..arrived]
    <3>1. \A i \in 1..Len(s) : s[i] \in ToSet(s)
      BY <2>4, InToSet
    <3>2. ToSet(s) \subseteq 1..arrived
      BY <2>4, <2>5
    <3> QED BY <2>4, <3>1, <3>2
  <2>7. ToSet(s) \cup swallowed \cup Unstored = 1..arrived
    BY <2>3, <2>4, <2>5
  <2>8. Len(s) + Cardinality(swallowed) + Cardinality(Unstored) = arrived
    BY <2>3, <2>4, <2>5
  <2> QED BY <2>6, <2>7, <2>8 DEF q, s
<1> QED
  BY <1>1, Invariance, PTL

=============================================================================
