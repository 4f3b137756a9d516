--------------------------- MODULE QueueDelivery ---------------------------
(***************************************************************************)
(* The replication path: the delivery thread of the original server        *)
(* (Replication.cpp, QueueDeliveryThread) takes the measurements its        *)
(* handlers queued per device and hands them, one acknowledged message at  *)
(* a time, to the workers of the copy server (CopyService.cpp, acceptor    *)
(* and EnqueueAndNotifyThread), which queue them per device again.         *)
(*                                                                         *)
(* Threads interleave at the granularity of their critical sections and    *)
(* socket calls.  A connection is a number; the bytes in its two           *)
(* directions are the measurements in wire[c] and the count acks[c] of     *)
(* unread acknowledgement bytes.  A measurement is its device and its      *)
(* place in the order the device's measurements reached the original;      *)
(* value, type and time of day decide nothing here.                        *)
(***************************************************************************)
EXTENDS Naturals, Sequences, SequencesExt

CONSTANTS
  NumDevices,     \* NUM_DEVICES: devices are 1..NumDevices
  Workers,        \* the pool of EnqueueAndNotifyThread threads of the copy
  QueueCapacity,  \* slots of the copy's socketQueue
  Registered,     \* devices the copy already has a queue for when we look
  MaxMessages,    \* bound: measurements per device
  MaxConns,       \* bound: connections ever opened by the delivery thread
  MaxTimeouts,    \* bound: acknowledgements that take longer than 1 s
  MaxCrashes      \* bound: crashes of the copy server

Device == 1..NumDevices
Conn == 1..MaxConns
Measurement == [deviceId : Device, seq : Nat]

\* What deviceSockets[d] can hold besides a connection: 0 is the value the
\* aggregate initialiser leaves in every element but the first.
Zero == 0
Invalid == MaxConns + 1

ASSUME ConstantsAssumption ==
  /\ NumDevices \in Nat \ {0}
  /\ QueueCapacity \in Nat \ {0}
  /\ Registered \subseteq Device
  /\ MaxMessages \in Nat
  /\ MaxConns \in Nat
  /\ MaxTimeouts \in Nat
  /\ MaxCrashes \in Nat

VARIABLES
  \* the original server
  known,      \* devices with a queue and a mutex in the original's maps
  produced,   \* measurements a handler has queued so far, per device
  oq,         \* messageQueues of the original
  cur,        \* deviceId: the device the delivery thread is at
  tpc,        \* where the delivery thread is
  msg,        \* m: its copy of the head of the queue
  sock,       \* deviceSockets
  \* the connections
  nconn,      \* connections opened so far
  wire,       \* measurements sent and not yet read by the copy
  acks,       \* acknowledgement bytes sent and not yet read by the original
  broken,     \* connections 1..broken died with a crash of the copy
  \* the copy server
  up,         \* it is running
  backlog,    \* connections its listener has not accepted yet
  socketQueue,\* accepted connections no worker has taken yet
  wpc, wsock, wdata,  \* each worker: where it is, its socket, its data
  registered, \* devices with an entry in the copy's messageQueues
  cq,         \* messageQueues of the copy
  \* history and bounds
  received,   \* measurements a worker has ever read, per device
  timeouts, crashes

origVars == <<known, produced, oq>>
threadVars == <<cur, tpc, msg, sock>>
netVars == <<nconn, wire, acks, broken>>
copyVars == <<up, backlog, socketQueue, wpc, wsock, wdata, registered, cq>>
vars == <<origVars, threadVars, netVars, copyVars, received, timeouts, crashes>>

\* (Each Wrong... operator is a plausible bug in the definition after it; no
\* specification uses it.)
WrongNextDevice(d) == d + 1

NextDevice(d) == IF d = NumDevices THEN 1 ELSE d + 1

\* The original has not closed its end of connection c.
Open(c) == \E d \in Device : sock[d] = c

\* Connection c reaches the running copy server.
Alive(c) == c \in Conn /\ c > broken

\* The copy accepted connection c and, its request queue full, forgot it.
Dropped(c) ==
  /\ c \notin ToSet(backlog) \cup ToSet(socketQueue)
  /\ \A w \in Workers : wpc[w] # "wait" => wsock[w] # c

Blank == [deviceId |-> 1, seq |-> 0]

Init ==
  /\ known = {}
  /\ produced = [d \in Device |-> 0]
  /\ oq = [d \in Device |-> <<>>]
  /\ cur = 1 /\ tpc = "scan" /\ msg = Blank
  /\ sock = [d \in Device |-> Zero]
  /\ nconn = 0 /\ broken = 0
  /\ wire = [c \in Conn |-> <<>>]
  /\ acks = [c \in Conn |-> 0]
  /\ up = TRUE /\ backlog = <<>> /\ socketQueue = <<>>
  /\ wpc = [w \in Workers |-> "wait"]
  /\ wsock = [w \in Workers |-> 0]
  /\ wdata = [w \in Workers |-> Blank]
  /\ registered = Registered
  /\ cq = [d \in Device |-> <<>>]
  /\ received = [d \in Device |-> {}]
  /\ timeouts = 0 /\ crashes = 0

-----------------------------------------------------------------------------
(* The handler of the original server that serves device d.                *)

\* First measurement of a device: its queue and its mutex are created.
InitializeQu(d) ==
  /\ d \notin known
  /\ known' = known \cup {d}
  /\ UNCHANGED <<produced, oq, threadVars, netVars, copyVars, received, timeouts, crashes>>

\* Every measurement is appended to the device's queue, under its mutex.
HandlerEnqueue(d) ==
  /\ d \in known
  /\ produced[d] < MaxMessages
  /\ produced' = [produced EXCEPT ![d] = @ + 1]
  /\ oq' = [oq EXCEPT ![d] = Append(@, [deviceId |-> d, seq |-> produced[d] + 1])]
  /\ UNCHANGED <<known, threadVars, netVars, copyVars, received, timeouts, crashes>>

-----------------------------------------------------------------------------
(* QueueDeliveryThread.                                                    *)

\* Nothing to send for this device: on to the next one.
SkipDevice ==
  /\ tpc = "scan"
  /\ cur \notin known \/ oq[cur] = <<>>
  /\ cur' = NextDevice(cur)
  /\ UNCHANGED <<tpc, msg, sock, origVars, netVars, copyVars, received, timeouts, crashes>>

WrongPeekHead ==
  /\ tpc = "scan"
  /\ cur \in known /\ oq[cur] # <<>>
  /\ msg' = Last(oq[cur])
  /\ tpc' = IF sock[cur] = Invalid THEN "connect" ELSE "send"
  /\ UNCHANGED <<cur, sock, origVars, netVars, copyVars, received, timeouts, crashes>>

\* The head is copied, not removed, under the device's mutex.
PeekHead ==
  /\ tpc = "scan"
  /\ cur \in known /\ oq[cur] # <<>>
  /\ msg' = Head(oq[cur])
  /\ tpc' = IF sock[cur] = Invalid THEN "connect" ELSE "send"
  /\ UNCHANGED <<cur, sock, origVars, netVars, copyVars, received, timeouts, crashes>>

\* Connector succeeds as soon as the copy listens, before anyone accepts.
Connect ==
  /\ tpc = "connect"
  /\ up
  /\ nconn < MaxConns
  /\ nconn' = nconn + 1
  /\ sock' = [sock EXCEPT ![cur] = nconn + 1]
  /\ backlog' = Append(backlog, nconn + 1)
  /\ tpc' = "send"
  /\ UNCHANGED <<cur, msg, origVars, wire, acks, broken, up, socketQueue,
                 wpc, wsock, wdata, registered, cq, received, timeouts, crashes>>

ConnectFails ==
  /\ tpc = "connect"
  /\ ~up
  /\ tpc' = "scan" /\ cur' = NextDevice(cur)
  /\ UNCHANGED <<msg, sock, origVars, netVars, copyVars, received, timeouts, crashes>>

\* SendMessageTo: send() ...
Send ==
  /\ tpc = "send"
  /\ Alive(sock[cur])
  /\ wire' = [wire EXCEPT ![sock[cur]] = Append(@, msg)]
  /\ tpc' = "ack"
  /\ UNCHANGED <<cur, msg, sock, origVars, nconn, acks, broken, copyVars,
                 received, timeouts, crashes>>

\* ... then select() finds the acknowledgement byte within a second ...
AckArrives ==
  /\ tpc = "ack"
  /\ acks[sock[cur]] > 0
  /\ acks' = [acks EXCEPT ![sock[cur]] = @ - 1]
  /\ tpc' = "acked"
  /\ UNCHANGED <<cur, msg, sock, origVars, nconn, wire, broken, copyVars,
                 received, timeouts, crashes>>

WrongDequeueAcked ==
  /\ tpc = "acked"
  /\ tpc' = "scan"
  /\ UNCHANGED <<oq, known, produced, cur, msg, sock, netVars, copyVars,
                 received, timeouts, crashes>>

\* ... and the caller removes the head of the queue, under the mutex again.
DequeueAcked ==
  /\ tpc = "acked"
  /\ oq' = [oq EXCEPT ![cur] = IF @ = <<>> THEN @ ELSE Tail(@)]
  /\ tpc' = "scan"
  /\ UNCHANGED <<known, produced, cur, msg, sock, netVars, copyVars,
                 received, timeouts, crashes>>

WrongGiveUp ==
  /\ cur' = NextDevice(cur)
  /\ tpc' = "scan"
  /\ UNCHANGED <<sock, msg, origVars, netVars, copyVars, received, crashes>>

\* SendMessageTo returned false: the socket is closed and forgotten, so that
\* the next attempt reconnects, and the thread turns to the next device.
GiveUp ==
  /\ sock' = [sock EXCEPT ![cur] = Invalid]
  /\ cur' = NextDevice(cur)
  /\ tpc' = "scan"
  /\ UNCHANGED <<msg, origVars, netVars, copyVars, received, crashes>>

\* send() fails: on the never opened socket 0 or on a broken connection.
SendFails ==
  /\ tpc = "send"
  /\ ~Alive(sock[cur])
  /\ GiveUp
  /\ UNCHANGED timeouts

WrongAckFails ==
  /\ tpc = "ack"
  /\ ~Alive(sock[cur])
  /\ tpc' = "acked"
  /\ UNCHANGED <<cur, msg, sock, origVars, netVars, copyVars, received, timeouts, crashes>>

\* The copy died; an acknowledgement it had sent may or may not survive it.
AckFails ==
  /\ tpc = "ack"
  /\ ~Alive(sock[cur])
  /\ GiveUp
  /\ UNCHANGED timeouts

WrongAckTimeout ==
  /\ tpc = "ack"
  /\ acks[sock[cur]] = 0
  /\ timeouts < MaxTimeouts /\ timeouts' = timeouts + 1
  /\ cur' = NextDevice(cur)
  /\ tpc' = "scan"
  /\ UNCHANGED <<sock, msg, origVars, netVars, copyVars, received, crashes>>

\* No acknowledgement within a second, whatever became of the message.  The
\* bound is on answers that are late, not on those that will never come.
AckTimeout ==
  /\ tpc = "ack"
  /\ acks[sock[cur]] = 0
  /\ \/ timeouts < MaxTimeouts /\ timeouts' = timeouts + 1
     \/ Dropped(sock[cur]) /\ UNCHANGED timeouts
  /\ GiveUp

-----------------------------------------------------------------------------
(* The copy server: acceptor on port 7000 and worker pool.                 *)

\* A full request queue drops the connection without closing it.
AcceptRequest ==
  /\ up
  /\ backlog # <<>>
  /\ backlog' = Tail(backlog)
  /\ socketQueue' = IF Len(socketQueue) < QueueCapacity
                    THEN Append(socketQueue, Head(backlog))
                    ELSE socketQueue
  /\ UNCHANGED <<origVars, threadVars, netVars, up, wpc, wsock, wdata,
                 registered, cq, received, timeouts, crashes>>

\* A worker waiting on serviceConnection takes a connection ...
TakeRequest(w) ==
  /\ up
  /\ wpc[w] = "wait"
  /\ socketQueue # <<>>
  /\ wsock' = [wsock EXCEPT ![w] = Head(socketQueue)]
  /\ socketQueue' = Tail(socketQueue)
  /\ wpc' = [wpc EXCEPT ![w] = "recv"]
  /\ UNCHANGED <<origVars, threadVars, netVars, up, backlog, wdata,
                 registered, cq, received, timeouts, crashes>>

\* ... reads a measurement from it ...
Receive(w) ==
  /\ up
  /\ wpc[w] = "recv"
  /\ wire[wsock[w]] # <<>>
  /\ LET m == Head(wire[wsock[w]]) IN
       /\ wdata' = [wdata EXCEPT ![w] = m]
       /\ received' = [received EXCEPT ![m.deviceId] = @ \cup {m.seq}]
  /\ wire' = [wire EXCEPT ![wsock[w]] = Tail(@)]
  /\ wpc' = [wpc EXCEPT ![w] = "reply"]
  /\ UNCHANGED <<origVars, threadVars, nconn, acks, broken, up, backlog,
                 socketQueue, wsock, registered, cq, timeouts, crashes>>

\* ... or sees that the original closed it, and waits for another one.
ReceiveClosed(w) ==
  /\ up
  /\ wpc[w] = "recv"
  /\ wire[wsock[w]] = <<>> /\ ~Open(wsock[w])
  /\ wpc' = [wpc EXCEPT ![w] = "wait"]
  /\ UNCHANGED <<origVars, threadVars, netVars, up, backlog, socketQueue,
                 wsock, wdata, registered, cq, received, timeouts, crashes>>

\* The acknowledgement goes out before the measurement is stored; on a
\* connection the original has closed it goes nowhere.
SendAck(w) ==
  /\ up
  /\ wpc[w] = "reply"
  /\ acks' = IF Open(wsock[w])
             THEN [acks EXCEPT ![wsock[w]] = @ + 1]
             ELSE acks
  /\ wpc' = [wpc EXCEPT ![w] = "lookup"]
  /\ UNCHANGED <<origVars, threadVars, nconn, wire, broken, up, backlog,
                 socketQueue, wsock, wdata, registered, cq, received, timeouts, crashes>>

WrongLookupQueue(w) ==
  /\ up
  /\ wpc[w] = "lookup"
  /\ wpc' = [wpc EXCEPT ![w] = "insert"]
  /\ UNCHANGED <<origVars, threadVars, netVars, up, backlog, socketQueue,
                 wsock, wdata, registered, cq, received, timeouts, crashes>>

\* contains_key, without a lock ...
LookupQueue(w) ==
  /\ up
  /\ wpc[w] = "lookup"
  /\ wpc' = [wpc EXCEPT ![w] = IF wdata[w].deviceId \in registered
                               THEN "enqueue" ELSE "insert"]
  /\ UNCHANGED <<origVars, threadVars, netVars, up, backlog, socketQueue,
                 wsock, wdata, registered, cq, received, timeouts, crashes>>

\* ... and insert_queue_to_map, without a lock either: a key that is there by
\* now has its queue emptied, a new one gets an empty queue.
InsertQueue(w) ==
  /\ up
  /\ wpc[w] = "insert"
  /\ registered' = registered \cup {wdata[w].deviceId}
  /\ cq' = [cq EXCEPT ![wdata[w].deviceId] = <<>>]
  /\ wpc' = [wpc EXCEPT ![w] = "enqueue"]
  /\ UNCHANGED <<origVars, threadVars, netVars, up, backlog, socketQueue,
                 wsock, wdata, received, timeouts, crashes>>

\* EnqueueToMap under the device's mutex.
EnqueueToMap(w) ==
  /\ up
  /\ wpc[w] = "enqueue"
  /\ cq' = [cq EXCEPT ![wdata[w].deviceId] = Append(@, wdata[w])]
  /\ wpc' = [wpc EXCEPT ![w] = "recv"]
  /\ UNCHANGED <<origVars, threadVars, netVars, up, backlog, socketQueue,
                 wsock, wdata, registered, received, timeouts, crashes>>

\* The copy server dies with everything it keeps in memory ...
Crash ==
  /\ up
  /\ crashes < MaxCrashes
  /\ crashes' = crashes + 1
  /\ up' = FALSE
  /\ broken' = nconn
  /\ backlog' = <<>> /\ socketQueue' = <<>>
  /\ wire' = [c \in Conn |-> <<>>]
  /\ wpc' = [w \in Workers |-> "wait"]
  /\ registered' = {}
  /\ cq' = [d \in Device |-> <<>>]
  /\ UNCHANGED <<origVars, threadVars, nconn, acks, wsock, wdata, received, timeouts>>

\* ... and is started again.
Restart ==
  /\ ~up
  /\ up' = TRUE
  /\ UNCHANGED <<origVars, threadVars, netVars, backlog, socketQueue, wpc,
                 wsock, wdata, registered, cq, received, timeouts, crashes>>

-----------------------------------------------------------------------------

Handler(d) == InitializeQu(d) \/ HandlerEnqueue(d)

DeliveryThread ==
  \/ SkipDevice \/ PeekHead
  \/ Connect \/ ConnectFails
  \/ Send \/ SendFails
  \/ AckArrives \/ AckFails \/ AckTimeout
  \/ DequeueAcked

Worker(w) ==
  \/ TakeRequest(w) \/ Receive(w) \/ ReceiveClosed(w) \/ SendAck(w)
  \/ LookupQueue(w) \/ InsertQueue(w) \/ EnqueueToMap(w)

Next ==
  \/ \E d \in Device : Handler(d)
  \/ DeliveryThread
  \/ AcceptRequest
  \/ \E w \in Workers : Worker(w)
  \/ Crash \/ Restart

Spec == Init /\ [][Next]_vars

\* Every thread of the two servers keeps running, and a crashed copy server
\* is restarted; nothing obliges a device to produce, or an acknowledgement to
\* be late.
FairSpec ==
  /\ Spec
  /\ WF_vars(DeliveryThread)
  /\ WF_vars(AcceptRequest)
  /\ \A w \in Workers : WF_vars(Worker(w))
  /\ WF_vars(Restart)

-----------------------------------------------------------------------------
(* Properties.                                                             *)

TypeOK ==
  /\ known \subseteq Device
  /\ produced \in [Device -> Nat]
  /\ oq \in [Device -> Seq(Measurement)]
  /\ cur \in Device
  /\ tpc \in {"scan", "connect", "send", "ack", "acked"}
  /\ msg \in Measurement
  /\ sock \in [Device -> Conn \cup {Zero, Invalid}]
  /\ nconn \in 0..MaxConns
  /\ wire \in [Conn -> Seq(Measurement)]
  /\ acks \in [Conn -> Nat]
  /\ broken \in 0..nconn
  /\ up \in BOOLEAN
  /\ backlog \in Seq(Conn)
  /\ socketQueue \in Seq(Conn)
  /\ wpc \in [Workers -> {"wait", "recv", "reply", "lookup", "insert", "enqueue"}]
  /\ wsock \in [Workers -> Conn \cup {0}]
  /\ wdata \in [Workers -> Measurement]
  /\ registered \subseteq Device
  /\ cq \in [Device -> Seq(Measurement)]
  /\ received \in [Device -> SUBSET Nat]
  /\ timeouts \in 0..MaxTimeouts
  /\ crashes \in 0..MaxCrashes

\* The measurements of device d in a queue.
SeqNos(q) == {m.seq : m \in ToSet(q)}

\* Device d's measurement number n is in the hands of a worker of the copy.
InHand(d, n) ==
  \E w \in Workers : /\ wpc[w] \notin {"wait", "recv"}
                     /\ wdata[w] = [deviceId |-> d, seq |-> n]

\* The original drops a measurement only after the copy server has read it:
\* whatever a handler queued is still queued there or was received.  Late
\* acknowledgements, reconnections and crashes of the copy included.
KeptUntilReceived ==
  \A d \in Device : \A n \in 1..produced[d] :
    n \in SeqNos(oq[d]) \/ n \in received[d]

\* A measurement the original has dropped is in the copy's queue or on its
\* way there; the acknowledgement that made the original drop it was sent
\* before the copy stored it.
NoSilentLoss ==
  \A d \in Device : \A n \in 1..produced[d] :
    n \in SeqNos(oq[d]) \/ n \in SeqNos(cq[d]) \/ InHand(d, n)

\* Registering the queues on the way loses nothing as long as no measurement is
\* sent again and the copy does not die.
NoLossWithoutRetry == timeouts = 0 /\ crashes = 0 => NoSilentLoss

\* The slots of the copy's queues and the measurements in them.
Slots == UNION {{d} \X (1..Len(cq[d])) : d \in Device}
Copied == {cq[s[1]][s[2]] : s \in Slots}

\* A retried measurement is stored again: each late acknowledgement costs at
\* most one duplicate in the copy's queues.
DuplicatesBounded == Cardinality(Slots) <= Cardinality(Copied) + timeouts

\* As long as no acknowledgement was late and the copy never died, the copy
\* holds each device's measurements once and in the order they were queued.
InOrderWithoutRetry ==
  timeouts = 0 /\ crashes = 0 =>
    \A d \in Device : \A i \in 1..Len(cq[d]) :
      cq[d][i] = [deviceId |-> d, seq |-> i]

\* The workers about to acknowledge what they read from connection c.
Replying(c) == {w \in Workers : wpc[w] = "reply" /\ wsock[w] = c}

NothingUnderWay(c) == wire[c] = <<>> /\ acks[c] = 0 /\ Replying(c) = {}

OneUnderWay(c, m) ==
  \/ wire[c] = <<m>> /\ acks[c] = 0 /\ Replying(c) = {}
  \/ wire[c] = <<>> /\ acks[c] = 0 /\ \E w \in Workers : Replying(c) = {w} /\ wdata[w] = m
  \/ wire[c] = <<>> /\ acks[c] = 1 /\ Replying(c) = {}

\* On a live connection the original has open, exactly the measurement the
\* delivery thread waits for is under way, as a message, with one worker or as
\* an acknowledgement, and otherwise nothing: no acknowledgement is ever left
\* over that a later measurement could take for its own.
StopAndWait ==
  \A d \in Device : Alive(sock[d]) =>
    IF tpc = "ack" /\ cur = d
    THEN OneUnderWay(sock[d], msg)
    ELSE NothingUnderWay(sock[d])

\* What the path promises: every measurement queued at the original reaches
\* the copy server, however its acknowledgements were delayed.
EventuallyReceived ==
  \A d \in Device : \A n \in 1..MaxMessages :
    n \in SeqNos(oq[d]) ~> n \in received[d]

\* Unless the copy dies it also ends up in the copy's queue.
EventuallyCopied ==
  \A d \in Device : \A n \in 1..MaxMessages :
    n \in SeqNos(oq[d]) ~> n \in SeqNos(cq[d]) \/ crashes > 0

\* The delivery path implements the abstract transfer: the original keeps a
\* measurement until the copy has read it, and releases the oldest first.
Transfer == INSTANCE ReliableTransfer
  WITH accepted <- produced,
       kept <- [d \in Device |-> SeqNos(oq[d])]
TransferSpec == Transfer!Spec

=============================================================================
