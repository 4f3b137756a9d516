------------------------ MODULE QueueDeliveryProofs ------------------------
(***************************************************************************)
(* What holds of the delivery path for any number of devices, workers,     *)
(* measurements, late acknowledgements and crashes of the copy server.     *)
(***************************************************************************)
EXTENDS QueueDelivery, SequenceTheorems, TLAPS

\* A worker that is serving a connection.
Serving(w) == wpc[w] # "wait"

\* Each queue of the original holds the last measurements of its device, in
\* the order they came.
OrderedQueue ==
  \A d \in Device :
    /\ Len(oq[d]) <= produced[d]
    /\ \A i \in 1..Len(oq[d]) :
         oq[d][i] = [deviceId |-> d, seq |-> produced[d] - Len(oq[d]) + i]

\* The thread's copy of the head is the head until it removes it.
HeadPending ==
  tpc # "scan" => oq[cur] # <<>> /\ msg = Head(oq[cur])

\* Devices do not share connections, and none is a future one.
OwnSocket ==
  /\ \A d \in Device : sock[d] \in Conn => sock[d] <= nconn
  /\ \A d, e \in Device : sock[d] = sock[e] /\ sock[d] \in Conn => d = e
  /\ tpc \in {"ack", "acked"} => sock[cur] \in Conn

\* The connections opened since the copy server last died.
Live == (broken + 1)..nconn

\* The copy server holds no others.
LiveRefs ==
  /\ backlog \in Seq(Live)
  /\ socketQueue \in Seq(Live)
  /\ \A w \in Workers : Serving(w) => wsock[w] \in Live

\* A connection that was not opened yet carries nothing.
FreshConns ==
  \A c \in Conn : c > nconn => wire[c] = <<>> /\ acks[c] = 0

\* Where there is an acknowledgement, the measurement has been read.
AckMeansReceived ==
  /\ tpc = "ack" /\ acks[sock[cur]] > 0 => msg.seq \in received[cur]
  /\ tpc = "acked" => msg.seq \in received[cur]

\* A measurement is on a wire only while the original still keeps it or after
\* the copy has read it.
WireKnown ==
  \A c \in Conn : \A i \in 1..Len(wire[c]) :
    LET m == wire[c][i] IN
      m.seq \in SeqNos(oq[m.deviceId]) \cup received[m.deviceId]

\* What a worker is storing has been read.
HandReceived ==
  \A w \in Workers :
    wpc[w] \notin {"wait", "recv"} => wdata[w].seq \in received[wdata[w].deviceId]

IInv ==
  /\ TypeOK /\ OrderedQueue /\ HeadPending /\ OwnSocket /\ LiveRefs /\ FreshConns
  /\ StopAndWait /\ AckMeansReceived /\ WireKnown /\ HandReceived /\ KeptUntilReceived

\* Nothing the copy has read is anywhere but in its queue or with a worker.
Stored ==
  /\ registered = Device
  /\ \A w \in Workers : wpc[w] # "insert"
  /\ \A d \in Device : \A n \in received[d] : n \in SeqNos(cq[d]) \/ InHand(d, n)

-----------------------------------------------------------------------------
(* Sequence numbers in a queue.                                            *)

LEMMA SeqNosEmpty == SeqNos(<<>>) = {}
  BY DEF SeqNos, ToSet

LEMMA SeqNosAppend ==
  ASSUME NEW q \in Seq(Measurement), NEW m \in Measurement
  PROVE  SeqNos(Append(q, m)) = SeqNos(q) \cup {m.seq}
<1> DEFINE r == Append(q, m)
<1>1. /\ r \in Seq(Measurement) /\ Len(r) = Len(q) + 1
      /\ \A i \in 1..Len(q) : r[i] = q[i]
      /\ r[Len(q) + 1] = m
  BY AppendProperties
<1>2. DOMAIN q = 1..Len(q) /\ DOMAIN r = 1..Len(q) + 1 /\ Len(q) \in Nat
  BY <1>1, LenProperties
<1> HIDE DEF r
<1>3. 1..Len(q) + 1 = (1..Len(q)) \cup {Len(q) + 1}
  BY <1>2
<1>4. ToSet(r) = ToSet(q) \cup {m}
  <2>1. \A x \in ToSet(r) : x \in ToSet(q) \cup {m}
    BY <1>1, <1>2, <1>3 DEF ToSet
  <2>2. \A x \in ToSet(q) : x \in ToSet(r)
    BY <1>1, <1>2, <1>3 DEF ToSet
  <2>3. m \in ToSet(r)
    BY <1>1, <1>2, <1>3 DEF ToSet
  <2> QED BY <2>1, <2>2, <2>3
<1>5. SeqNos(r) = SeqNos(q) \cup {m.seq}
  BY <1>4 DEF SeqNos
<1> QED
  BY <1>5 DEF r

LEMMA SeqNosTail ==
  ASSUME NEW q \in Seq(Measurement), q # <<>>
  PROVE  SeqNos(q) = {Head(q).seq} \cup SeqNos(Tail(q))
<1> DEFINE r == Tail(q)
<1>1. /\ r \in Seq(Measurement) /\ Len(r) = Len(q) - 1
      /\ \A i \in 1..Len(r) : r[i] = q[i + 1]
      /\ Head(q) = q[1]
  BY HeadTailProperties
<1>2. DOMAIN q = 1..Len(q) /\ DOMAIN r = 1..Len(q) - 1 /\ Len(q) \in Nat \ {0}
  BY <1>1, LenProperties, EmptySeq
<1> HIDE DEF r
<1>3. \A i \in 1..Len(q) : i = 1 \/ i - 1 \in 1..Len(r)
  BY <1>1, <1>2
<1>4. \A i \in 1..Len(r) : i + 1 \in 1..Len(q)
  BY <1>1, <1>2
<1>5. ToSet(q) = {Head(q)} \cup ToSet(r)
  <2>1. ASSUME NEW x \in ToSet(q) PROVE x \in {Head(q)} \cup ToSet(r)
    <3>1. PICK i \in 1..Len(q) : x = q[i]
      BY <1>2 DEF ToSet
    <3>2. CASE i = 1
      BY <3>1, <3>2, <1>1
    <3>3. CASE i - 1 \in 1..Len(r)
      <4>1. r[i - 1] = x
        BY <3>1, <3>3, <1>1, <1>2
      <4> QED BY <4>1, <3>3, <1>1, <1>2 DEF ToSet
    <3> QED BY <3>2, <3>3, <1>3
  <2>2. ASSUME NEW x \in ToSet(r) PROVE x \in ToSet(q)
    <3>1. PICK i \in 1..Len(r) : x = r[i]
      BY <1>1, <1>2 DEF ToSet
    <3> QED BY <3>1, <1>1, <1>2, <1>4 DEF ToSet
  <2>3. Head(q) \in ToSet(q)
    BY <1>1, <1>2 DEF ToSet
  <2> QED BY <2>1, <2>2, <2>3
<1>6. SeqNos(q) = {Head(q).seq} \cup SeqNos(r)
  BY <1>5 DEF SeqNos
<1> QED
  BY <1>6 DEF r

-----------------------------------------------------------------------------
(* Type correctness.                                                       *)

LEMMA MeasurementType ==
  /\ \A m \in Measurement : m.deviceId \in Device /\ m.seq \in Nat
  /\ \A d \in Device, n \in Nat : [deviceId |-> d, seq |-> n] \in Measurement
  /\ Blank \in Measurement
  BY ConstantsAssumption DEF Measurement, Device, Blank

LEMMA NextDeviceType == \A d \in Device : NextDevice(d) \in Device
  BY ConstantsAssumption DEF NextDevice, Device

LEMMA InitTypeOK == Init => TypeOK
  BY ConstantsAssumption, MeasurementType DEF Init, TypeOK, Device, Conn, Zero, Invalid

LEMMA LiveConn ==
  TypeOK => Live \subseteq Conn /\ \A c : c \in Live <=> Alive(c) /\ c <= nconn
<1> SUFFICES ASSUME TypeOK PROVE Live \subseteq Conn /\ \A c : c \in Live <=> Alive(c) /\ c <= nconn
  OBVIOUS
<1>1. broken \in Nat /\ nconn \in Nat /\ nconn <= MaxConns /\ MaxConns \in Nat
  BY ConstantsAssumption DEF TypeOK
<1>2. Live \subseteq Conn
  BY <1>1 DEF Live, Conn
<1>3. \A c \in Conn : c \in Live <=> c > broken /\ c <= nconn
  BY <1>1 DEF Live, Conn
<1> QED
  BY <1>2, <1>3 DEF Alive

LEMMA NextTypeOK == TypeOK /\ OwnSocket /\ LiveRefs /\ [Next]_vars => TypeOK'
<1> SUFFICES ASSUME TypeOK, OwnSocket, LiveRefs, [Next]_vars PROVE TypeOK'
  OBVIOUS
<1> USE ConstantsAssumption, MeasurementType, NextDeviceType
    DEF TypeOK, origVars, threadVars, netVars, copyVars
<1>1. ASSUME NEW d \in Device, InitializeQu(d) PROVE TypeOK'
  BY <1>1 DEF InitializeQu
<1>2. ASSUME NEW d \in Device, HandlerEnqueue(d) PROVE TypeOK'
  BY <1>2, SMTT(30) DEF HandlerEnqueue
<1>3. CASE SkipDevice
  BY <1>3 DEF SkipDevice
<1>4. CASE PeekHead
  BY <1>4 DEF PeekHead
<1>5. CASE Connect
  <2>1. nconn + 1 \in Conn /\ nconn + 1 \in 0..MaxConns /\ broken \in 0..nconn + 1
    BY <1>5 DEF Connect, Conn
  <2> QED BY <1>5, <2>1 DEF Connect
<1>6. CASE ConnectFails
  BY <1>6 DEF ConnectFails
<1>7. CASE Send
  BY <1>7 DEF Send, Alive
<1>8. CASE SendFails
  BY <1>8 DEF SendFails, GiveUp
<1>9. CASE AckFails
  BY <1>9 DEF AckFails, GiveUp
<1>10. CASE AckTimeout
  BY <1>10, SMTT(30) DEF AckTimeout, GiveUp
<1>11. CASE AckArrives
  BY <1>11, SMTT(30) DEF AckArrives, OwnSocket
<1>12. CASE DequeueAcked
  BY <1>12 DEF DequeueAcked
<1>13. CASE AcceptRequest
  <2>1. Head(backlog) \in Conn /\ backlog' \in Seq(Conn)
    BY <1>13 DEF AcceptRequest
  <2>2. socketQueue' \in Seq(Conn)
    BY <1>13, <2>1 DEF AcceptRequest
  <2> QED BY <1>13, <2>1, <2>2 DEF AcceptRequest
<1>14. ASSUME NEW w \in Workers, TakeRequest(w) PROVE TypeOK'
  BY <1>14 DEF TakeRequest
<1>15. ASSUME NEW w \in Workers, Receive(w) PROVE TypeOK'
  <2> DEFINE c == wsock[w]  m == Head(wire[c])
  <2>1. c \in Conn /\ wire[c] \in Seq(Measurement) /\ wire[c] # <<>>
    BY <1>15, LiveConn DEF Receive, LiveRefs, Serving
  <2>2. m \in Measurement /\ Tail(wire[c]) \in Seq(Measurement)
    BY <2>1, HeadTailProperties
  <2>3. m.deviceId \in Device /\ m.seq \in Nat
    BY <2>2
  <2>4. /\ wdata' = [wdata EXCEPT ![w] = m]
        /\ received' = [received EXCEPT ![m.deviceId] = @ \cup {m.seq}]
        /\ wire' = [wire EXCEPT ![c] = Tail(wire[c])]
    BY <1>15, <2>1 DEF Receive
  <2> HIDE DEF m, c
  <2>5. received' \in [Device -> SUBSET Nat]
    BY <2>3, <2>4
  <2>6. wdata' \in [Workers -> Measurement]
    BY <2>2, <2>4
  <2>7. wire' \in [Conn -> Seq(Measurement)]
    BY <2>2, <2>4
  <2> QED BY <1>15, <2>5, <2>6, <2>7 DEF Receive
<1>16. ASSUME NEW w \in Workers, ReceiveClosed(w) PROVE TypeOK'
  BY <1>16 DEF ReceiveClosed
<1>17. ASSUME NEW w \in Workers, SendAck(w) PROVE TypeOK'
  BY <1>17, LiveConn, SMTT(30) DEF SendAck, LiveRefs, Serving
<1>18. ASSUME NEW w \in Workers, LookupQueue(w) PROVE TypeOK'
  BY <1>18 DEF LookupQueue
<1>19. ASSUME NEW w \in Workers, InsertQueue(w) PROVE TypeOK'
  BY <1>19 DEF InsertQueue
<1>20. ASSUME NEW w \in Workers, EnqueueToMap(w) PROVE TypeOK'
  BY <1>20 DEF EnqueueToMap
<1>21. CASE Crash
  <2>1. broken' \in 0..nconn /\ crashes' \in 0..MaxCrashes
    BY <1>21 DEF Crash
  <2>2. wire' \in [Conn -> Seq(Measurement)] /\ cq' \in [Device -> Seq(Measurement)]
    BY <1>21 DEF Crash
  <2>3. backlog' \in Seq(Conn) /\ socketQueue' \in Seq(Conn)
    BY <1>21 DEF Crash
  <2>4. wpc' \in [Workers -> {"wait", "recv", "reply", "lookup", "insert", "enqueue"}]
    BY <1>21 DEF Crash
  <2> QED BY <1>21, <2>1, <2>2, <2>3, <2>4 DEF Crash
<1>22. CASE Restart
  BY <1>22 DEF Restart
<1>23. CASE UNCHANGED vars
  BY <1>23 DEF vars
<1> QED
  BY <1>1, <1>2, <1>3, <1>4, <1>5, <1>6, <1>7, <1>8, <1>9, <1>10, <1>11, <1>12, <1>13,
     <1>14, <1>15, <1>16, <1>17, <1>18, <1>19, <1>20, <1>21, <1>22, <1>23
     DEF Next, DeliveryThread, Handler, Worker

-----------------------------------------------------------------------------
(* Which steps touch the original's queues.                                *)

LEMMA OrigSteps ==
  [Next]_vars => \/ \E d \in Device : HandlerEnqueue(d)
                 \/ DequeueAcked
                 \/ UNCHANGED <<produced, oq>>
  BY DEF Next, vars, Handler, DeliveryThread, Worker, InitializeQu, SkipDevice, PeekHead,
         Connect, ConnectFails, Send, SendFails, AckArrives, AckFails, AckTimeout, GiveUp,
         AcceptRequest, TakeRequest, Receive, ReceiveClosed, SendAck, LookupQueue,
         InsertQueue, EnqueueToMap, Crash, Restart, origVars

-----------------------------------------------------------------------------
(* The original's queues.                                                  *)

LEMMA OrderedQueueStep == TypeOK /\ OrderedQueue /\ HeadPending /\ [Next]_vars => OrderedQueue'
<1> SUFFICES ASSUME TypeOK, OrderedQueue, HeadPending, [Next]_vars PROVE OrderedQueue'
  OBVIOUS
<1>1. ASSUME NEW e \in Device, HandlerEnqueue(e) PROVE OrderedQueue'
  <2> DEFINE q == oq[e]  m == [deviceId |-> e, seq |-> produced[e] + 1]
  <2>1. q \in Seq(Measurement) /\ produced[e] \in Nat /\ m \in Measurement
    BY MeasurementType DEF TypeOK
  <2>2. /\ Len(Append(q, m)) = Len(q) + 1 /\ Len(q) \in Nat
        /\ \A i \in 1..Len(q) : Append(q, m)[i] = q[i]
        /\ Append(q, m)[Len(q) + 1] = m
    BY <2>1, AppendProperties, LenProperties
  <2>3. /\ oq' = [oq EXCEPT ![e] = Append(q, m)]
        /\ produced' = [produced EXCEPT ![e] = produced[e] + 1]
    BY <1>1 DEF HandlerEnqueue
  <2>4. ASSUME NEW d \in Device, d # e
        PROVE  oq'[d] = oq[d] /\ produced'[d] = produced[d]
    BY <2>3, <2>4 DEF TypeOK
  <2>5. oq'[e] = Append(q, m) /\ produced'[e] = produced[e] + 1
    BY <2>3 DEF TypeOK
  <2>6. /\ Len(q) <= produced[e]
        /\ \A i \in 1..Len(q) : q[i] = [deviceId |-> e, seq |-> produced[e] - Len(q) + i]
    BY DEF OrderedQueue
  <2>7. Len(oq'[e]) <= produced'[e]
    BY <2>1, <2>2, <2>5, <2>6
  <2>8. ASSUME NEW i \in 1..Len(oq'[e])
        PROVE  oq'[e][i] = [deviceId |-> e, seq |-> produced'[e] - Len(oq'[e]) + i]
    <3>1. CASE i \in 1..Len(q)
      <4>1. oq'[e][i] = [deviceId |-> e, seq |-> produced[e] - Len(q) + i]
        BY <3>1, <2>2, <2>5, <2>6
      <4>2. produced'[e] - Len(oq'[e]) + i = produced[e] - Len(q) + i
        BY <2>1, <2>2, <2>5
      <4> QED BY <4>1, <4>2
    <3>2. CASE i = Len(q) + 1
      <4>1. produced'[e] - Len(oq'[e]) + i = produced[e] + 1
        BY <3>2, <2>1, <2>2, <2>5
      <4> QED BY <3>2, <4>1, <2>2, <2>5
    <3> QED BY <3>1, <3>2, <2>2, <2>5
  <2> QED BY <2>4, <2>7, <2>8 DEF OrderedQueue
<1>2. CASE DequeueAcked
  <2> DEFINE q == oq[cur]
  <2>1. cur \in Device /\ q \in Seq(Measurement) /\ q # <<>> /\ produced[cur] \in Nat
    BY <1>2 DEF TypeOK, DequeueAcked, HeadPending
  <2>2. /\ Len(Tail(q)) = Len(q) - 1 /\ Len(q) \in Nat \ {0}
        /\ \A i \in 1..Len(Tail(q)) : Tail(q)[i] = q[i + 1]
    BY <2>1, HeadTailProperties, EmptySeq
  <2>3. oq'[cur] = Tail(q) /\ produced' = produced /\ \A d \in Device \ {cur} : oq'[d] = oq[d]
    BY <1>2, <2>1 DEF DequeueAcked, TypeOK
  <2>4. /\ Len(q) <= produced[cur]
        /\ \A i \in 1..Len(q) : q[i] = [deviceId |-> cur, seq |-> produced[cur] - Len(q) + i]
    BY <2>1 DEF OrderedQueue
  <2>5. ASSUME NEW i \in 1..Len(Tail(q))
        PROVE  Tail(q)[i] = [deviceId |-> cur, seq |-> produced[cur] - Len(Tail(q)) + i]
    <3>1. i + 1 \in 1..Len(q) /\ produced[cur] - Len(q) + (i + 1) = produced[cur] - Len(Tail(q)) + i
      BY <2>1, <2>2
    <3> QED BY <3>1, <2>2, <2>4
  <2>6. Len(Tail(q)) <= produced[cur]
    BY <2>1, <2>2, <2>4
  <2> QED BY <2>1, <2>3, <2>5, <2>6, ZenonT(30) DEF OrderedQueue
<1>3. CASE UNCHANGED <<produced, oq>>
  BY <1>3 DEF OrderedQueue
<1> QED
  BY <1>1, <1>2, <1>3, OrigSteps

LEMMA HeadPendingStep == TypeOK /\ HeadPending /\ [Next]_vars => HeadPending'
<1> SUFFICES ASSUME TypeOK, HeadPending, [Next]_vars PROVE HeadPending'
  OBVIOUS
<1>1. ASSUME NEW e \in Device, HandlerEnqueue(e) PROVE HeadPending'
  <2> DEFINE q == oq[e]  m == [deviceId |-> e, seq |-> produced[e] + 1]
  <2>1. q \in Seq(Measurement) /\ m \in Measurement
    BY MeasurementType DEF TypeOK
  <2>2. Append(q, m) # <<>> /\ (q # <<>> => Head(Append(q, m)) = Head(q))
    BY <2>1, AppendProperties, HeadTailAppend
  <2>3. /\ oq' = [oq EXCEPT ![e] = Append(q, m)]
        /\ UNCHANGED <<tpc, cur, msg>>
    BY <1>1 DEF HandlerEnqueue, threadVars
  <2> HIDE DEF m
  <2> QED BY <2>2, <2>3 DEF HeadPending, TypeOK
<1>2. CASE PeekHead
  BY <1>2 DEF PeekHead, HeadPending, origVars
<1>3. CASE UNCHANGED <<oq, cur, msg>> /\ (tpc' = tpc \/ tpc # "scan")
  BY <1>3 DEF HeadPending
<1>4. CASE tpc' = "scan"
  BY <1>4 DEF HeadPending
<1> QED
  BY <1>1, <1>2, <1>3, <1>4
     DEF Next, vars, Handler, DeliveryThread, Worker, InitializeQu, SkipDevice,
         Connect, ConnectFails, Send, SendFails, AckArrives, AckFails, AckTimeout, GiveUp,
         DequeueAcked, AcceptRequest, TakeRequest, Receive, ReceiveClosed, SendAck,
         LookupQueue, InsertQueue, EnqueueToMap, Crash, Restart, origVars, threadVars

\* What a queue holds are the last numbers of its device.
LEMMA SeqNosOrdered ==
  ASSUME NEW q \in Seq(Measurement), NEW p \in Nat, NEW d,
         Len(q) <= p,
         \A i \in 1..Len(q) : q[i] = [deviceId |-> d, seq |-> p - Len(q) + i]
  PROVE  SeqNos(q) = (p - Len(q) + 1)..p
<1>1. Len(q) \in Nat /\ DOMAIN q = 1..Len(q)
  BY LenProperties
<1>2. ASSUME NEW i \in 1..Len(q) PROVE q[i].seq = p - Len(q) + i
  <2> DEFINE n == p - Len(q) + i
  <2>1. q[i] = [deviceId |-> d, seq |-> n]
    OBVIOUS
  <2> HIDE DEF n
  <2>2. q[i].seq = n
    BY <2>1
  <2> QED BY <2>2 DEF n
<1>3. ASSUME NEW n \in SeqNos(q) PROVE n \in (p - Len(q) + 1)..p
  <2>1. PICK i \in 1..Len(q) : n = q[i].seq
    BY <1>1 DEF SeqNos, ToSet
  <2>2. n = p - Len(q) + i
    BY <2>1, <1>2
  <2> QED BY <1>1, <1>2, <2>1, <2>2
<1>4. ASSUME NEW n \in (p - Len(q) + 1)..p PROVE n \in SeqNos(q)
  <2> DEFINE i == n - (p - Len(q))
  <2>1. i \in 1..Len(q) /\ n = p - Len(q) + i
    BY <1>1, <1>2
  <2>2. n = q[i].seq
    BY <2>1, <1>2
  <2> QED BY <2>1, <2>2, <1>1 DEF SeqNos, ToSet
<1> QED
  BY <1>3, <1>4

-----------------------------------------------------------------------------
(* Connections.                                                            *)

LEMMA OwnSocketStep == TypeOK /\ OwnSocket /\ [Next]_vars => OwnSocket'
<1> SUFFICES ASSUME TypeOK, OwnSocket, [Next]_vars PROVE OwnSocket'
  OBVIOUS
<1> USE DEF TypeOK, OwnSocket
<1>1. CASE Connect
  <2>1. /\ nconn \in Nat /\ nconn + 1 \in Conn /\ nconn' = nconn + 1
        /\ sock' = [sock EXCEPT ![cur] = nconn + 1]
        /\ tpc' = "send"
    BY <1>1, ConstantsAssumption DEF Connect, Conn
  <2>2. \A d \in Device : sock[d] \in Conn => sock[d] \in Nat /\ sock[d] <= nconn
    BY ConstantsAssumption DEF Conn
  <2>3. \A d \in Device : sock'[d] = IF d = cur THEN nconn + 1 ELSE sock[d]
    BY <2>1
  <2>4. \A d \in Device : sock'[d] \in Conn => sock'[d] <= nconn'
    BY <2>1, <2>2, <2>3, SMTT(30)
  <2>5. ASSUME NEW d \in Device, NEW e \in Device, sock'[d] = sock'[e], sock'[d] \in Conn
        PROVE  d = e
    BY <2>1, <2>2, <2>3, <2>5, SMTT(30)
  <2> QED BY <2>1, <2>4, <2>5
<1>2. CASE GiveUp
  <2>1. Invalid \notin Conn
    BY ConstantsAssumption DEF Invalid, Conn
  <2> QED BY <1>2, <2>1 DEF GiveUp, netVars
<1>3. CASE Send
  BY <1>3 DEF Send, Alive
<1>4. CASE UNCHANGED <<nconn, sock, cur>> /\ (tpc' \in {"ack", "acked"} => tpc \in {"ack", "acked"})
  BY <1>4
<1>5. CASE UNCHANGED <<nconn, sock>> /\ tpc' \notin {"ack", "acked"}
  BY <1>5
<1> QED
  BY <1>1, <1>2, <1>3, <1>4, <1>5, ZenonT(30)
     DEF Next, vars, Handler, DeliveryThread, Worker, InitializeQu, HandlerEnqueue, SkipDevice,
         PeekHead, ConnectFails, SendFails, AckArrives, AckFails, AckTimeout,
         DequeueAcked, AcceptRequest, TakeRequest, Receive, ReceiveClosed, SendAck,
         LookupQueue, InsertQueue, EnqueueToMap, Crash, Restart, origVars, threadVars, netVars

LEMMA LiveRefsStep == TypeOK /\ LiveRefs /\ [Next]_vars => LiveRefs'
<1> SUFFICES ASSUME TypeOK, LiveRefs, [Next]_vars PROVE LiveRefs'
  OBVIOUS
<1>1. CASE Connect
  <2>1. Live \subseteq Live' /\ nconn + 1 \in Live'
    BY <1>1 DEF Connect, TypeOK, Live
  <2>2. backlog \in Seq(Live') /\ socketQueue \in Seq(Live')
    BY <2>1, SeqMonotonic DEF LiveRefs
  <2> QED BY <1>1, <2>1, <2>2 DEF Connect, LiveRefs, Serving
<1>2. CASE AcceptRequest
  <2>1. Live' = Live /\ backlog # <<>> /\ backlog' = Tail(backlog) /\ UNCHANGED <<wpc, wsock>>
        /\ socketQueue' \in {Append(socketQueue, Head(backlog)), socketQueue}
    BY <1>2 DEF AcceptRequest, netVars, Live
  <2> QED BY <2>1 DEF LiveRefs, Serving
<1>3. ASSUME NEW w \in Workers, TakeRequest(w) PROVE LiveRefs'
  <2>1. /\ Live' = Live /\ socketQueue # <<>> /\ socketQueue' = Tail(socketQueue)
        /\ backlog' = backlog
        /\ wsock' = [wsock EXCEPT ![w] = Head(socketQueue)]
        /\ wpc' = [wpc EXCEPT ![w] = "recv"]
    BY <1>3 DEF TakeRequest, netVars, Live
  <2> QED BY <2>1 DEF LiveRefs, Serving, TypeOK
<1>4. CASE Crash
  <2>1. backlog' = <<>> /\ socketQueue' = <<>> /\ \A w \in Workers : ~Serving(w)'
    BY <1>4 DEF Crash, Serving
  <2> QED BY <2>1 DEF LiveRefs
<1>5. CASE /\ UNCHANGED <<nconn, broken, backlog, socketQueue, wsock>>
           /\ \A w \in Workers : Serving(w)' => Serving(w)
  BY <1>5 DEF LiveRefs, Live
<1> QED
  <2>1. ASSUME NEW w \in Workers, NEW x, wpc[w] # "wait", wpc' = [wpc EXCEPT ![w] = x]
        PROVE  \A v \in Workers : Serving(v)' => Serving(v)
    BY <2>1 DEF Serving, TypeOK
  <2>2. UNCHANGED wpc => \A v \in Workers : Serving(v)' => Serving(v)
    BY DEF Serving
  <2>3. ASSUME NEW w \in Workers, Worker(w) PROVE LiveRefs'
    BY <1>3, <1>5, <2>1, <2>3
       DEF Worker, Receive, ReceiveClosed, SendAck, LookupQueue, InsertQueue, EnqueueToMap, netVars
  <2>4. CASE DeliveryThread
    BY <1>1, <1>5, <2>2, <2>4
       DEF DeliveryThread, SkipDevice, PeekHead, ConnectFails, Send, SendFails, AckArrives,
           AckFails, AckTimeout, GiveUp, DequeueAcked, netVars, copyVars
  <2>5. CASE UNCHANGED vars \/ Restart \/ \E d \in Device : Handler(d)
    BY <1>5, <2>2, <2>5 DEF vars, Restart, Handler, InitializeQu, HandlerEnqueue, netVars, copyVars
  <2> QED
    BY <1>2, <1>4, <2>3, <2>4, <2>5 DEF Next

LEMMA FreshConnsStep ==
  TypeOK /\ OwnSocket /\ LiveRefs /\ FreshConns /\ [Next]_vars => FreshConns'
<1> SUFFICES ASSUME TypeOK, OwnSocket, LiveRefs, FreshConns, [Next]_vars,
                    NEW c \in Conn, c > nconn'
             PROVE  wire'[c] = <<>> /\ acks'[c] = 0
  BY DEF FreshConns
<1>1. c > nconn /\ c \in Nat /\ nconn \in Nat
  <2>1. nconn' = nconn \/ nconn' = nconn + 1
    BY DEF Next, vars, Handler, DeliveryThread, Worker, InitializeQu, HandlerEnqueue,
         SkipDevice, PeekHead, Connect, ConnectFails, Send, SendFails, AckArrives, AckFails,
         AckTimeout, GiveUp, DequeueAcked, AcceptRequest, TakeRequest, Receive, ReceiveClosed,
         SendAck, LookupQueue, InsertQueue, EnqueueToMap, Crash, Restart, netVars
  <2> QED BY <2>1, ConstantsAssumption DEF TypeOK, Conn
<1>2. wire[c] = <<>> /\ acks[c] = 0
  BY <1>1 DEF FreshConns
<1>3. sock[cur] \in Conn => sock[cur] # c
  BY <1>1 DEF OwnSocket, TypeOK, Conn
<1>4. \A w \in Workers : Serving(w) => wsock[w] \in Conn /\ wsock[w] # c
  BY <1>1, LiveConn DEF LiveRefs, Live
<1>5. CASE Send
  BY <1>2, <1>3, <1>5 DEF Send, Alive, TypeOK
<1>6. CASE AckArrives
  BY <1>2, <1>3, <1>6 DEF AckArrives, OwnSocket, TypeOK
<1>7. ASSUME NEW w \in Workers, Receive(w) PROVE wire'[c] = <<>> /\ acks'[c] = 0
  BY <1>2, <1>4, <1>7 DEF Receive, Serving, TypeOK
<1>8. ASSUME NEW w \in Workers, SendAck(w) PROVE wire'[c] = <<>> /\ acks'[c] = 0
  BY <1>2, <1>4, <1>8 DEF SendAck, Serving, TypeOK
<1>9. CASE Crash
  BY <1>2, <1>9 DEF Crash
<1>10. CASE UNCHANGED <<wire, acks>>
  BY <1>2, <1>10
<1> QED
  BY <1>5, <1>6, <1>7, <1>8, <1>9, <1>10
     DEF Next, vars, Handler, DeliveryThread, Worker, InitializeQu, HandlerEnqueue, SkipDevice,
         PeekHead, Connect, ConnectFails, SendFails, AckFails, AckTimeout, GiveUp,
         DequeueAcked, AcceptRequest, TakeRequest, ReceiveClosed,
         LookupQueue, InsertQueue, EnqueueToMap, Restart, netVars

-----------------------------------------------------------------------------
(* Stop and wait.                                                          *)

\* What StopAndWait says of device d's connection.
LinkOK(d) ==
  IF tpc = "ack" /\ cur = d
  THEN OneUnderWay(sock[d], msg)
  ELSE NothingUnderWay(sock[d])

\* A step that changes nothing on device d's connection keeps it so.
LEMMA Undisturbed ==
  ASSUME NEW d \in Device,
         Alive(sock[d]) => LinkOK(d),
         sock'[d] = sock[d], broken' = broken,
         wire'[sock[d]] = wire[sock[d]], acks'[sock[d]] = acks[sock[d]],
         \A w \in Workers : wpc'[w] = "reply" /\ wsock'[w] = sock[d]
                              <=> wpc[w] = "reply" /\ wsock[w] = sock[d],
         \A w \in Workers : wpc[w] = "reply" /\ wsock[w] = sock[d] => wdata'[w] = wdata[w],
         (tpc' = "ack" /\ cur' = d) <=> (tpc = "ack" /\ cur = d),
         tpc = "ack" /\ cur = d => msg' = msg
  PROVE  Alive(sock[d])' => LinkOK(d)'
<1>1. Alive(sock[d])' => Alive(sock[d])
  BY DEF Alive
<1>2. Replying(sock[d])' = Replying(sock[d])
  BY DEF Replying
<1>3. \A w \in Replying(sock[d]) : wdata'[w] = wdata[w]
  BY DEF Replying
<1>4. NothingUnderWay(sock[d]) => NothingUnderWay(sock[d])'
  BY <1>2 DEF NothingUnderWay
<1>5. ASSUME tpc = "ack", cur = d, OneUnderWay(sock[d], msg)
      PROVE  OneUnderWay(sock[d], msg)'
  <2>1. ASSUME NEW w \in Workers, Replying(sock[d]) = {w}, wdata[w] = msg
        PROVE  Replying(sock[d])' = {w} /\ wdata'[w] = msg'
    BY <1>2, <1>3, <1>5, <2>1
  <2> QED BY <1>2, <1>5, <2>1 DEF OneUnderWay
<1> QED
  BY <1>1, <1>4, <1>5 DEF LinkOK

LEMMA StopAndWaitStep ==
  TypeOK /\ OwnSocket /\ LiveRefs /\ FreshConns /\ StopAndWait /\ [Next]_vars => StopAndWait'
<1> SUFFICES ASSUME TypeOK, OwnSocket, LiveRefs, FreshConns, StopAndWait, [Next]_vars,
                    NEW d \in Device
             PROVE  Alive(sock[d])' => LinkOK(d)'
  BY DEF StopAndWait, LinkOK
<1>0. Alive(sock[d]) => LinkOK(d)
  BY DEF StopAndWait, LinkOK
<1>w. ASSUME NEW w \in Workers, NEW x, wpc' = [wpc EXCEPT ![w] = x],
             x # "reply", wpc[w] # "reply", wsock' = wsock \/ x = "recv",
             \A v \in Workers \ {w} : wsock'[v] = wsock[v],
             UNCHANGED <<threadVars, broken, wire, acks, wdata>>
      PROVE  Alive(sock[d])' => LinkOK(d)'
  <2>1. \A v \in Workers : wpc'[v] = "reply" /\ wsock'[v] = sock[d]
                             <=> wpc[v] = "reply" /\ wsock[v] = sock[d]
    BY <1>w DEF TypeOK
  <2> QED BY <1>0, <1>w, <2>1, Undisturbed DEF threadVars
<1>1. ASSUME NEW e \in Device, Handler(e) PROVE Alive(sock[d])' => LinkOK(d)'
  BY <1>0, <1>1, Undisturbed DEF Handler, InitializeQu, HandlerEnqueue, threadVars, netVars, copyVars
<1>2. CASE SkipDevice \/ PeekHead \/ ConnectFails \/ DequeueAcked
  BY <1>0, <1>2, Undisturbed
     DEF SkipDevice, PeekHead, ConnectFails, DequeueAcked, netVars, copyVars
<1>3. CASE Connect
  <2>1. /\ sock' = [sock EXCEPT ![cur] = nconn + 1] /\ tpc = "connect" /\ tpc' = "send"
        /\ UNCHANGED <<cur, msg, broken, wire, acks, wpc, wsock, wdata>>
        /\ nconn + 1 \in Conn /\ nconn \in Nat
    BY <1>3, ConstantsAssumption DEF Connect, TypeOK, Conn
  <2>2. CASE d = cur
    <3>1. sock'[d] = nconn + 1
      BY <2>1, <2>2 DEF TypeOK
    <3>2. wire'[nconn + 1] = <<>> /\ acks'[nconn + 1] = 0
      BY <2>1 DEF FreshConns
    <3>3. \A w \in Workers : wpc'[w] = "reply" => wsock'[w] # nconn + 1
      BY <2>1 DEF LiveRefs, Serving, Live
    <3>4. Replying(sock[d])' = {}
      BY <3>1, <3>3 DEF Replying
    <3> QED BY <2>1, <3>1, <3>2, <3>4 DEF LinkOK, NothingUnderWay
  <2>3. CASE d # cur
    <3>1. sock'[d] = sock[d]
      BY <2>1, <2>3 DEF TypeOK
    <3> QED BY <1>0, <2>1, <3>1, Undisturbed
  <2> QED BY <2>2, <2>3
<1>4. CASE Send
  <2>1. /\ tpc = "send" /\ tpc' = "ack" /\ Alive(sock[cur]) /\ cur \in Device
        /\ wire' = [wire EXCEPT ![sock[cur]] = Append(wire[sock[cur]], msg)]
        /\ UNCHANGED <<cur, msg, sock, broken, acks, wpc, wsock, wdata>>
    BY <1>4 DEF Send, copyVars, TypeOK
  <2>2. CASE d = cur
    <3>1. NothingUnderWay(sock[d])
      BY <1>0, <2>1, <2>2 DEF LinkOK
    <3>2. wire'[sock[d]] = Append(<<>>, msg)
      BY <2>1, <2>2, <3>1 DEF NothingUnderWay, TypeOK, Alive
    <3>3. wire'[sock[d]] = <<msg>>
      BY <3>2
    <3>4. acks'[sock[d]] = 0 /\ Replying(sock[d])' = {} /\ sock'[d] = sock[d]
      BY <2>1, <3>1 DEF NothingUnderWay, Replying
    <3> QED BY <2>1, <2>2, <3>3, <3>4 DEF LinkOK, OneUnderWay
  <2>3. CASE d # cur
    <3>1. sock[d] # sock[cur]
      BY <2>1, <2>3 DEF OwnSocket, Alive
    <3>2. wire'[sock[d]] = wire[sock[d]]
      BY <2>1, <3>1 DEF TypeOK
    <3> QED BY <1>0, <2>1, <2>3, <3>2, Undisturbed
  <2> QED BY <2>2, <2>3
<1>5. CASE AckArrives
  <2>1. /\ tpc = "ack" /\ tpc' = "acked" /\ acks[sock[cur]] > 0 /\ cur \in Device /\ sock[cur] \in Conn
        /\ acks' = [acks EXCEPT ![sock[cur]] = acks[sock[cur]] - 1]
        /\ UNCHANGED <<cur, msg, sock, broken, wire, wpc, wsock, wdata>>
    BY <1>5 DEF AckArrives, copyVars, TypeOK, OwnSocket
  <2>2. CASE d = cur
    <3>1. ASSUME Alive(sock[d]) PROVE NothingUnderWay(sock[d])'
      <4>1. wire[sock[d]] = <<>> /\ acks[sock[d]] = 1 /\ Replying(sock[d]) = {}
        BY <1>0, <2>1, <2>2, <3>1 DEF LinkOK, OneUnderWay
      <4>2. acks'[sock[d]] = 0
        BY <2>1, <2>2, <4>1 DEF TypeOK
      <4> QED BY <2>1, <4>1, <4>2 DEF NothingUnderWay, Replying
    <3> QED BY <2>1, <3>1 DEF LinkOK, Alive
  <2>3. CASE d # cur
    <3>1. Alive(sock[d]) => sock[d] # sock[cur]
      BY <2>1, <2>3 DEF OwnSocket, Alive
    <3>2. Alive(sock[d]) => acks'[sock[d]] = acks[sock[d]]
      BY <2>1, <3>1 DEF TypeOK, Alive
    <3>3. CASE ~Alive(sock[d])
      BY <2>1, <3>3 DEF Alive
    <3> QED BY <1>0, <2>1, <2>3, <3>2, <3>3, Undisturbed
  <2> QED BY <2>2, <2>3
<1>6. CASE GiveUp /\ tpc # "scan" /\ UNCHANGED netVars
  <2>1. /\ tpc' = "scan" /\ sock' = [sock EXCEPT ![cur] = Invalid]
        /\ UNCHANGED <<msg, broken, wire, acks, wpc, wsock, wdata>>
    BY <1>6 DEF GiveUp, netVars, copyVars
  <2>2. CASE d = cur
    <3>1. sock'[d] \notin Conn
      BY <2>1, <2>2, ConstantsAssumption DEF TypeOK, Invalid, Conn
    <3> QED BY <3>1 DEF Alive
  <2>3. CASE d # cur
    <3>1. sock'[d] = sock[d]
      BY <2>1, <2>3 DEF TypeOK
    <3> QED BY <1>0, <2>1, <2>3, <3>1, Undisturbed
  <2> QED BY <2>2, <2>3
<1>7. CASE AcceptRequest
  BY <1>0, <1>7, Undisturbed DEF AcceptRequest, threadVars, netVars
<1>8. ASSUME NEW w \in Workers, Receive(w) PROVE Alive(sock[d])' => LinkOK(d)'
  <2> DEFINE c == wsock[w]
  <2>1. /\ wpc[w] = "recv" /\ wire[c] # <<>> /\ wpc' = [wpc EXCEPT ![w] = "reply"]
        /\ wdata' = [wdata EXCEPT ![w] = Head(wire[c])]
        /\ wire' = [wire EXCEPT ![c] = Tail(wire[c])]
        /\ UNCHANGED <<cur, tpc, msg, sock, broken, acks, wsock>>
    BY <1>8 DEF Receive, threadVars
  <2>2. c \in Conn
    BY <2>1, LiveConn DEF LiveRefs, Serving
  <2>3. CASE sock[d] = c
    <3>1. ASSUME Alive(sock[d])
          PROVE  tpc = "ack" /\ cur = d /\ OneUnderWay(c, msg)'
      <4>1. tpc = "ack" /\ cur = d /\ wire[c] = <<msg>> /\ acks[c] = 0 /\ Replying(c) = {}
        BY <1>0, <2>1, <2>3, <3>1 DEF LinkOK, OneUnderWay, NothingUnderWay
      <4>2. Head(<<msg>>) = msg /\ Tail(<<msg>>) = <<>>
        OBVIOUS
      <4>3. wire'[c] = <<>> /\ acks'[c] = 0 /\ wdata'[w] = msg'
        BY <2>1, <2>2, <4>1, <4>2 DEF TypeOK
      <4>4. \A v \in Workers : wpc'[v] = "reply" /\ wsock'[v] = c <=> v = w
        BY <2>1, <4>1 DEF Replying, TypeOK
      <4>5. {v \in Workers : wpc'[v] = "reply" /\ wsock'[v] = c'} = {w}
        BY <2>1, <4>4
      <4> QED BY <2>1, <4>1, <4>3, <4>5 DEF OneUnderWay, Replying
    <3> QED BY <2>1, <2>3, <3>1 DEF LinkOK, Alive
  <2>4. CASE sock[d] # c
    <3>1. wire'[sock[d]] = wire[sock[d]]
      BY <2>1, <2>4 DEF TypeOK
    <3>2. \A v \in Workers : wpc'[v] = "reply" /\ wsock'[v] = sock[d]
                               <=> wpc[v] = "reply" /\ wsock[v] = sock[d]
      BY <2>1, <2>4 DEF TypeOK
    <3>3. \A v \in Workers : wpc[v] = "reply" => wdata'[v] = wdata[v]
      BY <2>1 DEF TypeOK
    <3> QED BY <1>0, <2>1, <3>1, <3>2, <3>3, Undisturbed
  <2> QED BY <2>3, <2>4
<1>9. ASSUME NEW w \in Workers, SendAck(w) PROVE Alive(sock[d])' => LinkOK(d)'
  <2> DEFINE c == wsock[w]
  <2>1. /\ wpc[w] = "reply" /\ wpc' = [wpc EXCEPT ![w] = "lookup"]
        /\ acks' = IF Open(c) THEN [acks EXCEPT ![c] = acks[c] + 1] ELSE acks
        /\ UNCHANGED <<cur, tpc, msg, sock, broken, wire, wsock, wdata>>
    BY <1>9 DEF SendAck, threadVars
  <2>2. c \in Conn
    BY <2>1, LiveConn DEF LiveRefs, Serving
  <2>3. CASE sock[d] = c
    <3>1. ASSUME Alive(sock[d])
          PROVE  tpc = "ack" /\ cur = d /\ OneUnderWay(c, msg)'
      <4>1. w \in Replying(c)
        BY <2>1 DEF Replying
      <4>2. tpc = "ack" /\ cur = d /\ wire[c] = <<>> /\ acks[c] = 0 /\ Replying(c) = {w}
        BY <1>0, <2>3, <3>1, <4>1 DEF LinkOK, OneUnderWay, NothingUnderWay
      <4>3. Open(c)
        BY <2>3 DEF Open
      <4>4. acks'[c] = 1
        BY <2>1, <2>2, <4>2, <4>3 DEF TypeOK
      <4>5. {v \in Workers : wpc'[v] = "reply" /\ wsock'[v] = c'} = {}
        BY <2>1, <4>2 DEF Replying, TypeOK
      <4> QED BY <2>1, <4>2, <4>4, <4>5 DEF OneUnderWay, Replying
    <3> QED BY <2>1, <2>3, <3>1 DEF LinkOK, Alive
  <2>4. CASE sock[d] # c
    <3>1. acks'[sock[d]] = acks[sock[d]]
      BY <2>1, <2>4 DEF TypeOK
    <3>2. \A v \in Workers : wpc'[v] = "reply" /\ wsock'[v] = sock[d]
                               <=> wpc[v] = "reply" /\ wsock[v] = sock[d]
      BY <2>1, <2>4 DEF TypeOK
    <3> QED BY <1>0, <2>1, <3>1, <3>2, Undisturbed
  <2> QED BY <2>3, <2>4
<1>10. ASSUME NEW w \in Workers, TakeRequest(w) PROVE Alive(sock[d])' => LinkOK(d)'
  BY <1>10, <1>w DEF TakeRequest, netVars, TypeOK
<1>11. ASSUME NEW w \in Workers, ReceiveClosed(w) PROVE Alive(sock[d])' => LinkOK(d)'
  BY <1>11, <1>w DEF ReceiveClosed, netVars
<1>12. ASSUME NEW w \in Workers, LookupQueue(w) PROVE Alive(sock[d])' => LinkOK(d)'
  BY <1>12, <1>w DEF LookupQueue, netVars
<1>13. ASSUME NEW w \in Workers, InsertQueue(w) PROVE Alive(sock[d])' => LinkOK(d)'
  BY <1>13, <1>w DEF InsertQueue, netVars
<1>14. ASSUME NEW w \in Workers, EnqueueToMap(w) PROVE Alive(sock[d])' => LinkOK(d)'
  BY <1>14, <1>w DEF EnqueueToMap, netVars
<1>15. CASE Crash
  <2>1. broken' = nconn /\ sock' = sock
    BY <1>15 DEF Crash, threadVars
  <2>2. sock[d] \in Conn => sock[d] <= nconn /\ sock[d] \in Nat /\ nconn \in Nat
    BY ConstantsAssumption DEF OwnSocket, TypeOK, Conn
  <2> QED BY <2>1, <2>2 DEF Alive
<1>16. CASE Restart \/ UNCHANGED vars
  BY <1>0, <1>16, Undisturbed DEF Restart, vars, threadVars, netVars, copyVars
<1> QED
  BY <1>1, <1>2, <1>3, <1>4, <1>5, <1>6, <1>7, <1>8, <1>9, <1>10, <1>11, <1>12, <1>13,
     <1>14, <1>15, <1>16
     DEF Next, DeliveryThread, Worker, SendFails, AckFails, AckTimeout, GiveUp

-----------------------------------------------------------------------------
(* What has been read, what is acknowledged, what is on its way.           *)

LEMMA ReceivedGrows ==
  ASSUME TypeOK, [Next]_vars, NEW d \in Device
  PROVE  received[d] \subseteq received'[d]
<1>1. ASSUME NEW w \in Workers, Receive(w) PROVE received[d] \subseteq received'[d]
  BY <1>1 DEF Receive, TypeOK
<1>2. CASE UNCHANGED received
  BY <1>2
<1> QED
  BY <1>1, <1>2
     DEF Next, vars, Handler, DeliveryThread, Worker, InitializeQu, HandlerEnqueue, SkipDevice,
         PeekHead, Connect, ConnectFails, Send, SendFails, AckArrives, AckFails, AckTimeout, GiveUp,
         DequeueAcked, AcceptRequest, TakeRequest, ReceiveClosed, SendAck,
         LookupQueue, InsertQueue, EnqueueToMap, Crash, Restart

LEMMA ReceiveReads ==
  ASSUME TypeOK, LiveRefs, NEW w \in Workers, Receive(w)
  PROVE  LET m == Head(wire[wsock[w]]) IN
           /\ wsock[w] \in Conn
           /\ m \in Measurement
           /\ m.deviceId \in Device
           /\ m = wire[wsock[w]][1] /\ 1 \in 1..Len(wire[wsock[w]])
           /\ wdata'[w] = m
           /\ received' = [received EXCEPT ![m.deviceId] = @ \cup {m.seq}]
           /\ m.seq \in received'[m.deviceId]
<1> DEFINE q == wire[wsock[w]]
<1>1. wsock[w] \in Conn /\ q \in Seq(Measurement) /\ q # <<>>
  BY LiveConn DEF Receive, LiveRefs, Serving, TypeOK
<1>2. Head(q) \in Measurement /\ Head(q) = q[1] /\ 1 \in 1..Len(q)
  BY <1>1, HeadTailProperties, EmptySeq
<1>3. Head(q).deviceId \in Device
  BY <1>2, MeasurementType
<1>4. /\ wdata' = [wdata EXCEPT ![w] = Head(q)]
      /\ received' = [received EXCEPT ![Head(q).deviceId] = @ \cup {Head(q).seq}]
  BY DEF Receive
<1> HIDE DEF q
<1>5. wdata'[w] = Head(q) /\ Head(q).seq \in received'[Head(q).deviceId]
  BY <1>3, <1>4 DEF TypeOK
<1> QED
  BY <1>1, <1>2, <1>3, <1>4, <1>5 DEF q

\* The head of the thread's device carries that device's number.
LEMMA HeadDevice ==
  ASSUME TypeOK, OrderedQueue, HeadPending, tpc # "scan"
  PROVE  /\ msg.deviceId = cur
         /\ SeqNos(oq[cur]) = {msg.seq} \cup SeqNos(Tail(oq[cur]))
<1>1. cur \in Device /\ oq[cur] \in Seq(Measurement) /\ oq[cur] # <<>> /\ msg = Head(oq[cur])
  BY DEF TypeOK, HeadPending
<1>2. msg = oq[cur][1] /\ 1 \in 1..Len(oq[cur])
  BY <1>1, EmptySeq
<1>3. msg = [deviceId |-> cur, seq |-> produced[cur] - Len(oq[cur]) + 1]
  BY <1>1, <1>2 DEF OrderedQueue
<1>4. msg.deviceId = cur
  BY <1>3
<1> QED
  BY <1>1, <1>4, SeqNosTail

LEMMA HandReceivedStep == TypeOK /\ LiveRefs /\ HandReceived /\ [Next]_vars => HandReceived'
<1> SUFFICES ASSUME TypeOK, LiveRefs, HandReceived, [Next]_vars, NEW v \in Workers,
                    wpc'[v] \notin {"wait", "recv"}
             PROVE  wdata'[v].seq \in received'[wdata'[v].deviceId]
  BY DEF HandReceived
<1>1. wdata[v].deviceId \in Device
  BY MeasurementType DEF TypeOK
<1>2. CASE wdata'[v] = wdata[v] /\ wpc[v] \notin {"wait", "recv"}
  BY <1>1, <1>2, ReceivedGrows DEF HandReceived
<1>3. ASSUME NEW w \in Workers, Worker(w) PROVE wdata'[v].seq \in received'[wdata'[v].deviceId]
  <2>1. CASE w # v
    <3>1. wdata'[v] = wdata[v] /\ wpc'[v] = wpc[v]
      BY <1>3, <2>1 DEF Worker, TakeRequest, Receive, ReceiveClosed, SendAck, LookupQueue,
                        InsertQueue, EnqueueToMap, TypeOK
    <3> QED BY <1>2, <3>1
  <2>2. CASE w = v /\ Receive(w)
    BY <2>2, ReceiveReads
  <2>3. CASE w = v /\ ~Receive(w)
    <3>1. wdata'[v] = wdata[v] /\ wpc[v] \notin {"wait", "recv"}
      BY <1>3, <2>3 DEF Worker, TakeRequest, ReceiveClosed, SendAck, LookupQueue,
                        InsertQueue, EnqueueToMap, TypeOK
    <3> QED BY <1>2, <3>1
  <2> QED BY <2>1, <2>2, <2>3
<1>4. CASE Crash
  BY <1>4 DEF Crash
<1>5. CASE UNCHANGED <<wpc, wdata>>
  BY <1>2, <1>5
<1> QED
  BY <1>3, <1>4, <1>5
     DEF Next, vars, Handler, DeliveryThread, InitializeQu, HandlerEnqueue, SkipDevice,
         PeekHead, Connect, ConnectFails, Send, SendFails, AckArrives, AckFails, AckTimeout, GiveUp,
         DequeueAcked, AcceptRequest, Restart, copyVars

LEMMA AckMeansReceivedStep ==
  TypeOK /\ OrderedQueue /\ HeadPending /\ LiveRefs /\ StopAndWait /\ HandReceived
  /\ AckMeansReceived /\ [Next]_vars => AckMeansReceived'
<1> SUFFICES ASSUME TypeOK, OrderedQueue, HeadPending, LiveRefs, StopAndWait, HandReceived,
                    AckMeansReceived, [Next]_vars
             PROVE  AckMeansReceived'
  OBVIOUS
<1>1. cur \in Device /\ received[cur] \subseteq received'[cur]
  BY ReceivedGrows DEF TypeOK
<1>2. CASE Send
  <2>1. /\ tpc = "send" /\ tpc' = "ack" /\ Alive(sock[cur]) /\ UNCHANGED <<sock, cur, acks>>
    BY <1>2 DEF Send
  <2>2. acks[sock[cur]] = 0
    BY <1>1, <2>1 DEF StopAndWait, NothingUnderWay
  <2> QED BY <2>1, <2>2 DEF AckMeansReceived
<1>3. CASE AckArrives
  <2>1. msg.seq \in received[cur] /\ tpc' = "acked" /\ UNCHANGED <<cur, msg>>
    BY <1>3 DEF AckArrives, AckMeansReceived
  <2> QED BY <1>1, <2>1 DEF AckMeansReceived
<1>4. ASSUME NEW w \in Workers, SendAck(w) PROVE AckMeansReceived'
  <2> DEFINE c == wsock[w]
  <2>1. /\ wpc[w] = "reply" /\ UNCHANGED <<cur, tpc, msg, sock, received>>
        /\ acks' = IF Open(c) THEN [acks EXCEPT ![c] = acks[c] + 1] ELSE acks
    BY <1>4 DEF SendAck, threadVars
  <2>2. c \in Conn /\ Alive(c)
    BY <2>1, LiveConn DEF LiveRefs, Serving
  <2>3. CASE tpc = "ack" /\ sock[cur] = c
    <3>1. w \in Replying(c) /\ OneUnderWay(c, msg)
      BY <1>1, <2>1, <2>2, <2>3 DEF StopAndWait, Replying
    <3>2. wdata[w] = msg
      BY <3>1 DEF OneUnderWay
    <3>3. msg.seq \in received[msg.deviceId]
      BY <2>1, <3>2 DEF HandReceived
    <3>4. msg.deviceId = cur
      BY <2>3, HeadDevice
    <3> QED BY <2>1, <2>3, <3>3, <3>4 DEF AckMeansReceived
  <2>4. CASE sock[cur] # c
    <3>1. acks'[sock[cur]] = acks[sock[cur]]
      BY <2>1, <2>4 DEF TypeOK
    <3> QED BY <2>1, <3>1 DEF AckMeansReceived
  <2>5. CASE tpc # "ack"
    BY <2>1, <2>5 DEF AckMeansReceived
  <2> QED BY <2>3, <2>4, <2>5
<1>5. CASE UNCHANGED <<cur, tpc, msg, sock, acks>>
  BY <1>1, <1>5 DEF AckMeansReceived
<1>6. CASE tpc' \notin {"ack", "acked"}
  BY <1>6 DEF AckMeansReceived
<1>7. ASSUME NEW w \in Workers, Worker(w), ~SendAck(w) PROVE AckMeansReceived'
  BY <1>5, <1>7 DEF Worker, TakeRequest, Receive, ReceiveClosed, LookupQueue, InsertQueue,
                    EnqueueToMap, threadVars, netVars
<1>8. CASE DeliveryThread
  BY <1>2, <1>3, <1>5, <1>6, <1>8
     DEF DeliveryThread, SkipDevice, PeekHead, Connect, ConnectFails, SendFails, AckFails,
         AckTimeout, GiveUp, DequeueAcked
<1> QED
  BY <1>4, <1>5, <1>7, <1>8
     DEF Next, vars, Handler, InitializeQu, HandlerEnqueue, AcceptRequest, Crash, Restart,
         threadVars, netVars

\* How a handler's step changes what a queue holds.
LEMMA EnqueueSeqNos ==
  ASSUME TypeOK, NEW e \in Device, HandlerEnqueue(e)
  PROVE  /\ SeqNos(oq'[e]) = SeqNos(oq[e]) \cup {produced[e] + 1}
         /\ \A d \in Device \ {e} : oq'[d] = oq[d]
         /\ produced' = [produced EXCEPT ![e] = produced[e] + 1]
<1> DEFINE m == [deviceId |-> e, seq |-> produced[e] + 1]
<1>1. oq[e] \in Seq(Measurement) /\ m \in Measurement /\ m.seq = produced[e] + 1
  BY MeasurementType DEF TypeOK
<1>2. oq' = [oq EXCEPT ![e] = Append(oq[e], m)] /\ produced' = [produced EXCEPT ![e] = produced[e] + 1]
  BY DEF HandlerEnqueue
<1> HIDE DEF m
<1>3. oq'[e] = Append(oq[e], m) /\ \A d \in Device \ {e} : oq'[d] = oq[d]
  BY <1>2 DEF TypeOK
<1> QED
  BY <1>1, <1>2, <1>3, SeqNosAppend

\* How the removal of an acknowledged measurement does.
LEMMA DequeueSeqNos ==
  ASSUME TypeOK, OrderedQueue, HeadPending, AckMeansReceived, DequeueAcked
  PROVE  /\ cur \in Device /\ msg.seq \in SeqNos(oq[cur]) \cap received[cur]
         /\ SeqNos(oq[cur]) = {msg.seq} \cup SeqNos(oq'[cur])
         /\ oq'[cur] = Tail(oq[cur])
         /\ \A d \in Device \ {cur} : oq'[d] = oq[d]
         /\ UNCHANGED <<produced, received>>
<1>1. tpc = "acked" /\ cur \in Device /\ oq[cur] # <<>>
  BY DEF DequeueAcked, TypeOK, HeadPending
<1>2. oq'[cur] = Tail(oq[cur]) /\ (\A d \in Device \ {cur} : oq'[d] = oq[d]) /\ UNCHANGED <<produced, received>>
  BY <1>1 DEF DequeueAcked, TypeOK
<1>3. SeqNos(oq[cur]) = {msg.seq} \cup SeqNos(Tail(oq[cur]))
  BY <1>1, HeadDevice
<1> QED
  BY <1>1, <1>2, <1>3 DEF AckMeansReceived

\* A number that is kept or received stays so.
LEMMA KeptOrReceived ==
  ASSUME TypeOK, OrderedQueue, HeadPending, AckMeansReceived, [Next]_vars,
         NEW d \in Device, NEW n \in SeqNos(oq[d]) \cup received[d]
  PROVE  n \in SeqNos(oq'[d]) \cup received'[d]
<1>1. received[d] \subseteq received'[d]
  BY ReceivedGrows
<1>2. ASSUME NEW e \in Device, HandlerEnqueue(e) PROVE SeqNos(oq[d]) \subseteq SeqNos(oq'[d])
  BY <1>2, EnqueueSeqNos
<1>3. CASE DequeueAcked
  BY <1>1, <1>3, DequeueSeqNos
<1>4. CASE UNCHANGED oq
  BY <1>1, <1>4
<1> QED
  BY <1>1, <1>2, <1>3, <1>4, OrigSteps

LEMMA WireKnownStep ==
  TypeOK /\ OrderedQueue /\ HeadPending /\ LiveRefs /\ AckMeansReceived /\ WireKnown
  /\ [Next]_vars => WireKnown'
<1> SUFFICES ASSUME TypeOK, OrderedQueue, HeadPending, LiveRefs, AckMeansReceived, WireKnown, [Next]_vars
             PROVE  WireKnown'
  OBVIOUS
<1> DEFINE Known(m) == m.seq \in SeqNos(oq[m.deviceId]) \cup received[m.deviceId]
           KnownNext(m) == m.seq \in SeqNos(oq'[m.deviceId]) \cup received'[m.deviceId]
<1>1. \A c \in Conn : \A i \in 1..Len(wire[c]) : wire[c][i] \in Measurement /\ Known(wire[c][i])
  BY ElementOfSeq DEF WireKnown, TypeOK
<1>2. \A m \in Measurement : Known(m) => KnownNext(m)
  BY KeptOrReceived, MeasurementType
<1>3. SUFFICES ASSUME NEW c \in Conn, NEW i \in 1..Len(wire'[c]) PROVE KnownNext(wire'[c][i])
  BY DEF WireKnown, SeqNos
<1> HIDE DEF Known, KnownNext
<1>4. CASE wire'[c] = wire[c]
  BY <1>1, <1>2, <1>4
<1>5. CASE Send
  <2>1. /\ tpc = "send" /\ sock[cur] \in Conn
        /\ wire' = [wire EXCEPT ![sock[cur]] = Append(wire[sock[cur]], msg)]
    BY <1>5 DEF Send, Alive
  <2>2. msg \in Measurement /\ Known(msg)
    BY <2>1, HeadDevice DEF TypeOK, Known
  <2>3. CASE c = sock[cur]
    <3>1. wire'[c] = Append(wire[c], msg) /\ wire[c] \in Seq(Measurement)
      BY <2>1, <2>3 DEF TypeOK
    <3>2. /\ Len(wire'[c]) = Len(wire[c]) + 1 /\ Len(wire[c]) \in Nat
          /\ \A j \in 1..Len(wire[c]) : wire'[c][j] = wire[c][j]
          /\ wire'[c][Len(wire[c]) + 1] = msg
      BY <2>2, <3>1, AppendProperties, LenProperties
    <3>3. i \in 1..Len(wire[c]) \/ i = Len(wire[c]) + 1
      BY <3>2
    <3> QED BY <1>1, <1>2, <2>2, <3>2, <3>3
  <2>4. CASE c # sock[cur]
    BY <1>4, <2>1, <2>4 DEF TypeOK
  <2> QED BY <2>3, <2>4
<1>6. ASSUME NEW w \in Workers, Receive(w) PROVE KnownNext(wire'[c][i])
  <2>1. wsock[w] \in Conn /\ wire[wsock[w]] # <<>> /\ wire' = [wire EXCEPT ![wsock[w]] = Tail(wire[wsock[w]])]
    BY <1>6, ReceiveReads DEF Receive
  <2>2. CASE c = wsock[w]
    <3>1. wire'[c] = Tail(wire[c]) /\ wire[c] \in Seq(Measurement) /\ wire[c] # <<>>
      BY <2>1, <2>2 DEF TypeOK
    <3>2. /\ Len(wire'[c]) = Len(wire[c]) - 1 /\ Len(wire[c]) \in Nat
          /\ wire'[c][i] = wire[c][i + 1]
      BY <3>1, HeadTailProperties, LenProperties
    <3>3. i + 1 \in 1..Len(wire[c])
      BY <3>2
    <3> QED BY <1>1, <1>2, <3>2, <3>3
  <2>3. CASE c # wsock[w]
    BY <1>4, <2>1, <2>3 DEF TypeOK
  <2> QED BY <2>2, <2>3
<1>7. CASE Crash
  <2>1. wire'[c] = <<>>
    BY <1>7 DEF Crash
  <2> QED BY <2>1
<1> QED
  BY <1>4, <1>5, <1>6, <1>7
     DEF Next, vars, Handler, DeliveryThread, Worker, InitializeQu, HandlerEnqueue, SkipDevice,
         PeekHead, Connect, ConnectFails, SendFails, AckArrives, AckFails, AckTimeout, GiveUp,
         DequeueAcked, AcceptRequest, TakeRequest, ReceiveClosed, SendAck,
         LookupQueue, InsertQueue, EnqueueToMap, Restart, netVars

LEMMA KeptUntilReceivedStep ==
  TypeOK /\ OrderedQueue /\ HeadPending /\ AckMeansReceived /\ KeptUntilReceived
  /\ [Next]_vars => KeptUntilReceived'
<1> SUFFICES ASSUME TypeOK, OrderedQueue, HeadPending, AckMeansReceived, KeptUntilReceived, [Next]_vars,
                    NEW d \in Device, NEW n \in 1..produced'[d]
             PROVE  n \in SeqNos(oq'[d]) \cup received'[d]
  BY DEF KeptUntilReceived, SeqNos
<1>1. CASE n \in 1..produced[d]
  BY <1>1, KeptOrReceived DEF KeptUntilReceived
<1>2. ASSUME NEW e \in Device, HandlerEnqueue(e) PROVE n \in SeqNos(oq'[d]) \cup received'[d]
  <2>1. produced'[d] = IF d = e THEN produced[d] + 1 ELSE produced[d]
    <3>1. produced' = [produced EXCEPT ![e] = produced[e] + 1]
      BY <1>2, EnqueueSeqNos
    <3>2. produced \in [Device -> Nat]
      BY DEF TypeOK
    <3> QED BY <3>1, <3>2
  <2>2. n \in 1..produced[d] \/ (d = e /\ n = produced[d] + 1)
    BY <2>1 DEF TypeOK
  <2>3. produced[e] + 1 \in SeqNos(oq'[e])
    BY <1>2, EnqueueSeqNos
  <2> QED BY <1>1, <2>2, <2>3
<1>3. CASE UNCHANGED produced
  BY <1>1, <1>3
<1> QED
  BY <1>2, <1>3, OrigSteps DEF DequeueAcked

-----------------------------------------------------------------------------
(* The inductive invariant and what follows from it.                       *)

LEMMA InitIInv == Init => IInv
<1> SUFFICES ASSUME Init PROVE IInv
  OBVIOUS
<1>1. TypeOK
  BY InitTypeOK
<1>2. OrderedQueue /\ HeadPending
  BY EmptySeq DEF Init, OrderedQueue, HeadPending
<1>3. \A d \in Device : sock[d] = Zero /\ sock[d] \notin Conn
  BY ConstantsAssumption DEF Init, Zero, Conn
<1>4. OwnSocket
  BY <1>3 DEF Init, OwnSocket
<1>5. LiveRefs /\ FreshConns
  BY DEF Init, LiveRefs, FreshConns, Serving
<1>6. StopAndWait
  BY <1>3 DEF StopAndWait, Alive
<1>7. AckMeansReceived /\ WireKnown /\ HandReceived /\ KeptUntilReceived
  BY EmptySeq DEF Init, AckMeansReceived, WireKnown, HandReceived, KeptUntilReceived
<1> QED
  BY <1>1, <1>2, <1>4, <1>5, <1>6, <1>7 DEF IInv

LEMMA NextIInv == IInv /\ [Next]_vars => IInv'
  BY NextTypeOK, OrderedQueueStep, HeadPendingStep, OwnSocketStep, LiveRefsStep, FreshConnsStep,
     StopAndWaitStep, AckMeansReceivedStep, WireKnownStep, HandReceivedStep, KeptUntilReceivedStep
     DEF IInv

LEMMA Invariance == Spec => []IInv
  BY InitIInv, NextIInv, PTL DEF Spec

\* Every variable of the delivery path keeps its type.
THEOREM TypeCorrect == Spec => []TypeOK
<1>1. IInv => TypeOK
  BY DEF IInv
<1> QED
  BY <1>1, Invariance, PTL

\* QueueDeliveryThread removes a measurement only when an EnqueueAndNotify
\* worker has read it, whatever was late and however often the copy crashed.
THEOREM NothingDroppedUnread == Spec => []KeptUntilReceived
<1>1. IInv => KeptUntilReceived
  BY DEF IInv
<1> QED
  BY <1>1, Invariance, PTL

\* SendMessageTo never takes an acknowledgement that is not its message's.
THEOREM NoStaleAcknowledgement == Spec => []StopAndWait
<1>1. IInv => StopAndWait
  BY DEF IInv
<1> QED
  BY <1>1, Invariance, PTL

-----------------------------------------------------------------------------
(* The delivery path implements the abstract transfer.                     *)

LEMMA TransferInit == Init => Transfer!Init
  BY SeqNosEmpty DEF Init, Transfer!Init

LEMMA TransferStep == IInv /\ [Next]_vars => [Transfer!Next]_Transfer!vars
<1> SUFFICES ASSUME IInv, [Next]_vars PROVE [Transfer!Next]_Transfer!vars
  OBVIOUS
<1> DEFINE kept == [d \in Device |-> SeqNos(oq[d])]
<1>0. TypeOK /\ OrderedQueue /\ HeadPending /\ LiveRefs /\ AckMeansReceived /\ WireKnown
  BY DEF IInv
<1>1. ASSUME NEW e \in Device, HandlerEnqueue(e) PROVE Transfer!Accept(e)
  <2>1. kept' = [kept EXCEPT ![e] = @ \cup {produced[e] + 1}]
    BY <1>0, <1>1, EnqueueSeqNos
  <2>2. received' = received /\ produced' = [produced EXCEPT ![e] = @ + 1]
    BY <1>1 DEF HandlerEnqueue
  <2> QED BY <2>1, <2>2 DEF Transfer!Accept
<1>2. CASE DequeueAcked
  <2>1. /\ cur \in Device /\ msg.seq \in kept[cur] \cap received[cur]
        /\ oq'[cur] = Tail(oq[cur]) /\ oq[cur] # <<>> /\ msg = Head(oq[cur])
        /\ \A d \in Device \ {cur} : oq'[d] = oq[d]
        /\ UNCHANGED <<produced, received>>
    BY <1>0, <1>2, DequeueSeqNos DEF DequeueAcked, HeadPending
  <2> DEFINE q == oq[cur]  p == produced[cur]
  <2>2. q \in Seq(Measurement) /\ Len(q) \in Nat \ {0} /\ Len(Tail(q)) = Len(q) - 1 /\ p \in Nat
    BY <1>0, <2>1, EmptySeq, HeadTailProperties DEF TypeOK
  <2>3. SeqNos(q) = (p - Len(q) + 1)..p
    BY <1>0, <2>1, <2>2, SeqNosOrdered DEF OrderedQueue
  <2>4. SeqNos(Tail(q)) = (p - Len(Tail(q)) + 1)..p
    <3>1. OrderedQueue'
      BY NextIInv DEF IInv
    <3>2. Tail(q) \in Seq(Measurement)
      BY <2>1, <2>2, HeadTailProperties
    <3>3. /\ Len(Tail(q)) <= p
          /\ \A i \in 1..Len(Tail(q)) :
               Tail(q)[i] = [deviceId |-> cur, seq |-> p - Len(Tail(q)) + i]
      BY <2>1, <3>1 DEF OrderedQueue
    <3> QED BY <2>2, <3>2, <3>3, SeqNosOrdered
  <2>5. msg.seq = p - Len(q) + 1
    <3> DEFINE n == p - Len(q) + 1
    <3>1. msg = q[1] /\ 1 \in 1..Len(q)
      BY <2>1, <2>2
    <3>2. q[1] = [deviceId |-> cur, seq |-> n]
      BY <1>0, <2>1, <3>1 DEF OrderedQueue
    <3> HIDE DEF n
    <3>3. msg.seq = n
      BY <3>1, <3>2
    <3> QED BY <3>3 DEF n
  <2>6. /\ \A k \in SeqNos(q) : msg.seq <= k
        /\ SeqNos(Tail(q)) = SeqNos(q) \ {msg.seq}
    <3> DEFINE l == Len(q)  n == msg.seq
    <3>1. l \in Nat \ {0} /\ SeqNos(q) = (p - l + 1)..p /\ n = p - l + 1
      BY <2>2, <2>3, <2>5
    <3>2. SeqNos(Tail(q)) = (p - (l - 1) + 1)..p
      BY <2>2, <2>4
    <3> HIDE DEF l, n, p
    <3>3. \A k \in (p - l + 1)..p : n <= k
      BY <2>2, <3>1
    <3>4. (p - (l - 1) + 1)..p = ((p - l + 1)..p) \ {n}
      BY <2>2, <3>1
    <3>5. /\ \A k \in SeqNos(q) : n <= k
          /\ SeqNos(Tail(q)) = SeqNos(q) \ {n}
      BY <3>1, <3>2, <3>3, <3>4
    <3> QED BY <3>5 DEF n
  <2>7. kept' = [kept EXCEPT ![cur] = @ \ {msg.seq}]
    BY <2>1, <2>6
  <2>8. Transfer!Release(cur, msg.seq)
    BY <2>1, <2>6, <2>7 DEF Transfer!Release
  <2> QED BY <2>1, <2>8 DEF Transfer!Next
<1>3. ASSUME NEW w \in Workers, Receive(w) PROVE [Transfer!Next]_Transfer!vars
  <2> DEFINE m == Head(wire[wsock[w]])
  <2>1. /\ wsock[w] \in Conn /\ m \in Measurement /\ m.deviceId \in Device
        /\ m = wire[wsock[w]][1] /\ 1 \in 1..Len(wire[wsock[w]])
        /\ received' = [received EXCEPT ![m.deviceId] = @ \cup {m.seq}]
    BY <1>0, <1>3, ReceiveReads
  <2>2. UNCHANGED <<produced, oq>>
    BY <1>3 DEF Receive, origVars
  <2>3. m.seq \in SeqNos(oq[m.deviceId]) \cup received[m.deviceId]
    BY <1>0, <2>1 DEF WireKnown
  <2> HIDE DEF m
  <2>4. CASE m.seq \in SeqNos(oq[m.deviceId])
    <3>1. m.seq \in kept[m.deviceId] /\ kept' = kept
      BY <2>1, <2>2, <2>4
    <3>2. Transfer!Receive(m.deviceId, m.seq)
      BY <2>1, <2>2, <3>1 DEF Transfer!Receive
    <3> QED BY <2>1, <3>1, <3>2 DEF Transfer!Next
  <2>5. CASE m.seq \in received[m.deviceId]
    <3>1. received' = received /\ kept' = kept
      BY <1>0, <2>1, <2>2, <2>5 DEF TypeOK
    <3> QED BY <2>2, <3>1 DEF Transfer!vars
  <2> QED BY <2>3, <2>4, <2>5
<1>4. CASE UNCHANGED <<produced, oq, received>>
  BY <1>4 DEF Transfer!vars
<1>5. (\E w \in Workers : Receive(w)) \/ UNCHANGED received
  BY DEF Next, vars, Handler, DeliveryThread, Worker, InitializeQu, HandlerEnqueue, SkipDevice,
         PeekHead, Connect, ConnectFails, Send, SendFails, AckArrives, AckFails, AckTimeout, GiveUp,
         DequeueAcked, AcceptRequest, TakeRequest, ReceiveClosed, SendAck,
         LookupQueue, InsertQueue, EnqueueToMap, Crash, Restart
<1> QED
  BY <1>1, <1>2, <1>3, <1>4, <1>5, OrigSteps DEF Transfer!Next

\* The replication path implements the at-least-once transfer: per device, it
\* releases the oldest measurement first, and only one the copy has read.
THEOREM DeliveryImplementsTransfer == Spec => TransferSpec
<1>1. Spec => []IInv
  BY Invariance
<1>2. IInv /\ [Next]_vars => [Transfer!Next]_Transfer!vars
  BY TransferStep
<1>3. Init => Transfer!Init
  BY TransferInit
<1> QED
  BY <1>1, <1>2, <1>3, PTL DEF Spec, TransferSpec, Transfer!Spec

-----------------------------------------------------------------------------
(* Storing at the copy when the queues exist.                              *)

LEMMA StoredStep ==
  ASSUME MaxCrashes = 0
  PROVE  TypeOK /\ LiveRefs /\ Stored /\ [Next]_vars => Stored'
<1> SUFFICES ASSUME TypeOK, LiveRefs, Stored, [Next]_vars PROVE Stored'
  OBVIOUS
<1>0. ~Crash /\ \A w \in Workers : ~InsertQueue(w)
  BY DEF Crash, InsertQueue, Stored, TypeOK
<1>1. CASE UNCHANGED <<registered, wpc, wdata, cq, received>>
  BY <1>1 DEF Stored, InHand
<1>2. ASSUME NEW w \in Workers, NEW x, x # "insert",
             wpc' = [wpc EXCEPT ![w] = x], UNCHANGED <<registered, wdata, cq, received>>,
             wpc[w] \in {"wait", "recv"} \/ x \notin {"wait", "recv"}
      PROVE  Stored'
  <2>1. \A v \in Workers : /\ wpc'[v] # "insert"
                           /\ wpc[v] \notin {"wait", "recv"} => wpc'[v] \notin {"wait", "recv"}
    BY <1>2 DEF TypeOK, Stored
  <2> QED BY <1>2, <2>1 DEF Stored, InHand
<1>3. ASSUME NEW w \in Workers, Receive(w) PROVE Stored'
  <2> DEFINE m == Head(wire[wsock[w]])
  <2>1. /\ m \in Measurement /\ wdata'[w] = m
        /\ received' = [received EXCEPT ![m.deviceId] = @ \cup {m.seq}]
    BY <1>3, ReceiveReads
  <2>2. /\ wpc[w] = "recv" /\ wpc' = [wpc EXCEPT ![w] = "reply"]
        /\ wdata' = [wdata EXCEPT ![w] = m]
        /\ UNCHANGED <<registered, cq>>
    BY <1>3 DEF Receive
  <2> HIDE DEF m
  <2>3. m = [deviceId |-> m.deviceId, seq |-> m.seq] /\ m.deviceId \in Device
    BY <2>1 DEF Measurement
  <2>4. ASSUME NEW d \in Device, NEW n \in received'[d]
        PROVE  n \in SeqNos(cq[d]) \/ InHand(d, n)'
    <3>1. CASE n \in received[d]
      <4>1. CASE InHand(d, n)
        <5>1. PICK v \in Workers : wpc[v] \notin {"wait", "recv"} /\ wdata[v] = [deviceId |-> d, seq |-> n]
          BY <4>1 DEF InHand
        <5>2. wpc'[v] = wpc[v] /\ wdata'[v] = wdata[v]
          BY <2>2, <5>1 DEF TypeOK
        <5> QED BY <5>1, <5>2 DEF InHand
      <4> QED BY <3>1, <4>1 DEF Stored
    <3>2. CASE d = m.deviceId /\ n = m.seq
      <4>1. wpc'[w] = "reply" /\ wdata'[w] = [deviceId |-> d, seq |-> n]
        BY <2>1, <2>2, <2>3, <3>2 DEF TypeOK
      <4> QED BY <4>1 DEF InHand
    <3> QED BY <2>1, <2>3, <3>1, <3>2 DEF TypeOK
  <2>5. \A v \in Workers : wpc'[v] # "insert"
    BY <2>2 DEF TypeOK, Stored
  <2> QED BY <2>2, <2>4, <2>5 DEF Stored, SeqNos
<1>4. ASSUME NEW w \in Workers, EnqueueToMap(w) PROVE Stored'
  <2> DEFINE m == wdata[w]
  <2>1. /\ m \in Measurement /\ m.deviceId \in Device /\ wpc[w] = "enqueue"
        /\ cq' = [cq EXCEPT ![m.deviceId] = Append(cq[m.deviceId], m)]
        /\ wpc' = [wpc EXCEPT ![w] = "recv"]
        /\ UNCHANGED <<registered, wdata, received>>
    BY <1>4, MeasurementType DEF EnqueueToMap, TypeOK
  <2>2. SeqNos(Append(cq[m.deviceId], m)) = SeqNos(cq[m.deviceId]) \cup {m.seq}
    BY <2>1, SeqNosAppend DEF TypeOK
  <2>3. \A d \in Device : SeqNos(cq[d]) \subseteq SeqNos(cq'[d])
    BY <2>1, <2>2 DEF TypeOK
  <2>4. m.seq \in SeqNos(cq'[m.deviceId])
    BY <2>1, <2>2 DEF TypeOK
  <2>5. ASSUME NEW d \in Device, NEW n \in received[d]
        PROVE  n \in SeqNos(cq'[d]) \/ InHand(d, n)'
    <3>1. CASE n \in SeqNos(cq[d])
      BY <2>3, <3>1
    <3>2. ASSUME NEW v \in Workers, wpc[v] \notin {"wait", "recv"}, wdata[v] = [deviceId |-> d, seq |-> n]
          PROVE  n \in SeqNos(cq'[d]) \/ InHand(d, n)'
      <4>1. CASE v = w
        BY <2>4, <3>2, <4>1
      <4>2. CASE v # w
        <5>1. wpc'[v] = wpc[v] /\ wdata'[v] = wdata[v]
          BY <2>1, <4>2 DEF TypeOK
        <5> QED BY <3>2, <5>1 DEF InHand
      <4> QED BY <4>1, <4>2
    <3> QED BY <3>1, <3>2 DEF Stored, InHand
  <2>6. \A v \in Workers : wpc'[v] # "insert"
    BY <2>1 DEF TypeOK, Stored
  <2> QED BY <2>1, <2>5, <2>6 DEF Stored, SeqNos
<1>5. ASSUME NEW w \in Workers, Worker(w) PROVE Stored'
  <2>1. CASE TakeRequest(w)
    BY <1>2, <2>1 DEF TakeRequest
  <2>2. CASE ReceiveClosed(w)
    BY <1>2, <2>2 DEF ReceiveClosed
  <2>3. CASE SendAck(w)
    BY <1>2, <2>3 DEF SendAck
  <2>4. CASE LookupQueue(w)
    <3>1. wdata[w].deviceId \in registered
      BY MeasurementType DEF Stored, TypeOK
    <3> QED BY <1>2, <2>4, <3>1 DEF LookupQueue
  <2> QED BY <1>0, <1>3, <1>4, <1>5, <2>1, <2>2, <2>3, <2>4 DEF Worker
<1> QED
  BY <1>0, <1>1, <1>5
     DEF Next, vars, Handler, DeliveryThread, InitializeQu, HandlerEnqueue, SkipDevice,
         PeekHead, Connect, ConnectFails, Send, SendFails, AckArrives, AckFails, AckTimeout, GiveUp,
         DequeueAcked, AcceptRequest, Restart, copyVars

\* When every device has its queue at the copy beforehand and the copy does
\* not die, what EnqueueAndNotifyThread acknowledges it also stores.
THEOREM NothingLostOnceRegistered ==
  ASSUME Registered = Device, MaxCrashes = 0
  PROVE  Spec => []NoSilentLoss
<1>1. Init => Stored
  BY DEF Init, Stored
<1>2. IInv /\ Stored /\ [Next]_vars => Stored'
  BY StoredStep DEF IInv
<1>3. IInv /\ Stored => NoSilentLoss
  BY DEF IInv, Stored, KeptUntilReceived, NoSilentLoss
<1> QED
  BY <1>1, <1>2, <1>3, Invariance, PTL DEF Spec

=============================================================================
