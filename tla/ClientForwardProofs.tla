------------------------ MODULE ClientForwardProofs ------------------------
(***************************************************************************)
(* What holds of the way from the clients to the original server for any   *)
(* number of handlers, measurements, connections and deaths of the server. *)
(***************************************************************************)
EXTENDS ClientForward, SequenceLemmas

\* A handler that sends has received something.
DataReceived == \A h \in Handlers : pc[h] = "send" => received[h] > 0

\* A handler that flushes has a connection.
FlushConnected ==
  \A h \in Handlers : pc[h] \in {"test", "take", "flush"} => conn[h] # 0

\* Where a handler of the server has a measurement in its hands.
Busy == {"scan", "linkq", "find", "linkmtx", "enqueue"}

\* A handler of the server holds a measurement of the device exactly while it
\* registers the device and stores it.
HoldsData ==
  \A c \in Conn : IF opc[c] \in Busy THEN odata[c] \in Measurement \ Foreign
                                     ELSE odata[c] = Garbage

\* A connection that was not opened yet has no handler.
FreshConns == \A c \in Conn : c > nconn => opc[c] = "unused"

\* An unregistered device has no queue, and only handlers that register it.
QueueRegistered ==
  entries = 0 =>
    /\ queue = <<>>
    /\ \A c \in Conn : /\ opc[c] \notin {"find", "linkmtx", "enqueue"}
                       /\ oid[c] = "own" => opc[c] \in {"scan", "linkq"}

IInv ==
  /\ TypeOK /\ DataReceived /\ FlushConnected /\ HoldsData /\ FreshConns /\ QueueRegistered
  /\ SavedIsFlushed

-----------------------------------------------------------------------------
(* The invariant.                                                          *)

LEMMA MeasurementType ==
  /\ \A h \in Handlers, n \in Nat : n > 0 /\ n <= MaxMessages[h] => <<h, n>> \in Measurement
  /\ \A h, n : <<h, n>> # Garbage
  /\ Garbage \in Sent /\ Measurement \subseteq Sent
<1>1. \A h \in Handlers : MaxMessages[h] \in Nat
  BY ConstantsAssumption
<1>2. \A h \in Handlers, n \in Nat : n > 0 /\ n <= MaxMessages[h] => <<h, n>> \in Measurement
  BY <1>1 DEF Measurement
<1>3. \A h, n : <<h, n>> # Garbage
  BY DEF Garbage
<1> QED BY <1>2, <1>3 DEF Sent

LEMMA DataType ==
  ASSUME TypeOK, DataReceived, NEW h \in Handlers, pc[h] = "send"
  PROVE  data(h) \in Measurement
  BY MeasurementType DEF TypeOK, DataReceived, data

\* Sending changes one connection, or none.
LEMMA SendWire ==
  ASSUME NEW c \in Conn, NEW m \in Sent, wire \in [Conn -> Seq(Sent)], Send(c, m)
  PROVE  /\ wire' \in [Conn -> Seq(Sent)]
         /\ \A k \in Conn \ {c} : wire'[k] = wire[k]
         /\ opc[c] # "dead" => wire'[c] = Append(wire[c], m)
<1>1. CASE opc[c] = "dead"
  BY <1>1 DEF Send
<1>2. CASE opc[c] # "dead"
  <2>1. wire' = [wire EXCEPT ![c] = Append(wire[c], m)]
    BY <1>2 DEF Send
  <2>2. Append(wire[c], m) \in Seq(Sent)
    BY AppendProperties
  <2> QED BY <2>1, <2>2, <1>2
<1> QED
  BY <1>1, <1>2

LEMMA InitIInv == Init => IInv
<1> SUFFICES ASSUME Init PROVE IInv
  OBVIOUS
<1> USE DEF Init
<1>1. temporaryQueue \in Seq(Sent) /\ received \in [Handlers -> Nat]
      /\ \A h \in Handlers : received[h] <= MaxMessages[h]
  <2>1. CASE temporaryQueue = <<>>
    <3>1. \A h \in Handlers : received[h] = 0
      BY <2>1
    <3> QED BY <2>1, <3>1, ConstantsAssumption
  <2>2. ASSUME NEW g \in Handlers, MaxMessages[g] > 0, temporaryQueue = << <<g, 1>> >>
        PROVE  /\ temporaryQueue \in Seq(Sent) /\ received \in [Handlers -> Nat]
               /\ \A h \in Handlers : received[h] <= MaxMessages[h]
    <3>1. <<g, 1>> \in Sent
      <4>1. 1 \in Nat /\ 1 > 0 /\ 1 <= MaxMessages[g]
        BY <2>2, ConstantsAssumption
      <4> QED BY <4>1, MeasurementType
    <3>2. \A h \in Handlers : << <<h, 1>> >> = << <<g, 1>> >> => h = g
      OBVIOUS
    <3>3. \A h \in Handlers : received[h] = IF h = g THEN 1 ELSE 0
      BY <2>2, <3>2
    <3> QED BY <2>2, <3>1, <3>3, ConstantsAssumption
  <2> QED BY <2>1, <2>2
<1>2. TypeOK
  <2>1. /\ nconn \in 0..MaxConns /\ conn \in [Handlers -> 0..nconn]
        /\ crashes \in 0..MaxCrashes
    BY ConstantsAssumption
  <2>2. /\ wire \in [Conn -> Seq(Sent)] /\ odata \in [Conn -> Sent]
        /\ tempMsg \in [Handlers -> Sent] /\ queue \in Seq(Measurement \ Foreign)
    BY MeasurementType
  <2>3. oq \in [Conn -> 0..entries] /\ entries \in Nat /\ nmtx \in Nat
    OBVIOUS
  <2>4. opc \in [Conn -> ServerPlace \cup {"unused", "dead"}] /\ pc \in [Handlers -> Place]
        /\ oid \in [Conn -> {"none", "own", "other"}]
    BY DEF Place, ServerPlace
  <2> QED BY <1>1, <2>1, <2>2, <2>3, <2>4 DEF TypeOK
<1>3. DataReceived /\ FlushConnected /\ HoldsData /\ FreshConns /\ QueueRegistered
  BY DEF DataReceived, FlushConnected, HoldsData, FreshConns, QueueRegistered, Busy
<1>4. SavedIsFlushed
  BY DEF SavedIsFlushed, Flushing
<1> QED
  BY <1>2, <1>3, <1>4 DEF IInv

LEMMA FindQueueType ==
  ASSUME NEW c \in Conn, FindQueue(c), entries \in Nat, oq \in [Conn -> 0..entries],
         opc \in [Conn -> ServerPlace \cup {"unused", "dead"}]
  PROVE  /\ oq' \in [Conn -> 0..entries]
         /\ opc' \in [Conn -> ServerPlace \cup {"unused", "dead"}]
<1>1. CASE nmtx = 0
  BY <1>1 DEF FindQueue, GotoO, ServerPlace
<1>2. CASE nmtx # 0
  BY <1>2 DEF FindQueue, GotoO, ServerPlace
<1> QED
  BY <1>1, <1>2

LEMMA NextTypeOK == IInv /\ [Next]_vars => TypeOK'
<1> SUFFICES ASSUME IInv, [Next]_vars PROVE TypeOK'
  OBVIOUS
<1>t. TypeOK /\ DataReceived /\ FlushConnected /\ HoldsData
  BY DEF IInv
<1> USE ConstantsAssumption, MeasurementType
    DEF TypeOK, Place, ServerPlace, Goto, GotoO, handlerVars, netVars, origVars, connVars,
        mapVars
<1>1. ASSUME NEW h \in Handlers, Connect(h) PROVE TypeOK'
  BY <1>1, <1>t, SMTT(30) DEF Connect, Conn
<1>2. ASSUME NEW h \in Handlers, TestQueue(h) PROVE TypeOK'
  BY <1>2, <1>t DEF TestQueue
<1>3. ASSUME NEW h \in Handlers, TakeSaved(h) PROVE TypeOK'
  <2>1. tempMsg' \in [Handlers -> Sent] /\ temporaryQueue' \in Seq(Sent)
    <3>1. CASE temporaryQueue = <<>>
      <4>1. /\ temporaryQueue' = temporaryQueue
            /\ \E m \in {Garbage, tempMsg[h]} : tempMsg' = [tempMsg EXCEPT ![h] = m]
        BY ONLY <1>3, <3>1 DEF TakeSaved
      <4>2. /\ tempMsg \in [Handlers -> Sent] /\ temporaryQueue \in Seq(Sent)
            /\ Garbage \in Sent
        BY <1>t
      <4> QED BY ONLY <4>1, <4>2
    <3>2. CASE temporaryQueue # <<>>
      <4>1. Head(temporaryQueue) \in Sent /\ Tail(temporaryQueue) \in Seq(Sent)
        BY <1>t, <3>2, HeadTailProperties
      <4> QED BY <1>3, <1>t, <3>2, <4>1 DEF TakeSaved
    <3> QED BY <3>1, <3>2
  <2>2. missed' \in BOOLEAN /\ borrowed' \in BOOLEAN
    BY <1>3, <1>t, Zenon DEF TakeSaved
  <2>3. pc' \in [Handlers -> Place]
    BY <1>3, <1>t DEF TakeSaved
  <2> QED BY <1>3, <1>t, <2>1, <2>2, <2>3 DEF TakeSaved
<1>4. ASSUME NEW h \in Handlers, FlushSaved(h) PROVE TypeOK'
  <2>1. conn[h] \in Conn /\ tempMsg[h] \in Sent
    BY <1>4, <1>t DEF FlushSaved, FlushConnected, Conn
  <2>2. wire' \in [Conn -> Seq(Sent)]
    BY <1>4, <1>t, <2>1, SendWire DEF FlushSaved
  <2> QED BY <1>4, <1>t, <2>2 DEF FlushSaved
<1>5. ASSUME NEW h \in Handlers, FlushFails(h) PROVE TypeOK'
  BY <1>5, <1>t DEF FlushFails
<1>6. ASSUME NEW h \in Handlers, CheckFlushed(h) PROVE TypeOK'
  BY <1>6, <1>t DEF CheckFlushed
<1>7. ASSUME NEW h \in Handlers, Forward(h) PROVE TypeOK'
  <2>1. data(h) \in Sent
    BY <1>7, <1>t, DataType DEF Forward
  <2>2. conn[h] \in Conn
    BY <1>7, <1>t DEF Forward, Conn
  <2>3. wire' \in [Conn -> Seq(Sent)]
    BY <1>7, <1>t, <2>1, <2>2, SendWire DEF Forward
  <2> QED BY <1>7, <1>t, <2>3 DEF Forward
<1>8. ASSUME NEW h \in Handlers, ForwardFails(h) PROVE TypeOK'
  <2>1. data(h) \in Sent
    BY <1>8, <1>t, DataType DEF ForwardFails
  <2> QED BY <1>8, <1>t, <2>1 DEF ForwardFails
<1>9. ASSUME NEW h \in Handlers, Receive(h) PROVE TypeOK'
  BY <1>9, <1>t DEF Receive
<1>10. ASSUME NEW c \in Conn, IgnoreMessage(c) PROVE TypeOK'
  <2>1. Tail(wire[c]) \in Seq(Sent)
    BY <1>10, <1>t, HeadTailProperties DEF IgnoreMessage, Readable
  <2>2. oid' \in [Conn -> {"none", "own", "other"}]
    BY <1>10, <1>t DEF IgnoreMessage
  <2> QED BY <1>10, <1>t, <2>1, <2>2 DEF IgnoreMessage, TakeMessage
<1>11. ASSUME NEW c \in Conn, ReceiveMessage(c) PROVE TypeOK'
  <2>1. Head(wire[c]) \in Sent /\ Tail(wire[c]) \in Seq(Sent)
    BY <1>11, <1>t, HeadTailProperties DEF ReceiveMessage, Readable
  <2>2. /\ opc' \in [Conn -> ServerPlace \cup {"unused", "dead"}]
        /\ oq' \in [Conn -> 0..entries]
    <3>1. (opc' = [opc EXCEPT ![c] = "scan"] /\ UNCHANGED oq) \/ FindQueue(c)
      BY <1>11 DEF ReceiveMessage
    <3> QED BY <1>t, <3>1, FindQueueType
  <2> QED BY <1>11, <1>t, <2>1, <2>2 DEF ReceiveMessage, TakeMessage, Message
<1>12. ASSUME NEW c \in Conn, ScanQueue(c) \/ LinkQueue(c) PROVE TypeOK'
  <2>1. entries' \in Nat /\ entries' >= entries
    BY <1>12, <1>t DEF ScanQueue, LinkQueue
  <2>2. oq' \in [Conn -> 0..entries']
    BY <1>12, <1>t, <2>1 DEF ScanQueue, LinkQueue
  <2>3. opc' \in [Conn -> ServerPlace \cup {"unused", "dead"}]
    BY <1>12, <1>t DEF ScanQueue, LinkQueue
  <2>4. queue' \in Seq(Measurement \ Foreign) /\ nmtx' \in Nat
    <3>1. queue' = <<>> /\ nmtx' = nmtx
      BY <1>12, Zenon DEF ScanQueue, LinkQueue
    <3> QED BY <1>t, <3>1
  <2>5. UNCHANGED <<handlerVars, netVars, up, oid, odata, crashes>>
    BY <1>12 DEF ScanQueue, LinkQueue
  <2> QED BY <1>t, <2>1, <2>2, <2>3, <2>4, <2>5
<1>13. ASSUME NEW c \in Conn, FindMutex(c) \/ LinkMutex(c) PROVE TypeOK'
  <2>1. oq' \in [Conn -> 0..entries] /\ opc' \in [Conn -> ServerPlace \cup {"unused", "dead"}]
    <3>1. (opc' = [opc EXCEPT ![c] = "find"] /\ UNCHANGED oq) \/ FindQueue(c)
      BY <1>13 DEF FindMutex, LinkMutex
    <3> QED BY <1>t, <3>1, FindQueueType
  <2>2. nmtx' \in Nat
    BY <1>13, <1>t DEF FindMutex, LinkMutex
  <2>3. UNCHANGED <<handlerVars, netVars, up, oid, odata, entries, queue, crashes>>
    BY <1>13 DEF FindMutex, LinkMutex
  <2> QED BY <1>t, <2>1, <2>2, <2>3
<1>14. ASSUME NEW c \in Conn, Enqueue(c) PROVE TypeOK'
  <2>1. odata[c] \in Measurement \ Foreign
    BY <1>14, <1>t DEF Enqueue, HoldsData, Busy
  <2>2. Append(queue, odata[c]) \in Seq(Measurement \ Foreign)
        /\ <<>> \in Seq(Measurement \ Foreign)
    BY <1>t, <2>1, AppendProperties
  <2>3. queue' \in {Append(queue, odata[c]), queue, <<>>}
    BY <1>14, Zenon DEF Enqueue
  <2>4. queue' \in Seq(Measurement \ Foreign)
    BY <1>t, <2>2, <2>3
  <2>5. oq' \in [Conn -> 0..entries] /\ odata' \in [Conn -> Sent]
        /\ opc' \in [Conn -> ServerPlace \cup {"unused", "dead"}]
    BY <1>14, <1>t DEF Enqueue
  <2> QED BY <1>14, <1>t, <2>4, <2>5 DEF Enqueue
<1>15. CASE Crash
  <2>1. opc' \in [Conn -> ServerPlace \cup {"unused", "dead"}]
    BY <1>15, <1>t DEF Crash
  <2>2. /\ wire' \in [Conn -> Seq(Sent)] /\ odata' \in [Conn -> Sent]
        /\ queue' \in Seq(Measurement \ Foreign)
    BY <1>15 DEF Crash
  <2>3. crashes' \in 0..MaxCrashes
    BY <1>15, <1>t DEF Crash
  <2>4. entries' \in Nat /\ nmtx' \in Nat /\ oq' \in [Conn -> 0..entries']
    <3>1. entries' = 0 /\ nmtx' = 0 /\ oq' = [k \in Conn |-> 0]
      BY <1>15, Zenon DEF Crash
    <3> QED BY ONLY <3>1
  <2>5. up' \in BOOLEAN /\ oid' \in [Conn -> {"none", "own", "other"}]
    BY <1>15, Zenon DEF Crash
  <2>6. UNCHANGED <<handlerVars, nconn>>
    BY <1>15 DEF Crash
  <2> QED BY <1>t, <2>1, <2>2, <2>3, <2>4, <2>5, <2>6
<1>16. CASE Restart
  BY <1>16, <1>t DEF Restart
<1>17. CASE UNCHANGED vars
  BY <1>17, <1>t DEF vars
<1> QED
  BY <1>1, <1>2, <1>3, <1>4, <1>5, <1>6, <1>7, <1>8, <1>9, <1>10, <1>11, <1>12, <1>13,
     <1>14, <1>15, <1>16, <1>17 DEF Next, HandlerStep, ServerStep

\* The handlers of the server leave those of the Process alone.
LEMMA ServerSteps ==
  ASSUME NEW c \in Conn, ServerStep(c)
  PROVE  UNCHANGED <<handlerVars, nconn, crashes>>
  BY DEF ServerStep, IgnoreMessage, ReceiveMessage, ScanQueue, LinkQueue, FindMutex, LinkMutex,
     Enqueue, netVars

LEMMA SavedIsFlushedStep == IInv /\ [Next]_vars => SavedIsFlushed'
<1> SUFFICES ASSUME IInv, [Next]_vars PROVE SavedIsFlushed'
  OBVIOUS
<1>t. TypeOK /\ SavedIsFlushed
  BY DEF IInv
<1> USE DEF SavedIsFlushed, Flushing, TypeOK, Goto, handlerVars
<1>1. ASSUME NEW h \in Handlers, Connect(h) PROVE SavedIsFlushed'
  BY <1>1, <1>t DEF Connect
<1>2. ASSUME NEW h \in Handlers, TestQueue(h) PROVE SavedIsFlushed'
  BY <1>2, <1>t DEF TestQueue
<1>3. ASSUME NEW h \in Handlers, TakeSaved(h) PROVE SavedIsFlushed'
  BY <1>3, <1>t DEF TakeSaved
<1>4. ASSUME NEW h \in Handlers, FlushSaved(h) PROVE SavedIsFlushed'
  BY <1>4, <1>t DEF FlushSaved
<1>5. ASSUME NEW h \in Handlers, FlushFails(h) PROVE SavedIsFlushed'
  BY <1>5, <1>t DEF FlushFails
<1>6. ASSUME NEW h \in Handlers, CheckFlushed(h) PROVE SavedIsFlushed'
  BY <1>6, <1>t DEF CheckFlushed
<1>7. ASSUME NEW h \in Handlers, Forward(h) PROVE SavedIsFlushed'
  BY <1>7, <1>t DEF Forward
<1>8. ASSUME NEW h \in Handlers, ForwardFails(h) PROVE SavedIsFlushed'
  BY <1>8, <1>t DEF ForwardFails
<1>9. ASSUME NEW h \in Handlers, Receive(h) PROVE SavedIsFlushed'
  BY <1>9, <1>t DEF Receive
<1>10. CASE UNCHANGED handlerVars
  BY <1>10, <1>t
<1>11. (\E c \in Conn : ServerStep(c)) \/ Crash \/ Restart \/ UNCHANGED vars
         => UNCHANGED handlerVars
  BY ServerSteps DEF Crash, Restart, vars
<1> QED
  BY <1>1, <1>2, <1>3, <1>4, <1>5, <1>6, <1>7, <1>8, <1>9, <1>10, <1>11
     DEF Next, HandlerStep

LEMMA HandlerPartsStep ==
  IInv /\ [Next]_vars => DataReceived' /\ FlushConnected'
<1> SUFFICES ASSUME IInv, [Next]_vars PROVE DataReceived' /\ FlushConnected'
  OBVIOUS
<1>t. TypeOK /\ DataReceived /\ FlushConnected
  BY DEF IInv
<1> USE DEF DataReceived, FlushConnected, TypeOK, Goto, handlerVars
<1> DEFINE P == DataReceived /\ FlushConnected
<1>1. ASSUME NEW h \in Handlers, Connect(h) PROVE P'
  BY <1>1, <1>t DEF Connect
<1>2. ASSUME NEW h \in Handlers, TestQueue(h) PROVE P'
  BY <1>2, <1>t DEF TestQueue
<1>3. ASSUME NEW h \in Handlers, TakeSaved(h) PROVE P'
  BY <1>3, <1>t DEF TakeSaved
<1>4. ASSUME NEW h \in Handlers, FlushSaved(h) PROVE P'
  BY <1>4, <1>t DEF FlushSaved
<1>5. ASSUME NEW h \in Handlers, FlushFails(h) PROVE P'
  BY <1>5, <1>t DEF FlushFails
<1>6. ASSUME NEW h \in Handlers, CheckFlushed(h) PROVE P'
  BY <1>6, <1>t DEF CheckFlushed
<1>7. ASSUME NEW h \in Handlers, Forward(h) PROVE P'
  BY <1>7, <1>t DEF Forward
<1>8. ASSUME NEW h \in Handlers, ForwardFails(h) PROVE P'
  BY <1>8, <1>t DEF ForwardFails
<1>9. ASSUME NEW h \in Handlers, Receive(h) PROVE P'
  BY <1>9, <1>t DEF Receive
<1>10. CASE UNCHANGED handlerVars
  BY <1>10, <1>t
<1>11. (\E c \in Conn : ServerStep(c)) \/ Crash \/ Restart \/ UNCHANGED vars
         => UNCHANGED handlerVars
  BY ServerSteps DEF Crash, Restart, vars
<1> QED
  BY <1>1, <1>2, <1>3, <1>4, <1>5, <1>6, <1>7, <1>8, <1>9, <1>10, <1>11
     DEF Next, HandlerStep

LEMMA ServerPartsStep ==
  IInv /\ [Next]_vars => HoldsData' /\ FreshConns' /\ QueueRegistered'
<1> SUFFICES ASSUME IInv, [Next]_vars PROVE HoldsData' /\ FreshConns' /\ QueueRegistered'
  OBVIOUS
<1>t. TypeOK /\ HoldsData /\ FreshConns /\ QueueRegistered
  BY DEF IInv
<1> USE DEF netVars, HoldsData, FreshConns, QueueRegistered, TypeOK, GotoO, origVars, connVars,
            mapVars, Busy
<1> DEFINE P == HoldsData /\ FreshConns /\ QueueRegistered
<1>1. ASSUME NEW h \in Handlers, Connect(h) PROVE P'
  <2>1. nconn + 1 \in Conn /\ nconn' = nconn + 1 /\ nconn \in Nat /\ opc' = [opc EXCEPT ![nconn + 1] = "recv"]
        /\ UNCHANGED <<odata, oid, entries, queue>>
    BY <1>1, <1>t, ConstantsAssumption DEF Connect, Conn
  <2>2. opc[nconn + 1] = "unused"
    <3>1. nconn + 1 > nconn
      BY <2>1
    <3>2. FreshConns
      BY <1>t
    <3> QED BY <2>1, <3>1, <3>2
  <2>3. \A c \in Conn : c > nconn + 1 => c > nconn /\ c # nconn + 1
    BY <2>1 DEF Conn
  <2> QED BY <1>t, <2>1, <2>2, <2>3
<1>2. ASSUME NEW c \in Conn, IgnoreMessage(c) PROVE P'
  BY <1>2, <1>t DEF IgnoreMessage, Readable
<1>3. ASSUME NEW c \in Conn, ReceiveMessage(c) PROVE P'
  <2>1. Message(c) \in Measurement \ Foreign
    <3>1. Message(c) \in Sent
      BY <1>3, <1>t, HeadTailProperties DEF ReceiveMessage, Readable, Message
    <3> QED BY <1>3, <3>1 DEF ReceiveMessage, Sent
  <2>2. opc[c] = "recv" /\ (oid[c] = "none" \/ entries # 0)
    BY <1>3, <1>t DEF ReceiveMessage, Readable
  <2>3. /\ odata' = [odata EXCEPT ![c] = Message(c)] /\ oid' = [oid EXCEPT ![c] = "own"]
        /\ opc' = [opc EXCEPT ![c] = IF entries = 0 THEN "scan"
                                    ELSE IF nmtx = 0 THEN "linkmtx" ELSE "enqueue"]
        /\ UNCHANGED <<nconn, entries, queue>>
    BY <1>3, <2>2 DEF ReceiveMessage, FindQueue
  <2> QED BY <1>t, <2>1, <2>2, <2>3
<1>4. ASSUME NEW c \in Conn, ScanQueue(c) \/ LinkQueue(c) PROVE P'
  BY <1>4, <1>t DEF ScanQueue, LinkQueue
<1>5. ASSUME NEW c \in Conn, FindMutex(c) \/ LinkMutex(c) PROVE P'
  BY <1>5, <1>t DEF FindMutex, LinkMutex, FindQueue
<1>6. ASSUME NEW c \in Conn, Enqueue(c) PROVE P'
  <2>1. /\ opc[c] = "enqueue" /\ entries # 0
        /\ odata' = [odata EXCEPT ![c] = Garbage] /\ opc' = [opc EXCEPT ![c] = "recv"]
        /\ UNCHANGED <<nconn, entries, oid>>
    BY <1>6, <1>t DEF Enqueue
  <2> QED BY <1>t, <2>1
<1>7. CASE Crash
  BY <1>7, <1>t DEF Crash
<1>8. CASE UNCHANGED <<nconn, opc, oid, odata, entries, queue>>
  BY <1>8, <1>t
<1>9. Restart \/ UNCHANGED vars \/ (\E h \in Handlers : Receive(h) \/ (HandlerStep(h) /\ ~Connect(h)))
        => UNCHANGED <<nconn, opc, oid, odata, entries, queue>>
  BY DEF Restart, vars, Receive, HandlerStep, TestQueue, TakeSaved, FlushSaved, FlushFails,
         CheckFlushed, Forward, ForwardFails
<1> QED
  BY <1>1, <1>2, <1>3, <1>4, <1>5, <1>6, <1>7, <1>8, <1>9 DEF Next, HandlerStep, ServerStep

-----------------------------------------------------------------------------
(* What is lost.                                                           *)

\* The places of a measurement.
InHand(m) ==
  \E h \in Handlers : \/ pc[h] = "send" /\ m = data(h)
                      \/ pc[h] = "flush" /\ m = tempMsg[h]
OnWire(m) == \E c \in Conn : m \in ToSet(wire[c])
InData(m) == \E c \in Conn : m = odata[c]
Somewhere(m) ==
  \/ m \in ToSet(temporaryQueue) \/ InHand(m)
  \/ OnWire(m) \/ InData(m) \/ m \in ToSet(queue)

LEMMA KeptStep ==
  ASSUME IInv, Next, ~LossyStep, NEW m, m # Garbage, m \notin Foreign, Somewhere(m)
  PROVE  Somewhere(m)'
<1>t. TypeOK /\ DataReceived /\ FlushConnected /\ HoldsData /\ FreshConns /\ QueueRegistered
  BY DEF IInv
<1> DEFINE hand == <<pc, received, tempMsg>>
<1>hand. UNCHANGED hand => InHand(m)' = InHand(m)
  BY DEF InHand, data
<1>wire. UNCHANGED wire => OnWire(m)' = OnWire(m)
  BY DEF OnWire
<1>odata. UNCHANGED odata => InData(m)' = InData(m)
  BY DEF InData
<1> HIDE DEF hand
\* A handler that holds nothing moves, and no other does.
<1>move. ASSUME NEW h \in Handlers, pc[h] \notin {"send", "flush"}, InHand(m),
                \A g \in Handlers \ {h} : /\ pc'[g] = pc[g]
                                          /\ tempMsg'[g] = tempMsg[g]
                                          /\ received'[g] = received[g]
         PROVE  InHand(m)'
  BY <1>move DEF InHand, data
\* A handler lets go of what it holds, and no other does.
<1>release. ASSUME NEW h \in Handlers, InHand(m),
                   \A g \in Handlers \ {h} : /\ pc'[g] = pc[g]
                                             /\ tempMsg'[g] = tempMsg[g]
                                             /\ received'[g] = received[g]
            PROVE  \/ InHand(m)'
                   \/ pc[h] = "send" /\ m = data(h)
                   \/ pc[h] = "flush" /\ m = tempMsg[h]
  BY <1>release DEF InHand, data
\* A message is put into a connection and none is taken out.
<1>send. ASSUME NEW c \in Conn, NEW x \in Sent, Send(c, x), opc[c] # "dead"
         PROVE  (OnWire(m) => OnWire(m)') /\ (m = x => OnWire(m)')
  <2>1. ToSet(wire'[c]) = ToSet(wire[c]) \cup {x}
    <3>1. wire'[c] = Append(wire[c], x)
      BY <1>send, <1>t, SendWire DEF TypeOK
    <3>2. wire[c] \in Seq(Sent)
      BY <1>t DEF TypeOK
    <3> QED BY <3>1, <3>2, ToSetAppend
  <2>2. \A k \in Conn \ {c} : wire'[k] = wire[k]
    BY <1>send, <1>t, SendWire DEF TypeOK
  <2> QED BY <2>1, <2>2 DEF OnWire
\* A message is taken out of a connection.
<1>recv. ASSUME NEW c \in Conn, wire[c] # <<>>, wire' = [wire EXCEPT ![c] = Tail(wire[c])],
                OnWire(m)
         PROVE  OnWire(m)' \/ m = Head(wire[c])
  <2>1. ToSet(wire[c]) = {Head(wire[c])} \cup ToSet(wire'[c])
    BY <1>recv, <1>t, ToSetTail DEF TypeOK
  <2>2. \A k \in Conn \ {c} : wire'[k] = wire[k]
    BY <1>recv, <1>t DEF TypeOK
  <2> QED BY <1>recv, <2>1, <2>2 DEF OnWire
\* A measurement is saved in temporaryQueue.
<1>save. ASSUME NEW x \in Sent, temporaryQueue' = Append(temporaryQueue, x)
         PROVE  ToSet(temporaryQueue') = ToSet(temporaryQueue) \cup {x}
  BY <1>save, <1>t, ToSetAppend DEF TypeOK
<1> USE DEF Goto, GotoO, netVars, origVars, handlerVars, connVars, mapVars
<1>1. ASSUME NEW h \in Handlers, Connect(h) PROVE Somewhere(m)'
  <2>1. InHand(m) => InHand(m)'
    BY <1>1, <1>t, <1>move DEF Connect, TypeOK
  <2> QED BY <1>1, <2>1, <1>wire, <1>odata DEF Connect, Somewhere
<1>2. ASSUME NEW h \in Handlers, TestQueue(h) PROVE Somewhere(m)'
  <2>1. InHand(m) => InHand(m)'
    BY <1>2, <1>t, <1>move DEF TestQueue, TypeOK
  <2> QED BY <1>2, <2>1, <1>wire, <1>odata DEF TestQueue, Somewhere
<1>3. ASSUME NEW h \in Handlers, TakeSaved(h) PROVE Somewhere(m)'
  <2>1. InHand(m) => InHand(m)'
    BY <1>3, <1>t, <1>move DEF TakeSaved, TypeOK
  <2>2. CASE temporaryQueue = <<>>
    <3>1. UNCHANGED <<temporaryQueue, wire, odata, queue>>
      BY <1>3, <2>2 DEF TakeSaved
    <3> QED BY <2>1, <3>1, <1>wire, <1>odata DEF Somewhere
  <2>3. CASE temporaryQueue # <<>>
    <3>1. ToSet(temporaryQueue) = {Head(temporaryQueue)} \cup ToSet(temporaryQueue')
      BY <1>3, <1>t, <2>3, ToSetTail DEF TakeSaved, TypeOK
    <3>2. pc'[h] = "flush" /\ tempMsg'[h] = Head(temporaryQueue)
      BY <1>3, <1>t, <2>3 DEF TakeSaved, TypeOK
    <3>3. m = Head(temporaryQueue) => InHand(m)'
      BY <3>2 DEF InHand
    <3> QED BY <1>3, <2>1, <3>1, <3>3, <1>wire, <1>odata DEF TakeSaved, Somewhere
  <2> QED BY <2>2, <2>3
<1>4. ASSUME NEW h \in Handlers, FlushSaved(h) PROVE Somewhere(m)'
  <2>1. conn[h] \in Conn /\ conn[h] # 0 /\ tempMsg[h] \in Sent
    BY <1>4, <1>t, ConstantsAssumption DEF FlushSaved, FlushConnected, TypeOK, Conn
  <2>2. opc[conn[h]] # "dead"
    BY <1>4, <2>1 DEF LossyStep
  <2>3. (OnWire(m) => OnWire(m)') /\ (m = tempMsg[h] => OnWire(m)')
    BY <1>4, <2>1, <2>2, <1>send DEF FlushSaved
  <2>4. InHand(m) => InHand(m)' \/ m = tempMsg[h]
    BY <1>4, <1>t, <1>release DEF FlushSaved, TypeOK
  <2> QED BY <1>4, <2>3, <2>4, <1>odata DEF FlushSaved, Somewhere
<1>5. ASSUME NEW h \in Handlers, FlushFails(h) PROVE Somewhere(m)'
  <2>1. ToSet(temporaryQueue') = ToSet(temporaryQueue) \cup {tempMsg[h]}
    BY <1>5, <1>t, <1>save DEF FlushFails, TypeOK
  <2>2. InHand(m) => InHand(m)' \/ m = tempMsg[h]
    BY <1>5, <1>t, <1>release DEF FlushFails, TypeOK
  <2> QED BY <1>5, <2>1, <2>2, <1>wire, <1>odata DEF FlushFails, Somewhere
<1>6. ASSUME NEW h \in Handlers, CheckFlushed(h) PROVE Somewhere(m)'
  <2>1. InHand(m) => InHand(m)'
    BY <1>6, <1>t, <1>move DEF CheckFlushed, TypeOK
  <2> QED BY <1>6, <2>1, <1>wire, <1>odata DEF CheckFlushed, Somewhere
<1>7. ASSUME NEW h \in Handlers, Forward(h) PROVE Somewhere(m)'
  <2>1. conn[h] \in Conn /\ conn[h] # 0 /\ data(h) \in Sent
    BY <1>7, <1>t, DataType, MeasurementType, ConstantsAssumption DEF Forward, TypeOK, Conn
  <2>2. opc[conn[h]] # "dead"
    BY <1>7, <2>1 DEF LossyStep
  <2>3. (OnWire(m) => OnWire(m)') /\ (m = data(h) => OnWire(m)')
    BY <1>7, <2>1, <2>2, <1>send DEF Forward
  <2>4. InHand(m) => InHand(m)' \/ m = data(h)
    BY <1>7, <1>t, <1>release DEF Forward, TypeOK
  <2> QED BY <1>7, <2>3, <2>4, <1>odata DEF Forward, Somewhere
<1>8. ASSUME NEW h \in Handlers, ForwardFails(h) PROVE Somewhere(m)'
  <2>1. data(h) \in Sent
    BY <1>8, <1>t, DataType, MeasurementType DEF ForwardFails
  <2>2. ToSet(temporaryQueue') = ToSet(temporaryQueue) \cup {data(h)}
    BY <1>8, <2>1, <1>save DEF ForwardFails
  <2>3. InHand(m) => InHand(m)' \/ m = data(h)
    BY <1>8, <1>t, <1>release DEF ForwardFails, TypeOK
  <2> QED BY <1>8, <2>2, <2>3, <1>wire, <1>odata DEF ForwardFails, Somewhere
<1>9. ASSUME NEW h \in Handlers, Receive(h) PROVE Somewhere(m)'
  <2>1. InHand(m) => InHand(m)'
    BY <1>9, <1>t, <1>move DEF Receive, TypeOK
  <2> QED BY <1>9, <2>1, <1>wire, <1>odata DEF Receive, Somewhere
<1>10. ASSUME NEW c \in Conn, IgnoreMessage(c) PROVE Somewhere(m)'
  <2>1. Head(wire[c]) \in Foreign \cup {Garbage}
    BY <1>10 DEF IgnoreMessage, Message, LossyStep
  <2>2. OnWire(m) => OnWire(m)'
    BY <1>10, <1>recv, <2>1 DEF IgnoreMessage, Readable, TakeMessage
  <2> QED BY <1>10, <2>2, <1>hand, <1>odata DEF IgnoreMessage, Somewhere, hand
<1>11. ASSUME NEW c \in Conn, ReceiveMessage(c) PROVE Somewhere(m)'
  <2>1. OnWire(m) => OnWire(m)' \/ m = Head(wire[c])
    BY <1>11, <1>recv DEF ReceiveMessage, Readable, TakeMessage
  <2>2. odata[c] = Garbage /\ odata' = [odata EXCEPT ![c] = Head(wire[c])]
    BY <1>11, <1>t DEF ReceiveMessage, Readable, Message, HoldsData, Busy
  <2>3. InData(m) \/ m = Head(wire[c]) => InData(m)'
    BY <1>t, <2>2 DEF InData, TypeOK
  <2> QED BY <1>11, <2>1, <2>3, <1>hand DEF ReceiveMessage, Somewhere, hand
<1>12. ASSUME NEW c \in Conn, ScanQueue(c) \/ LinkQueue(c) PROVE Somewhere(m)'
  <2>1. queue = <<>>
    BY <1>12, <1>t DEF LossyStep, QueueRegistered, TypeOK
  <2> QED BY <1>12, <2>1, <1>hand, <1>wire, <1>odata DEF ScanQueue, LinkQueue, Somewhere, hand
<1>13. ASSUME NEW c \in Conn, FindMutex(c) \/ LinkMutex(c) PROVE Somewhere(m)'
  BY <1>13, <1>hand, <1>wire, <1>odata DEF FindMutex, LinkMutex, Somewhere, hand
<1>14. ASSUME NEW c \in Conn, Enqueue(c) PROVE Somewhere(m)'
  <2>1. odata[c] \in Measurement \ Foreign
    BY <1>14, <1>t DEF Enqueue, HoldsData, Busy
  <2>2. queue' = Append(queue, odata[c])
    <3>1. oq[c] = entries /\ ~(nmtx > 1)
      BY <1>14 DEF LossyStep
    <3> QED BY <1>14, <3>1, Zenon DEF Enqueue
  <2>3. ToSet(queue') = ToSet(queue) \cup {odata[c]}
    <3>1. queue \in Seq(Measurement \ Foreign)
      BY <1>t DEF TypeOK
    <3> QED BY <2>1, <2>2, <3>1, ToSetAppend
  <2>4. InData(m) => InData(m)' \/ m = odata[c]
    BY <1>14, <1>t DEF InData, Enqueue, TypeOK
  <2> QED BY <1>14, <2>3, <2>4, <1>hand, <1>wire DEF Enqueue, Somewhere, hand
<1>15. CASE Restart
  BY <1>15, <1>hand, <1>wire, <1>odata DEF Restart, Somewhere, hand
<1> QED
  BY <1>1, <1>2, <1>3, <1>4, <1>5, <1>6, <1>7, <1>8, <1>9, <1>10, <1>11, <1>12, <1>13,
     <1>14, <1>15 DEF Next, HandlerStep, ServerStep, LossyStep

-----------------------------------------------------------------------------
(* What is stored twice.                                                   *)

\* The places a measurement can be in.
Saved == <<"saved", 0>>
Stored == <<"stored", 0>>
Hand(h) == <<"hand", h>>
Wire(c) == <<"wire", c>>
Data(c) == <<"data", c>>
Holder == {Saved, Stored} \cup {Hand(h) : h \in Handlers}
            \cup {Wire(c) : c \in Conn} \cup {Data(c) : c \in Conn}

Holds(p) ==
  IF p[1] = "saved" THEN ToSet(temporaryQueue)
  ELSE IF p[1] = "stored" THEN ToSet(queue)
  ELSE IF p[1] = "hand" THEN Held(p[2])
  ELSE IF p[1] = "wire" THEN ToSet(wire[p[2]])
  ELSE {odata[p[2]]} \ {Garbage}

\* Nothing but received measurements is anywhere, ...
OnlyReceived == \A p \in Holder : Holds(p) \subseteq Received

\* ... none in two places ...
OnePlace == \A p, q \in Holder : p # q => Holds(p) \cap Holds(q) = {}

\* ... and none in the same place twice.
NoneTwice ==
  /\ IsInjective(temporaryQueue) /\ IsInjective(queue)
  /\ \A c \in Conn : IsInjective(wire[c])

OnceInv == missed \/ (OnlyReceived /\ OnePlace /\ NoneTwice)

\* The places are told apart by what they hold.
LEMMA HoldsParts ==
  /\ Holds(Saved) = ToSet(temporaryQueue) /\ Holds(Stored) = ToSet(queue)
  /\ \A h \in Handlers : Holds(Hand(h)) = Held(h)
  /\ \A c \in Conn : Holds(Wire(c)) = ToSet(wire[c])
  /\ \A c \in Conn : Holds(Data(c)) = {odata[c]} \ {Garbage}
  BY DEF Holds, Saved, Stored, Hand, Wire, Data

LEMMA HoldsPartsNext ==
  /\ Holds(Saved)' = ToSet(temporaryQueue') /\ Holds(Stored)' = ToSet(queue')
  /\ \A h \in Handlers : Holds(Hand(h))' = Held(h)'
  /\ \A c \in Conn : Holds(Wire(c))' = ToSet(wire'[c])
  /\ \A c \in Conn : Holds(Data(c))' = {odata'[c]} \ {Garbage}
  BY DEF Holds, Saved, Stored, Hand, Wire, Data, ToSet, Held

\* Most of a step leaves most places as they are, or with less.
LEMMA Elsewhere ==
  ASSUME NEW E,
         Saved \notin E => ToSet(temporaryQueue') \subseteq ToSet(temporaryQueue),
         Stored \notin E => ToSet(queue') \subseteq ToSet(queue),
         \A h \in Handlers : Hand(h) \notin E => Held(h)' \subseteq Held(h),
         \A c \in Conn : Wire(c) \notin E => ToSet(wire'[c]) \subseteq ToSet(wire[c]),
         \A c \in Conn : Data(c) \notin E => odata'[c] \in {odata[c], Garbage}
  PROVE  \A p \in Holder \ E : Holds(p)' \subseteq Holds(p)
<1> SUFFICES ASSUME NEW p \in Holder, p \notin E PROVE Holds(p)' \subseteq Holds(p)
  OBVIOUS
<1>1. CASE p = Saved
  BY <1>1, HoldsParts, HoldsPartsNext
<1>2. CASE p = Stored
  BY <1>2, HoldsParts, HoldsPartsNext
<1>3. ASSUME NEW h \in Handlers, p = Hand(h) PROVE Holds(p)' \subseteq Holds(p)
  BY <1>3, HoldsParts, HoldsPartsNext
<1>4. ASSUME NEW c \in Conn, p = Wire(c) PROVE Holds(p)' \subseteq Holds(p)
  BY <1>4, HoldsParts, HoldsPartsNext
<1>5. ASSUME NEW c \in Conn, p = Data(c) PROVE Holds(p)' \subseteq Holds(p)
  BY <1>5, HoldsParts, HoldsPartsNext
<1> QED
  BY <1>1, <1>2, <1>3, <1>4, <1>5 DEF Holder

\* A measurement that leaves one place for another, or comes from nowhere, has
\* one place again; so does everything when nothing moves.
LEMMA Moved ==
  ASSUME OnlyReceived, OnePlace, Received \subseteq Received',
         NEW q \in Holder, NEW x,
         x \in Received',
         \A p \in Holder \ {q} : Holds(p)' \subseteq Holds(p),
         \A p \in Holder \ {q} : x \notin Holds(p)',
         Holds(q)' \subseteq Holds(q) \cup {x}
  PROVE  (OnlyReceived /\ OnePlace)'
<1>1. OnlyReceived'
  <2> SUFFICES ASSUME NEW p \in Holder PROVE Holds(p)' \subseteq Received'
    BY DEF OnlyReceived, Holder, Saved, Stored, Hand, Wire, Data
  <2> QED BY DEF OnlyReceived
<1>2. OnePlace'
  <2> SUFFICES ASSUME NEW p \in Holder, NEW r \in Holder, p # r
               PROVE  Holds(p)' \cap Holds(r)' = {}
    BY DEF OnePlace, Holder, Saved, Stored, Hand, Wire, Data
  <2>1. Holds(p) \cap Holds(r) = {}
    BY DEF OnePlace
  <2>2. \A s \in Holder : s = q \/ Holds(s)' \subseteq Holds(s)
    OBVIOUS
  <2> QED BY <2>1, <2>2
<1> QED
  BY <1>1, <1>2

LEMMA Unmoved ==
  ASSUME OnlyReceived, OnePlace, Received \subseteq Received',
         \A p \in Holder : Holds(p)' \subseteq Holds(p)
  PROVE  (OnlyReceived /\ OnePlace)'
<1>1. OnlyReceived'
  <2> SUFFICES ASSUME NEW p \in Holder PROVE Holds(p)' \subseteq Received'
    BY DEF OnlyReceived, Holder, Saved, Stored, Hand, Wire, Data
  <2> QED BY DEF OnlyReceived
<1>2. OnePlace'
  <2> SUFFICES ASSUME NEW p \in Holder, NEW r \in Holder, p # r
               PROVE  Holds(p)' \cap Holds(r)' = {}
    BY DEF OnePlace, Holder, Saved, Stored, Hand, Wire, Data
  <2> QED BY DEF OnePlace
<1> QED
  BY <1>1, <1>2

LEMMA ReceivedSame == UNCHANGED received => Received' = Received
  BY DEF Received

LEMMA NoneTwiceNext ==
  NoneTwice' <=> /\ IsInjective(temporaryQueue') /\ IsInjective(queue')
                 /\ \A c \in Conn : IsInjective(wire'[c])
  BY DEF NoneTwice, IsInjective

\* What the other handlers hold does not change in a handler's step.
LEMMA HeldByOthers ==
  ASSUME NEW h, \A g \in Handlers \ {h} : /\ pc'[g] = pc[g]
                                          /\ tempMsg'[g] = tempMsg[g]
                                          /\ received'[g] = received[g]
  PROVE  \A g \in Handlers \ {h} : Held(g)' = Held(g)
  BY DEF Held, data

LEMMA Holders ==
  /\ Saved \in Holder /\ Stored \in Holder
  /\ \A h \in Handlers : Hand(h) \in Holder
  /\ \A c \in Conn : Wire(c) \in Holder /\ Data(c) \in Holder
  /\ Saved # Stored
  /\ \A h \in Handlers : Hand(h) # Saved /\ Hand(h) # Stored
  /\ \A c \in Conn : /\ Wire(c) # Saved /\ Wire(c) # Stored
                     /\ Data(c) # Saved /\ Data(c) # Stored
  /\ \A h \in Handlers, c \in Conn : Hand(h) # Wire(c) /\ Hand(h) # Data(c)
  /\ \A c, d \in Conn : Wire(c) # Data(d)
  /\ \A g, h \in Handlers : g # h => Hand(g) # Hand(h)
  /\ \A c, d \in Conn : c # d => Wire(c) # Wire(d) /\ Data(c) # Data(d)
  BY DEF Holder, Saved, Stored, Hand, Wire, Data

\* A step that moves nothing, or lets a handler drop what it holds.
LEMMA OnceQuiet ==
  ASSUME OnlyReceived, OnePlace, NoneTwice,
         UNCHANGED <<temporaryQueue, queue, wire, odata, received>>,
         \A h \in Handlers : Held(h)' \subseteq Held(h)
  PROVE  (OnlyReceived /\ OnePlace /\ NoneTwice)'
<1>1. \A p \in Holder \ {} : Holds(p)' \subseteq Holds(p)
  BY Elsewhere
<1>2. (OnlyReceived /\ OnePlace)'
  BY <1>1, Unmoved, ReceivedSame
<1> QED
  BY <1>2, NoneTwiceNext DEF NoneTwice

\* A handler saves what it holds.
LEMMA OnceSave ==
  ASSUME TypeOK, OnlyReceived, OnePlace, NoneTwice,
         NEW h \in Handlers, NEW x \in Sent, Held(h) = {x}, Held(h)' = {},
         temporaryQueue' = Append(temporaryQueue, x),
         UNCHANGED <<queue, wire, odata, received>>,
         \A g \in Handlers \ {h} : Held(g)' = Held(g)
  PROVE  (OnlyReceived /\ OnePlace /\ NoneTwice)'
<1>t. temporaryQueue \in Seq(Sent)
  BY DEF TypeOK
<1>1. ToSet(temporaryQueue') = ToSet(temporaryQueue) \cup {x}
  BY <1>t, ToSetAppend
<1>2. x \in Holds(Hand(h))
  BY HoldsParts
<1>3. \A p \in Holder \ {Hand(h)} : x \notin Holds(p)
  BY <1>2, Holders DEF OnePlace
<1>4. \A p \in Holder \ {Saved} : Holds(p)' \subseteq Holds(p)
  <2>1. \A g \in Handlers : Held(g)' \subseteq Held(g)
    OBVIOUS
  <2> QED BY <2>1, Elsewhere
<1>5. \A p \in Holder \ {Saved} : x \notin Holds(p)'
  <2>1. x \notin Holds(Hand(h))'
    BY HoldsPartsNext
  <2> QED BY <1>3, <1>4, <2>1
<1>6. Holds(Saved)' \subseteq Holds(Saved) \cup {x}
  BY <1>1, HoldsParts, HoldsPartsNext
<1>7. x \in Received'
  BY <1>2, Holders, ReceivedSame DEF OnlyReceived
<1>8. (OnlyReceived /\ OnePlace)'
  BY <1>4, <1>5, <1>6, <1>7, Holders, Moved, ReceivedSame
<1>9. IsInjective(temporaryQueue')
  <2>1. x \notin ToSet(temporaryQueue)
    BY <1>3, Holders, HoldsParts
  <2> QED BY <1>t, <2>1, InjectiveAppend DEF NoneTwice
<1> QED
  BY <1>8, <1>9, NoneTwiceNext DEF NoneTwice

\* A handler sends what it holds, and the message arrives or is lost.
LEMMA OnceSend ==
  ASSUME TypeOK, OnlyReceived, OnePlace, NoneTwice,
         NEW h \in Handlers, NEW c \in Conn, NEW x \in Sent,
         Held(h) = {x}, Held(h)' = {}, Send(c, x),
         UNCHANGED <<temporaryQueue, queue, odata, received>>,
         \A g \in Handlers \ {h} : Held(g)' = Held(g)
  PROVE  (OnlyReceived /\ OnePlace /\ NoneTwice)'
<1>0. \A g \in Handlers : Held(g)' \subseteq Held(g)
  OBVIOUS
<1>1. CASE opc[c] = "dead"
  <2>1. UNCHANGED wire
    BY <1>1 DEF Send
  <2> QED BY <1>0, <2>1, OnceQuiet
<1>2. CASE opc[c] # "dead"
  <2>t. wire[c] \in Seq(Sent) /\ wire \in [Conn -> Seq(Sent)]
    BY DEF TypeOK
  <2>s. wire'[c] = Append(wire[c], x) /\ \A k \in Conn \ {c} : wire'[k] = wire[k]
    BY <1>2, <2>t, SendWire
  <2>1. ToSet(wire'[c]) = ToSet(wire[c]) \cup {x}
    BY <2>t, <2>s, ToSetAppend
  <2>2. x \in Holds(Hand(h))
    BY HoldsParts
  <2>3. \A p \in Holder \ {Hand(h)} : x \notin Holds(p)
    BY <2>2, Holders DEF OnePlace
  <2>4. \A p \in Holder \ {Wire(c)} : Holds(p)' \subseteq Holds(p)
    <3>1. \A k \in Conn : Wire(k) \notin {Wire(c)} => ToSet(wire'[k]) \subseteq ToSet(wire[k])
      BY <2>s
    <3>2. \A k \in Conn : Data(k) \notin {Wire(c)} => odata'[k] \in {odata[k], Garbage}
      OBVIOUS
    <3> QED BY <1>0, <3>1, <3>2, Elsewhere
  <2>5. \A p \in Holder \ {Wire(c)} : x \notin Holds(p)'
    <3>1. x \notin Holds(Hand(h))'
      BY HoldsPartsNext
    <3> QED BY <2>3, <2>4, <3>1
  <2>6. Holds(Wire(c))' \subseteq Holds(Wire(c)) \cup {x}
    BY <2>1, HoldsParts, HoldsPartsNext
  <2>7. x \in Received'
    BY <2>2, Holders, ReceivedSame DEF OnlyReceived
  <2>8. (OnlyReceived /\ OnePlace)'
    BY <2>4, <2>5, <2>6, <2>7, Holders, Moved, ReceivedSame
  <2>9. IsInjective(wire'[c])
    <3>1. x \notin ToSet(wire[c])
      BY <2>3, Holders, HoldsParts
    <3> QED BY <2>t, <2>s, <3>1, InjectiveAppend DEF NoneTwice
  <2> QED
    BY <2>8, <2>9, <2>s, NoneTwiceNext DEF NoneTwice
<1> QED
  BY <1>1, <1>2

\* A message is taken out of a connection.
LEMMA WireShortened ==
  ASSUME wire \in [Conn -> Seq(Sent)], NEW c \in Conn, wire[c] # <<>>,
         wire' = [wire EXCEPT ![c] = Tail(@)]
  PROVE  /\ Head(wire[c]) \in ToSet(wire[c]) /\ Head(wire[c]) \in Sent
         /\ wire'[c] = Tail(wire[c])
         /\ \A k \in Conn \ {c} : wire'[k] = wire[k]
         /\ \A k \in Conn : ToSet(wire'[k]) \subseteq ToSet(wire[k])
<1>1. /\ Head(wire[c]) \in Sent
      /\ ToSet(wire[c]) = {Head(wire[c])} \cup ToSet(Tail(wire[c]))
  BY ToSetTail
<1>2. wire'[c] = Tail(wire[c]) /\ \A k \in Conn \ {c} : wire'[k] = wire[k]
  OBVIOUS
<1> QED
  BY <1>1, <1>2

LEMMA WireOnce ==
  ASSUME wire \in [Conn -> Seq(Sent)], NoneTwice, NEW c \in Conn, wire[c] # <<>>,
         wire' = [wire EXCEPT ![c] = Tail(@)]
  PROVE  /\ Head(wire[c]) \notin ToSet(wire'[c])
         /\ \A k \in Conn : IsInjective(wire'[k])
<1>1. IsInjective(Tail(wire[c])) /\ Head(wire[c]) \notin ToSet(Tail(wire[c]))
  BY InjectiveTail DEF NoneTwice
<1> QED
  BY <1>1, WireShortened DEF NoneTwice

LEMMA HandsSame ==
  UNCHANGED <<pc, received, tempMsg>> => \A h \in Handlers : Held(h)' = Held(h)
  BY DEF Held, data

\* The server loses or forgets something.
LEMMA OnceLess ==
  ASSUME OnlyReceived, OnePlace, NoneTwice,
         queue' \in {queue, <<>>},
         \A c \in Conn : /\ ToSet(wire'[c]) \subseteq ToSet(wire[c]) /\ IsInjective(wire'[c])
                         /\ odata'[c] \in {odata[c], Garbage},
         UNCHANGED <<temporaryQueue, received, pc, tempMsg>>
  PROVE  (OnlyReceived /\ OnePlace /\ NoneTwice)'
<1>1. ToSet(queue') \subseteq ToSet(queue) /\ IsInjective(queue')
  BY ToSetEmpty, InjectiveEmpty DEF NoneTwice
<1>2. \A p \in Holder \ {} : Holds(p)' \subseteq Holds(p)
  BY <1>1, HandsSame, Elsewhere
<1>3. (OnlyReceived /\ OnePlace)'
  BY <1>2, Unmoved, ReceivedSame
<1> QED
  BY <1>1, <1>3, NoneTwiceNext DEF NoneTwice

\* missed and borrowed stay TRUE.
LEMMA Remembered ==
  ASSUME [Next]_vars
  PROVE  (missed => missed') /\ (borrowed => borrowed')
<1>1. ASSUME NEW h \in Handlers, Receive(h) \/ HandlerStep(h)
      PROVE  (missed => missed') /\ (borrowed => borrowed')
  <2>1. CASE TakeSaved(h)
    BY <2>1, Zenon DEF TakeSaved
  <2>2. CASE ~TakeSaved(h)
    BY <1>1, <2>2 DEF HandlerStep, Connect, TestQueue, FlushSaved, FlushFails,
       CheckFlushed, Forward, ForwardFails, Receive
  <2> QED BY <2>1, <2>2
<1>2. ASSUME UNCHANGED handlerVars PROVE (missed => missed') /\ (borrowed => borrowed')
  BY <1>2 DEF handlerVars
<1>3. (\E c \in Conn : ServerStep(c)) \/ Crash \/ Restart \/ UNCHANGED vars
         => UNCHANGED handlerVars
  BY ServerSteps DEF Crash, Restart, vars
<1> QED
  BY <1>1, <1>2, <1>3 DEF Next

LEMMA OnceStep == IInv /\ OnceInv /\ [Next]_vars => OnceInv'
<1> SUFFICES ASSUME IInv, OnceInv, [Next]_vars PROVE OnceInv'
  OBVIOUS
<1>t. TypeOK /\ DataReceived /\ FlushConnected /\ HoldsData /\ QueueRegistered
  BY DEF IInv
<1>w. wire \in [Conn -> Seq(Sent)]
  BY <1>t DEF TypeOK
<1>0. CASE missed
  BY <1>0, Remembered DEF OnceInv
<1> DEFINE P == OnlyReceived /\ OnePlace /\ NoneTwice
<1>p. ASSUME P' PROVE OnceInv'
  BY <1>p DEF OnceInv
<1> SUFFICES ASSUME ~missed PROVE OnceInv'
  BY <1>0
<1>i. OnlyReceived /\ OnePlace /\ NoneTwice
  BY DEF OnceInv
<1> USE DEF Goto, GotoO, netVars, origVars, handlerVars, connVars, mapVars
<1>1. ASSUME NEW h \in Handlers, Connect(h) \/ TestQueue(h) \/ CheckFlushed(h) PROVE OnceInv'
  <2>1. /\ UNCHANGED <<temporaryQueue, queue, wire, odata, received, tempMsg>>
        /\ pc'[h] \notin {"send", "flush"}
        /\ \A g \in Handlers \ {h} : pc'[g] = pc[g]
    BY <1>1, <1>t DEF Connect, TestQueue, CheckFlushed, TypeOK
  <2>2. \A g \in Handlers : Held(g)' \subseteq Held(g)
    BY <2>1, HeldByOthers DEF Held
  <2> QED BY <1>i, <1>p, <2>1, <2>2, OnceQuiet
<1>2. ASSUME NEW h \in Handlers, TakeSaved(h) PROVE OnceInv'
  <2>1. CASE temporaryQueue = <<>>
    <3>1. missed'
      BY <1>2, <2>1 DEF TakeSaved
    <3> QED BY <3>1 DEF OnceInv
  <2>2. CASE temporaryQueue # <<>>
    <3> DEFINE x == Head(temporaryQueue)
    <3>1. /\ temporaryQueue' = Tail(temporaryQueue)
          /\ pc[h] = "take" /\ pc'[h] = "flush" /\ tempMsg'[h] = x
          /\ \A g \in Handlers \ {h} : pc'[g] = pc[g] /\ tempMsg'[g] = tempMsg[g]
          /\ UNCHANGED <<queue, wire, odata, received>>
      BY <1>2, <1>t, <2>2 DEF TakeSaved, TypeOK
    <3>t. temporaryQueue \in Seq(Sent)
      BY <1>t DEF TypeOK
    <3>2. ToSet(temporaryQueue) = {x} \cup ToSet(temporaryQueue')
      BY <2>2, <3>1, <3>t, ToSetTail
    <3>3. IsInjective(temporaryQueue') /\ x \notin ToSet(temporaryQueue')
      BY <1>i, <2>2, <3>1, <3>t, InjectiveTail DEF NoneTwice
    <3>4. Held(h) = {} /\ Held(h)' = {x} /\ \A g \in Handlers \ {h} : Held(g)' = Held(g)
      BY <3>1, HeldByOthers DEF Held
    <3>5. x \in Holds(Saved)
      BY <3>2, HoldsParts
    <3>6. \A p \in Holder \ {Saved} : x \notin Holds(p)
      BY <1>i, <3>5, Holders DEF OnePlace
    <3>7. \A p \in Holder \ {Hand(h)} : Holds(p)' \subseteq Holds(p)
      <4>1. \A g \in Handlers : Hand(g) \notin {Hand(h)} => Held(g)' \subseteq Held(g)
        BY <3>4
      <4>2. ToSet(temporaryQueue') \subseteq ToSet(temporaryQueue)
        BY <3>2
      <4> QED BY <3>1, <4>1, <4>2, Elsewhere
    <3>8. \A p \in Holder \ {Hand(h)} : x \notin Holds(p)'
      BY <3>3, <3>6, <3>7, HoldsPartsNext
    <3>9. Holds(Hand(h))' \subseteq Holds(Hand(h)) \cup {x}
      BY <3>4, HoldsPartsNext
    <3>10. x \in Received' /\ Received \subseteq Received'
      BY <1>i, <3>1, <3>5, Holders, ReceivedSame DEF OnlyReceived
    <3>11. (OnlyReceived /\ OnePlace)'
      <4>1. Hand(h) \in Holder
        BY Holders
      <4> HIDE DEF x
      <4> QED BY <1>i, <3>7, <3>8, <3>9, <3>10, <4>1, Moved
    <3>12. NoneTwice'
      BY <1>i, <3>1, <3>3, NoneTwiceNext DEF NoneTwice
    <3> QED BY <1>p, <3>11, <3>12
  <2> QED BY <2>1, <2>2
<1>3. ASSUME NEW h \in Handlers, FlushSaved(h) PROVE OnceInv'
  <2>1. conn[h] \in Conn /\ tempMsg[h] \in Sent
    BY <1>3, <1>t, ConstantsAssumption DEF FlushSaved, FlushConnected, TypeOK, Conn
  <2>2. /\ Send(conn[h], tempMsg[h]) /\ pc[h] = "flush" /\ pc'[h] = "test"
        /\ \A g \in Handlers \ {h} : pc'[g] = pc[g]
        /\ UNCHANGED <<temporaryQueue, queue, odata, received, tempMsg>>
    BY <1>3, <1>t DEF FlushSaved, TypeOK
  <2>3. Held(h) = {tempMsg[h]} /\ Held(h)' = {} /\ \A g \in Handlers \ {h} : Held(g)' = Held(g)
    BY <2>2, HeldByOthers DEF Held
  <2> QED BY <1>i, <1>p, <1>t, <2>1, <2>2, <2>3, OnceSend
<1>4. ASSUME NEW h \in Handlers, FlushFails(h) PROVE OnceInv'
  <2>1. /\ pc[h] = "flush" /\ pc'[h] = "check" /\ tempMsg[h] \in Sent
        /\ temporaryQueue' = Append(temporaryQueue, tempMsg[h])
        /\ \A g \in Handlers \ {h} : pc'[g] = pc[g]
        /\ UNCHANGED <<queue, wire, odata, received, tempMsg>>
    BY <1>4, <1>t DEF FlushFails, TypeOK
  <2>2. Held(h) = {tempMsg[h]} /\ Held(h)' = {} /\ \A g \in Handlers \ {h} : Held(g)' = Held(g)
    BY <2>1, HeldByOthers DEF Held
  <2> QED BY <1>i, <1>p, <1>t, <2>1, <2>2, OnceSave
<1>5. ASSUME NEW h \in Handlers, Forward(h) PROVE OnceInv'
  <2>1. conn[h] \in Conn /\ data(h) \in Sent
    BY <1>5, <1>t, DataType, MeasurementType, ConstantsAssumption DEF Forward, TypeOK, Conn
  <2>2. /\ Send(conn[h], data(h)) /\ pc[h] = "send" /\ pc'[h] = "recv"
        /\ \A g \in Handlers \ {h} : pc'[g] = pc[g]
        /\ UNCHANGED <<temporaryQueue, queue, odata, received, tempMsg>>
    BY <1>5, <1>t DEF Forward, TypeOK
  <2>3. Held(h) = {data(h)} /\ Held(h)' = {} /\ \A g \in Handlers \ {h} : Held(g)' = Held(g)
    BY <2>2, HeldByOthers DEF Held
  <2> QED BY <1>i, <1>p, <1>t, <2>1, <2>2, <2>3, OnceSend
<1>6. ASSUME NEW h \in Handlers, ForwardFails(h) PROVE OnceInv'
  <2>1. data(h) \in Sent
    BY <1>6, <1>t, DataType, MeasurementType DEF ForwardFails
  <2>2. /\ pc[h] = "send" /\ pc'[h] = "connect"
        /\ temporaryQueue' = Append(temporaryQueue, data(h))
        /\ \A g \in Handlers \ {h} : pc'[g] = pc[g]
        /\ UNCHANGED <<queue, wire, odata, received, tempMsg>>
    BY <1>6, <1>t DEF ForwardFails, TypeOK
  <2>3. Held(h) = {data(h)} /\ Held(h)' = {} /\ \A g \in Handlers \ {h} : Held(g)' = Held(g)
    BY <2>2, HeldByOthers DEF Held
  <2> QED BY <1>i, <1>p, <1>t, <2>1, <2>2, <2>3, OnceSave
<1>7. ASSUME NEW h \in Handlers, Receive(h) PROVE OnceInv'
  <2> DEFINE x == <<h, received[h] + 1>>
  <2>1. /\ pc[h] = "recv" /\ pc'[h] = "send" /\ received'[h] = received[h] + 1
        /\ \A g \in Handlers \ {h} : pc'[g] = pc[g] /\ received'[g] = received[g]
        /\ UNCHANGED <<temporaryQueue, queue, wire, odata, tempMsg>>
        /\ \A g \in Handlers : received[g] \in Nat /\ received'[g] \in Nat
    BY <1>7, <1>t DEF Receive, TypeOK
  <2>2. x \notin Received /\ x \in Received' /\ Received \subseteq Received'
    BY <2>1 DEF Received
  <2>3. Held(h) = {} /\ Held(h)' = {x} /\ \A g \in Handlers \ {h} : Held(g)' = Held(g)
    BY <2>1, HeldByOthers DEF Held, data
  <2>4. \A p \in Holder \ {Hand(h)} : Holds(p)' \subseteq Holds(p)
    <3>1. \A g \in Handlers : Hand(g) \notin {Hand(h)} => Held(g)' \subseteq Held(g)
      BY <2>3
    <3> QED BY <2>1, <3>1, Elsewhere
  <2>5. \A p \in Holder \ {Hand(h)} : x \notin Holds(p)'
    BY <1>i, <2>2, <2>4 DEF OnlyReceived
  <2>6. Holds(Hand(h))' \subseteq Holds(Hand(h)) \cup {x}
    BY <2>3, HoldsPartsNext
  <2>7. (OnlyReceived /\ OnePlace)'
    <3>1. Hand(h) \in Holder
      BY Holders
    <3> HIDE DEF x
    <3> QED BY <1>i, <2>2, <2>4, <2>5, <2>6, <3>1, Moved
  <2>8. NoneTwice'
    BY <1>i, <2>1, NoneTwiceNext DEF NoneTwice
  <2> QED BY <1>p, <2>7, <2>8
<1>8. ASSUME NEW c \in Conn, IgnoreMessage(c) PROVE OnceInv'
  <2>1. /\ wire[c] # <<>> /\ wire' = [wire EXCEPT ![c] = Tail(@)]
        /\ UNCHANGED <<temporaryQueue, queue, odata, received, pc, tempMsg>>
    BY <1>8 DEF IgnoreMessage, Readable, TakeMessage
  <2>2. \A k \in Conn : IsInjective(wire'[k]) /\ ToSet(wire'[k]) \subseteq ToSet(wire[k])
    BY <1>i, <1>w, <2>1, WireShortened, WireOnce
  <2> QED BY <1>i, <1>p, <2>1, <2>2, OnceLess
<1>9. ASSUME NEW c \in Conn, ReceiveMessage(c) PROVE OnceInv'
  <2> DEFINE x == Head(wire[c])
  <2>1. /\ wire[c] # <<>> /\ wire' = [wire EXCEPT ![c] = Tail(@)]
        /\ odata'[c] = x /\ \A k \in Conn \ {c} : odata'[k] = odata[k]
        /\ UNCHANGED <<temporaryQueue, queue, received, pc, tempMsg>>
    BY <1>9, <1>t DEF ReceiveMessage, Readable, TakeMessage, Message, TypeOK
  <2>2. /\ x \in ToSet(wire[c]) /\ x \in Sent /\ x \notin ToSet(wire'[c])
        /\ \A k \in Conn : IsInjective(wire'[k]) /\ ToSet(wire'[k]) \subseteq ToSet(wire[k])
    BY <1>i, <1>w, <2>1, WireShortened, WireOnce
  <2> HIDE DEF x
  <2>3. x \in Holds(Wire(c))
    BY <2>2, HoldsParts
  <2>4. x \in Received
    BY <1>i, <2>3, Holders DEF OnlyReceived
  <2>5. \A p \in Holder \ {Wire(c)} : x \notin Holds(p)
    BY <1>i, <2>3, Holders DEF OnePlace
  <2>6. \A p \in Holder \ {Data(c)} : Holds(p)' \subseteq Holds(p)
    <3>1. \A h \in Handlers : Held(h)' \subseteq Held(h)
      BY <2>1, HandsSame
    <3>2. \A k \in Conn : Data(k) \notin {Data(c)} => odata'[k] \in {odata[k], Garbage}
      BY <2>1
    <3> QED BY <2>1, <2>2, <3>1, <3>2, Elsewhere
  <2>7. \A p \in Holder \ {Data(c)} : x \notin Holds(p)'
    BY <2>2, <2>5, <2>6, HoldsPartsNext
  <2>8. Holds(Data(c))' \subseteq Holds(Data(c)) \cup {x}
    BY <2>1, HoldsPartsNext
  <2>9. (OnlyReceived /\ OnePlace)'
    BY <1>i, <2>1, <2>4, <2>6, <2>7, <2>8, Holders, Moved, ReceivedSame
  <2>10. NoneTwice'
    BY <1>i, <2>1, <2>2, NoneTwiceNext DEF NoneTwice
  <2> QED BY <1>p, <2>9, <2>10
<1>10. ASSUME NEW c \in Conn,
              ScanQueue(c) \/ LinkQueue(c) \/ FindMutex(c) \/ LinkMutex(c)
       PROVE  OnceInv'
  <2>1. /\ queue' \in {queue, <<>>}
        /\ UNCHANGED <<temporaryQueue, wire, odata, received, pc, tempMsg>>
    BY <1>10 DEF ScanQueue, LinkQueue, FindMutex, LinkMutex
  <2> QED BY <1>i, <1>p, <2>1, OnceLess DEF NoneTwice
<1>11. ASSUME NEW c \in Conn, Enqueue(c), queue' = Append(queue, odata[c]) PROVE OnceInv'
  <2> DEFINE x == odata[c]
  <2>1. /\ queue' = Append(queue, x) /\ x \in Measurement /\ queue \in Seq(Measurement)
        /\ odata'[c] = Garbage /\ \A k \in Conn \ {c} : odata'[k] = odata[k]
        /\ UNCHANGED <<temporaryQueue, wire, received, pc, tempMsg>>
    <3>1. x \in Measurement
      BY <1>11, <1>t DEF Enqueue, HoldsData, Busy
    <3>2. queue \in Seq(Measurement)
      BY <1>t DEF TypeOK
    <3> QED BY <1>11, <1>t, <3>1, <3>2 DEF Enqueue, TypeOK
  <2>2. x \in Holds(Data(c))
    BY <2>1, HoldsParts, MeasurementType DEF Measurement
  <2> HIDE DEF x
  <2>3. ToSet(queue') = ToSet(queue) \cup {x}
    BY <2>1, ToSetAppend
  <2>4. x \in Received
    BY <1>i, <2>2, Holders DEF OnlyReceived
  <2>5. \A p \in Holder \ {Data(c)} : x \notin Holds(p)
    BY <1>i, <2>2, Holders DEF OnePlace
  <2>6. \A p \in Holder \ {Stored} : Holds(p)' \subseteq Holds(p)
    BY <2>1, HandsSame, Elsewhere
  <2>7. \A p \in Holder \ {Stored} : x \notin Holds(p)'
    <3>1. Holds(Data(c))' = {}
      BY <2>1, HoldsPartsNext
    <3> QED BY <2>5, <2>6, <3>1
  <2>8. Holds(Stored)' \subseteq Holds(Stored) \cup {x}
    BY <2>3, HoldsParts, HoldsPartsNext
  <2>9. (OnlyReceived /\ OnePlace)'
    BY <1>i, <2>1, <2>4, <2>6, <2>7, <2>8, Holders, Moved, ReceivedSame
  <2>10. IsInjective(queue')
    <3>1. x \notin ToSet(queue)
      BY <2>5, Holders, HoldsParts
    <3> QED BY <1>i, <2>1, <3>1, InjectiveAppend DEF NoneTwice
  <2> QED BY <1>i, <1>p, <2>1, <2>9, <2>10, NoneTwiceNext DEF NoneTwice
<1>12. ASSUME NEW c \in Conn, Enqueue(c), queue' # Append(queue, odata[c]) PROVE OnceInv'
  <2>1. queue' \in {queue, <<>>}
    BY <1>12 DEF Enqueue
  <2>2. /\ \A k \in Conn : odata'[k] \in {odata[k], Garbage}
        /\ UNCHANGED <<temporaryQueue, wire, received, pc, tempMsg>>
    BY <1>12, <1>t DEF Enqueue, TypeOK
  <2> QED BY <1>i, <1>p, <2>1, <2>2, OnceLess DEF NoneTwice
<1>13. CASE Crash
  <2>1. /\ queue' = <<>> /\ \A c \in Conn : wire'[c] = <<>> /\ odata'[c] = Garbage
        /\ UNCHANGED <<temporaryQueue, received, pc, tempMsg>>
    BY <1>13 DEF Crash
  <2> QED BY <1>i, <1>p, <2>1, ToSetEmpty, InjectiveEmpty, OnceLess
<1>14. CASE Restart \/ UNCHANGED vars
  <2>1. UNCHANGED <<temporaryQueue, queue, wire, odata, received, pc, tempMsg>>
    BY <1>14 DEF Restart, vars
  <2>2. \A h \in Handlers : Held(h)' \subseteq Held(h)
    BY <2>1, HandsSame
  <2> QED BY <1>i, <1>p, <2>1, <2>2, OnceQuiet
<1> QED
  BY <1>1, <1>2, <1>3, <1>4, <1>5, <1>6, <1>7, <1>8, <1>9, <1>10, <1>11, <1>12, <1>13, <1>14
     DEF Next, HandlerStep, ServerStep

LEMMA InitOnce == Init => OnceInv
<1> SUFFICES ASSUME Init PROVE OnlyReceived /\ OnePlace /\ NoneTwice
  BY DEF OnceInv
<1>1. /\ queue = <<>> /\ \A h \in Handlers : Held(h) = {}
      /\ \A c \in Conn : wire[c] = <<>> /\ odata[c] = Garbage
  BY DEF Init, Held
<1>2. \A p \in Holder : p = Saved \/ Holds(p) = {}
  BY <1>1, HoldsParts, ToSetEmpty DEF Holder
<1>3. IsInjective(temporaryQueue) /\ ToSet(temporaryQueue) \subseteq Received
  <2>1. CASE temporaryQueue = <<>>
    BY <2>1, ToSetEmpty, InjectiveEmpty
  <2>2. ASSUME NEW h \in Handlers, temporaryQueue = << <<h, 1>> >>
        PROVE  IsInjective(temporaryQueue) /\ ToSet(temporaryQueue) \subseteq Received
    <3>1. IsInjective(temporaryQueue)
      BY <2>2 DEF IsInjective
    <3>2. ToSet(temporaryQueue) = {<<h, 1>>}
      BY <2>2, ToSetOne
    <3>3. received[h] = 1
      BY <2>2 DEF Init
    <3>4. <<h, 1>> \in Received
      BY <3>3 DEF Received
    <3> QED BY <3>1, <3>2, <3>4
  <2> QED BY <2>1, <2>2 DEF Init
<1>4. OnlyReceived
  BY <1>2, <1>3, HoldsParts DEF OnlyReceived
<1>5. OnePlace
  BY <1>2 DEF OnePlace
<1>6. NoneTwice
  BY <1>1, <1>3, InjectiveEmpty DEF NoneTwice
<1> QED
  BY <1>4, <1>5, <1>6

-----------------------------------------------------------------------------
(* In which order it is stored.                                            *)

Of(h) == {h} \X Nat

\* A handler that takes back only its own measurements holds or has saved none
\* but the last one it received, and has saved none when it waits for the next.
OnlyNewest ==
  \A h \in Handlers :
    /\ Held(h) \subseteq {data(h)}
    /\ ToSet(temporaryQueue) \cap Of(h) \subseteq {data(h)}
    /\ pc[h] = "recv" => ToSet(temporaryQueue) \cap Of(h) = {}

\* No two handlers have the same connection, nor one that was not opened.
ConnsOwned ==
  /\ \A g, h \in Handlers : g # h /\ conn[g] # 0 => conn[g] # conn[h]
  /\ \A h \in Handlers : conn[h] # 0 => opc[conn[h]] # "unused"

DeadEmpty == \A c \in Conn : opc[c] = "dead" => wire[c] = <<>>

\* What a handler has received is under way in its own connection only, ...
OwnConnection ==
  \A c \in Conn, h \in Handlers :
    (ToSet(wire[c]) \cup {odata[c]}) \cap Of(h) # {} => conn[h] = c

\* ... in the order in which it came, behind what is stored already.
Before(S, T) == \A x \in S, y \in T : x[1] = y[1] => x[2] < y[2]

Ascends(s) == \A i, j \in 1..Len(s) : i < j /\ s[i][1] = s[j][1] => s[i][2] < s[j][2]

WayOrdered ==
  /\ Ascends(queue)
  /\ \A c \in Conn :
       /\ Ascends(wire[c])
       /\ Before(ToSet(queue), ToSet(wire[c]) \cup Holds(Data(c)))
       /\ Before(Holds(Data(c)), ToSet(wire[c]))

OrderInv ==
  /\ ConnsOwned /\ DeadEmpty
  /\ missed \/ borrowed \/ OnlyNewest
  /\ missed \/ borrowed \/ Forgotten # {} \/ (OwnConnection /\ WayOrdered)

LEMMA AscendsAppend ==
  ASSUME NEW S, NEW q \in Seq(S), NEW m \in S, Ascends(q),
         \A x \in ToSet(q) : x[1] = m[1] => x[2] < m[2]
  PROVE  Ascends(Append(q, m))
<1> DEFINE r == Append(q, m)  n == Len(q)
<1>1. /\ n \in Nat /\ Len(r) = n + 1
      /\ \A i \in 1..n : r[i] = q[i]
      /\ r[n + 1] = m
  BY Appended
<1>2. \A i \in 1..n : q[i][1] = m[1] => q[i][2] < m[2]
  BY InToSet
<1>3. \A i, j \in 1..n : i < j /\ q[i][1] = q[j][1] => q[i][2] < q[j][2]
  BY DEF Ascends
<1> HIDE DEF r, n
<1>4. ASSUME NEW i \in 1..n + 1, NEW j \in 1..n + 1, i < j, r[i][1] = r[j][1]
      PROVE  r[i][2] < r[j][2]
  <2>1. i \in 1..n /\ (j = n + 1 \/ j \in 1..n)
    BY <1>1, <1>4
  <2> QED BY <1>1, <1>2, <1>3, <1>4, <2>1
<1>5. Ascends(r)
  BY <1>1, <1>4 DEF Ascends
<1> QED
  BY <1>5 DEF r

LEMMA AscendsTail ==
  ASSUME NEW S, NEW q \in Seq(S), q # <<>>, Ascends(q)
  PROVE  Ascends(Tail(q)) /\ Before({Head(q)}, ToSet(Tail(q)))
<1> DEFINE r == Tail(q)  n == Len(q)
<1>1. /\ n \in Nat \ {0} /\ Len(r) = n - 1 /\ r \in Seq(S)
      /\ \A i \in 1..n - 1 : r[i] = q[i + 1]
      /\ Head(q) = q[1]
  BY Shortened
<1>2. \A i, j \in 1..n : i < j /\ q[i][1] = q[j][1] => q[i][2] < q[j][2]
  BY DEF Ascends
<1> HIDE DEF r, n
<1>3. \A x \in ToSet(r) : \E i \in 1..n - 1 : r[i] = x
  BY <1>1, InToSet
<1>4. ASSUME NEW i \in 1..n - 1, NEW j \in 1..n - 1, i < j, r[i][1] = r[j][1]
      PROVE  r[i][2] < r[j][2]
  <2>1. i + 1 \in 1..n /\ j + 1 \in 1..n /\ i + 1 < j + 1
    BY <1>1, <1>4
  <2> QED BY <1>1, <1>2, <1>4, <2>1
<1>5. Ascends(r)
  BY <1>1, <1>4 DEF Ascends
<1>6. ASSUME NEW x \in ToSet(r), q[1][1] = x[1] PROVE q[1][2] < x[2]
  <2>1. PICK i \in 1..n - 1 : r[i] = x
    BY <1>3
  <2>2. 1 \in 1..n /\ i + 1 \in 1..n /\ 1 < i + 1
    BY <1>1
  <2> QED BY <1>1, <1>2, <1>6, <2>1, <2>2
<1> QED
  BY <1>1, <1>5, <1>6 DEF r, Before

LEMMA AscendsEmpty == Ascends(<<>>)
  BY DEF Ascends

\* What is received is a pair.
LEMMA ReceivedPairs ==
  ASSUME TypeOK, NEW x \in Received
  PROVE  /\ x[1] \in Handlers /\ x[2] \in Nat /\ x[2] <= received[x[1]]
         /\ x = <<x[1], x[2]>> /\ x \in Of(x[1])
         /\ \A h \in Handlers : x \in Of(h) <=> x[1] = h
<1>1. PICK h \in Handlers : \E n \in 1..received[h] : x = <<h, n>>
  BY DEF Received
<1>2. received[h] \in Nat
  BY DEF TypeOK
<1> QED
  BY <1>1, <1>2 DEF Of

\* Everything else a handler has received came before what it holds.
LEMMA HeldIsLast ==
  ASSUME TypeOK, OnlyReceived, OnePlace, NEW h \in Handlers, Held(h) = {data(h)},
         NEW p \in Holder, p # Hand(h), NEW y \in Holds(p), y[1] = h
  PROVE  y[2] < received[h]
<1>1. y \in Received
  BY DEF OnlyReceived
<1>2. y[2] \in Nat /\ y[2] <= received[h] /\ y = <<h, y[2]>> /\ received[h] \in Nat
  BY <1>1, ReceivedPairs DEF TypeOK
<1>3. data(h) \in Holds(Hand(h))
  BY HoldsParts
<1>4. y # data(h)
  BY <1>3, Holders DEF OnePlace
<1>5. y[2] # received[h]
  BY <1>2, <1>4 DEF data
<1> QED
  BY <1>2, <1>5

\* A connection is forgotten until the original server dies.
LEMMA ForgottenKept ==
  ASSUME IInv, Next, ~Crash
  PROVE  Forgotten \subseteq Forgotten'
<1>t. TypeOK /\ FreshConns
  BY DEF IInv
<1>1. ASSUME NEW h \in Handlers, Connect(h) PROVE Forgotten \subseteq Forgotten'
  <2>1. /\ nconn + 1 \in Conn /\ nconn + 1 > nconn
        /\ conn' = [conn EXCEPT ![h] = nconn + 1] /\ opc' = [opc EXCEPT ![nconn + 1] = "recv"]
    BY <1>1, <1>t, ConstantsAssumption DEF Connect, TypeOK, Conn
  <2>2. opc[nconn + 1] = "unused"
    BY <1>t, <2>1 DEF FreshConns
  <2>3. nconn + 1 \notin Alive /\ Alive \subseteq Alive'
    BY <1>t, <2>1, <2>2 DEF Alive, TypeOK
  <2>4. \A c \in Conn, g \in Handlers : c # nconn + 1 /\ conn[g] # c => conn'[g] # c
    BY <1>t, <2>1 DEF TypeOK
  <2>5. Alive \subseteq Conn
    BY DEF Alive
  <2> QED BY <2>3, <2>4, <2>5 DEF Forgotten
<1>2. ASSUME NEW h \in Handlers, FlushFails(h) \/ ForwardFails(h)
      PROVE  Forgotten \subseteq Forgotten'
  <2>1. conn' = [conn EXCEPT ![h] = 0] /\ UNCHANGED opc
    BY <1>2 DEF FlushFails, ForwardFails, origVars
  <2>2. Alive' = Alive /\ 0 \notin Alive
    <3>1. 0 \notin Conn
      BY DEF Conn
    <3> QED BY <2>1, <3>1 DEF Alive
  <2>3. \A c \in Alive, g \in Handlers : conn[g] # c => conn'[g] # c
    BY <1>t, <2>1, <2>2 DEF TypeOK
  <2> QED BY <2>2, <2>3 DEF Forgotten
<1>3. ASSUME NEW c \in Conn, ServerStep(c) PROVE Forgotten \subseteq Forgotten'
  <2>1. /\ UNCHANGED conn /\ c \in Alive /\ opc'[c] \notin {"unused", "dead"}
        /\ \A k \in Conn \ {c} : opc'[k] = opc[k]
    BY <1>3, <1>t DEF ServerStep, IgnoreMessage, ReceiveMessage, Readable, ScanQueue, LinkQueue,
       FindMutex, LinkMutex, FindQueue, Enqueue, GotoO, handlerVars, Alive, TypeOK
  <2>2. Alive \subseteq Alive'
    BY <2>1 DEF Alive
  <2> QED BY <2>1, <2>2 DEF Forgotten
<1>4. CASE UNCHANGED <<conn, opc>>
  <2>1. Alive' = Alive
    BY <1>4 DEF Alive
  <2> QED BY <1>4, <2>1 DEF Forgotten
<1>5. \/ \E h \in Handlers : Connect(h) \/ FlushFails(h) \/ ForwardFails(h)
      \/ \E c \in Conn : ServerStep(c)
      \/ UNCHANGED <<conn, opc>>
  BY DEF Next, HandlerStep, TestQueue, TakeSaved, FlushSaved, CheckFlushed, Forward, Receive,
     Restart, origVars, handlerVars
<1> QED
  BY <1>1, <1>2, <1>3, <1>4, <1>5

\* Nothing a handler without a living connection has received is under way.
LEMMA NoneUnderWay ==
  ASSUME TypeOK, HoldsData, DeadEmpty, OwnConnection,
         NEW h \in Handlers, conn[h] # 0 => opc[conn[h]] = "dead", NEW c \in Conn
  PROVE  (ToSet(wire[c]) \cup {odata[c]}) \cap Of(h) = {}
<1> SUFFICES ASSUME (ToSet(wire[c]) \cup {odata[c]}) \cap Of(h) # {} PROVE FALSE
  OBVIOUS
<1>1. conn[h] = c
  BY DEF OwnConnection
<1>2. conn[h] # 0
  BY <1>1 DEF Conn
<1>3. wire[c] = <<>> /\ odata[c] = Garbage
  BY <1>1, <1>2 DEF DeadEmpty, HoldsData, Busy
<1>4. Garbage \notin Of(h)
  BY MeasurementType DEF Of
<1> QED
  BY <1>3, <1>4, ToSetEmpty

LEMMA ConnsStep ==
  IInv /\ ConnsOwned /\ DeadEmpty /\ [Next]_vars => ConnsOwned' /\ DeadEmpty'
<1> SUFFICES ASSUME IInv, ConnsOwned, DeadEmpty, [Next]_vars PROVE ConnsOwned' /\ DeadEmpty'
  OBVIOUS
<1>t. TypeOK /\ DataReceived /\ FlushConnected /\ FreshConns
  BY DEF IInv
<1> USE DEF Goto, GotoO, netVars, origVars, handlerVars, connVars, mapVars
<1> DEFINE P == ConnsOwned /\ DeadEmpty
<1>1. ASSUME NEW h \in Handlers, Connect(h) PROVE P'
  <2>1. /\ nconn + 1 \in Conn /\ nconn + 1 > nconn /\ nconn + 1 # 0
        /\ conn'[h] = nconn + 1 /\ \A g \in Handlers \ {h} : conn'[g] = conn[g]
        /\ opc'[nconn + 1] = "recv"
        /\ \A c \in Conn \ {nconn + 1} : opc'[c] = opc[c]
        /\ UNCHANGED wire
        /\ \A g \in Handlers : conn[g] # nconn + 1
        /\ \A g \in Handlers : conn[g] = 0 \/ conn[g] \in Conn
    BY <1>1, <1>t, ConstantsAssumption DEF Connect, TypeOK, Conn
  <2>2. ConnsOwned'
    BY <2>1 DEF ConnsOwned
  <2>3. DeadEmpty'
    BY <2>1 DEF DeadEmpty
  <2> QED BY <2>2, <2>3
<1>2. ASSUME NEW h \in Handlers, FlushFails(h) \/ ForwardFails(h) PROVE P'
  <2>1. /\ conn'[h] = 0 /\ \A g \in Handlers \ {h} : conn'[g] = conn[g]
        /\ UNCHANGED <<opc, wire>>
    BY <1>2, <1>t DEF FlushFails, ForwardFails, TypeOK
  <2> QED BY <2>1 DEF ConnsOwned, DeadEmpty
<1>3. ASSUME NEW h \in Handlers, FlushSaved(h) \/ Forward(h) PROVE P'
  <2>1. UNCHANGED <<conn, opc>> /\ conn[h] \in Conn
    BY <1>3, <1>t, ConstantsAssumption DEF FlushSaved, Forward, FlushConnected, TypeOK, Conn
  <2>2. ASSUME NEW c \in Conn, opc[c] = "dead" PROVE wire'[c] = wire[c]
    <3>1. PICK x \in Sent : Send(conn[h], x)
      BY <1>3, <1>t, DataType, MeasurementType DEF FlushSaved, Forward, TypeOK
    <3>2. CASE c = conn[h]
      BY <2>2, <3>1, <3>2 DEF Send
    <3>3. CASE c # conn[h]
      BY <1>t, <2>1, <3>1, <3>3, SendWire DEF TypeOK
    <3> QED BY <3>2, <3>3
  <2> QED BY <2>1, <2>2 DEF ConnsOwned, DeadEmpty
<1>4. ASSUME NEW c \in Conn, ServerStep(c) PROVE P'
  <2>1. /\ UNCHANGED conn /\ opc[c] \notin {"unused", "dead"} /\ opc'[c] \notin {"unused", "dead"}
        /\ \A k \in Conn \ {c} : opc'[k] = opc[k] /\ wire'[k] = wire[k]
    BY <1>4, <1>t DEF ServerStep, IgnoreMessage, ReceiveMessage, Readable, TakeMessage, ScanQueue,
       LinkQueue, FindMutex, LinkMutex, FindQueue, Enqueue, TypeOK
  <2>2. \A h \in Handlers : conn[h] = 0 \/ conn[h] \in Conn
    BY <1>t, ConstantsAssumption DEF TypeOK, Conn
  <2> QED BY <2>1, <2>2 DEF ConnsOwned, DeadEmpty
<1>5. CASE Crash
  <2>1. /\ UNCHANGED conn /\ \A c \in Conn : wire'[c] = <<>>
        /\ \A c \in Conn : opc[c] # "unused" => opc'[c] # "unused"
    BY <1>5 DEF Crash
  <2>2. \A h \in Handlers : conn[h] = 0 \/ conn[h] \in Conn
    BY <1>t, ConstantsAssumption DEF TypeOK, Conn
  <2> QED BY <2>1, <2>2 DEF ConnsOwned, DeadEmpty
<1>6. CASE UNCHANGED <<conn, opc, wire>>
  BY <1>6 DEF ConnsOwned, DeadEmpty
<1>7. \/ \E h \in Handlers : \/ Connect(h) \/ FlushFails(h) \/ ForwardFails(h)
                             \/ FlushSaved(h) \/ Forward(h)
      \/ \E c \in Conn : ServerStep(c)
      \/ Crash \/ UNCHANGED <<conn, opc, wire>>
  BY DEF Next, HandlerStep, TestQueue, TakeSaved, CheckFlushed, Receive, Restart, vars
<1> QED
  BY <1>1, <1>2, <1>3, <1>4, <1>5, <1>6, <1>7

LEMMA OnlyNewestNext ==
  OnlyNewest' <=>
    \A h \in Handlers :
      /\ Held(h)' \subseteq {data(h)'}
      /\ ToSet(temporaryQueue') \cap Of(h) \subseteq {data(h)'}
      /\ pc'[h] = "recv" => ToSet(temporaryQueue') \cap Of(h) = {}
  BY DEF OnlyNewest, Held, data, ToSet

\* What a handler other than the one that moves has received stays where it was.
LEMMA NewestOfOthers ==
  ASSUME OnlyNewest, NEW h \in Handlers, NEW g \in Handlers, g # h,
         pc'[g] = pc[g], tempMsg'[g] = tempMsg[g], received'[g] = received[g],
         ToSet(temporaryQueue') \subseteq ToSet(temporaryQueue) \cup Of(h)
  PROVE  /\ Held(g)' \subseteq {data(g)'}
         /\ ToSet(temporaryQueue') \cap Of(g) \subseteq {data(g)'}
         /\ pc'[g] = "recv" => ToSet(temporaryQueue') \cap Of(g) = {}
<1>1. Held(g)' = Held(g) /\ data(g)' = data(g)
  BY DEF Held, data
<1>2. Of(g) \cap Of(h) = {}
  BY DEF Of
<1> QED
  BY <1>1, <1>2 DEF OnlyNewest

LEMMA NewestStep ==
  ASSUME IInv, OnlyReceived, OnePlace, OnlyNewest, [Next]_vars, ~missed', ~borrowed'
  PROVE  OnlyNewest'
<1>t. TypeOK /\ DataReceived
  BY DEF IInv
<1>q. temporaryQueue \in Seq(Sent)
  BY <1>t DEF TypeOK
<1>r. \A h \in Handlers : data(h) \in Of(h)
  BY <1>t DEF data, Of, TypeOK
<1> USE DEF Goto, handlerVars
<1> DEFINE Good(h) == /\ Held(h)' \subseteq {data(h)'}
                      /\ ToSet(temporaryQueue') \cap Of(h) \subseteq {data(h)'}
                      /\ pc'[h] = "recv" => ToSet(temporaryQueue') \cap Of(h) = {}
<1>g. ASSUME NEW h \in Handlers, Good(h),
             \A g \in Handlers \ {h} : /\ pc'[g] = pc[g] /\ tempMsg'[g] = tempMsg[g]
                                       /\ received'[g] = received[g],
             ToSet(temporaryQueue') \subseteq ToSet(temporaryQueue) \cup Of(h)
      PROVE  OnlyNewest'
  <2>1. ASSUME NEW g \in Handlers, g # h PROVE Good(g)
    BY <1>g, <2>1, NewestOfOthers
  <2> QED BY <1>g, <2>1, OnlyNewestNext
<1>0. \A h \in Handlers : /\ Held(h) \subseteq {data(h)}
                          /\ ToSet(temporaryQueue) \cap Of(h) \subseteq {data(h)}
                          /\ pc[h] = "recv" => ToSet(temporaryQueue) \cap Of(h) = {}
  BY DEF OnlyNewest
\* What is held is not saved.
<1>d. ASSUME NEW h \in Handlers, data(h) \in Held(h)
      PROVE  ToSet(temporaryQueue) \cap Of(h) = {}
  <2>1. data(h) \notin ToSet(temporaryQueue)
    BY <1>d, Holders, HoldsParts DEF OnePlace
  <2> QED BY <1>0, <2>1
<1>1. ASSUME NEW h \in Handlers, Connect(h) \/ TestQueue(h) PROVE OnlyNewest'
  <2>1. /\ UNCHANGED <<temporaryQueue, received, tempMsg>>
        /\ pc'[h] \notin {"send", "flush", "recv"}
        /\ \A g \in Handlers \ {h} : pc'[g] = pc[g]
    BY <1>1, <1>t DEF Connect, TestQueue, TypeOK
  <2>2. Held(h)' = {} /\ data(h)' = data(h)
    BY <2>1 DEF Held, data
  <2> QED BY <1>0, <1>g, <2>1, <2>2
<1>2. ASSUME NEW h \in Handlers, CheckFlushed(h) PROVE OnlyNewest'
  <2>1. /\ UNCHANGED <<temporaryQueue, received, tempMsg>>
        /\ pc'[h] \notin {"send", "flush"}
        /\ pc'[h] = "recv" => temporaryQueue = <<>>
        /\ \A g \in Handlers \ {h} : pc'[g] = pc[g]
    BY <1>2, <1>t DEF CheckFlushed, TypeOK
  <2>2. Held(h)' = {} /\ data(h)' = data(h)
    BY <2>1 DEF Held, data
  <2> QED BY <1>0, <1>g, <2>1, <2>2, ToSetEmpty
<1>3. ASSUME NEW h \in Handlers, TakeSaved(h) PROVE OnlyNewest'
  <2> DEFINE x == Head(temporaryQueue)
  <2>1. temporaryQueue # <<>>
    BY <1>3 DEF TakeSaved
  <2>2. /\ temporaryQueue' = Tail(temporaryQueue) /\ x \in {h} \X Nat
        /\ pc'[h] = "flush" /\ tempMsg'[h] = x
        /\ \A g \in Handlers \ {h} : pc'[g] = pc[g] /\ tempMsg'[g] = tempMsg[g]
        /\ UNCHANGED received
    BY <1>3, <1>t, <2>1 DEF TakeSaved, TypeOK
  <2>3. ToSet(temporaryQueue) = {x} \cup ToSet(temporaryQueue')
    BY <1>q, <2>1, <2>2, ToSetTail
  <2>4. x = data(h)
    BY <1>0, <2>2, <2>3 DEF Of
  <2>5. Held(h)' = {x} /\ data(h)' = data(h)
    BY <2>2 DEF Held, data
  <2> HIDE DEF x
  <2> QED BY <1>0, <1>g, <2>2, <2>3, <2>4, <2>5
<1>4. ASSUME NEW h \in Handlers, FlushSaved(h) \/ Forward(h) PROVE OnlyNewest'
  <2>1. /\ UNCHANGED <<temporaryQueue, received, tempMsg>>
        /\ pc[h] \in {"send", "flush"} /\ pc'[h] \notin {"send", "flush"}
        /\ \A g \in Handlers \ {h} : pc'[g] = pc[g]
    BY <1>4, <1>t DEF FlushSaved, Forward, TypeOK
  <2>2. Held(h)' = {} /\ data(h)' = data(h) /\ Held(h) # {}
    BY <2>1 DEF Held, data
  <2>3. ToSet(temporaryQueue) \cap Of(h) = {}
    BY <1>0, <1>d, <2>2
  <2> QED BY <1>g, <2>1, <2>2, <2>3
<1>5. ASSUME NEW h \in Handlers, FlushFails(h) \/ ForwardFails(h) PROVE OnlyNewest'
  <2>1. /\ UNCHANGED <<received, tempMsg>>
        /\ pc'[h] \notin {"send", "flush", "recv"}
        /\ \A g \in Handlers \ {h} : pc'[g] = pc[g]
    BY <1>5, <1>t DEF FlushFails, ForwardFails, TypeOK
  <2>2. Held(h)' = {} /\ data(h)' = data(h)
    BY <2>1 DEF Held, data
  <2>3. temporaryQueue' = Append(temporaryQueue, data(h)) /\ data(h) \in Sent
    <3>1. CASE FlushFails(h)
      <4>1. Held(h) = {tempMsg[h]}
        BY <3>1 DEF FlushFails, Held
      <4>2. tempMsg[h] = data(h) /\ tempMsg[h] \in Sent
        BY <1>0, <1>t, <4>1 DEF TypeOK
      <4> QED BY <3>1, <4>2 DEF FlushFails
    <3>2. CASE ForwardFails(h)
      BY <1>t, <3>2, DataType, MeasurementType DEF ForwardFails
    <3> QED BY <1>5, <3>1, <3>2
  <2>4. ToSet(temporaryQueue') = ToSet(temporaryQueue) \cup {data(h)}
    BY <1>q, <2>3, ToSetAppend
  <2> QED BY <1>0, <1>g, <1>r, <2>1, <2>2, <2>4
<1>6. ASSUME NEW h \in Handlers, Receive(h) PROVE OnlyNewest'
  <2>1. /\ UNCHANGED <<temporaryQueue, tempMsg>>
        /\ pc[h] = "recv" /\ pc'[h] = "send"
        /\ \A g \in Handlers \ {h} : pc'[g] = pc[g] /\ received'[g] = received[g]
    BY <1>6, <1>t DEF Receive, TypeOK
  <2>2. Held(h)' = {data(h)'}
    BY <2>1 DEF Held, data
  <2> QED BY <1>0, <1>g, <2>1, <2>2
<1>7. CASE UNCHANGED handlerVars
  <2>1. \A h \in Handlers : Held(h)' = Held(h) /\ data(h)' = data(h)
    BY <1>7 DEF Held, data
  <2> QED BY <1>0, <1>7, <2>1, OnlyNewestNext
<1>8. (\E c \in Conn : ServerStep(c)) \/ Crash \/ Restart \/ UNCHANGED vars
         => UNCHANGED handlerVars
  BY ServerSteps DEF Crash, Restart, vars
<1> QED
  BY <1>1, <1>2, <1>3, <1>4, <1>5, <1>6, <1>7, <1>8 DEF Next, HandlerStep

LEMMA WayNext ==
  /\ OwnConnection' <=>
       \A c \in Conn, h \in Handlers :
         (ToSet(wire'[c]) \cup {odata'[c]}) \cap Of(h) # {} => conn'[h] = c
  /\ WayOrdered' <=>
       /\ Ascends(queue')
       /\ \A c \in Conn :
            /\ Ascends(wire'[c])
            /\ Before(ToSet(queue'), ToSet(wire'[c]) \cup Holds(Data(c))')
            /\ Before(Holds(Data(c))', ToSet(wire'[c]))
  BY DEF OwnConnection, WayOrdered, Ascends, Before, ToSet, Of, Holds, Held, Data

LEMMA BeforeParts ==
  ASSUME NEW S, NEW T, Before(S, T)
  PROVE  \A U, V : U \subseteq S /\ V \subseteq T => Before(U, V)
  BY DEF Before

LEMMA BeforeNothing == \A S : Before(S, {}) /\ Before({}, S)
  BY DEF Before

\* A message the server stores, read at connection c a moment or a step before,
\* is behind the queue and before what is under way.
LEMMA WayStore ==
  ASSUME TypeOK, OnlyReceived, OwnConnection, WayOrdered,
         NEW c \in Conn, NEW x \in Measurement,
         x \in ToSet(wire[c]) \/ x = odata[c],
         x \in Holds(Wire(c)) \cup Holds(Data(c)),
         queue' = Append(queue, x), UNCHANGED conn,
         \A k \in Conn : /\ Ascends(wire'[k])
                         /\ ToSet(wire'[k]) \subseteq ToSet(wire[k]),
         \A k \in Conn \ {c} : odata'[k] = odata[k],
         odata'[c] = Garbage, Before({x}, ToSet(wire'[c]))
  PROVE  OwnConnection' /\ WayOrdered'
<1>1. x \in Received /\ \A p \in Holder : Holds(p) \subseteq Received
  BY Holders DEF OnlyReceived
<1>2. queue \in Seq(Measurement)
  BY DEF TypeOK
<1>3. ToSet(queue') = ToSet(queue) \cup {x}
  BY <1>2, ToSetAppend
<1>4. /\ Holds(Data(c))' = {}
      /\ \A k \in Conn : Holds(Data(k))' \subseteq Holds(Data(k))
  BY HoldsParts, HoldsPartsNext
<1>5. Ascends(queue')
  <2>1. Before(ToSet(queue), {x})
    <3>1. x \in ToSet(wire[c]) \cup Holds(Data(c))
      BY HoldsParts
    <3>2. Before(ToSet(queue), ToSet(wire[c]) \cup Holds(Data(c)))
      BY DEF WayOrdered
    <3> QED BY <3>1, <3>2 DEF Before
  <2> QED BY <1>2, <2>1, AscendsAppend DEF WayOrdered, Before
<1>6. ASSUME NEW k \in Conn
      PROVE  /\ Before(ToSet(queue), ToSet(wire'[k]) \cup Holds(Data(k))')
             /\ Before(Holds(Data(k))', ToSet(wire'[k]))
  <2>1. Before(ToSet(queue), ToSet(wire[k]) \cup Holds(Data(k)))
        /\ Before(Holds(Data(k)), ToSet(wire[k]))
    BY DEF WayOrdered
  <2>2. /\ ToSet(wire'[k]) \cup Holds(Data(k))' \subseteq ToSet(wire[k]) \cup Holds(Data(k))
        /\ Holds(Data(k))' \subseteq Holds(Data(k))
        /\ ToSet(wire'[k]) \subseteq ToSet(wire[k])
    BY <1>4
  <2> QED BY <2>1, <2>2, BeforeParts
<1>7. ASSUME NEW k \in Conn PROVE Before({x}, ToSet(wire'[k]) \cup Holds(Data(k))')
  <2>1. CASE k = c
    BY <1>4, <2>1
  <2>2. CASE k # c
    <3>1. ASSUME NEW y \in ToSet(wire'[k]) \cup Holds(Data(k))', x[1] = y[1] PROVE FALSE
      <4>1. y \in Holds(Wire(k)) \/ y \in Holds(Data(k))
        BY <1>4, <3>1, HoldsParts
      <4>2. y \in Received
        BY <1>1, <4>1, Holders
      <4> DEFINE h == x[1]
      <4>3. h \in Handlers /\ x \in Of(h) /\ y \in Of(h)
        BY <1>1, <3>1, <4>2, ReceivedPairs
      <4>4. x \in ToSet(wire[c]) \cup {odata[c]} /\ y \in ToSet(wire[k]) \cup {odata[k]}
        BY <4>1, HoldsParts
      <4> HIDE DEF h
      <4>5. conn[h] = c /\ conn[h] = k
        BY <4>3, <4>4 DEF OwnConnection
      <4> QED BY <2>2, <4>5
    <3> QED BY <3>1 DEF Before
  <2> QED BY <2>1, <2>2
<1>8. WayOrdered'
  <2>1. ASSUME NEW k \in Conn
        PROVE  Before(ToSet(queue'), ToSet(wire'[k]) \cup Holds(Data(k))')
    <3>1. Before(ToSet(queue), ToSet(wire'[k]) \cup Holds(Data(k))')
      BY <1>6
    <3>2. Before({x}, ToSet(wire'[k]) \cup Holds(Data(k))')
      BY <1>7
    <3> QED BY <1>3, <3>1, <3>2 DEF Before
  <2> QED BY <1>5, <1>6, <2>1, WayNext
<1>9. OwnConnection'
  <2>1. \A k \in Conn, h \in Handlers : odata'[k] \in Of(h) => odata'[k] = odata[k]
    BY MeasurementType DEF Of
  <2>2. \A k \in Conn, h \in Handlers :
          (ToSet(wire'[k]) \cup {odata'[k]}) \cap Of(h)
            \subseteq (ToSet(wire[k]) \cup {odata[k]}) \cap Of(h)
    BY <2>1
  <2> QED BY <2>2, WayNext DEF OwnConnection
<1> QED
  BY <1>8, <1>9

\* A handler sends the last measurement it has received.
LEMMA WaySend ==
  ASSUME TypeOK, OnlyReceived, OnePlace, OwnConnection, WayOrdered,
         NEW h \in Handlers, Held(h) = {data(h)}, data(h) \in Sent,
         conn[h] \in Conn, Send(conn[h], data(h)),
         UNCHANGED <<conn, queue, odata>>
  PROVE  OwnConnection' /\ WayOrdered'
<1> DEFINE c == conn[h]  x == data(h)
<1>t. wire \in [Conn -> Seq(Sent)] /\ wire[c] \in Seq(Sent)
  BY DEF TypeOK
<1>d. \A k \in Conn : Holds(Data(k))' = Holds(Data(k))
  BY HoldsParts, HoldsPartsNext
<1>1. CASE opc[c] = "dead"
  <2>1. UNCHANGED wire
    BY <1>1 DEF Send
  <2> QED BY <1>d, <2>1, WayNext DEF OwnConnection, WayOrdered
<1>2. CASE opc[c] # "dead"
  <2>1. wire'[c] = Append(wire[c], x) /\ \A k \in Conn \ {c} : wire'[k] = wire[k]
    BY <1>2, <1>t, SendWire
  <2>2. ToSet(wire'[c]) = ToSet(wire[c]) \cup {x}
    BY <1>t, <2>1, ToSetAppend
  <2>3. x[1] = h /\ x[2] = received[h] /\ x \in Of(h)
    BY DEF data, Of, TypeOK
  <2>4. \A p \in Holder \ {Hand(h)} : Before(Holds(p), {x})
    BY <2>3, HeldIsLast DEF Before
  <2>c. c \in Conn /\ x \in Sent /\ Ascends(wire[c])
    BY DEF WayOrdered
  <2> HIDE DEF c, x
  <2>5. Before(ToSet(queue), {x}) /\ Before(ToSet(wire[c]), {x}) /\ Before(Holds(Data(c)), {x})
    <3>1. Stored \in Holder \ {Hand(h)} /\ Holds(Stored) = ToSet(queue)
      BY Holders, HoldsParts
    <3>2. Wire(c) \in Holder \ {Hand(h)} /\ Holds(Wire(c)) = ToSet(wire[c])
      BY <2>c, Holders, HoldsParts
    <3>3. Data(c) \in Holder \ {Hand(h)}
      BY <2>c, Holders
    <3> QED BY <2>4, <3>1, <3>2, <3>3
  <2>6. Ascends(wire'[c])
    <3>1. \A y \in ToSet(wire[c]) : y[1] = x[1] => y[2] < x[2]
      BY <2>5 DEF Before
    <3> QED BY <1>t, <2>1, <2>c, <3>1, AscendsAppend
  <2>7. /\ Before(ToSet(queue), ToSet(wire'[c]) \cup Holds(Data(c)))
        /\ Before(Holds(Data(c)), ToSet(wire'[c]))
    <3>1. c \in Conn
      BY DEF c
    <3>2. Before(ToSet(queue), ToSet(wire[c]) \cup Holds(Data(c)))
          /\ Before(Holds(Data(c)), ToSet(wire[c]))
      BY <3>1 DEF WayOrdered
    <3> QED BY <2>2, <2>5, <3>2 DEF Before
  <2>8. WayOrdered'
    <3>1. ASSUME NEW k \in Conn
          PROVE  /\ Ascends(wire'[k])
                 /\ Before(ToSet(queue), ToSet(wire'[k]) \cup Holds(Data(k)))
                 /\ Before(Holds(Data(k)), ToSet(wire'[k]))
      <4>1. CASE k = c
        BY <2>6, <2>7, <4>1
      <4>2. CASE k # c
        BY <2>1, <4>2 DEF WayOrdered
      <4> QED BY <4>1, <4>2
    <3> QED BY <1>d, <3>1, WayNext DEF WayOrdered
  <2>9. OwnConnection'
    <3>1. ASSUME NEW k \in Conn, NEW g \in Handlers,
                 (ToSet(wire'[k]) \cup {odata[k]}) \cap Of(g) # {}
          PROVE  conn[g] = k
      <4>1. CASE (ToSet(wire[k]) \cup {odata[k]}) \cap Of(g) # {}
        BY <4>1 DEF OwnConnection
      <4>2. CASE (ToSet(wire[k]) \cup {odata[k]}) \cap Of(g) = {}
        <5>0. PICK y \in ToSet(wire'[k]) \cup {odata[k]} : y \in Of(g)
          BY <3>1
        <5>y. y \in ToSet(wire'[k]) /\ y \notin ToSet(wire[k])
          BY <4>2, <5>0
        <5>k. k = c
          BY <2>1, <5>y
        <5>1. k = c /\ x \in Of(g)
          BY <2>2, <5>0, <5>y, <5>k
        <5>2. g = h
          BY <2>3, <5>1 DEF Of
        <5> QED BY <5>1, <5>2 DEF c
      <4> QED BY <4>1, <4>2
    <3> QED BY <3>1, WayNext
  <2> QED BY <2>8, <2>9
<1> QED
  BY <1>1, <1>2

\* The server loses or forgets something.
LEMMA WayLess ==
  ASSUME OwnConnection, WayOrdered, UNCHANGED conn, queue' \in {queue, <<>>},
         \A k \in Conn : /\ Ascends(wire'[k]) /\ ToSet(wire'[k]) \subseteq ToSet(wire[k])
                         /\ odata'[k] \in {odata[k], Garbage}
  PROVE  OwnConnection' /\ WayOrdered'
<1>1. ToSet(queue') \subseteq ToSet(queue) /\ Ascends(queue')
  BY ToSetEmpty, AscendsEmpty DEF WayOrdered
<1>2. \A k \in Conn : Holds(Data(k))' \subseteq Holds(Data(k))
  BY HoldsParts, HoldsPartsNext
<1>3. ASSUME NEW k \in Conn
      PROVE  /\ Before(ToSet(queue'), ToSet(wire'[k]) \cup Holds(Data(k))')
             /\ Before(Holds(Data(k))', ToSet(wire'[k]))
  <2>1. Before(ToSet(queue), ToSet(wire[k]) \cup Holds(Data(k)))
        /\ Before(Holds(Data(k)), ToSet(wire[k]))
    BY DEF WayOrdered
  <2>2. /\ ToSet(wire'[k]) \cup Holds(Data(k))' \subseteq ToSet(wire[k]) \cup Holds(Data(k))
        /\ Holds(Data(k))' \subseteq Holds(Data(k))
        /\ ToSet(wire'[k]) \subseteq ToSet(wire[k])
    BY <1>2
  <2> QED BY <1>1, <2>1, <2>2, BeforeParts
<1>4. \A k \in Conn, h \in Handlers :
        (ToSet(wire'[k]) \cup {odata'[k]}) \cap Of(h)
          \subseteq (ToSet(wire[k]) \cup {odata[k]}) \cap Of(h)
  BY MeasurementType DEF Of
<1>5. OwnConnection'
  BY <1>4, WayNext DEF OwnConnection
<1> QED
  BY <1>1, <1>3, <1>5, WayNext

LEMMA WayStep ==
  ASSUME IInv, OnlyReceived, OnePlace, OnlyNewest, ConnsOwned, DeadEmpty,
         OwnConnection, WayOrdered, [Next]_vars, ~Crash, Forgotten' = {}
  PROVE  OwnConnection' /\ WayOrdered'
<1>t. TypeOK /\ DataReceived /\ FlushConnected /\ HoldsData /\ FreshConns /\ QueueRegistered
  BY DEF IInv
<1>w. wire \in [Conn -> Seq(Sent)]
  BY <1>t DEF TypeOK
<1> USE DEF Goto, GotoO, netVars, origVars, handlerVars, connVars, mapVars
<1>q. ASSUME UNCHANGED <<queue, wire, odata>>,
             OwnConnection'
      PROVE  WayOrdered'
  <2>1. \A k \in Conn : Holds(Data(k))' = Holds(Data(k))
    BY <1>q, HoldsParts, HoldsPartsNext
  <2> QED BY <1>q, <2>1, WayNext DEF WayOrdered
\* A handler without a living connection may get another, or none.
<1>c. ASSUME NEW h \in Handlers, conn[h] # 0 => opc[conn[h]] = "dead",
             \A g \in Handlers \ {h} : conn'[g] = conn[g],
             UNCHANGED <<queue, wire, odata>>
      PROVE  OwnConnection' /\ WayOrdered'
  <2>1. \A k \in Conn : (ToSet(wire[k]) \cup {odata[k]}) \cap Of(h) = {}
    BY <1>c, <1>t, NoneUnderWay
  <2>2. OwnConnection'
    BY <1>c, <2>1, WayNext DEF OwnConnection
  <2> QED BY <1>c, <1>q, <2>2
<1>1. ASSUME NEW h \in Handlers, Connect(h) PROVE OwnConnection' /\ WayOrdered'
  <2>1. /\ \A g \in Handlers \ {h} : conn'[g] = conn[g]
        /\ conn'[h] = nconn + 1 /\ conn[h] # nconn + 1
        /\ opc' = [opc EXCEPT ![nconn + 1] = "recv"]
        /\ UNCHANGED <<queue, wire, odata>>
    BY <1>1, <1>t DEF Connect, TypeOK
  <2>2. conn[h] # 0 => opc[conn[h]] = "dead"
    <3> SUFFICES ASSUME conn[h] # 0, opc[conn[h]] # "dead" PROVE FALSE
      OBVIOUS
    <3>1. conn[h] \in Conn /\ opc[conn[h]] # "unused"
      BY <1>t, ConstantsAssumption DEF ConnsOwned, TypeOK, Conn
    <3>2. opc'[conn[h]] = opc[conn[h]]
      BY <1>t, <2>1, <3>1 DEF TypeOK
    <3>3. conn[h] \in Alive'
      BY <3>1, <3>2 DEF Alive
    <3>4. PICK g \in Handlers : conn'[g] = conn[h]
      BY <3>3 DEF Forgotten
    <3>5. g # h
      BY <2>1, <3>4
    <3>6. conn[g] = conn[h]
      BY <2>1, <3>4, <3>5
    <3> QED BY <3>5, <3>6 DEF ConnsOwned
  <2> QED BY <1>c, <2>1, <2>2
<1>2. ASSUME NEW h \in Handlers, FlushFails(h) \/ ForwardFails(h)
      PROVE  OwnConnection' /\ WayOrdered'
  <2>1. /\ \A g \in Handlers \ {h} : conn'[g] = conn[g]
        /\ conn[h] # 0 => opc[conn[h]] = "dead"
        /\ UNCHANGED <<queue, wire, odata>>
    BY <1>2, <1>t DEF FlushFails, ForwardFails, SendMayFail, TypeOK
  <2> QED BY <1>c, <2>1
<1>3. ASSUME NEW h \in Handlers, FlushSaved(h) \/ Forward(h)
      PROVE  OwnConnection' /\ WayOrdered'
  <2>1. UNCHANGED <<conn, queue, odata>> /\ conn[h] \in Conn
    BY <1>3, <1>t, ConstantsAssumption DEF FlushSaved, Forward, FlushConnected, TypeOK, Conn
  <2>2. Held(h) = {data(h)} /\ data(h) \in Sent /\ Send(conn[h], data(h))
    <3>1. CASE FlushSaved(h)
      <4>1. Held(h) = {tempMsg[h]} /\ Send(conn[h], tempMsg[h]) /\ tempMsg[h] \in Sent
        BY <1>t, <3>1 DEF FlushSaved, Held, TypeOK
      <4>2. tempMsg[h] = data(h)
        BY <4>1 DEF OnlyNewest
      <4> QED BY <4>1, <4>2
    <3>2. CASE Forward(h)
      BY <1>t, <3>2, DataType, MeasurementType DEF Forward, Held
    <3> QED BY <1>3, <3>1, <3>2
  <2> QED BY <1>t, <2>1, <2>2, WaySend
<1>4. ASSUME NEW c \in Conn, IgnoreMessage(c) PROVE OwnConnection' /\ WayOrdered'
  <2>1. /\ wire[c] # <<>> /\ wire' = [wire EXCEPT ![c] = Tail(@)]
        /\ UNCHANGED <<queue, odata, conn>>
    BY <1>4 DEF IgnoreMessage, Readable, TakeMessage
  <2>2. /\ wire'[c] = Tail(wire[c]) /\ \A k \in Conn \ {c} : wire'[k] = wire[k]
        /\ \A k \in Conn : ToSet(wire'[k]) \subseteq ToSet(wire[k])
    BY <1>w, <2>1, WireShortened
  <2>3. Ascends(Tail(wire[c]))
    BY <1>w, <2>1, AscendsTail DEF WayOrdered
  <2>4. \A k \in Conn : Ascends(wire'[k])
    BY <2>2, <2>3 DEF WayOrdered
  <2> QED BY <2>1, <2>2, <2>4, WayLess
<1>5. ASSUME NEW c \in Conn, ReceiveMessage(c) PROVE OwnConnection' /\ WayOrdered'
  <2> DEFINE x == Head(wire[c])
  <2>1. /\ wire[c] # <<>> /\ wire' = [wire EXCEPT ![c] = Tail(@)]
        /\ odata'[c] = x /\ \A k \in Conn \ {c} : odata'[k] = odata[k]
        /\ UNCHANGED <<queue, conn>>
    BY <1>5, <1>t DEF ReceiveMessage, Readable, TakeMessage, Message, TypeOK
  <2>2. /\ x \in ToSet(wire[c]) /\ x \in Sent /\ wire'[c] = Tail(wire[c])
        /\ \A k \in Conn \ {c} : wire'[k] = wire[k]
        /\ \A k \in Conn : ToSet(wire'[k]) \subseteq ToSet(wire[k])
    BY <1>w, <2>1, WireShortened
  <2>3. Ascends(Tail(wire[c])) /\ Before({x}, ToSet(Tail(wire[c])))
    BY <1>w, <2>1, AscendsTail DEF WayOrdered
  <2> HIDE DEF x
  <2>4. Holds(Data(c))' \subseteq {x}
        /\ \A k \in Conn \ {c} : Holds(Data(k))' = Holds(Data(k))
    BY <2>1, HoldsParts, HoldsPartsNext
  <2>5. OwnConnection'
    <3>1. \A k \in Conn, h \in Handlers :
            (ToSet(wire'[k]) \cup {odata'[k]}) \cap Of(h)
              \subseteq (ToSet(wire[k]) \cup {odata[k]}) \cap Of(h)
      BY <2>1, <2>2
    <3> QED BY <2>1, <3>1, WayNext DEF OwnConnection
  <2>6. ASSUME NEW k \in Conn
        PROVE  /\ Ascends(wire'[k])
               /\ Before(ToSet(queue), ToSet(wire'[k]) \cup Holds(Data(k))')
               /\ Before(Holds(Data(k))', ToSet(wire'[k]))
    <3>1. CASE k = c
      <4>1. ToSet(wire'[c]) \cup Holds(Data(c))' \subseteq ToSet(wire[c]) \cup Holds(Data(c))
        BY <2>2, <2>4
      <4>2. Before(ToSet(queue), ToSet(wire'[c]) \cup Holds(Data(c))')
        BY <4>1, BeforeParts DEF WayOrdered
      <4>3. Before(Holds(Data(c))', ToSet(wire'[c]))
        BY <2>2, <2>3, <2>4, BeforeParts
      <4> QED BY <2>2, <2>3, <3>1, <4>2, <4>3
    <3>2. CASE k # c
      BY <2>2, <2>4, <3>2 DEF WayOrdered
    <3> QED BY <3>1, <3>2
  <2> QED BY <2>1, <2>5, <2>6, WayNext DEF WayOrdered
<1>6. ASSUME NEW c \in Conn,
             ScanQueue(c) \/ LinkQueue(c) \/ FindMutex(c) \/ LinkMutex(c)
      PROVE  OwnConnection' /\ WayOrdered'
  <2>1. queue' \in {queue, <<>>} /\ UNCHANGED <<wire, odata, conn>>
    BY <1>6 DEF ScanQueue, LinkQueue, FindMutex, LinkMutex
  <2> QED BY <2>1, WayLess DEF WayOrdered
<1>7. ASSUME NEW c \in Conn, Enqueue(c), queue' = Append(queue, odata[c])
      PROVE  OwnConnection' /\ WayOrdered'
  <2> DEFINE x == odata[c]
  <2>1. /\ queue' = Append(queue, x) /\ x \in Measurement
        /\ odata'[c] = Garbage /\ \A k \in Conn \ {c} : odata'[k] = odata[k]
        /\ UNCHANGED <<wire, conn>>
    <3>1. x \in Measurement
      BY <1>7, <1>t DEF Enqueue, HoldsData, Busy
    <3> QED BY <1>7, <1>t, <3>1 DEF Enqueue, TypeOK
  <2>2. x \in Holds(Data(c))
    BY <2>1, HoldsParts, MeasurementType DEF Measurement
  <2>3. Before({x}, ToSet(wire'[c]))
    <3>1. Before(Holds(Data(c)), ToSet(wire[c]))
      BY DEF WayOrdered
    <3> QED BY <2>1, <2>2, <3>1 DEF Before
  <2>4. \A k \in Conn : Ascends(wire'[k]) /\ ToSet(wire'[k]) \subseteq ToSet(wire[k])
    BY <2>1 DEF WayOrdered
  <2>5. x = odata[c]
    OBVIOUS
  <2> HIDE DEF x
  <2> QED BY <1>t, <2>1, <2>2, <2>3, <2>4, <2>5, WayStore
<1>8. ASSUME NEW c \in Conn, Enqueue(c), queue' # Append(queue, odata[c])
      PROVE  OwnConnection' /\ WayOrdered'
  <2>1. queue' \in {queue, <<>>}
    BY <1>8 DEF Enqueue
  <2>2. (\A k \in Conn : odata'[k] \in {odata[k], Garbage}) /\ UNCHANGED <<wire, conn>>
    BY <1>8, <1>t DEF Enqueue, TypeOK
  <2> QED BY <2>1, <2>2, WayLess DEF WayOrdered
<1>9. CASE UNCHANGED <<conn, queue, wire, odata>>
  <2>1. OwnConnection'
    BY <1>9, WayNext DEF OwnConnection
  <2> QED BY <1>9, <1>q, <2>1
<1>10. \/ \E h \in Handlers : \/ Connect(h) \/ FlushFails(h) \/ ForwardFails(h)
                              \/ FlushSaved(h) \/ Forward(h)
       \/ \E c \in Conn : ServerStep(c)
       \/ UNCHANGED <<conn, queue, wire, odata>>
  BY DEF Next, HandlerStep, TestQueue, TakeSaved, CheckFlushed, Receive, Restart, vars
<1> QED
  BY <1>1, <1>2, <1>3, <1>4, <1>5, <1>6, <1>7, <1>8, <1>9, <1>10 DEF ServerStep

LEMMA WayEmpty ==
  ASSUME queue' = <<>>, \A c \in Conn : wire'[c] = <<>> /\ odata'[c] = Garbage
  PROVE  OwnConnection' /\ WayOrdered'
<1>1. \A c \in Conn : Holds(Data(c))' = {}
  BY HoldsPartsNext
<1>2. \A h : Garbage \notin Of(h)
  BY MeasurementType DEF Of
<1> QED
  BY <1>1, <1>2, ToSetEmpty, AscendsEmpty, BeforeNothing, WayNext

LEMMA OrderStep == IInv /\ OnceInv /\ OrderInv /\ [Next]_vars => OrderInv'
<1> SUFFICES ASSUME IInv, OnceInv, OrderInv, [Next]_vars PROVE OrderInv'
  OBVIOUS
<1>1. ConnsOwned' /\ DeadEmpty'
  BY ConnsStep DEF OrderInv
<1>2. (~missed' => ~missed) /\ (~borrowed' => ~borrowed)
  BY Remembered
<1>3. ASSUME ~missed', ~borrowed' PROVE OnlyNewest'
  BY <1>2, <1>3, NewestStep DEF OnceInv, OrderInv
<1>4. ASSUME ~missed', ~borrowed', Forgotten' = {} PROVE OwnConnection' /\ WayOrdered'
  <2>1. CASE Crash
    BY <2>1, WayEmpty DEF Crash
  <2>2. CASE ~Crash
    <3>1. Forgotten = {}
      <4>1. CASE Next
        BY <1>4, <2>2, <4>1, ForgottenKept
      <4>2. CASE UNCHANGED vars
        <5>1. UNCHANGED <<conn, opc>>
          BY <4>2 DEF vars, handlerVars, origVars
        <5> QED BY <1>4, <5>1 DEF Forgotten, Alive
      <4> QED BY <4>1, <4>2
    <3> QED BY <1>2, <1>4, <2>2, <3>1, WayStep DEF OnceInv, OrderInv
  <2> QED BY <2>1, <2>2
<1> QED
  BY <1>1, <1>3, <1>4 DEF OrderInv

LEMMA InitOrder == Init => OrderInv
<1> SUFFICES ASSUME Init PROVE OrderInv
  OBVIOUS
<1>1. ConnsOwned /\ DeadEmpty
  BY DEF Init, ConnsOwned, DeadEmpty
<1>2. OnlyNewest
  <2>1. \A h \in Handlers : Held(h) = {} /\ pc[h] # "recv"
    BY DEF Init, Held
  <2>2. CASE temporaryQueue = <<>>
    BY <2>1, <2>2, ToSetEmpty DEF OnlyNewest
  <2>3. ASSUME NEW g \in Handlers, temporaryQueue = << <<g, 1>> >> PROVE OnlyNewest
    <3>1. ToSet(temporaryQueue) = {<<g, 1>>} /\ received[g] = 1
      BY <2>3, ToSetOne DEF Init
    <3>2. data(g) = <<g, 1>> /\ \A h \in Handlers : <<g, 1>> \in Of(h) => h = g
      BY <3>1 DEF data, Of
    <3> QED BY <2>1, <3>1, <3>2 DEF OnlyNewest
  <2> QED BY <2>2, <2>3 DEF Init
<1>3. OwnConnection /\ WayOrdered
  <2>1. /\ queue = <<>>
        /\ \A c \in Conn : wire[c] = <<>> /\ odata[c] = Garbage /\ Holds(Data(c)) = {}
    BY HoldsParts DEF Init
  <2>2. \A h : Garbage \notin Of(h)
    BY MeasurementType DEF Of
  <2> QED BY <2>1, <2>2, ToSetEmpty, AscendsEmpty, BeforeNothing DEF OwnConnection, WayOrdered
<1> QED
  BY <1>1, <1>2, <1>3 DEF OrderInv

-----------------------------------------------------------------------------
(* The theorems.                                                           *)

LEMMA Invariance == Spec => []IInv
<1>1. Init => IInv
  BY InitIInv
<1>2. IInv /\ [Next]_vars => IInv'
  BY NextTypeOK, SavedIsFlushedStep, HandlerPartsStep, ServerPartsStep DEF IInv
<1> QED
  BY <1>1, <1>2, PTL DEF Spec

\* Every variable keeps its type: a device's queue only ever gets measurements,
\* never what the stack of a Process handler held, and no handler sends on a
\* connection that was not opened.
THEOREM TypeCorrect == Spec => []TypeOK
<1>1. IInv => TypeOK
  BY DEF IInv
<1> QED
  BY <1>1, Invariance, PTL

\* Whatever the handlers of a Process do with temporaryQueue, some handler is
\* about to look at it as long as it holds a measurement.
THEOREM SavedMeasurementsWanted == Spec => []SavedIsFlushed
<1>1. IInv => SavedIsFlushed
  BY DEF IInv
<1> QED
  BY <1>1, Invariance, PTL

\* A measurement of the device that a Process has received is lost by no step but
\* the death of the original server, a send to it that is buffered after its death,
\* a connection that has named another device before, the second registration of
\* the device, an older queue, and a queue with two mutexes.
THEOREM LossesAreKnown == Spec => NothingElseLost
<1>1. IInv /\ [Next]_vars => [(Received \ Foreign) \cap Kept \subseteq Kept' \/ LossyStep]_vars
  <2> SUFFICES ASSUME IInv, Next, ~LossyStep, NEW m \in (Received \ Foreign) \cap Kept
               PROVE  m \in Kept'
    BY DEF vars
  <2>1. m # Garbage
    BY MeasurementType DEF Received
  <2>2. Somewhere(m)
    <3>1. \A h \in Handlers : m \in Held(h) => InHand(m)
      BY DEF Held, InHand
    <3>2. m \in InProcess => m \in ToSet(temporaryQueue) \/ InHand(m)
      BY <3>1 DEF InProcess
    <3>3. m \in UnderWay => OnWire(m)
      BY Zenon DEF UnderWay, OnWire
    <3>4. m \in AtServer => InData(m)
      BY Zenon DEF AtServer, InData
    <3> QED BY <3>2, <3>3, <3>4 DEF Kept, Somewhere
  <2>3. Somewhere(m)'
    BY <2>1, <2>2, KeptStep
  <2> QED
    <3>1. ASSUME NEW h \in Handlers,
                 \/ pc'[h] = "send" /\ m = data(h)'
                 \/ pc'[h] = "flush" /\ m = tempMsg'[h]
          PROVE  m \in Held(h)'
      BY <3>1 DEF Held
    <3>2. m \in ToSet(temporaryQueue') \/ InHand(m)' => m \in InProcess'
      BY <3>1 DEF InProcess, InHand
    <3>3. OnWire(m)' => m \in UnderWay'
      BY <2>1, Zenon DEF UnderWay, OnWire
    <3>4. InData(m)' => m \in AtServer'
      BY <2>1, Zenon DEF AtServer, InData
    <3> QED BY <2>3, <3>2, <3>3, <3>4 DEF Kept, Somewhere
<1> QED
  BY <1>1, Invariance, PTL DEF Spec, NothingElseLost

LEMMA Once == Spec => []OnceInv
<1>1. IInv /\ OnceInv /\ [Next]_vars => OnceInv'
  BY OnceStep
<1> QED
  BY <1>1, InitOnce, Invariance, PTL DEF Spec

\* Through any crash of the original server, any number of failed flushes and any
\* interleaving of the handlers that share temporaryQueue, no measurement is
\* stored twice, nor stored and saved to be sent again, until a handler flushes
\* without having got anything, because another one emptied temporaryQueue first.
THEOREM StoredAtMostOnce == Spec => []StoredOnce
<1>1. IInv /\ OnceInv => StoredOnce
  <2> SUFFICES ASSUME TypeOK, OnePlace, NoneTwice PROVE IsInjective(queue \o temporaryQueue)
    BY DEF IInv, OnceInv, StoredOnce
  <2>1. queue \in Seq(Sent) /\ temporaryQueue \in Seq(Sent)
    BY MeasurementType DEF TypeOK
  <2>2. ToSet(queue) \cap ToSet(temporaryQueue) = {}
    BY Holders, HoldsParts DEF OnePlace
  <2> QED BY <2>1, <2>2, InjectiveConcat DEF NoneTwice
<1> QED
  BY <1>1, Invariance, Once, PTL

\* Through any crash of the original server the queue of a device keeps the order
\* of each handler's clients, as long as each handler takes its own measurement
\* out of temporaryQueue and no living connection is replaced by another.
THEOREM StoredInOrder == Spec => []InOrder
<1>1. IInv /\ OnceInv /\ OrderInv /\ [Next]_vars => OrderInv'
  BY OrderStep
<1>2. OrderInv => InOrder
  BY DEF OrderInv, WayOrdered, Ascends, InOrder
<1> QED
  BY <1>1, <1>2, InitOrder, Invariance, Once, PTL DEF Spec

=============================================================================
