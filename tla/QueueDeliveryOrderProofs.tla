---------------------- MODULE QueueDeliveryOrderProofs ----------------------
(***************************************************************************)
(* What the copy's queues hold.  While no acknowledgement is late and the  *)
(* copy server does not die: each device's measurements once, in order,    *)
(* and together with the workers' hands everything the original dropped.   *)
(* After that: at most one duplicate for each late acknowledgement.        *)
(***************************************************************************)
EXTENDS QueueDeliveryProofs, SequenceLemmas, FiniteSetTheorems

\* A worker has device d's measurement in its hands.
Storing(w, d) == wpc[w] \notin {"wait", "recv"} /\ wdata[w].deviceId = d

Busy(d) == \E w \in Workers : Storing(w, d)

\* A connection the copy holds is in one place: waiting to be accepted,
\* waiting for a worker, or with one worker.
OnePlace ==
  /\ IsInjective(backlog) /\ IsInjective(socketQueue)
  /\ ToSet(backlog) \cap ToSet(socketQueue) = {}
  /\ \A w \in Workers : Serving(w) => wsock[w] \notin ToSet(backlog) \cup ToSet(socketQueue)
  /\ \A v, w \in Workers : Serving(v) /\ Serving(w) /\ wsock[v] = wsock[w] => v = w

\* The thread reconnects only when it has given the device's connection up.
Reconnects == tpc = "connect" => sock[cur] = Invalid

\* It takes a crash to break a connection or to stop the copy.
CrashesCounted == crashes = 0 => broken = 0 /\ up

Calm == timeouts = 0 /\ crashes = 0

\* The connections the copy holds, and that the original has closed none of
\* them.
Held == ToSet(backlog) \cup ToSet(socketQueue)
          \cup {wsock[w] : w \in {v \in Workers : Serving(v)}}

HeldOpen == \A c \in Held : Open(c)

\* A worker stores the measurement of the device whose connection it serves.
ServesDevice ==
  \A w \in Workers : wpc[w] \notin {"wait", "recv"} => sock[wdata[w].deviceId] = wsock[w]

\* The copy's queue of a device holds its measurements from the first on, and
\* the one a worker has in its hands is the next.
InOrder ==
  /\ \A d \in Device : \A i \in 1..Len(cq[d]) : cq[d][i] = [deviceId |-> d, seq |-> i]
  /\ \A w \in Workers : wpc[w] \notin {"wait", "recv"} =>
       wdata[w].seq = Len(cq[wdata[w].deviceId]) + 1

\* A queue is registered, and emptied, before its first measurement.
InsertedOnce ==
  /\ \A d \in Device \ registered : cq[d] = <<>>
  /\ \A w \in Workers :
       /\ wpc[w] = "insert" => wdata[w].deviceId \notin registered
       /\ wpc[w] = "enqueue" => wdata[w].deviceId \in registered

\* The copy has device d's head and the original has not removed it yet.
HeadCopied(d) ==
  cur = d /\ \/ tpc = "acked"
             \/ tpc = "ack" /\ wire[sock[d]] = <<>>

One(b) == IF b THEN 1 ELSE 0

\* What the copy has of a device is what the original has dropped, and the
\* head it is about to drop.
Balance(d) ==
  Len(cq[d]) + One(Busy(d)) + Len(oq[d]) = produced[d] + One(HeadCopied(d))

Balanced == \A d \in Device : Balance(d)

CalmInv ==
  /\ OnePlace /\ Reconnects /\ CrashesCounted
  /\ Calm => HeldOpen /\ ServesDevice /\ InOrder /\ InsertedOnce /\ Balanced

-----------------------------------------------------------------------------
(* The connections the copy holds.                                         *)

LEMMA HolderSteps ==
  TypeOK /\ [Next]_vars =>
    \/ Connect \/ AcceptRequest \/ Crash
    \/ \E w \in Workers : TakeRequest(w)
    \/ /\ UNCHANGED <<backlog, socketQueue, wsock>>
       /\ \A w \in Workers : wpc'[w] # "wait" => wpc[w] # "wait"
<1> SUFFICES ASSUME TypeOK, [Next]_vars
             PROVE  \/ Connect \/ AcceptRequest \/ Crash
                    \/ \E w \in Workers : TakeRequest(w)
                    \/ /\ UNCHANGED <<backlog, socketQueue, wsock>>
                       /\ \A w \in Workers : wpc'[w] # "wait" => wpc[w] # "wait"
  OBVIOUS
<1>1. ASSUME NEW w \in Workers, Worker(w), ~TakeRequest(w)
      PROVE  /\ UNCHANGED <<backlog, socketQueue, wsock>>
             /\ \A v \in Workers : wpc'[v] # "wait" => wpc[v] # "wait"
  BY <1>1 DEF Worker, Receive, ReceiveClosed, SendAck, LookupQueue, InsertQueue,
              EnqueueToMap, TypeOK
<1>2. ASSUME ~Connect, ~AcceptRequest, ~Crash, \A w \in Workers : ~Worker(w)
      PROVE  UNCHANGED <<backlog, socketQueue, wsock, wpc>>
  BY <1>2 DEF Next, vars, Handler, DeliveryThread, InitializeQu, HandlerEnqueue, SkipDevice,
         PeekHead, ConnectFails, Send, SendFails, AckArrives, AckFails, AckTimeout, GiveUp,
         DequeueAcked, Restart, copyVars
<1> QED
  BY <1>1, <1>2

LEMMA OnePlaceStep == TypeOK /\ LiveRefs /\ OnePlace /\ [Next]_vars => OnePlace'
<1> SUFFICES ASSUME TypeOK, LiveRefs, OnePlace, [Next]_vars PROVE OnePlace'
  OBVIOUS
<1>0. backlog \in Seq(Conn) /\ socketQueue \in Seq(Conn)
  BY DEF TypeOK
<1>1. CASE /\ UNCHANGED <<backlog, socketQueue, wsock>>
           /\ \A w \in Workers : wpc'[w] # "wait" => wpc[w] # "wait"
  BY <1>1 DEF OnePlace, Serving
<1>2. CASE Connect
  <2> DEFINE c == nconn + 1
  <2>1. /\ c \in Conn /\ c \notin Live
        /\ backlog' = Append(backlog, c)
        /\ UNCHANGED <<socketQueue, wpc, wsock>>
    BY <1>2, ConstantsAssumption DEF Connect, TypeOK, Conn, Live
  <2> HIDE DEF c
  <2>2. /\ ToSet(backlog) \subseteq Live /\ ToSet(socketQueue) \subseteq Live
        /\ \A w \in Workers : Serving(w) => wsock[w] \in Live
    BY InToSet DEF LiveRefs
  <2>3. IsInjective(backlog') /\ ToSet(backlog') = ToSet(backlog) \cup {c}
    BY <1>0, <2>1, <2>2, InjectiveAppend, ToSetAppend DEF OnePlace
  <2> QED BY <2>1, <2>2, <2>3 DEF OnePlace, Serving
<1>3. CASE AcceptRequest
  <2> DEFINE c == Head(backlog)
  <2>1. /\ backlog # <<>> /\ backlog' = Tail(backlog)
        /\ UNCHANGED <<wpc, wsock>>
        /\ socketQueue' = Append(socketQueue, c) \/ socketQueue' = socketQueue
    BY <1>3 DEF AcceptRequest
  <2>2. /\ c \in Conn /\ c \notin ToSet(Tail(backlog)) /\ IsInjective(Tail(backlog))
        /\ ToSet(backlog) = {c} \cup ToSet(Tail(backlog))
    BY <1>0, <2>1, InjectiveTail, ToSetTail DEF OnePlace
  <2> HIDE DEF c
  <2>3. CASE socketQueue' = Append(socketQueue, c)
    <3>1. IsInjective(socketQueue') /\ ToSet(socketQueue') = ToSet(socketQueue) \cup {c}
      BY <1>0, <2>2, <2>3, InjectiveAppend, ToSetAppend DEF OnePlace
    <3> QED BY <2>1, <2>2, <3>1 DEF OnePlace, Serving
  <2>4. CASE socketQueue' = socketQueue
    BY <2>1, <2>2, <2>4 DEF OnePlace, Serving
  <2> QED BY <2>1, <2>3, <2>4
<1>4. ASSUME NEW w \in Workers, TakeRequest(w) PROVE OnePlace'
  <2> DEFINE c == Head(socketQueue)
  <2>1. /\ socketQueue # <<>> /\ socketQueue' = Tail(socketQueue) /\ backlog' = backlog
        /\ wsock' = [wsock EXCEPT ![w] = c]
        /\ wpc' = [wpc EXCEPT ![w] = "recv"]
    BY <1>4 DEF TakeRequest
  <2>2. /\ c \in Conn /\ c \notin ToSet(Tail(socketQueue)) /\ IsInjective(Tail(socketQueue))
        /\ ToSet(socketQueue) = {c} \cup ToSet(Tail(socketQueue))
    BY <1>0, <2>1, InjectiveTail, ToSetTail DEF OnePlace
  <2> HIDE DEF c
  <2>3. \A v \in Workers : /\ wsock'[v] = IF v = w THEN c ELSE wsock[v]
                           /\ wpc'[v] = IF v = w THEN "recv" ELSE wpc[v]
    BY <2>1 DEF TypeOK
  <2> QED BY <2>1, <2>2, <2>3 DEF OnePlace, Serving
<1>5. CASE Crash
  <2>1. backlog' = <<>> /\ socketQueue' = <<>> /\ \A w \in Workers : wpc'[w] = "wait"
    BY <1>5 DEF Crash
  <2> QED BY <2>1, InjectiveEmpty, ToSetEmpty DEF OnePlace, Serving
<1> QED
  BY <1>1, <1>2, <1>3, <1>4, <1>5, HolderSteps

\* They are live connections.
LEMMA HeldLive == TypeOK /\ LiveRefs => Held \subseteq Live
  BY InToSet DEF LiveRefs, Held

\* Only a new connection is added to them.
LEMMA HeldGrows ==
  ASSUME TypeOK, LiveRefs, [Next]_vars
  PROVE  \/ Held' \subseteq Held
         \/ Connect /\ Held' \subseteq Held \cup {nconn + 1}
<1>0. backlog \in Seq(Conn) /\ socketQueue \in Seq(Conn)
  BY DEF TypeOK
<1>1. CASE /\ UNCHANGED <<backlog, socketQueue, wsock>>
           /\ \A w \in Workers : wpc'[w] # "wait" => wpc[w] # "wait"
  BY <1>1 DEF Held, Serving
<1>2. CASE Connect
  <2>1. /\ nconn + 1 \in Conn /\ backlog' = Append(backlog, nconn + 1)
        /\ UNCHANGED <<socketQueue, wpc, wsock>>
    BY <1>2, ConstantsAssumption DEF Connect, TypeOK, Conn
  <2>2. ToSet(backlog') = ToSet(backlog) \cup {nconn + 1}
    BY <1>0, <2>1, ToSetAppend
  <2> QED BY <1>2, <2>1, <2>2 DEF Held, Serving
<1>3. CASE AcceptRequest
  <2> DEFINE c == Head(backlog)
  <2>1. /\ backlog # <<>> /\ backlog' = Tail(backlog)
        /\ UNCHANGED <<wpc, wsock>>
        /\ socketQueue' = Append(socketQueue, c) \/ socketQueue' = socketQueue
    BY <1>3 DEF AcceptRequest
  <2>2. c \in Conn /\ ToSet(backlog) = {c} \cup ToSet(Tail(backlog))
    BY <1>0, <2>1, ToSetTail
  <2> HIDE DEF c
  <2>3. ToSet(socketQueue') \subseteq ToSet(socketQueue) \cup {c}
    <3>1. ToSet(Append(socketQueue, c)) = ToSet(socketQueue) \cup {c}
      BY <1>0, <2>2, ToSetAppend
    <3> QED BY <2>1, <3>1
  <2> QED BY <2>1, <2>2, <2>3 DEF Held, Serving
<1>4. ASSUME NEW w \in Workers, TakeRequest(w) PROVE Held' \subseteq Held
  <2> DEFINE c == Head(socketQueue)
  <2>1. /\ socketQueue # <<>> /\ socketQueue' = Tail(socketQueue) /\ backlog' = backlog
        /\ wsock' = [wsock EXCEPT ![w] = c]
        /\ wpc' = [wpc EXCEPT ![w] = "recv"]
    BY <1>4 DEF TakeRequest
  <2>2. c \in Conn /\ ToSet(socketQueue) = {c} \cup ToSet(Tail(socketQueue))
    BY <1>0, <2>1, ToSetTail
  <2> HIDE DEF c
  <2>3. \A v \in Workers : /\ wsock'[v] = IF v = w THEN c ELSE wsock[v]
                           /\ wpc'[v] = IF v = w THEN "recv" ELSE wpc[v]
    BY <2>1 DEF TypeOK
  <2> QED BY <2>1, <2>2, <2>3 DEF Held, Serving
<1>5. CASE Crash
  <2>1. backlog' = <<>> /\ socketQueue' = <<>> /\ \A w \in Workers : wpc'[w] = "wait"
    BY <1>5 DEF Crash
  <2> QED BY <2>1, ToSetEmpty DEF Held, Serving
<1> QED
  BY <1>1, <1>2, <1>3, <1>4, <1>5, HolderSteps

LEMMA ReconnectsStep == TypeOK /\ Reconnects /\ [Next]_vars => Reconnects'
<1> SUFFICES ASSUME TypeOK, Reconnects, [Next]_vars PROVE Reconnects'
  OBVIOUS
<1>1. CASE PeekHead
  BY <1>1 DEF PeekHead, Reconnects
<1>2. CASE UNCHANGED <<sock, cur>> /\ (tpc' = "connect" => tpc = "connect")
  BY <1>2 DEF Reconnects
<1>3. CASE tpc' # "connect"
  BY <1>3 DEF Reconnects
<1> QED
  BY <1>1, <1>2, <1>3
     DEF Next, vars, Handler, DeliveryThread, Worker, InitializeQu, HandlerEnqueue, SkipDevice,
         Connect, ConnectFails, Send, SendFails, AckArrives, AckFails, AckTimeout, GiveUp,
         DequeueAcked, AcceptRequest, TakeRequest, Receive, ReceiveClosed, SendAck,
         LookupQueue, InsertQueue, EnqueueToMap, Crash, Restart, threadVars, Reconnects

LEMMA CrashesCountedStep == TypeOK /\ CrashesCounted /\ [Next]_vars => CrashesCounted'
<1> SUFFICES ASSUME TypeOK, CrashesCounted, [Next]_vars PROVE CrashesCounted'
  OBVIOUS
<1>1. CASE Crash
  <2>1. crashes' # 0
    BY <1>1 DEF Crash, TypeOK
  <2> QED BY <2>1 DEF CrashesCounted
<1>2. CASE UNCHANGED <<crashes, broken>> /\ (up' = up \/ up')
  BY <1>2 DEF CrashesCounted
<1> QED
  BY <1>1, <1>2
     DEF Next, vars, Handler, DeliveryThread, Worker, InitializeQu, HandlerEnqueue, SkipDevice,
         PeekHead, Connect, ConnectFails, Send, SendFails, AckArrives, AckFails, AckTimeout, GiveUp,
         DequeueAcked, AcceptRequest, TakeRequest, Receive, ReceiveClosed, SendAck,
         LookupQueue, InsertQueue, EnqueueToMap, Restart, netVars, copyVars

-----------------------------------------------------------------------------
(* Steps of a path on which nothing was late and nothing died.             *)

LEMMA CalmBefore ==
  ASSUME TypeOK, CrashesCounted, [Next]_vars, Calm'
  PROVE  Calm /\ ~Crash /\ broken = 0
<1>1. timeouts \in Nat /\ crashes \in Nat
  BY ConstantsAssumption DEF TypeOK
<1>2. timeouts' = timeouts \/ timeouts' = timeouts + 1
  <2>1. CASE AckTimeout
    BY <2>1 DEF AckTimeout
  <2>2. CASE ~AckTimeout
    BY <2>2
       DEF Next, vars, Handler, DeliveryThread, Worker, InitializeQu, HandlerEnqueue, SkipDevice,
           PeekHead, Connect, ConnectFails, Send, SendFails, AckArrives, AckFails,
           DequeueAcked, AcceptRequest, TakeRequest, Receive, ReceiveClosed, SendAck,
           LookupQueue, InsertQueue, EnqueueToMap, Crash, Restart
  <2> QED BY <2>1, <2>2
<1>3. ASSUME ~Crash PROVE crashes' = crashes
  BY <1>3
     DEF Next, vars, Handler, DeliveryThread, Worker, InitializeQu, HandlerEnqueue, SkipDevice,
         PeekHead, Connect, ConnectFails, Send, SendFails, AckArrives, AckFails, AckTimeout, GiveUp,
         DequeueAcked, AcceptRequest, TakeRequest, Receive, ReceiveClosed, SendAck,
         LookupQueue, InsertQueue, EnqueueToMap, Restart
<1>4. Crash => crashes' = crashes + 1
  BY DEF Crash
<1>5. timeouts = 0
  BY <1>1, <1>2 DEF Calm
<1>6. crashes = 0 /\ ~Crash
  BY <1>1, <1>3, <1>4 DEF Calm
<1> QED
  BY <1>5, <1>6 DEF Calm, CrashesCounted

LEMMA SockSteps ==
  [Next]_vars => \/ Connect \/ SendFails \/ AckFails \/ AckTimeout
                 \/ sock' = sock
  BY DEF Next, vars, Handler, DeliveryThread, Worker, InitializeQu, HandlerEnqueue, SkipDevice,
         PeekHead, ConnectFails, Send, AckArrives, DequeueAcked, AcceptRequest, TakeRequest,
         Receive, ReceiveClosed, SendAck, LookupQueue, InsertQueue, EnqueueToMap, Crash,
         Restart, threadVars

\* The thread then gives up only a socket that was never opened, or a
\* connection the copy forgot with the measurement unread on it.
LEMMA CalmGivesUp ==
  ASSUME IInv, CalmInv, Calm, Calm', SendFails \/ AckFails \/ AckTimeout
  PROVE  /\ tpc' = "scan" /\ sock' = [sock EXCEPT ![cur] = Invalid]
         /\ UNCHANGED <<origVars, netVars, copyVars>>
         /\ sock[cur] \notin Held
         /\ ~HeadCopied(cur)
<1>0. /\ TypeOK /\ OwnSocket /\ LiveRefs /\ StopAndWait /\ broken = 0
  BY DEF IInv, CalmInv, CrashesCounted, Calm
<1>1. /\ tpc' = "scan" /\ sock' = [sock EXCEPT ![cur] = Invalid]
      /\ UNCHANGED <<origVars, netVars, copyVars>>
  BY DEF SendFails, AckFails, AckTimeout, GiveUp
<1>2. sock[cur] \in Conn => Alive(sock[cur])
  BY <1>0 DEF Alive, Conn
<1>3. ASSUME sock[cur] \notin Conn, tpc = "send"
      PROVE  sock[cur] \notin Held /\ ~HeadCopied(cur)
  BY <1>0, <1>3, HeldLive, LiveConn DEF HeadCopied
<1>4. CASE SendFails
  BY <1>1, <1>2, <1>3, <1>4 DEF SendFails
<1>5. CASE AckFails
  BY <1>0, <1>2, <1>5 DEF AckFails, OwnSocket
<1>6. CASE AckTimeout
  <2> DEFINE c == sock[cur]
  <2>1. tpc = "ack" /\ acks[c] = 0 /\ c \in Conn /\ cur \in Device
    BY <1>0, <1>6 DEF AckTimeout, OwnSocket, TypeOK
  <2>2. Dropped(c)
    BY <1>0, <1>6 DEF AckTimeout, Calm
  <2>3. OneUnderWay(c, msg)
    BY <1>0, <1>2, <2>1 DEF StopAndWait
  <2>4. wire[c] # <<>>
    BY <2>1, <2>2, <2>3 DEF OneUnderWay, Replying, Dropped
  <2>5. c \notin Held
    BY <2>2 DEF Held, Dropped, Serving
  <2> QED BY <1>1, <2>1, <2>4, <2>5 DEF HeadCopied
<1> QED
  BY <1>4, <1>5, <1>6

\* A worker then reads the head the thread waits to remove, and no other
\* worker has a measurement of that device.
LEMMA CalmReceives ==
  ASSUME IInv, CalmInv, Calm, NEW w \in Workers, Receive(w)
  PROVE  /\ tpc = "ack" /\ wsock[w] = sock[cur] /\ sock[cur] \in Conn
         /\ wire[sock[cur]] # <<>>
         /\ wire' = [wire EXCEPT ![sock[cur]] = <<>>]
         /\ wdata' = [wdata EXCEPT ![w] = msg]
         /\ wpc' = [wpc EXCEPT ![w] = "reply"]
         /\ msg.deviceId = cur
         /\ msg.seq = produced[cur] - Len(oq[cur]) + 1
         /\ ~Busy(cur)
<1> DEFINE c == wsock[w]
<1>0. /\ TypeOK /\ OwnSocket /\ LiveRefs /\ StopAndWait /\ OrderedQueue /\ HeadPending
      /\ broken = 0 /\ OnePlace /\ HeldOpen /\ ServesDevice
  BY DEF IInv, CalmInv, CrashesCounted, Calm
<1>1. /\ wpc[w] = "recv" /\ wire[c] # <<>> /\ wpc' = [wpc EXCEPT ![w] = "reply"]
      /\ wdata' = [wdata EXCEPT ![w] = Head(wire[c])]
      /\ wire' = [wire EXCEPT ![c] = Tail(wire[c])]
  BY DEF Receive
<1>2. c \in Held /\ c \in Conn
  BY <1>0, <1>1, HeldLive, LiveConn DEF Held, Serving
<1>3. PICK d \in Device : sock[d] = c
  BY <1>0, <1>2 DEF HeldOpen, Open
<1>4. Alive(sock[d])
  BY <1>0, <1>2, <1>3 DEF Alive, Conn
<1>5. tpc = "ack" /\ cur = d /\ wire[c] = <<msg>>
  BY <1>0, <1>1, <1>3, <1>4 DEF StopAndWait, NothingUnderWay, OneUnderWay
<1>6. Head(<<msg>>) = msg /\ Tail(<<msg>>) = <<>>
  OBVIOUS
<1>7. /\ cur \in Device /\ oq[cur] \in Seq(Measurement) /\ oq[cur] # <<>> /\ msg = Head(oq[cur])
      /\ produced[cur] \in Nat
  BY <1>0, <1>5 DEF TypeOK, HeadPending
<1>8. Len(oq[cur]) \in Nat \ {0} /\ msg = oq[cur][1]
  BY <1>7, Shortened
<1>9. msg.deviceId = cur /\ msg.seq = produced[cur] - Len(oq[cur]) + 1
  <2> DEFINE n == produced[cur] - Len(oq[cur]) + 1
  <2>1. oq[cur][1] = [deviceId |-> cur, seq |-> n]
    BY <1>0, <1>7, <1>8 DEF OrderedQueue
  <2> HIDE DEF n
  <2>2. msg.deviceId = cur /\ msg.seq = n
    BY <1>8, <2>1
  <2> QED BY <2>2 DEF n
<1>10. ASSUME NEW v \in Workers, Storing(v, cur) PROVE FALSE
  <2>1. sock[cur] = wsock[v] /\ wpc[v] \notin {"wait", "recv"}
    BY <1>0, <1>10 DEF ServesDevice, Storing
  <2>2. v = w
    BY <1>0, <1>1, <1>3, <1>5, <2>1 DEF OnePlace, Serving
  <2> QED BY <1>1, <2>1, <2>2
<1> QED
  BY <1>1, <1>2, <1>3, <1>5, <1>6, <1>9, <1>10 DEF Busy

LEMMA HeldOpenStep ==
  ASSUME IInv, CalmInv, Calm', [Next]_vars
  PROVE  HeldOpen'
<1>0. /\ TypeOK /\ OwnSocket /\ LiveRefs /\ Reconnects /\ CrashesCounted
      /\ Invalid \notin Conn /\ Held \subseteq Conn
  BY HeldLive, LiveConn, ConstantsAssumption DEF IInv, CalmInv, Invalid, Conn
<1>1. Calm /\ HeldOpen
  BY <1>0, CalmBefore DEF CalmInv
<1>2. CASE Connect
  <2>1. /\ sock[cur] = Invalid /\ cur \in Device
        /\ sock' = [sock EXCEPT ![cur] = nconn + 1]
        /\ Held' \subseteq Held \cup {nconn + 1}
    BY <1>0, <1>2, HeldGrows DEF Connect, Reconnects, TypeOK
  <2>2. sock'[cur] = nconn + 1
    BY <1>0, <2>1 DEF TypeOK
  <2>3. ASSUME NEW c \in Held PROVE \E d \in Device : sock'[d] = c
    <3>1. PICK d \in Device : sock[d] = c
      BY <1>1, <2>3 DEF HeldOpen, Open
    <3>2. sock'[d] = c
      BY <1>0, <2>1, <2>3, <3>1 DEF TypeOK
    <3> QED BY <3>2
  <2>4. ASSUME NEW c \in Held' PROVE \E d \in Device : sock'[d] = c
    BY <2>1, <2>2, <2>3, <2>4
  <2> QED BY <2>4 DEF HeldOpen, Open
<1>3. CASE SendFails \/ AckFails \/ AckTimeout
  <2>1. sock[cur] \notin Held /\ sock' = [sock EXCEPT ![cur] = Invalid]
    BY <1>1, <1>3, CalmGivesUp
  <2>2. Held' \subseteq Held
    BY <1>0, <1>3, HeldGrows DEF Connect, SendFails, AckFails, AckTimeout
  <2>3. ASSUME NEW c \in Held' PROVE \E d \in Device : sock'[d] = c
    <3>1. PICK d \in Device : sock[d] = c
      BY <1>1, <2>2, <2>3 DEF HeldOpen, Open
    <3>2. sock'[d] = c
      BY <1>0, <2>1, <2>2, <2>3, <3>1 DEF TypeOK
    <3> QED BY <3>2
  <2> QED BY <2>3 DEF HeldOpen, Open
<1>4. CASE sock' = sock /\ ~Connect
  <2>1. Held' \subseteq Held
    BY <1>0, <1>4, HeldGrows
  <2>2. \A c \in Held' : \E d \in Device : sock'[d] = c
    BY <1>1, <1>4, <2>1 DEF HeldOpen, Open
  <2> QED BY <2>2 DEF HeldOpen, Open
<1> QED
  BY <1>2, <1>3, <1>4, SockSteps

LEMMA ServesDeviceStep ==
  ASSUME IInv, CalmInv, Calm', [Next]_vars
  PROVE  ServesDevice'
<1>0. /\ TypeOK /\ OwnSocket /\ LiveRefs /\ Reconnects /\ CrashesCounted
      /\ Invalid \notin Conn /\ Held \subseteq Conn
      /\ \A m \in Measurement : m.deviceId \in Device
  BY HeldLive, LiveConn, MeasurementType, ConstantsAssumption DEF IInv, CalmInv, Invalid, Conn
<1>1. Calm /\ ServesDevice
  BY <1>0, CalmBefore DEF CalmInv
<1>2. \A w \in Workers : /\ wpc[w] \notin {"wait", "recv"} => wsock[w] \in Held
                         /\ wdata[w].deviceId \in Device
  BY <1>0 DEF Held, Serving, TypeOK
<1>3. CASE Connect
  <2>1. /\ sock[cur] = Invalid
        /\ sock' = [sock EXCEPT ![cur] = nconn + 1]
        /\ UNCHANGED <<wpc, wsock, wdata>>
    BY <1>0, <1>3 DEF Connect, Reconnects
  <2>2. \A w \in Workers : wpc[w] \notin {"wait", "recv"} => wdata[w].deviceId # cur
    BY <1>0, <1>1, <1>2, <2>1 DEF ServesDevice
  <2>3. \A d \in Device \ {cur} : sock'[d] = sock[d]
    BY <1>0, <2>1 DEF TypeOK
  <2> QED BY <1>1, <1>2, <2>1, <2>2, <2>3 DEF ServesDevice
<1>4. CASE SendFails \/ AckFails \/ AckTimeout
  <2>1. /\ sock[cur] \notin Held /\ sock' = [sock EXCEPT ![cur] = Invalid]
        /\ UNCHANGED <<wpc, wsock, wdata>>
    BY <1>1, <1>4, CalmGivesUp DEF copyVars
  <2>2. \A w \in Workers : wpc[w] \notin {"wait", "recv"} => wdata[w].deviceId # cur
    BY <1>1, <1>2, <2>1 DEF ServesDevice
  <2>3. \A d \in Device \ {cur} : sock'[d] = sock[d]
    BY <1>0, <2>1 DEF TypeOK
  <2> QED BY <1>1, <1>2, <2>1, <2>2, <2>3 DEF ServesDevice
<1>5. ASSUME NEW w \in Workers, Receive(w) PROVE ServesDevice'
  <2>1. /\ wsock[w] = sock[cur] /\ msg.deviceId = cur
        /\ wdata' = [wdata EXCEPT ![w] = msg]
        /\ wpc' = [wpc EXCEPT ![w] = "reply"]
        /\ UNCHANGED <<sock, wsock>>
    BY <1>1, <1>5, CalmReceives DEF Receive, threadVars
  <2>2. \A v \in Workers : /\ wdata'[v] = IF v = w THEN msg ELSE wdata[v]
                           /\ wpc'[v] = IF v = w THEN "reply" ELSE wpc[v]
    BY <1>0, <2>1 DEF TypeOK
  <2> QED BY <1>1, <2>1, <2>2 DEF ServesDevice
<1>6. ASSUME NEW w \in Workers, Worker(w), ~Receive(w) PROVE ServesDevice'
  <2>1. /\ UNCHANGED <<sock, wdata>>
        /\ \A v \in Workers : wpc'[v] \notin {"wait", "recv"} =>
             wpc[v] \notin {"wait", "recv"} /\ wsock'[v] = wsock[v]
    <3>1. CASE TakeRequest(w)
      BY <1>0, <3>1 DEF TakeRequest, TypeOK, threadVars
    <3>2. CASE ~TakeRequest(w)
      BY <1>0, <1>6, <3>2 DEF Worker, ReceiveClosed, SendAck, LookupQueue, InsertQueue,
           EnqueueToMap, TypeOK, threadVars
    <3> QED BY <3>1, <3>2
  <2> QED BY <1>1, <2>1 DEF ServesDevice
<1>7. ASSUME sock' = sock, ~Connect, \A w \in Workers : ~Worker(w) PROVE ServesDevice'
  <2>1. ~Crash
    BY <1>0, CalmBefore
  <2>2. UNCHANGED <<wpc, wsock, wdata>>
    BY <1>7, <2>1
       DEF Next, vars, Handler, DeliveryThread, InitializeQu, HandlerEnqueue, SkipDevice,
           PeekHead, ConnectFails, Send, SendFails, AckArrives, AckFails, AckTimeout, GiveUp,
           DequeueAcked, AcceptRequest, Restart, copyVars
  <2> QED BY <1>1, <1>7, <2>2 DEF ServesDevice
<1> QED
  BY <1>3, <1>4, <1>5, <1>6, <1>7, SockSteps

-----------------------------------------------------------------------------
(* The copy's queues.                                                      *)

\* Which steps touch them.
LEMMA CopySteps ==
  ASSUME TypeOK, CrashesCounted, Calm', [Next]_vars
  PROVE  \/ \E w \in Workers : InsertQueue(w) \/ EnqueueToMap(w)
         \/ UNCHANGED <<registered, cq>>
<1>1. ~Crash
  BY CalmBefore
<1>2. ASSUME NEW w \in Workers, Worker(w), ~InsertQueue(w), ~EnqueueToMap(w)
      PROVE  UNCHANGED <<registered, cq>>
  BY <1>2 DEF Worker, TakeRequest, Receive, ReceiveClosed, SendAck, LookupQueue
<1>3. ASSUME \A w \in Workers : ~Worker(w) PROVE UNCHANGED <<registered, cq>>
  BY <1>1, <1>3
     DEF Next, vars, Handler, DeliveryThread, InitializeQu, HandlerEnqueue, SkipDevice,
         PeekHead, Connect, ConnectFails, Send, SendFails, AckArrives, AckFails, AckTimeout, GiveUp,
         DequeueAcked, AcceptRequest, Restart, copyVars
<1> QED
  BY <1>2, <1>3

\* One device has one measurement in the workers' hands at a time.
LEMMA OneStoring ==
  ASSUME IInv, CalmInv, Calm, NEW v \in Workers, NEW w \in Workers, NEW d,
         Storing(v, d), Storing(w, d)
  PROVE  v = w
  BY DEF CalmInv, ServesDevice, OnePlace, Storing, Serving

\* A queue that is inserted was empty, and only its registration changes.
LEMMA CalmInserts ==
  ASSUME IInv, CalmInv, Calm, NEW w \in Workers, InsertQueue(w)
  PROVE  cq' = cq /\ wdata[w].deviceId \in Device
<1>1. /\ wdata[w].deviceId \in Device \ registered
      /\ cq' = [cq EXCEPT ![wdata[w].deviceId] = <<>>]
  BY MeasurementType DEF IInv, CalmInv, InsertedOnce, InsertQueue, TypeOK
<1>2. cq[wdata[w].deviceId] = <<>>
  BY <1>1 DEF CalmInv, InsertedOnce
<1>3. cq \in [Device -> Seq(Measurement)]
  BY DEF IInv, TypeOK
<1> QED
  BY <1>1, <1>2, <1>3

\* Which steps put a measurement into a worker's hands or take it out of them.
LEMMA HandSteps ==
  ASSUME TypeOK, CrashesCounted, Calm', [Next]_vars
  PROVE  \/ \E w \in Workers : Receive(w) \/ EnqueueToMap(w)
         \/ /\ wdata' = wdata
            /\ \A v \in Workers : wpc'[v] \in {"wait", "recv"} <=> wpc[v] \in {"wait", "recv"}
<1>1. ~Crash
  BY CalmBefore
<1>2. ASSUME NEW w \in Workers, Worker(w), ~Receive(w), ~EnqueueToMap(w)
      PROVE  /\ wdata' = wdata
             /\ \A v \in Workers : wpc'[v] \in {"wait", "recv"} <=> wpc[v] \in {"wait", "recv"}
  <2>1. CASE LookupQueue(w)
    BY <2>1 DEF LookupQueue, TypeOK
  <2>2. CASE ~LookupQueue(w)
    BY <1>2, <2>2 DEF Worker, TakeRequest, ReceiveClosed, SendAck, InsertQueue, TypeOK
  <2> QED BY <2>1, <2>2
<1>3. ASSUME \A w \in Workers : ~Worker(w) PROVE UNCHANGED <<wdata, wpc>>
  BY <1>1, <1>3
     DEF Next, vars, Handler, DeliveryThread, InitializeQu, HandlerEnqueue, SkipDevice,
         PeekHead, Connect, ConnectFails, Send, SendFails, AckArrives, AckFails, AckTimeout, GiveUp,
         DequeueAcked, AcceptRequest, Restart, copyVars
<1> QED
  BY <1>2, <1>3

\* What storing a measurement does to the copy's queue of its device.
LEMMA CalmStores ==
  ASSUME IInv, CalmInv, Calm, NEW w \in Workers, EnqueueToMap(w),
         NEW d, d = wdata[w].deviceId
  PROVE  /\ d \in Device /\ Len(cq[d]) \in Nat /\ Storing(w, d)
         /\ cq' = [cq EXCEPT ![d] = Append(cq[d], wdata[w])]
         /\ wpc' = [wpc EXCEPT ![w] = "recv"] /\ wdata' = wdata
         /\ wdata[w] = [deviceId |-> d, seq |-> Len(cq[d]) + 1]
         /\ Len(cq'[d]) = Len(cq[d]) + 1
         /\ \A i \in 1..Len(cq[d]) : cq'[d][i] = cq[d][i]
         /\ cq'[d][Len(cq[d]) + 1] = wdata[w]
         /\ \A e \in Device \ {d} : cq'[e] = cq[e]
<1>1. /\ wdata[w] \in Measurement /\ cq \in [Device -> Seq(Measurement)]
      /\ wpc[w] = "enqueue" /\ wpc' = [wpc EXCEPT ![w] = "recv"] /\ wdata' = wdata
      /\ cq' = [cq EXCEPT ![d] = Append(cq[d], wdata[w])]
  BY DEF IInv, TypeOK, EnqueueToMap
<1>2. d \in Device /\ wdata[w] = [deviceId |-> d, seq |-> wdata[w].seq]
  BY <1>1 DEF Measurement
<1>3. wdata[w].seq = Len(cq[d]) + 1
  BY <1>1 DEF CalmInv, InOrder
<1>4. /\ Len(cq[d]) \in Nat /\ Len(Append(cq[d], wdata[w])) = Len(cq[d]) + 1
      /\ \A i \in 1..Len(cq[d]) : Append(cq[d], wdata[w])[i] = cq[d][i]
      /\ Append(cq[d], wdata[w])[Len(cq[d]) + 1] = wdata[w]
  BY <1>1, <1>2, Appended
<1>5. cq'[d] = Append(cq[d], wdata[w]) /\ \A e \in Device \ {d} : cq'[e] = cq[e]
  BY <1>1, <1>2
<1> QED
  BY <1>1, <1>2, <1>3, <1>4, <1>5 DEF Storing

LEMMA InsertedOnceStep ==
  ASSUME IInv, CalmInv, Calm', [Next]_vars
  PROVE  InsertedOnce'
<1>0. /\ TypeOK /\ CrashesCounted /\ Calm /\ InsertedOnce
      /\ \A w \in Workers : wdata[w].deviceId \in Device
  BY CalmBefore, MeasurementType DEF IInv, CalmInv, TypeOK
<1>1. ASSUME NEW w \in Workers, EnqueueToMap(w) PROVE InsertedOnce'
  <2> DEFINE d == wdata[w].deviceId
  <2>1. /\ wpc[w] = "enqueue" /\ UNCHANGED <<wdata, registered>>
        /\ wpc' = [wpc EXCEPT ![w] = "recv"]
        /\ \A e \in Device \ {d} : cq'[e] = cq[e]
    BY <1>0, <1>1, CalmStores DEF EnqueueToMap
  <2>2. d \in registered
    BY <1>0, <2>1 DEF InsertedOnce
  <2> HIDE DEF d
  <2>3. \A v \in Workers : wpc'[v] \in {"insert", "enqueue"} => wpc'[v] = wpc[v]
    BY <1>0, <2>1 DEF TypeOK
  <2> QED BY <1>0, <2>1, <2>2, <2>3 DEF InsertedOnce
<1>2. ASSUME NEW w \in Workers, InsertQueue(w) PROVE InsertedOnce'
  <2> DEFINE d == wdata[w].deviceId
  <2>1. /\ wpc[w] = "insert" /\ Storing(w, d) /\ d \in Device
        /\ wpc' = [wpc EXCEPT ![w] = "enqueue"] /\ UNCHANGED <<wdata, cq>>
        /\ registered' = registered \cup {d}
    BY <1>0, <1>2, CalmInserts DEF InsertQueue, Storing
  <2>2. \A v \in Workers \ {w} : wpc[v] = "insert" => wdata[v].deviceId # d
    BY <1>0, <2>1, OneStoring DEF Storing
  <2>3. \A v \in Workers : wpc'[v] = IF v = w THEN "enqueue" ELSE wpc[v]
    BY <1>0, <2>1 DEF TypeOK
  <2> QED BY <1>0, <2>1, <2>2, <2>3 DEF InsertedOnce
<1>3. ASSUME NEW w \in Workers, LookupQueue(w) PROVE InsertedOnce'
  <2>1. \A v \in Workers : wpc'[v] = IF v = w THEN IF wdata[w].deviceId \in registered
                                                  THEN "enqueue" ELSE "insert"
                           ELSE wpc[v]
    BY <1>0, <1>3 DEF LookupQueue, TypeOK
  <2>2. UNCHANGED <<wdata, registered, cq>>
    BY <1>3 DEF LookupQueue
  <2> QED BY <1>0, <2>1, <2>2 DEF InsertedOnce
<1>4. ASSUME NEW w \in Workers, Receive(w) PROVE InsertedOnce'
  <2>1. \A v \in Workers : wpc'[v] # "reply" => wpc'[v] = wpc[v] /\ wdata'[v] = wdata[v]
    BY <1>0, <1>4 DEF Receive, TypeOK
  <2>2. UNCHANGED <<registered, cq>>
    BY <1>4 DEF Receive
  <2> QED BY <1>0, <2>1, <2>2 DEF InsertedOnce
<1>5. CASE /\ UNCHANGED <<wdata, registered, cq>>
           /\ \A v \in Workers : wpc'[v] \in {"insert", "enqueue"} => wpc'[v] = wpc[v]
  BY <1>0, <1>5 DEF InsertedOnce
<1>6. ASSUME NEW w \in Workers, TakeRequest(w) \/ ReceiveClosed(w) \/ SendAck(w) PROVE InsertedOnce'
  BY <1>0, <1>5, <1>6 DEF TakeRequest, ReceiveClosed, SendAck, TypeOK
<1>7. ASSUME \A w \in Workers : ~Worker(w) PROVE InsertedOnce'
  <2>1. ~Crash
    BY <1>0, CalmBefore
  <2>2. UNCHANGED <<wpc, wdata, registered, cq>>
    BY <1>7, <2>1
       DEF Next, vars, Handler, DeliveryThread, InitializeQu, HandlerEnqueue, SkipDevice,
           PeekHead, Connect, ConnectFails, Send, SendFails, AckArrives, AckFails, AckTimeout,
           GiveUp, DequeueAcked, AcceptRequest, Restart, copyVars
  <2> QED BY <1>5, <2>2
<1> QED
  BY <1>1, <1>2, <1>3, <1>4, <1>6, <1>7 DEF Worker

LEMMA InOrderStep ==
  ASSUME IInv, CalmInv, Calm', [Next]_vars
  PROVE  InOrder'
<1>0. /\ TypeOK /\ CrashesCounted /\ Calm /\ InOrder /\ Balanced
      /\ \A w \in Workers : wdata[w].deviceId \in Device
  BY CalmBefore, MeasurementType DEF IInv, CalmInv, TypeOK
<1>1. ASSUME NEW w \in Workers, EnqueueToMap(w) PROVE InOrder'
  <2> DEFINE d == wdata[w].deviceId  n == Len(cq[d])
  <2>1. /\ d \in Device /\ n \in Nat /\ Storing(w, d)
        /\ wpc' = [wpc EXCEPT ![w] = "recv"] /\ wdata' = wdata
        /\ wdata[w] = [deviceId |-> d, seq |-> n + 1]
        /\ Len(cq'[d]) = n + 1
        /\ \A i \in 1..n : cq'[d][i] = cq[d][i]
        /\ cq'[d][n + 1] = wdata[w]
        /\ \A e \in Device \ {d} : cq'[e] = cq[e]
    BY <1>0, <1>1, CalmStores
  <2>2. \A v \in Workers : Storing(v, d) => v = w
    BY <1>0, <2>1, OneStoring
  <2>3. \A v \in Workers : wpc'[v] = IF v = w THEN "recv" ELSE wpc[v]
    BY <1>0, <2>1 DEF TypeOK
  <2>4. \A i \in 1..n : cq[d][i] = [deviceId |-> d, seq |-> i]
    BY <1>0, <2>1 DEF InOrder
  <2> HIDE DEF d, n
  <2>5. ASSUME NEW i \in 1..Len(cq'[d]) PROVE cq'[d][i] = [deviceId |-> d, seq |-> i]
    <3>1. i \in 1..n \/ i = n + 1
      BY <2>1
    <3> QED BY <2>1, <2>4, <3>1
  <2>6. ASSUME NEW v \in Workers, wpc'[v] \notin {"wait", "recv"}
        PROVE  wdata'[v].seq = Len(cq'[wdata'[v].deviceId]) + 1
    <3>1. wpc[v] \notin {"wait", "recv"} /\ v # w /\ wdata'[v] = wdata[v]
      BY <2>1, <2>3, <2>6
    <3>2. wdata[v].deviceId \in Device \ {d}
      BY <1>0, <2>2, <3>1 DEF Storing
    <3>3. wdata[v].seq = Len(cq[wdata[v].deviceId]) + 1
      BY <1>0, <3>1 DEF InOrder
    <3>4. cq'[wdata[v].deviceId] = cq[wdata[v].deviceId]
      BY <2>1, <3>2
    <3> QED BY <3>1, <3>3, <3>4
  <2>7. ASSUME NEW e \in Device, NEW i \in 1..Len(cq'[e]) PROVE cq'[e][i] = [deviceId |-> e, seq |-> i]
    <3>1. CASE e = d
      BY <2>5, <3>1
    <3>2. CASE e # d
      <4>1. cq'[e] = cq[e]
        BY <2>1, <3>2
      <4> QED BY <1>0, <2>7, <4>1 DEF InOrder
    <3> QED BY <3>1, <3>2
  <2> QED BY <2>6, <2>7 DEF InOrder
<1>2. ASSUME NEW w \in Workers, Receive(w) PROVE InOrder'
  <2>1. /\ tpc = "ack" /\ wire[sock[cur]] # <<>> /\ cur \in Device
        /\ wdata' = [wdata EXCEPT ![w] = msg]
        /\ wpc' = [wpc EXCEPT ![w] = "reply"]
        /\ msg.deviceId = cur /\ ~Busy(cur)
        /\ msg.seq = produced[cur] - Len(oq[cur]) + 1
        /\ cq' = cq
    BY <1>0, <1>2, CalmReceives DEF Receive, TypeOK
  <2>2. ~HeadCopied(cur)
    BY <2>1 DEF HeadCopied
  <2>3. msg.seq = Len(cq[cur]) + 1
    <3> DEFINE a == Len(cq[cur])  b == Len(oq[cur])  p == produced[cur]
    <3>1. a + 0 + b = p + 0 /\ msg.seq = p - b + 1
      BY <1>0, <2>1, <2>2 DEF Balanced, Balance, One
    <3>2. a \in Nat /\ b \in Nat /\ p \in Nat
      BY <1>0, <2>1, LenProperties DEF TypeOK
    <3> HIDE DEF a, b, p
    <3>3. msg.seq = a + 1
      BY <3>1, <3>2
    <3> QED BY <3>3 DEF a
  <2>4. \A v \in Workers : /\ wdata'[v] = IF v = w THEN msg ELSE wdata[v]
                           /\ wpc'[v] = IF v = w THEN "reply" ELSE wpc[v]
    BY <1>0, <2>1 DEF TypeOK
  <2> QED BY <1>0, <2>1, <2>3, <2>4 DEF InOrder
<1>3. CASE \A w \in Workers : ~Receive(w) /\ ~EnqueueToMap(w)
  <2>1. cq' = cq
    BY <1>0, <1>3, CopySteps, CalmInserts
  <2>2. wdata' = wdata /\ \A v \in Workers : wpc'[v] \in {"wait", "recv"} <=> wpc[v] \in {"wait", "recv"}
    BY <1>0, <1>3, HandSteps
  <2> QED BY <1>0, <2>1, <2>2 DEF InOrder
<1> QED
  BY <1>1, <1>2, <1>3

-----------------------------------------------------------------------------
(* What the copy has and what the original still keeps.                    *)

LEMMA BalanceKept ==
  ASSUME NEW d, Balance(d),
         Len(cq'[d]) = Len(cq[d]), Len(oq'[d]) = Len(oq[d]), produced'[d] = produced[d],
         Busy(d)' <=> Busy(d), HeadCopied(d)' <=> HeadCopied(d)
  PROVE  Balance(d)'
<1>1. One(Busy(d))' = One(Busy(d)) /\ One(HeadCopied(d))' = One(HeadCopied(d))
  BY DEF One
<1> QED
  BY <1>1 DEF Balance

LEMMA BusyKept ==
  ASSUME NEW d, wdata' = wdata,
         \A v \in Workers : wpc'[v] \in {"wait", "recv"} <=> wpc[v] \in {"wait", "recv"}
  PROVE  Busy(d)' <=> Busy(d)
  BY DEF Busy, Storing

\* The steps of the original.
LEMMA ThreadBalance ==
  ASSUME IInv, CalmInv, Calm, Calm', DeliveryThread, NEW d \in Device
  PROVE  Balance(d)'
<1>0. TypeOK /\ Balance(d) /\ StopAndWait /\ HeadPending /\ OwnSocket
  BY DEF IInv, CalmInv, Balanced
<1>1. UNCHANGED <<wpc, wdata, cq>>
  BY DEF DeliveryThread, SkipDevice, PeekHead, Connect, ConnectFails, Send, SendFails,
         AckArrives, AckFails, AckTimeout, GiveUp, DequeueAcked, copyVars
<1>2. Busy(d)' <=> Busy(d)
  BY <1>1, BusyKept
<1>3. CASE DequeueAcked /\ d = cur
  <2> DEFINE a == Len(cq[d])  b == Len(oq[d])  p == produced[d]  k == One(Busy(d))
  <2>1. /\ tpc = "acked" /\ tpc' = "scan" /\ oq[d] # <<>> /\ oq'[d] = Tail(oq[d])
        /\ produced' = produced /\ cq' = cq
    BY <1>0, <1>1, <1>3 DEF DequeueAcked, HeadPending, TypeOK
  <2>2. /\ Len(oq'[d]) = b - 1 /\ b \in Nat /\ a \in Nat /\ p \in Nat /\ k \in Nat
    BY <1>0, <2>1, Shortened, LenProperties DEF TypeOK, One
  <2>3. HeadCopied(d) /\ ~HeadCopied(d)'
    BY <1>3, <2>1 DEF HeadCopied
  <2>4. a + k + b = p + 1
    BY <1>0, <2>3 DEF Balance, One
  <2>5. One(Busy(d))' = k /\ Len(cq'[d]) = a /\ produced'[d] = p /\ One(HeadCopied(d))' = 0
    BY <1>2, <2>1, <2>3 DEF One
  <2> HIDE DEF a, b, p, k
  <2>6. a + k + (b - 1) = p + 0
    BY <2>2, <2>4
  <2> QED BY <2>2, <2>5, <2>6 DEF Balance
<1>4. CASE DequeueAcked /\ d # cur
  <2>1. oq'[d] = oq[d] /\ produced' = produced /\ cur' = cur
    BY <1>0, <1>4 DEF DequeueAcked, TypeOK
  <2>2. ~HeadCopied(d) /\ ~HeadCopied(d)'
    BY <1>4, <2>1 DEF HeadCopied
  <2> QED BY <1>0, <1>1, <1>2, <2>1, <2>2, BalanceKept
<1>5. ASSUME ~DequeueAcked, HeadCopied(d)' <=> HeadCopied(d) PROVE Balance(d)'
  <2>1. UNCHANGED <<oq, produced>>
    BY <1>5 DEF DeliveryThread, SkipDevice, PeekHead, Connect, ConnectFails, Send, SendFails,
         AckArrives, AckFails, AckTimeout, GiveUp, origVars
  <2> QED BY <1>0, <1>1, <1>2, <1>5, <2>1, BalanceKept
<1>6. CASE SkipDevice \/ PeekHead \/ Connect \/ ConnectFails
  <2>1. tpc \notin {"ack", "acked"} /\ tpc' \notin {"ack", "acked"}
    BY <1>6 DEF SkipDevice, PeekHead, Connect, ConnectFails
  <2> QED BY <1>5, <1>6, <2>1 DEF HeadCopied, SkipDevice, PeekHead, Connect, ConnectFails, DequeueAcked
<1>7. CASE Send
  <2>1. /\ tpc = "send" /\ tpc' = "ack" /\ cur' = cur /\ sock' = sock /\ sock[cur] \in Conn
        /\ wire' = [wire EXCEPT ![sock[cur]] = Append(wire[sock[cur]], msg)]
    BY <1>7 DEF Send, Alive
  <2>2. Append(wire[sock[cur]], msg) # <<>>
    <3>1. wire[sock[cur]] \in Seq(Measurement) /\ msg \in Measurement
      BY <1>0, <2>1 DEF TypeOK
    <3> QED BY <3>1, Appended
  <2>3. wire'[sock[cur]] # <<>>
    BY <1>0, <2>1, <2>2 DEF TypeOK
  <2>4. ~HeadCopied(d) /\ ~HeadCopied(d)'
    BY <2>1, <2>3 DEF HeadCopied
  <2> QED BY <1>5, <2>1, <2>4 DEF DequeueAcked
<1>8. CASE SendFails \/ AckFails \/ AckTimeout
  <2>1. tpc' = "scan" /\ ~HeadCopied(cur) /\ tpc # "acked"
    BY <1>8, CalmGivesUp DEF SendFails, AckFails, AckTimeout
  <2>2. ~HeadCopied(d) /\ ~HeadCopied(d)'
    BY <2>1 DEF HeadCopied
  <2> QED BY <1>5, <2>1, <2>2 DEF DequeueAcked
<1>9. CASE AckArrives
  <2> DEFINE c == sock[cur]
  <2>1. tpc = "ack" /\ tpc' = "acked" /\ acks[c] > 0 /\ cur' = cur /\ cur \in Device /\ c \in Conn
    BY <1>0, <1>9 DEF AckArrives, TypeOK, OwnSocket
  <2>2. Alive(c)
    BY <1>0, <2>1 DEF CalmInv, CrashesCounted, Calm, Alive, Conn
  <2>3. wire[c] = <<>>
    BY <1>0, <2>1, <2>2 DEF StopAndWait, OneUnderWay
  <2>4. HeadCopied(d)' <=> HeadCopied(d)
    BY <2>1, <2>3 DEF HeadCopied
  <2> QED BY <1>5, <2>1, <2>4 DEF DequeueAcked
<1> QED
  BY <1>3, <1>4, <1>6, <1>7, <1>8, <1>9 DEF DeliveryThread

\* The steps of the copy's workers.
LEMMA WorkerBalance ==
  ASSUME IInv, CalmInv, Calm, NEW w \in Workers, Worker(w), NEW d \in Device
  PROVE  Balance(d)'
<1>0. TypeOK /\ Balance(d) /\ OwnSocket
  BY DEF IInv, CalmInv, Balanced
<1>1. UNCHANGED <<oq, produced, cur, tpc, sock>>
  BY DEF Worker, TakeRequest, Receive, ReceiveClosed, SendAck, LookupQueue, InsertQueue,
         EnqueueToMap, origVars, threadVars
<1>2. CASE Receive(w) /\ d = cur
  <2> DEFINE a == Len(cq[d])  b == Len(oq[d])  p == produced[d]
  <2>1. /\ tpc = "ack" /\ sock[d] \in Conn /\ wire[sock[d]] # <<>>
        /\ wire' = [wire EXCEPT ![sock[d]] = <<>>]
        /\ wdata' = [wdata EXCEPT ![w] = msg]
        /\ wpc' = [wpc EXCEPT ![w] = "reply"]
        /\ msg.deviceId = d /\ ~Busy(d) /\ cq' = cq
    BY <1>2, CalmReceives DEF Receive
  <2>2. wire'[sock[d]] = <<>> /\ wdata'[w] = msg /\ wpc'[w] = "reply"
    BY <1>0, <2>1 DEF TypeOK
  <2>3. ~HeadCopied(d) /\ HeadCopied(d)' /\ Busy(d)'
    BY <1>1, <1>2, <2>1, <2>2 DEF HeadCopied, Busy, Storing
  <2>4. a + 0 + b = p + 0 /\ a \in Nat /\ b \in Nat /\ p \in Nat
    BY <1>0, <2>1, <2>3, LenProperties DEF Balance, One, TypeOK
  <2>5. /\ Len(cq'[d]) = a /\ Len(oq'[d]) = b /\ produced'[d] = p
        /\ One(Busy(d))' = 1 /\ One(HeadCopied(d))' = 1
    BY <1>1, <2>1, <2>3 DEF One
  <2> HIDE DEF a, b, p
  <2>6. a + 1 + b = p + 1
    BY <2>4
  <2> QED BY <2>5, <2>6 DEF Balance
<1>3. CASE Receive(w) /\ d # cur
  <2>1. /\ tpc = "ack" /\ msg.deviceId = cur
        /\ wdata' = [wdata EXCEPT ![w] = msg]
        /\ wpc' = [wpc EXCEPT ![w] = "reply"]
        /\ wpc[w] = "recv" /\ cq' = cq
    BY <1>3, CalmReceives DEF Receive
  <2>2. \A v \in Workers : /\ wdata'[v] = IF v = w THEN msg ELSE wdata[v]
                           /\ wpc'[v] = IF v = w THEN "reply" ELSE wpc[v]
    BY <1>0, <2>1 DEF TypeOK
  <2>3. Busy(d)' <=> Busy(d)
    BY <1>3, <2>1, <2>2 DEF Busy, Storing
  <2>4. HeadCopied(d)' <=> HeadCopied(d)
    BY <1>1, <1>3 DEF HeadCopied
  <2> QED BY <1>0, <1>1, <2>1, <2>3, <2>4, BalanceKept
<1>4. ASSUME ~Receive(w) PROVE HeadCopied(d)' <=> HeadCopied(d)
  <2>1. wire' = wire
    BY <1>4 DEF Worker, TakeRequest, ReceiveClosed, SendAck, LookupQueue, InsertQueue,
                EnqueueToMap, netVars
  <2> QED BY <1>1, <2>1 DEF HeadCopied
<1>5. CASE EnqueueToMap(w) /\ d = wdata[w].deviceId
  <2> DEFINE a == Len(cq[d])  b == Len(oq[d])  p == produced[d]  h == One(HeadCopied(d))
  <2>1. /\ a \in Nat /\ Storing(w, d) /\ Len(cq'[d]) = a + 1
        /\ wpc' = [wpc EXCEPT ![w] = "recv"] /\ wdata' = wdata
    BY <1>5, CalmStores
  <2>2. \A v \in Workers : wpc'[v] = IF v = w THEN "recv" ELSE wpc[v]
    BY <1>0, <2>1 DEF TypeOK
  <2>3. Busy(d) /\ ~Busy(d)'
    <3>1. \A v \in Workers : Storing(v, d) => v = w
      BY <2>1, OneStoring
    <3> QED BY <2>1, <2>2, <3>1 DEF Busy, Storing
  <2>4. a + 1 + b = p + h /\ b \in Nat /\ p \in Nat /\ h \in Nat
    BY <1>0, <2>3, LenProperties DEF Balance, One, TypeOK
  <2>5. /\ Len(oq'[d]) = b /\ produced'[d] = p
        /\ One(Busy(d))' = 0 /\ One(HeadCopied(d))' = h
    BY <1>1, <1>4, <1>5, <2>3 DEF One, EnqueueToMap, Receive
  <2> HIDE DEF a, b, p, h
  <2>6. (a + 1) + 0 + b = p + h
    BY <2>1, <2>4
  <2> QED BY <2>1, <2>5, <2>6 DEF Balance
<1>6. CASE EnqueueToMap(w) /\ d # wdata[w].deviceId
  <2>1. /\ cq'[d] = cq[d] /\ wpc' = [wpc EXCEPT ![w] = "recv"] /\ wdata' = wdata
        /\ wpc[w] = "enqueue"
    BY <1>6, CalmStores DEF EnqueueToMap
  <2>2. \A v \in Workers : wpc'[v] = IF v = w THEN "recv" ELSE wpc[v]
    BY <1>0, <2>1 DEF TypeOK
  <2>3. Busy(d)' <=> Busy(d)
    BY <1>6, <2>1, <2>2 DEF Busy, Storing
  <2>4. HeadCopied(d)' <=> HeadCopied(d)
    BY <1>4, <2>1, <1>6 DEF Receive
  <2> QED BY <1>0, <1>1, <2>1, <2>3, <2>4, BalanceKept
<1>7. CASE ~Receive(w) /\ ~EnqueueToMap(w)
  <2>1. cq' = cq
    BY <1>7, CalmInserts DEF Worker, TakeRequest, ReceiveClosed, SendAck, LookupQueue
  <2>2. wdata' = wdata /\ \A v \in Workers : wpc'[v] \in {"wait", "recv"} <=> wpc[v] \in {"wait", "recv"}
    <3>1. CASE LookupQueue(w)
      BY <1>0, <3>1 DEF LookupQueue, TypeOK
    <3>2. CASE ~LookupQueue(w)
      BY <1>0, <1>7, <3>2 DEF Worker, TakeRequest, ReceiveClosed, SendAck, InsertQueue, TypeOK
    <3> QED BY <3>1, <3>2
  <2> QED BY <1>0, <1>1, <1>4, <1>7, <2>1, <2>2, BusyKept, BalanceKept
<1> QED
  BY <1>2, <1>3, <1>5, <1>6, <1>7

LEMMA BalancedStep ==
  ASSUME IInv, CalmInv, Calm', [Next]_vars
  PROVE  Balanced'
<1> SUFFICES ASSUME NEW d \in Device PROVE Balance(d)'
  BY DEF Balanced
<1>0. TypeOK /\ Calm /\ ~Crash /\ Balance(d)
  BY CalmBefore DEF IInv, CalmInv, Balanced
<1>1. ASSUME NEW e \in Device, HandlerEnqueue(e), e = d PROVE Balance(d)'
  <2> DEFINE a == Len(cq[d])  b == Len(oq[d])  p == produced[d]
             k == One(Busy(d))  h == One(HeadCopied(d))
             m == [deviceId |-> e, seq |-> produced[e] + 1]
  <2>1. /\ oq'[d] = Append(oq[d], m) /\ produced'[d] = p + 1 /\ m \in Measurement
        /\ UNCHANGED <<cq, wpc, wdata, cur, tpc, sock, wire>>
    BY <1>0, <1>1, MeasurementType DEF HandlerEnqueue, TypeOK, threadVars, netVars, copyVars
  <2> HIDE DEF m
  <2>2. /\ Len(oq'[d]) = b + 1 /\ b \in Nat /\ a \in Nat /\ p \in Nat /\ k \in Nat /\ h \in Nat
    BY <1>0, <2>1, Appended, LenProperties DEF TypeOK, One
  <2>3. One(Busy(d))' = k /\ One(HeadCopied(d))' = h
    BY <2>1 DEF One, Busy, Storing, HeadCopied
  <2>4. a + k + b = p + h /\ Len(cq'[d]) = a
    BY <1>0, <2>1 DEF Balance
  <2> HIDE DEF a, b, p, k, h
  <2>5. a + k + (b + 1) = (p + 1) + h
    BY <2>2, <2>4
  <2> QED BY <2>1, <2>2, <2>3, <2>4, <2>5 DEF Balance
<1>2. ASSUME NEW e \in Device, HandlerEnqueue(e), e # d PROVE Balance(d)'
  <2>1. /\ oq'[d] = oq[d] /\ produced'[d] = produced[d]
        /\ UNCHANGED <<cq, wpc, wdata, cur, tpc, sock, wire>>
    BY <1>0, <1>2 DEF HandlerEnqueue, TypeOK, threadVars, netVars, copyVars
  <2>2. (Busy(d)' <=> Busy(d)) /\ (HeadCopied(d)' <=> HeadCopied(d))
    BY <2>1 DEF Busy, Storing, HeadCopied
  <2> QED BY <1>0, <2>1, <2>2, BalanceKept
<1>3. CASE UNCHANGED <<oq, produced, cq, wpc, wdata, cur, tpc, sock, wire>>
  <2>1. (Busy(d)' <=> Busy(d)) /\ (HeadCopied(d)' <=> HeadCopied(d))
    BY <1>3 DEF Busy, Storing, HeadCopied
  <2> QED BY <1>0, <1>3, <2>1, BalanceKept
<1> QED
  BY <1>0, <1>1, <1>2, <1>3, ThreadBalance, WorkerBalance
     DEF Next, vars, Handler, InitializeQu, AcceptRequest, Restart, origVars, threadVars,
         netVars, copyVars

-----------------------------------------------------------------------------
(* The theorems.                                                           *)

LEMMA InitCalmInv == Init => CalmInv
<1> SUFFICES ASSUME Init PROVE CalmInv
  OBVIOUS
<1>1. OnePlace /\ Reconnects /\ CrashesCounted
  BY InjectiveEmpty, ToSetEmpty DEF Init, OnePlace, Reconnects, CrashesCounted, Serving
<1>2. HeldOpen /\ ServesDevice
  BY ToSetEmpty DEF Init, HeldOpen, Held, ServesDevice, Serving
<1>3. InOrder /\ InsertedOnce
  BY EmptySeq DEF Init, InOrder, InsertedOnce
<1>4. ASSUME NEW d \in Device PROVE Balance(d)
  <2>1. cq[d] = <<>> /\ oq[d] = <<>> /\ produced[d] = 0 /\ Len(<<>>) = 0
    BY <1>4 DEF Init
  <2>2. ~Busy(d) /\ ~HeadCopied(d)
    BY DEF Init, Busy, Storing, HeadCopied
  <2> QED BY <2>1, <2>2 DEF Balance, One
<1> QED
  BY <1>1, <1>2, <1>3, <1>4 DEF CalmInv, Balanced

LEMMA NextCalmInv == IInv /\ CalmInv /\ [Next]_vars => CalmInv'
<1> SUFFICES ASSUME IInv, CalmInv, [Next]_vars PROVE CalmInv'
  OBVIOUS
<1>1. OnePlace' /\ Reconnects' /\ CrashesCounted'
  BY OnePlaceStep, ReconnectsStep, CrashesCountedStep DEF IInv, CalmInv
<1>2. ASSUME Calm' PROVE (HeldOpen /\ ServesDevice /\ InOrder /\ InsertedOnce /\ Balanced)'
  BY <1>2, HeldOpenStep, ServesDeviceStep, InOrderStep, InsertedOnceStep, BalancedStep
<1> QED
  BY <1>1, <1>2 DEF CalmInv

LEMMA CalmInvariance == Spec => []CalmInv
<1>1. Init => CalmInv
  BY InitCalmInv
<1>2. IInv /\ CalmInv /\ [Next]_vars => CalmInv'
  BY NextCalmInv
<1> QED
  BY <1>1, <1>2, Invariance, PTL DEF Spec

\* As long as nothing is sent again, EnqueueAndNotifyThread stores each
\* device's measurements once and in the order the handlers queued them,
\* whichever workers serve it and however the queues came to be registered.
THEOREM CopiedInOrder == Spec => []InOrderWithoutRetry
<1>1. CalmInv => InOrderWithoutRetry
  BY DEF CalmInv, Calm, InOrder, InOrderWithoutRetry
<1> QED
  BY <1>1, CalmInvariance, PTL

\* A number the original has dropped is not above what the copy has.
LEMMA DroppedIsCopied ==
  ASSUME IInv, CalmInv, Calm, NEW d \in Device, NEW n \in 1..produced[d],
         n \notin SeqNos(oq[d])
  PROVE  n \in SeqNos(cq[d]) \/ InHand(d, n)
<1> DEFINE a == Len(cq[d])  b == Len(oq[d])  p == produced[d]
<1>0. /\ TypeOK /\ OrderedQueue /\ HeadPending /\ InOrder /\ Balance(d)
      /\ cq[d] \in Seq(Measurement) /\ oq[d] \in Seq(Measurement)
  BY DEF IInv, CalmInv, Balanced, TypeOK
<1>1. a \in Nat /\ b \in Nat /\ p \in Nat /\ b <= p
  BY <1>0, LenProperties DEF TypeOK, OrderedQueue
<1>2. SeqNos(oq[d]) = (p - b + 1)..p
  BY <1>0, <1>1, SeqNosOrdered DEF OrderedQueue
<1>3. SeqNos(cq[d]) = 1..a
  <2>1. DOMAIN cq[d] = 1..a
    BY <1>0, LenProperties
  <2>2. ASSUME NEW i \in 1..a PROVE cq[d][i].seq = i
    <3>1. cq[d][i] = [deviceId |-> d, seq |-> i]
      BY <1>0 DEF InOrder
    <3> QED BY <3>1
  <2> HIDE DEF a
  <2> QED BY <2>1, <2>2 DEF SeqNos, ToSet
<1>4. a + One(Busy(d)) + b = p + One(HeadCopied(d))
  BY <1>0 DEF Balance
<1>5. One(HeadCopied(d)) \in Nat
  BY DEF One
<1>6. CASE Busy(d)
  <2>1. PICK w \in Workers : wpc[w] \notin {"wait", "recv"} /\ wdata[w].deviceId = d
    BY <1>6 DEF Busy, Storing
  <2>2. wdata[w].seq = a + 1
    BY <1>0, <2>1 DEF InOrder
  <2>3. wdata[w] = [deviceId |-> d, seq |-> a + 1]
    BY <1>0, <2>1, <2>2 DEF TypeOK, Measurement
  <2>4. One(Busy(d)) = 1
    BY <1>6 DEF One
  <2> HIDE DEF a, b, p
  <2>5. n \in 1..p /\ n \notin (p - b + 1)..p
    BY <1>2 DEF p
  <2>6. n \in 1..a \/ n = a + 1
    BY <1>1, <1>4, <1>5, <2>4, <2>5
  <2> QED BY <1>3, <2>1, <2>3, <2>6 DEF InHand
<1>7. CASE ~Busy(d)
  <2>1. One(Busy(d)) = 0
    BY <1>7 DEF One
  <2> HIDE DEF a, b, p
  <2>2. n \in 1..p /\ n \notin (p - b + 1)..p
    BY <1>2 DEF p
  <2>3. n \in 1..a
    BY <1>1, <1>4, <1>5, <2>1, <2>2
  <2> QED BY <1>3, <2>3
<1> QED
  BY <1>6, <1>7

\* As long as nothing is sent again and the copy does not die, a measurement
\* QueueDeliveryThread has removed is in the copy's queue or in the hands of
\* a worker, although it was acknowledged before it was stored and the queue
\* it is stored in may not have existed.
THEOREM NothingLostWithoutRetry == Spec => []NoLossWithoutRetry
<1>1. IInv /\ CalmInv => NoLossWithoutRetry
  BY DroppedIsCopied DEF NoLossWithoutRetry, NoSilentLoss, Calm
<1> QED
  BY <1>1, Invariance, CalmInvariance, PTL

-----------------------------------------------------------------------------
(* What is stored again.                                                   *)

\* The places at the copy where a measurement can be, and the mark of a device
\* whose measurement will be sent once more.
Slot(d, i) == <<"slot", <<d, i>>>>
Hand(w) == <<"hand", w>>
Line(c) == <<"line", c>>
Again(d) == <<"again", d>>

InSlot(p, m) ==
  \E d \in Device : \E i \in 1..Len(cq[d]) : p = Slot(d, i) /\ m = cq[d][i]
WithWorker(p, m) ==
  \E w \in Workers : p = Hand(w) /\ wpc[w] \notin {"wait", "recv"} /\ m = wdata[w]
OnLine(p, m) ==
  \E c \in Conn : p = Line(c) /\ ~Dropped(c) /\ wire[c] = <<m>>

\* A copy of measurement m that is stored or may still be.
IsCopy(p, m) == InSlot(p, m) \/ WithWorker(p, m) \/ OnLine(p, m)

\* The thread waits for the acknowledgement of device d's head, on a connection
\* the copy has not forgotten, or has just read it.
Awaited(d) ==
  cur = d /\ (tpc = "acked" \/ (tpc = "ack" /\ ~Dropped(sock[d])))

\* The head will be sent although the copy already has it.
Retried(d) ==
  oq[d] # <<>> /\ (\E p : IsCopy(p, Head(oq[d]))) /\ ~Awaited(d)

\* There is never more than one message in a connection, ...
ShortWire == \A c \in Conn : wire[c] = <<>> \/ \E m \in Measurement : wire[c] = <<m>>

\* ... and no acknowledgement in one that waits for a worker.
Unserved == \A c \in ToSet(backlog) \cup ToSet(socketQueue) : acks[c] = 0

\* The copy has nothing of a device that comes after the original's head.
NoneAhead ==
  \A p : \A m \in Measurement : IsCopy(p, m) =>
    /\ m.seq <= produced[m.deviceId]
    /\ m.seq <= produced[m.deviceId] - Len(oq[m.deviceId]) + 1

\* Late acknowledgements pay for the places and marks in T; without them no
\* measurement is in two places.
Paid(T) ==
  /\ IsFiniteSet(T) /\ Cardinality(T) <= timeouts
  /\ \A d \in Device : Retried(d) => Again(d) \in T
  /\ \A p, q, m : IsCopy(p, m) /\ IsCopy(q, m) /\ p # q => p \in T \/ q \in T

CopiesInv == ShortWire /\ Unserved /\ NoneAhead /\ \E T : Paid(T)

LEMMA Places ==
  /\ \A d, i, e, j : Slot(d, i) = Slot(e, j) => d = e /\ i = j
  /\ \A v, w : Hand(v) = Hand(w) => v = w
  /\ \A b, c : Line(b) = Line(c) => b = c
  /\ \A d, e : Again(d) = Again(e) => d = e
  /\ \A d, i, w, c, e : /\ Slot(d, i) # Hand(w) /\ Slot(d, i) # Line(c) /\ Slot(d, i) # Again(e)
                        /\ Hand(w) # Line(c) /\ Hand(w) # Again(e) /\ Line(c) # Again(e)
  BY DEF Slot, Hand, Line, Again

LEMMA DroppedSame ==
  ASSUME UNCHANGED <<backlog, socketQueue, wsock>>,
         \A w \in Workers : wpc'[w] = "wait" <=> wpc[w] = "wait"
  PROVE  \A c : Dropped(c)' <=> Dropped(c)
  BY DEF Dropped

\* A step that makes no copy.
LEMMA CopiesKept ==
  ASSUME \A d \in Device : cq'[d] = cq[d] \/ cq'[d] = <<>>,
         \A w \in Workers : wpc'[w] \notin {"wait", "recv"} =>
           wpc[w] \notin {"wait", "recv"} /\ wdata'[w] = wdata[w],
         \A c \in Conn : wire'[c] = <<>> \/ (wire'[c] = wire[c] /\ (Dropped(c) => Dropped(c)'))
  PROVE  \A p, m : IsCopy(p, m)' => IsCopy(p, m)
<1> SUFFICES ASSUME NEW p, NEW m, IsCopy(p, m)' PROVE IsCopy(p, m)
  OBVIOUS
<1>1. ASSUME InSlot(p, m)' PROVE InSlot(p, m)
  <2>1. PICK d \in Device : \E i \in 1..Len(cq'[d]) : p = Slot(d, i) /\ m = cq'[d][i]
    BY <1>1 DEF InSlot, Slot
  <2>2. cq'[d] # <<>>
    BY <2>1
  <2>3. cq'[d] = cq[d]
    BY <2>2
  <2> QED BY <2>1, <2>3 DEF InSlot
<1>2. ASSUME WithWorker(p, m)' PROVE WithWorker(p, m)
  BY <1>2 DEF WithWorker, Hand
<1>3. ASSUME OnLine(p, m)' PROVE OnLine(p, m)
  <2>1. PICK c \in Conn : p = Line(c) /\ ~Dropped(c)' /\ wire'[c] = <<m>>
    BY <1>3 DEF OnLine, Line, Dropped
  <2>2. wire'[c] # <<>>
    BY <2>1
  <2> QED BY <2>1, <2>2 DEF OnLine
<1> QED
  BY <1>1, <1>2, <1>3 DEF IsCopy

LEMMA PaidKept ==
  ASSUME NEW T, Paid(T), timeouts \in Nat, timeouts' \in Nat, timeouts <= timeouts',
         \A p, m : IsCopy(p, m)' => IsCopy(p, m),
         \A d \in Device : Retried(d)' => Retried(d)
  PROVE  Paid(T)'
<1>1. Cardinality(T) \in Nat
  BY FS_CardinalityType DEF Paid
<1>2. Cardinality(T) <= timeouts'
  BY <1>1 DEF Paid
<1>3. \A d \in Device : Retried(d)' => Again(d) \in T
  BY DEF Paid
<1>4. \A p, q, m : IsCopy(p, m)' /\ IsCopy(q, m)' /\ p # q => p \in T \/ q \in T
  BY DEF Paid
<1> QED
  BY <1>2, <1>3, <1>4 DEF Paid, Again

\* What it takes for a device to be retried.
LEMMA RetriedNext ==
  ASSUME NEW d, Retried(d)', NEW m, m = Head(oq'[d])
  PROVE  oq'[d] # <<>> /\ ~Awaited(d)' /\ \E p : IsCopy(p, m)'
<1>1. oq'[d] # <<>> /\ ~Awaited(d)'
  BY DEF Retried
<1>2. PICK p : IsCopy(p, Head(oq[d]))'
  BY DEF Retried
<1>3. IsCopy(p, m)'
  BY <1>2 DEF IsCopy, InSlot, WithWorker, OnLine
<1> QED
  BY <1>1, <1>3

\* One more in a finite set, ...
LEMMA Added ==
  ASSUME NEW T, IsFiniteSet(T), NEW y
  PROVE  \E U : /\ IsFiniteSet(U) /\ Cardinality(T) \in Nat
                /\ Cardinality(U) \in Nat /\ Cardinality(U) <= Cardinality(T) + 1
                /\ \A z : z \in U <=> z \in T \/ z = y
<1> DEFINE U == T \cup {y}  n == Cardinality(T)  k == Cardinality(U)
<1>1. IsFiniteSet(U) /\ k = IF y \in T THEN n ELSE n + 1
  BY FS_AddElement
<1>2. n \in Nat /\ k \in Nat
  BY <1>1, FS_CardinalityType
<1>3. \A z : z \in U <=> z \in T \/ z = y
  OBVIOUS
<1> HIDE DEF n, k
<1>4. k <= n + 1
  BY <1>1, <1>2
<1> HIDE DEF U
<1>5. IsFiniteSet(U) /\ Cardinality(U) \in Nat /\ Cardinality(T) \in Nat
      /\ Cardinality(U) <= Cardinality(T) + 1
  BY <1>1, <1>2, <1>4 DEF n, k
<1> QED
  BY <1>3, <1>5

\* ... and one for another.
LEMMA Exchanged ==
  ASSUME NEW T, IsFiniteSet(T), NEW x \in T, NEW y
  PROVE  \E U : /\ IsFiniteSet(U) /\ Cardinality(T) \in Nat
                /\ Cardinality(U) \in Nat /\ Cardinality(U) <= Cardinality(T)
                /\ \A z : z \in U <=> (z \in T /\ z # x) \/ z = y
<1> DEFINE V == T \ {x}  n == Cardinality(T)  k == Cardinality(V)
<1>1. IsFiniteSet(V) /\ k = n - 1
  BY FS_RemoveElement
<1>2. n \in Nat
  BY FS_CardinalityType
<1>3. \A z : z \in V <=> z \in T /\ z # x
  OBVIOUS
<1> HIDE DEF V
<1>4. PICK U : /\ IsFiniteSet(U) /\ Cardinality(U) \in Nat
               /\ Cardinality(U) <= Cardinality(V) + 1
               /\ \A z : z \in U <=> z \in V \/ z = y
  BY <1>1, Added
<1> DEFINE j == Cardinality(U)
<1>5. j \in Nat /\ j <= k + 1
  BY <1>4
<1> HIDE DEF n, k, j
<1>6. j <= n
  BY <1>1, <1>2, <1>5
<1>7. Cardinality(T) \in Nat /\ Cardinality(U) <= Cardinality(T)
  BY <1>2, <1>6 DEF n, j
<1>8. \A z : z \in U <=> (z \in T /\ z # x) \/ z = y
  BY <1>3, <1>4
<1> QED
  BY <1>4, <1>7, <1>8

\* A copy is at a new place instead of its old one.
LEMMA PaidMoved ==
  ASSUME NEW T, Paid(T), UNCHANGED timeouts, timeouts \in Nat, NEW x, NEW y, NEW k,
         IsCopy(x, k), x # y,
         \A p, m : IsCopy(p, m)' => (IsCopy(p, m) /\ p # x /\ p # y) \/ (p = y /\ m = k),
         \A d : x # Again(d),
         \A d \in Device : Retried(d)' => Retried(d)
  PROVE  \E U : Paid(U)'
<1>c. IsFiniteSet(T) /\ Cardinality(T) \in Nat /\ Cardinality(T) <= timeouts
  BY FS_CardinalityType DEF Paid
<1>p. \A p, q, m : IsCopy(p, m) /\ IsCopy(q, m) /\ p # q => p \in T \/ q \in T
  BY DEF Paid
<1>d. \A d \in Device : Retried(d)' => Again(d) \in T
  BY DEF Paid
<1>1. CASE x \in T
  <2>1. PICK U : /\ IsFiniteSet(U) /\ Cardinality(U) \in Nat /\ Cardinality(U) <= Cardinality(T)
                 /\ \A z : z \in U <=> (z \in T /\ z # x) \/ z = y
    BY <1>1, <1>c, Exchanged
  <2>5. Cardinality(U) <= timeouts'
    BY ONLY <1>c, <2>1, timeouts \in Nat, UNCHANGED timeouts
  <2>6. \A d \in Device : Retried(d)' => Again(d) \in U
    BY <1>d, <2>1
  <2>7. \A p, q, m : IsCopy(p, m)' /\ IsCopy(q, m)' /\ p # q => p \in U \/ q \in U
    BY <1>p, <2>1
  <2>8. Paid(U)'
    BY <2>1, <2>5, <2>6, <2>7 DEF Paid, Again
  <2> QED BY <2>8
<1>2. CASE x \notin T
  <2>1. \A q : IsCopy(q, k) /\ q # x => q \in T
    BY <1>2, <1>p
  <2>2. \A p, q, m : IsCopy(p, m)' /\ IsCopy(q, m)' /\ p # q => p \in T \/ q \in T
    BY <1>p, <2>1
  <2>3. Paid(T)'
    BY <1>c, <1>d, <2>2 DEF Paid, Again
  <2> QED BY <2>3
<1> QED
  BY <1>1, <1>2

-----------------------------------------------------------------------------
(* Connections and queues.                                                 *)

LEMMA DroppedHeld == \A c : Dropped(c) <=> c \notin Held
  BY DEF Dropped, Held, Serving

\* The copy does not find again what it forgot.
LEMMA DroppedStays ==
  ASSUME TypeOK, LiveRefs, [Next]_vars, NEW c, c # nconn + 1 \/ ~Connect, Dropped(c)
  PROVE  Dropped(c)'
<1>1. Held' \subseteq Held \/ (Connect /\ Held' \subseteq Held \cup {nconn + 1})
  BY HeldGrows
<1>2. c \notin Held'
  BY <1>1, DroppedHeld
<1> QED
  BY <1>2 DEF Dropped, Held, Serving

LEMMA WireSteps ==
  [Next]_vars => \/ Send \/ Crash
                 \/ \E w \in Workers : Receive(w)
                 \/ wire' = wire
  BY DEF Next, vars, Handler, DeliveryThread, Worker, InitializeQu, HandlerEnqueue, SkipDevice,
         PeekHead, Connect, ConnectFails, SendFails, AckArrives, AckFails, AckTimeout, GiveUp,
         DequeueAcked, AcceptRequest, TakeRequest, ReceiveClosed, SendAck, LookupQueue,
         InsertQueue, EnqueueToMap, Restart, netVars

\* The measurement the thread sends goes out on an idle connection.
LEMMA SendsFirst ==
  ASSUME IInv, Send
  PROVE  /\ sock[cur] \in Conn /\ sock[cur] \in Live /\ wire[sock[cur]] = <<>>
         /\ wire' = [wire EXCEPT ![sock[cur]] = <<msg>>]
         /\ msg \in Measurement /\ cur \in Device /\ oq[cur] # <<>> /\ msg = Head(oq[cur])
<1>0. TypeOK /\ OwnSocket /\ StopAndWait /\ HeadPending
  BY DEF IInv
<1>1. /\ tpc = "send" /\ Alive(sock[cur])
      /\ wire' = [wire EXCEPT ![sock[cur]] = Append(wire[sock[cur]], msg)]
  BY DEF Send
<1>2. cur \in Device /\ sock[cur] \in Conn /\ sock[cur] <= nconn /\ msg \in Measurement
  BY <1>0, <1>1 DEF Alive, TypeOK, OwnSocket
<1>3. wire[sock[cur]] = <<>>
  BY <1>0, <1>1, <1>2 DEF StopAndWait, NothingUnderWay
<1>4. Append(wire[sock[cur]], msg) = <<msg>>
  BY <1>3
<1>5. oq[cur] # <<>> /\ msg = Head(oq[cur])
  BY <1>0, <1>1 DEF HeadPending
<1>6. sock[cur] \in Live
  BY <1>0, <1>1, <1>2, LiveConn
<1> QED
  BY <1>1, <1>2, <1>3, <1>4, <1>5, <1>6

\* A worker empties the connection it reads.
LEMMA ReceivesOnly ==
  ASSUME TypeOK, LiveRefs, ShortWire, NEW w \in Workers, Receive(w)
  PROVE  \E m \in Measurement :
           /\ wsock[w] \in Conn /\ wsock[w] \in Held /\ wire[wsock[w]] = <<m>>
           /\ wire' = [wire EXCEPT ![wsock[w]] = <<>>]
           /\ wdata' = [wdata EXCEPT ![w] = m]
           /\ wpc[w] = "recv" /\ wpc' = [wpc EXCEPT ![w] = "reply"]
<1> DEFINE c == wsock[w]
<1>1. /\ wpc[w] = "recv" /\ wire[c] # <<>> /\ wpc' = [wpc EXCEPT ![w] = "reply"]
      /\ wdata' = [wdata EXCEPT ![w] = Head(wire[c])]
      /\ wire' = [wire EXCEPT ![c] = Tail(wire[c])]
  BY DEF Receive
<1>2. c \in Held /\ c \in Conn
  BY <1>1, HeldLive, LiveConn DEF Held, Serving
<1> HIDE DEF c
<1>3. PICK m \in Measurement : wire[c] = <<m>>
  BY <1>1, <1>2 DEF ShortWire
<1>4. Head(<<m>>) = m /\ Tail(<<m>>) = <<>>
  OBVIOUS
<1>5. wire' = [wire EXCEPT ![c] = <<>>] /\ wdata' = [wdata EXCEPT ![w] = m]
  BY <1>1, <1>3, <1>4
<1> QED
  BY <1>1, <1>2, <1>3, <1>5 DEF c

LEMMA ShortWireStep ==
  ASSUME IInv, ShortWire, [Next]_vars
  PROVE  ShortWire'
<1>0. TypeOK /\ LiveRefs
  BY DEF IInv
<1>1. CASE Send
  <2>1. sock[cur] \in Conn /\ msg \in Measurement /\ wire' = [wire EXCEPT ![sock[cur]] = <<msg>>]
    BY <1>1, SendsFirst
  <2>2. \A c \in Conn : wire'[c] = IF c = sock[cur] THEN <<msg>> ELSE wire[c]
    BY <1>0, <2>1 DEF TypeOK
  <2> QED BY <2>1, <2>2 DEF ShortWire
<1>2. CASE Crash
  <2>1. \A c \in Conn : wire'[c] = <<>>
    BY <1>2 DEF Crash
  <2> QED BY <2>1 DEF ShortWire
<1>3. ASSUME NEW w \in Workers, Receive(w) PROVE ShortWire'
  <2>1. wsock[w] \in Conn /\ wire' = [wire EXCEPT ![wsock[w]] = <<>>]
    BY <1>0, <1>3, ReceivesOnly
  <2>2. \A c \in Conn : wire'[c] = IF c = wsock[w] THEN <<>> ELSE wire[c]
    BY <1>0, <2>1 DEF TypeOK
  <2> QED BY <2>1, <2>2 DEF ShortWire
<1>4. CASE wire' = wire
  BY <1>4 DEF ShortWire
<1> QED
  BY <1>1, <1>2, <1>3, <1>4, WireSteps

\* Only a new connection is added to those waiting for a worker.
LEMMA WaitingGrows ==
  ASSUME TypeOK, LiveRefs, [Next]_vars, NEW c,
         c \in ToSet(backlog') \cup ToSet(socketQueue')
  PROVE  \/ c \in ToSet(backlog) \cup ToSet(socketQueue)
         \/ Connect /\ c = nconn + 1
<1>0. backlog \in Seq(Conn) /\ socketQueue \in Seq(Conn)
  BY DEF TypeOK
<1>1. CASE UNCHANGED <<backlog, socketQueue>>
  BY <1>1
<1>2. CASE Connect
  <2>1. nconn + 1 \in Conn /\ backlog' = Append(backlog, nconn + 1) /\ socketQueue' = socketQueue
    BY <1>2, ConstantsAssumption DEF Connect, TypeOK, Conn
  <2>2. ToSet(backlog') = ToSet(backlog) \cup {nconn + 1}
    BY <1>0, <2>1, ToSetAppend
  <2> QED BY <1>2, <2>1, <2>2
<1>3. CASE AcceptRequest
  <2> DEFINE b == Head(backlog)
  <2>1. /\ backlog # <<>> /\ backlog' = Tail(backlog)
        /\ socketQueue' = Append(socketQueue, b) \/ socketQueue' = socketQueue
    BY <1>3 DEF AcceptRequest
  <2>2. b \in Conn /\ ToSet(backlog) = {b} \cup ToSet(Tail(backlog))
    BY <1>0, <2>1, ToSetTail
  <2> HIDE DEF b
  <2>3. ToSet(Append(socketQueue, b)) = ToSet(socketQueue) \cup {b}
    BY <1>0, <2>2, ToSetAppend
  <2> QED BY <2>1, <2>2, <2>3
<1>4. ASSUME NEW w \in Workers, TakeRequest(w)
      PROVE  c \in ToSet(backlog) \cup ToSet(socketQueue)
  <2>1. socketQueue # <<>> /\ socketQueue' = Tail(socketQueue) /\ backlog' = backlog
    BY <1>4 DEF TakeRequest
  <2>2. ToSet(socketQueue) = {Head(socketQueue)} \cup ToSet(Tail(socketQueue))
    BY <1>0, <2>1, ToSetTail
  <2> QED BY <2>1, <2>2
<1>5. CASE Crash
  <2>1. backlog' = <<>> /\ socketQueue' = <<>>
    BY <1>5 DEF Crash
  <2> QED BY <2>1, ToSetEmpty
<1> QED
  BY <1>1, <1>2, <1>3, <1>4, <1>5, HolderSteps

LEMMA AckSteps ==
  [Next]_vars => \/ AckArrives
                 \/ \E w \in Workers : SendAck(w)
                 \/ acks' = acks
  BY DEF Next, vars, Handler, DeliveryThread, Worker, InitializeQu, HandlerEnqueue, SkipDevice,
         PeekHead, Connect, ConnectFails, Send, SendFails, AckFails, AckTimeout, GiveUp,
         DequeueAcked, AcceptRequest, TakeRequest, Receive, ReceiveClosed, LookupQueue,
         InsertQueue, EnqueueToMap, Crash, Restart, netVars

LEMMA UnservedStep ==
  ASSUME IInv, OnePlace, Unserved, [Next]_vars
  PROVE  Unserved'
<1> SUFFICES ASSUME NEW c \in ToSet(backlog') \cup ToSet(socketQueue') PROVE acks'[c] = 0
  BY DEF Unserved
<1>0. TypeOK /\ LiveRefs /\ FreshConns
  BY DEF IInv
<1>1. c \in ToSet(backlog) \cup ToSet(socketQueue) \/ (Connect /\ c = nconn + 1)
  BY <1>0, WaitingGrows
<1>2. CASE Connect /\ c = nconn + 1
  <2>1. c \in Conn /\ c > nconn /\ acks' = acks
    BY <1>0, <1>2, ConstantsAssumption DEF Connect, TypeOK, Conn
  <2> QED BY <1>0, <2>1 DEF FreshConns
<1>3. CASE c \in ToSet(backlog) \cup ToSet(socketQueue)
  <2>1. acks[c] = 0
    BY <1>3 DEF Unserved
  <2>2. c \in Conn
    BY <1>0, <1>3, HeldLive, LiveConn DEF Held
  <2>3. CASE AckArrives
    <3>1. sock[cur] # c /\ acks' = [acks EXCEPT ![sock[cur]] = acks[sock[cur]] - 1]
      BY <2>1, <2>3 DEF AckArrives
    <3> QED BY <1>0, <2>1, <2>2, <3>1 DEF TypeOK
  <2>4. ASSUME NEW w \in Workers, SendAck(w) PROVE acks'[c] = 0
    <3>1. wsock[w] # c
      BY <1>3, <2>4 DEF SendAck, OnePlace, Serving
    <3>2. acks' = [acks EXCEPT ![wsock[w]] = acks[wsock[w]] + 1] \/ acks' = acks
      BY <2>4 DEF SendAck
    <3> QED BY <1>0, <2>1, <2>2, <3>1, <3>2 DEF TypeOK
  <2>5. CASE acks' = acks
    BY <2>1, <2>5
  <2> QED BY <2>3, <2>4, <2>5, AckSteps
<1> QED
  BY <1>1, <1>2, <1>3

-----------------------------------------------------------------------------
(* Where the copies go.                                                    *)

\* A place holds one measurement.
LEMMA OneInPlace ==
  ASSUME NEW p, NEW m, NEW n, IsCopy(p, m), IsCopy(p, n)
  PROVE  m = n
<1>1. CASE InSlot(p, m)
  <2>1. InSlot(p, n)
    BY <1>1, Places DEF IsCopy, InSlot, WithWorker, OnLine
  <2>2. PICK d \in Device : \E i \in 1..Len(cq[d]) : p = Slot(d, i) /\ m = cq[d][i]
    BY <1>1 DEF InSlot
  <2>3. PICK e \in Device : \E i \in 1..Len(cq[e]) : p = Slot(e, i) /\ n = cq[e][i]
    BY <2>1 DEF InSlot
  <2>4. PICK i : p = Slot(d, i) /\ m = cq[d][i]
    BY <2>2
  <2>5. PICK j : p = Slot(e, j) /\ n = cq[e][j]
    BY <2>3
  <2>6. d = e /\ i = j
    <3>1. Slot(d, i) = Slot(e, j)
      BY <2>4, <2>5
    <3> QED BY <3>1, Places
  <2> QED BY <2>4, <2>5, <2>6
<1>2. CASE WithWorker(p, m)
  <2>1. WithWorker(p, n)
    BY <1>2, Places DEF IsCopy, InSlot, WithWorker, OnLine
  <2> QED BY <1>2, <2>1, Places DEF WithWorker
<1>3. CASE OnLine(p, m)
  <2>1. OnLine(p, n)
    BY <1>3, Places DEF IsCopy, InSlot, WithWorker, OnLine
  <2>2. PICK c \in Conn : p = Line(c) /\ wire[c] = <<m>>
    BY <1>3 DEF OnLine
  <2>3. wire[c] = <<n>>
    BY <2>1, <2>2, Places DEF OnLine
  <2>4. <<m>>[1] = m /\ <<n>>[1] = n
    OBVIOUS
  <2> QED BY <2>2, <2>3, <2>4
<1> QED
  BY <1>1, <1>2, <1>3 DEF IsCopy

\* A place is no mark.
LEMMA CopyPlace ==
  ASSUME NEW p, NEW m, IsCopy(p, m)
  PROVE  \A d : p # Again(d)
  BY Places DEF IsCopy, InSlot, WithWorker, OnLine

\* Sending puts the head on the line, unless the copy has forgotten it.
LEMMA SendCopies ==
  ASSUME IInv, Send
  PROVE  /\ Dropped(sock[cur]) => \A p, m : IsCopy(p, m)' => IsCopy(p, m)
         /\ \A p, m : IsCopy(p, m)' =>
              \/ IsCopy(p, m) /\ p # Line(sock[cur])
              \/ p = Line(sock[cur]) /\ m = msg
<1> DEFINE c == sock[cur]
<1>0. TypeOK
  BY DEF IInv
<1>1. c \in Conn /\ wire[c] = <<>> /\ wire' = [wire EXCEPT ![c] = <<msg>>]
  BY SendsFirst
<1>2. UNCHANGED <<cq, wpc, wsock, wdata, backlog, socketQueue>>
  BY DEF Send, copyVars
<1> HIDE DEF c
<1>3. \A b \in Conn : wire'[b] = IF b = c THEN <<msg>> ELSE wire[b]
  BY <1>0, <1>1 DEF TypeOK
<1>4. ASSUME NEW p, NEW m, InSlot(p, m)' PROVE IsCopy(p, m) /\ p # Line(c)
  BY <1>2, <1>4, Places DEF IsCopy, InSlot
<1>5. ASSUME NEW p, NEW m, WithWorker(p, m)' PROVE IsCopy(p, m) /\ p # Line(c)
  BY <1>2, <1>5, Places DEF IsCopy, WithWorker
<1>6. ASSUME NEW p, NEW m, OnLine(p, m)'
      PROVE  \/ IsCopy(p, m) /\ p # Line(c)
             \/ p = Line(c) /\ m = msg /\ ~Dropped(c)
  <2>1. PICK b \in Conn : p = Line(b) /\ ~Dropped(b)' /\ wire'[b] = <<m>>
    BY <1>6 DEF OnLine, Line, Dropped
  <2>2. ~Dropped(b)
    BY <1>2, <2>1 DEF Dropped
  <2>3. CASE b = c
    <3>1. <<msg>> = <<m>> /\ <<msg>>[1] = msg /\ <<m>>[1] = m
      BY <1>3, <2>1, <2>3
    <3> QED BY <2>1, <2>2, <2>3, <3>1
  <2>4. CASE b # c
    <3>1. wire[b] = <<m>> /\ Line(b) # Line(c)
      BY <1>3, <2>1, <2>4, Places
    <3> QED BY <2>1, <2>2, <3>1 DEF IsCopy, OnLine
  <2> QED BY <2>3, <2>4
<1>7. \A p, m : IsCopy(p, m)' => InSlot(p, m)' \/ WithWorker(p, m)' \/ OnLine(p, m)'
  BY DEF IsCopy
<1> QED
  BY <1>4, <1>5, <1>6, <1>7 DEF c

\* A worker takes the measurement it reads from the line ...
LEMMA ReceiveMoves ==
  ASSUME TypeOK, LiveRefs, ShortWire, NEW w \in Workers, Receive(w)
  PROVE  \E m :
           /\ IsCopy(Line(wsock[w]), m)
           /\ \A p, n : IsCopy(p, n)' =>
                \/ IsCopy(p, n) /\ p # Line(wsock[w]) /\ p # Hand(w)
                \/ p = Hand(w) /\ n = m
<1> DEFINE c == wsock[w]
<1>1. PICK m \in Measurement :
           /\ c \in Conn /\ c \in Held /\ wire[c] = <<m>>
           /\ wire' = [wire EXCEPT ![c] = <<>>]
           /\ wdata' = [wdata EXCEPT ![w] = m]
           /\ wpc[w] = "recv" /\ wpc' = [wpc EXCEPT ![w] = "reply"]
  BY ReceivesOnly
<1>2. UNCHANGED <<cq, wsock, backlog, socketQueue>>
  BY DEF Receive
<1> HIDE DEF c
<1>3. \A b \in Conn : wire'[b] = IF b = c THEN <<>> ELSE wire[b]
  BY <1>1 DEF TypeOK
<1>4. \A v \in Workers : /\ wdata'[v] = IF v = w THEN m ELSE wdata[v]
                         /\ wpc'[v] = IF v = w THEN "reply" ELSE wpc[v]
  BY <1>1 DEF TypeOK
<1>5. IsCopy(Line(c), m)
  BY <1>1, DroppedHeld DEF IsCopy, OnLine
<1>6. ASSUME NEW p, NEW n, InSlot(p, n)' PROVE IsCopy(p, n) /\ p # Line(c) /\ p # Hand(w)
  BY <1>2, <1>6, Places DEF IsCopy, InSlot
<1>7. ASSUME NEW p, NEW n, WithWorker(p, n)'
      PROVE  \/ IsCopy(p, n) /\ p # Line(c) /\ p # Hand(w)
             \/ p = Hand(w) /\ n = m
  BY <1>4, <1>7, Places DEF IsCopy, WithWorker
<1>8. ASSUME NEW p, NEW n, OnLine(p, n)' PROVE IsCopy(p, n) /\ p # Line(c) /\ p # Hand(w)
  <2>1. PICK b \in Conn : p = Line(b) /\ ~Dropped(b)' /\ wire'[b] = <<n>>
    BY <1>8 DEF OnLine, Line, Dropped
  <2>2. b # c /\ wire[b] = <<n>>
    <3>1. <<n>> # <<>>
      OBVIOUS
    <3> QED BY <1>3, <2>1, <3>1
  <2>3. ~Dropped(b)
    <3>1. \A v \in Workers : wpc'[v] = "wait" <=> wpc[v] = "wait"
      BY <1>1, <1>4
    <3> QED BY <1>2, <2>1, <3>1, DroppedSame
  <2> QED BY <2>1, <2>2, <2>3, Places DEF IsCopy, OnLine
<1>9. \A p, n : IsCopy(p, n)' => InSlot(p, n)' \/ WithWorker(p, n)' \/ OnLine(p, n)'
  BY DEF IsCopy
<1>10. \A p, n : IsCopy(p, n)' => \/ IsCopy(p, n) /\ p # Line(c) /\ p # Hand(w)
                                  \/ p = Hand(w) /\ n = m
  BY <1>6, <1>7, <1>8, <1>9
<1> QED
  BY <1>5, <1>10 DEF c

\* ... and from its hand to a queue.
LEMMA EnqueueMoves ==
  ASSUME TypeOK, NEW w \in Workers, EnqueueToMap(w)
  PROVE  \E x : \E m :
           /\ IsCopy(Hand(w), m) /\ x # Hand(w)
           /\ \A p, n : IsCopy(p, n)' =>
                \/ IsCopy(p, n) /\ p # Hand(w) /\ p # x
                \/ p = x /\ n = m
<1> DEFINE m == wdata[w]  d == m.deviceId  q == cq[d]  x == Slot(d, Len(q) + 1)
<1>1. /\ wpc[w] = "enqueue" /\ wpc' = [wpc EXCEPT ![w] = "recv"]
      /\ cq' = [cq EXCEPT ![d] = Append(q, m)]
      /\ UNCHANGED <<wsock, wdata, wire, backlog, socketQueue>>
  BY DEF EnqueueToMap, netVars
<1>2. m \in Measurement /\ d \in Device /\ q \in Seq(Measurement)
  BY MeasurementType DEF TypeOK
<1>3. IsCopy(Hand(w), m) /\ x # Hand(w)
  BY <1>1, Places DEF IsCopy, WithWorker
<1>4. \A v \in Workers : wpc'[v] = IF v = w THEN "recv" ELSE wpc[v]
  BY <1>1 DEF TypeOK
<1> HIDE DEF m, d, q
<1>5. /\ Len(q) \in Nat /\ Len(Append(q, m)) = Len(q) + 1
      /\ \A i \in 1..Len(q) : Append(q, m)[i] = q[i]
      /\ Append(q, m)[Len(q) + 1] = m
  BY <1>2, Appended
<1>6. \A e \in Device : cq'[e] = IF e = d THEN Append(q, m) ELSE cq[e]
  BY <1>1, <1>2 DEF TypeOK
<1>7. ASSUME NEW p, NEW n, InSlot(p, n)'
      PROVE  \/ IsCopy(p, n) /\ p # Hand(w) /\ p # x
             \/ p = x /\ n = m
  <2>1. PICK e \in Device : \E i \in 1..Len(cq'[e]) : p = Slot(e, i) /\ n = cq'[e][i]
    BY <1>7 DEF InSlot, Slot
  <2>2. PICK i \in 1..Len(cq'[e]) : p = Slot(e, i) /\ n = cq'[e][i]
    BY <2>1
  <2>3. p # Hand(w)
    BY <2>2, Places
  <2>4. CASE e # d
    <3>1. cq'[e] = cq[e] /\ p # x
      BY <1>6, <2>2, <2>4, Places
    <3> QED BY <2>2, <2>3, <3>1 DEF IsCopy, InSlot
  <2>5. CASE e = d /\ i = Len(q) + 1
    BY <1>5, <1>6, <2>2, <2>5
  <2>6. CASE e = d /\ i \in 1..Len(q)
    <3>0. i # Len(q) + 1 /\ n = Append(q, m)[i]
      <4>1. cq'[e] = Append(q, m)
        BY <1>6, <2>6
      <4>2. n = Append(q, m)[i]
        BY <2>2, <4>1
      <4>3. i # Len(q) + 1
        BY ONLY <1>5, <2>6
      <4> QED BY <4>2, <4>3
    <3>1. n = q[i] /\ Slot(d, i) # x
      <4>1. n = q[i]
        BY <1>5, <2>6, <3>0
      <4> QED BY <3>0, <4>1, Places
    <3>2. InSlot(p, n)
      BY <2>2, <2>6, <3>1 DEF InSlot, q
    <3> QED BY <2>2, <2>3, <2>6, <3>1, <3>2 DEF IsCopy
  <2>7. ASSUME e = d PROVE i \in 1..Len(q) \/ i = Len(q) + 1
    <3> DEFINE k == Len(q)
    <3>1. k \in Nat /\ i \in 1..k + 1
      BY <1>5, <1>6, <2>7
    <3> HIDE DEF k
    <3>2. i \in 1..k \/ i = k + 1
      BY <3>1
    <3> QED BY <3>2 DEF k
  <2> QED BY <2>4, <2>5, <2>6, <2>7
<1>8. ASSUME NEW p, NEW n, WithWorker(p, n)' PROVE IsCopy(p, n) /\ p # Hand(w) /\ p # x
  BY <1>1, <1>4, <1>8, Places DEF IsCopy, WithWorker
<1>9. ASSUME NEW p, NEW n, OnLine(p, n)' PROVE IsCopy(p, n) /\ p # Hand(w) /\ p # x
  <2>1. \A c : Dropped(c)' <=> Dropped(c)
    <3>1. \A v \in Workers : wpc'[v] = "wait" <=> wpc[v] = "wait"
      BY <1>1, <1>4
    <3> QED BY <1>1, <3>1, DroppedSame
  <2>2. PICK b \in Conn : p = Line(b) /\ ~Dropped(b)' /\ wire'[b] = <<n>>
    BY <1>9 DEF OnLine, Line, Dropped
  <2> QED BY <1>1, <2>1, <2>2, Places DEF IsCopy, OnLine
<1>10. \A p, n : IsCopy(p, n)' => InSlot(p, n)' \/ WithWorker(p, n)' \/ OnLine(p, n)'
  BY DEF IsCopy
<1> HIDE DEF x
<1>11. \A p, n : IsCopy(p, n)' => \/ IsCopy(p, n) /\ p # Hand(w) /\ p # x
                                  \/ p = x /\ n = m
  BY <1>7, <1>8, <1>9, <1>10
<1> QED
  BY <1>3, <1>11

\* No other step makes a copy.
LEMMA OthersKeepCopies ==
  ASSUME IInv, [Next]_vars, ~Send,
         \A w \in Workers : ~Receive(w) /\ ~EnqueueToMap(w)
  PROVE  \A p, m : IsCopy(p, m)' => IsCopy(p, m)
<1>0. TypeOK /\ LiveRefs /\ FreshConns
  BY DEF IInv
<1>1. \A d \in Device : cq'[d] = cq[d] \/ cq'[d] = <<>>
  <2>1. ASSUME NEW w \in Workers, InsertQueue(w)
        PROVE  \A d \in Device : cq'[d] = cq[d] \/ cq'[d] = <<>>
    BY <1>0, <2>1 DEF InsertQueue, TypeOK
  <2>2. Crash => \A d \in Device : cq'[d] = <<>>
    BY DEF Crash
  <2>3. ASSUME ~Crash, \A w \in Workers : ~InsertQueue(w) PROVE cq' = cq
    BY <2>3
       DEF Next, vars, Handler, DeliveryThread, Worker, InitializeQu, HandlerEnqueue, SkipDevice,
           PeekHead, Connect, ConnectFails, SendFails, AckArrives, AckFails, AckTimeout, GiveUp,
           DequeueAcked, AcceptRequest, TakeRequest, ReceiveClosed, SendAck, LookupQueue,
           Restart, copyVars
  <2> QED BY <2>1, <2>2, <2>3
<1>2. \A w \in Workers : wpc'[w] \notin {"wait", "recv"} =>
        wpc[w] \notin {"wait", "recv"} /\ wdata'[w] = wdata[w]
  <2>1. ASSUME NEW w \in Workers, Worker(w)
        PROVE  /\ wdata' = wdata
               /\ \A v \in Workers : wpc'[v] \notin {"wait", "recv"} => wpc[v] \notin {"wait", "recv"}
    BY <1>0, <2>1 DEF Worker, TakeRequest, ReceiveClosed, SendAck, LookupQueue, InsertQueue, TypeOK
  <2>2. Crash => \A w \in Workers : wpc'[w] = "wait"
    BY DEF Crash
  <2>3. ASSUME ~Crash, \A w \in Workers : ~Worker(w) PROVE UNCHANGED <<wpc, wdata>>
    BY <2>3
       DEF Next, vars, Handler, DeliveryThread, InitializeQu, HandlerEnqueue, SkipDevice,
           PeekHead, Connect, ConnectFails, SendFails, AckArrives, AckFails, AckTimeout, GiveUp,
           DequeueAcked, AcceptRequest, Restart, copyVars
  <2> QED BY <2>1, <2>2, <2>3
<1>3. ASSUME NEW c \in Conn
      PROVE  wire'[c] = <<>> \/ (wire'[c] = wire[c] /\ (Dropped(c) => Dropped(c)'))
  <2>1. CASE Crash
    BY <2>1 DEF Crash
  <2>2. CASE wire' = wire /\ Connect /\ c = nconn + 1
    <3>1. c > nconn
      BY <1>0, <2>2 DEF TypeOK
    <3> QED BY <1>0, <2>2, <3>1 DEF FreshConns
  <2>3. CASE wire' = wire /\ ~(Connect /\ c = nconn + 1)
    <3>1. Dropped(c) => Dropped(c)'
      BY <1>0, <2>3, DroppedStays
    <3> QED BY <2>3, <3>1
  <2> QED BY <2>1, <2>2, <2>3, WireSteps
<1> QED
  BY <1>1, <1>2, <1>3, CopiesKept

\* A copy was there before, or has just been sent.
LEMMA CopyComes ==
  ASSUME IInv, ShortWire, [Next]_vars, NEW p, NEW m, IsCopy(p, m)'
  PROVE  (\E q : IsCopy(q, m)) \/ (Send /\ m = msg)
<1>0. TypeOK /\ LiveRefs
  BY DEF IInv
<1>1. CASE Send
  <2>1. IsCopy(p, m) \/ m = msg
    BY <1>1, SendCopies
  <2> QED BY <1>1, <2>1
<1>2. ASSUME NEW w \in Workers, Receive(w) PROVE \E q : IsCopy(q, m)
  <2>1. PICK k : /\ IsCopy(Line(wsock[w]), k)
                 /\ IsCopy(p, m) \/ m = k
    BY <1>0, <1>2, ReceiveMoves
  <2> QED BY <2>1
<1>3. ASSUME NEW w \in Workers, EnqueueToMap(w) PROVE \E q : IsCopy(q, m)
  <2>1. PICK k : IsCopy(Hand(w), k) /\ (IsCopy(p, m) \/ m = k)
    BY <1>0, <1>3, EnqueueMoves
  <2> QED BY <2>1
<1>4. CASE ~Send /\ \A w \in Workers : ~Receive(w) /\ ~EnqueueToMap(w)
  <2>1. IsCopy(p, m)
    BY <1>4, OthersKeepCopies
  <2> QED BY <2>1
<1> QED
  BY <1>1, <1>2, <1>3, <1>4

-----------------------------------------------------------------------------
(* The head and what the copy has.                                         *)

\* The head of a queue is the first measurement in it.
LEMMA HeadNumber ==
  ASSUME TypeOK, OrderedQueue, NEW d \in Device, oq[d] # <<>>
  PROVE  /\ Head(oq[d]).deviceId = d
         /\ Head(oq[d]).seq = produced[d] - Len(oq[d]) + 1
         /\ Len(oq[d]) \in Nat \ {0} /\ Len(oq[d]) <= produced[d] /\ produced[d] \in Nat
<1> DEFINE n == produced[d] - Len(oq[d]) + 1
<1>1. oq[d] \in Seq(Measurement) /\ produced[d] \in Nat
  BY DEF TypeOK
<1>2. Len(oq[d]) \in Nat \ {0} /\ Head(oq[d]) = oq[d][1]
  BY <1>1, Shortened
<1>3. oq[d][1] = [deviceId |-> d, seq |-> n] /\ Len(oq[d]) <= produced[d]
  BY <1>2 DEF OrderedQueue
<1> HIDE DEF n
<1>4. Head(oq[d]).deviceId = d /\ Head(oq[d]).seq = n
  BY <1>2, <1>3
<1> QED
  BY <1>1, <1>2, <1>3, <1>4 DEF n

\* The bounds only move up.
LEMMA BoundsGrow ==
  ASSUME TypeOK, HeadPending, [Next]_vars, NEW d \in Device
  PROVE  /\ produced[d] \in Nat /\ Len(oq[d]) \in Nat
         /\ produced'[d] \in Nat /\ Len(oq'[d]) \in Nat
         /\ produced[d] <= produced'[d]
         /\ produced[d] - Len(oq[d]) <= produced'[d] - Len(oq'[d])
<1>0. produced[d] \in Nat /\ oq[d] \in Seq(Measurement) /\ Len(oq[d]) \in Nat
  BY LenProperties DEF TypeOK
<1>1. ASSUME NEW e \in Device, HandlerEnqueue(e), e = d
      PROVE  produced'[d] = produced[d] + 1 /\ Len(oq'[d]) = Len(oq[d]) + 1
  <2> DEFINE m == [deviceId |-> e, seq |-> produced[e] + 1]
  <2>1. /\ oq'[d] = Append(oq[d], m) /\ produced'[d] = produced[d] + 1 /\ m \in Measurement
    BY <1>0, <1>1, MeasurementType DEF HandlerEnqueue, TypeOK
  <2> HIDE DEF m
  <2> QED BY <1>0, <2>1, Appended
<1>2. ASSUME NEW e \in Device, HandlerEnqueue(e), e # d
      PROVE  produced'[d] = produced[d] /\ oq'[d] = oq[d]
  BY <1>2 DEF HandlerEnqueue, TypeOK
<1>3. ASSUME DequeueAcked, cur = d
      PROVE  produced'[d] = produced[d] /\ Len(oq'[d]) = Len(oq[d]) - 1 /\ Len(oq[d]) # 0
  <2>1. oq[d] # <<>> /\ oq'[d] = Tail(oq[d]) /\ produced' = produced
    BY <1>3 DEF DequeueAcked, HeadPending, TypeOK
  <2> QED BY <1>0, <2>1, Shortened
<1>4. ASSUME DequeueAcked, cur # d
      PROVE  produced'[d] = produced[d] /\ oq'[d] = oq[d]
  BY <1>4 DEF DequeueAcked, TypeOK
<1> DEFINE a == produced[d]  b == Len(oq[d])  i == produced'[d]  j == Len(oq'[d])
<1>5. a \in Nat /\ b \in Nat
  BY <1>0
<1>6. \/ i = a + 1 /\ j = b + 1
      \/ i = a /\ j = b
      \/ i = a /\ j = b - 1 /\ b # 0
  BY <1>1, <1>2, <1>3, <1>4, OrigSteps
<1> HIDE DEF a, b, i, j
<1>7. i \in Nat /\ j \in Nat /\ a <= i /\ a - b <= i - j
  BY <1>5, <1>6
<1> QED
  BY <1>5, <1>7 DEF a, b, i, j

LEMMA NoneAheadStep ==
  ASSUME IInv, ShortWire, NoneAhead, [Next]_vars
  PROVE  NoneAhead'
<1> SUFFICES ASSUME NEW p, NEW m \in Measurement, IsCopy(p, m)'
             PROVE  /\ m.seq <= produced'[m.deviceId]
                    /\ m.seq <= produced'[m.deviceId] - Len(oq'[m.deviceId]) + 1
  BY DEF NoneAhead, IsCopy, InSlot, WithWorker, OnLine, Slot, Hand, Line, Dropped
<1> DEFINE d == m.deviceId  n == m.seq
           a == produced[d]  b == Len(oq[d])  i == produced'[d]  j == Len(oq'[d])
<1>0. TypeOK /\ OrderedQueue /\ HeadPending /\ d \in Device /\ n \in Nat
  BY MeasurementType DEF IInv
<1>1. n <= a /\ n <= a - b + 1
  <2>1. ASSUME NEW q, IsCopy(q, m) PROVE n <= a /\ n <= a - b + 1
    BY <2>1 DEF NoneAhead
  <2>2. ASSUME Send, m = msg PROVE n <= a /\ n <= a - b + 1
    <3>1. cur \in Device /\ oq[cur] # <<>> /\ msg = Head(oq[cur])
      BY <2>2, SendsFirst
    <3>2. d = cur /\ n = produced[cur] - Len(oq[cur]) + 1
          /\ Len(oq[cur]) \in Nat \ {0} /\ Len(oq[cur]) <= produced[cur] /\ produced[cur] \in Nat
      BY <1>0, <2>2, <3>1, HeadNumber
    <3>3. n = a - b + 1 /\ b \in Nat \ {0} /\ b <= a /\ a \in Nat
      BY <3>2
    <3> HIDE DEF n, a, b
    <3> QED BY <3>3
  <2> QED BY <2>1, <2>2, CopyComes
<1>2. a \in Nat /\ b \in Nat /\ i \in Nat /\ j \in Nat /\ a <= i /\ a - b <= i - j
  BY <1>0, BoundsGrow
<1> HIDE DEF n, a, b, i, j
<1>3. n <= i /\ n <= i - j + 1
  BY <1>0, <1>1, <1>2
<1> QED
  BY <1>3 DEF n, i, j

-----------------------------------------------------------------------------
(* What makes the thread send a head again.                                *)

\* How the copy comes to let go of a connection.
LEMMA HeldLeaves ==
  ASSUME TypeOK, [Next]_vars, NEW c, c \in Held, c \notin Held'
  PROVE  \/ Crash
         \/ AcceptRequest /\ c = Head(backlog) /\ backlog # <<>>
         \/ \E w \in Workers : ReceiveClosed(w) /\ c = wsock[w]
<1>0. backlog \in Seq(Conn) /\ socketQueue \in Seq(Conn)
  BY DEF TypeOK
<1>1. CASE Connect
  <2>1. nconn + 1 \in Conn /\ backlog' = Append(backlog, nconn + 1)
        /\ UNCHANGED <<socketQueue, wpc, wsock>>
    BY <1>1, ConstantsAssumption DEF Connect, TypeOK, Conn
  <2>2. ToSet(backlog') = ToSet(backlog) \cup {nconn + 1}
    BY <1>0, <2>1, ToSetAppend
  <2>3. c \in Held'
    BY <2>1, <2>2 DEF Held, Serving
  <2> QED BY <2>3
<1>2. CASE AcceptRequest
  <2>1. /\ backlog # <<>> /\ backlog' = Tail(backlog) /\ UNCHANGED <<wpc, wsock>>
        /\ socketQueue' = Append(socketQueue, Head(backlog)) \/ socketQueue' = socketQueue
    BY <1>2 DEF AcceptRequest
  <2>2. Head(backlog) \in Conn /\ ToSet(backlog) = {Head(backlog)} \cup ToSet(Tail(backlog))
    BY <1>0, <2>1, ToSetTail
  <2>3. ToSet(Append(socketQueue, Head(backlog))) = ToSet(socketQueue) \cup {Head(backlog)}
    BY <1>0, <2>2, ToSetAppend
  <2>4. c # Head(backlog) => c \in Held'
    BY <2>1, <2>2, <2>3 DEF Held, Serving
  <2> QED BY <1>2, <2>1, <2>4
<1>3. ASSUME NEW w \in Workers, TakeRequest(w) PROVE FALSE
  <2> DEFINE b == Head(socketQueue)
  <2>1. /\ socketQueue # <<>> /\ socketQueue' = Tail(socketQueue) /\ backlog' = backlog
        /\ wsock' = [wsock EXCEPT ![w] = b]
        /\ wpc[w] = "wait" /\ wpc' = [wpc EXCEPT ![w] = "recv"]
    BY <1>3 DEF TakeRequest
  <2>2. ToSet(socketQueue) = {b} \cup ToSet(Tail(socketQueue))
    BY <1>0, <2>1, ToSetTail
  <2> HIDE DEF b
  <2>3. \A v \in Workers : /\ wsock'[v] = IF v = w THEN b ELSE wsock[v]
                           /\ wpc'[v] = IF v = w THEN "recv" ELSE wpc[v]
    BY <2>1 DEF TypeOK
  <2>4. c \in Held'
    BY <2>1, <2>2, <2>3 DEF Held, Serving
  <2> QED BY <2>4
<1>4. CASE Crash
  BY <1>4
<1>5. ASSUME NEW w \in Workers, ReceiveClosed(w) PROVE c = wsock[w]
  <2>1. /\ UNCHANGED <<backlog, socketQueue, wsock>> /\ wpc' = [wpc EXCEPT ![w] = "wait"]
    BY <1>5 DEF ReceiveClosed
  <2>2. \A v \in Workers : v # w => wpc'[v] = wpc[v]
    BY <2>1 DEF TypeOK
  <2> QED BY <2>1, <2>2 DEF Held, Serving
<1>6. ASSUME UNCHANGED <<backlog, socketQueue, wsock>>, \A w \in Workers : ~ReceiveClosed(w),
             ~Crash, \A w \in Workers : ~TakeRequest(w)
      PROVE  FALSE
  <2>1. ASSUME NEW w \in Workers, Worker(w)
        PROVE  \A v \in Workers : wpc[v] # "wait" => wpc'[v] # "wait"
    BY <1>6, <2>1 DEF Worker, Receive, SendAck, LookupQueue, InsertQueue, EnqueueToMap, TypeOK
  <2>2. ASSUME \A w \in Workers : ~Worker(w) PROVE UNCHANGED wpc
    BY <1>6, <2>2
       DEF Next, vars, Handler, DeliveryThread, InitializeQu, HandlerEnqueue, SkipDevice,
           PeekHead, Connect, ConnectFails, Send, SendFails, AckArrives, AckFails, AckTimeout,
           GiveUp, DequeueAcked, AcceptRequest, Restart, copyVars
  <2>3. c \in Held'
    BY <1>6, <2>1, <2>2 DEF Held, Serving
  <2> QED BY <2>3
<1> QED
  BY <1>1, <1>2, <1>3, <1>4, <1>5, <1>6, HolderSteps

\* The thread stops waiting for an answer it could still get ...
LEMMA AwaitedSteps ==
  ASSUME IInv, [Next]_vars, NEW d \in Device, Awaited(d), ~Awaited(d)'
  PROVE  \/ DequeueAcked \/ Crash
         \/ tpc = "ack" /\ ~Dropped(sock[cur]) /\ AckTimeout
         \/ tpc = "ack" /\ AcceptRequest /\ backlog # <<>> /\ sock[cur] = Head(backlog)
<1>0. TypeOK /\ LiveRefs /\ cur = d /\ tpc \in {"ack", "acked"}
      /\ (tpc = "ack" => ~Dropped(sock[d]))
  BY DEF IInv, Awaited
<1>1. CASE AckArrives
  BY <1>0, <1>1 DEF AckArrives, Awaited
<1>2. CASE AckFails
  <2>1. tpc = "ack" /\ ~Alive(sock[d])
    BY <1>0, <1>2 DEF AckFails
  <2>2. Alive(sock[d])
    BY <1>0, <2>1, DroppedHeld, HeldLive, LiveConn
  <2> QED BY <2>1, <2>2
<1>3. CASE AckTimeout
  BY <1>0, <1>3 DEF AckTimeout
<1>4. CASE DequeueAcked
  BY <1>4
<1>5. CASE UNCHANGED threadVars
  <2>1. tpc = "ack" /\ sock[d] \in Held
    BY <1>0, <1>5, DroppedHeld DEF threadVars, Awaited
  <2>2. PICK c : c = sock[d]
    OBVIOUS
  <2>3. c = sock'[d] /\ cur' = d /\ tpc' = "ack"
    BY <1>0, <1>5, <2>1, <2>2 DEF threadVars
  <2>4. Dropped(c)'
    BY <2>3 DEF Awaited, Dropped
  <2>5. c \in Held /\ c \notin Held'
    BY <2>1, <2>2, <2>4 DEF Dropped, Held, Serving
  <2>6. ASSUME NEW w \in Workers, ReceiveClosed(w), c = wsock[w] PROVE FALSE
    BY <2>2, <2>6 DEF ReceiveClosed, Open
  <2> QED BY <1>0, <2>1, <2>2, <2>5, <2>6, HeldLeaves
<1> QED
  BY <1>0, <1>1, <1>2, <1>3, <1>4, <1>5
     DEF Next, vars, Handler, DeliveryThread, Worker, InitializeQu, HandlerEnqueue, SkipDevice,
         PeekHead, Connect, ConnectFails, Send, SendFails, AcceptRequest, TakeRequest,
         Receive, ReceiveClosed, SendAck, LookupQueue, InsertQueue, EnqueueToMap, Crash, Restart

\* The copy knows nothing of a head that is new.
LEMMA NewHead ==
  ASSUME IInv, ShortWire, NoneAhead, [Next]_vars, NEW d \in Device,
         oq'[d] # oq[d], Retried(d)'
  PROVE  Retried(d)
<1>0. TypeOK /\ OrderedQueue /\ HeadPending /\ OrderedQueue'
      /\ oq[d] \in Seq(Measurement) /\ produced[d] \in Nat
  BY OrderedQueueStep DEF IInv, TypeOK
<1>1. PICK m : m = Head(oq'[d])
  OBVIOUS
<1>2. oq'[d] # <<>> /\ ~Awaited(d)' /\ \E p : IsCopy(p, m)'
  BY <1>1, RetriedNext
<1>3. ASSUME NEW e \in Device, HandlerEnqueue(e) PROVE Retried(d)
  <2> DEFINE k == [deviceId |-> d, seq |-> produced[d] + 1]
  <2>1. oq'[d] = Append(oq[d], k) /\ k \in Measurement
    <3>1. oq' = [oq EXCEPT ![e] = Append(oq[e], [deviceId |-> e, seq |-> produced[e] + 1])]
      BY <1>3 DEF HandlerEnqueue
    <3>2. e = d
      BY <1>0, <3>1 DEF TypeOK
    <3>3. oq'[d] = Append(oq[d], k)
      BY <1>0, <3>1, <3>2 DEF TypeOK
    <3>4. k \in Measurement
      BY <1>0, MeasurementType
    <3> QED BY <3>3, <3>4
  <2>2. UNCHANGED <<cur, tpc, sock, wire, backlog, socketQueue, wsock, wpc>>
    BY <1>3 DEF HandlerEnqueue, threadVars, netVars, copyVars
  <2>3. \E q : IsCopy(q, m)
    BY <1>2, <2>2, CopyComes DEF Send
  <2>4. CASE oq[d] = <<>>
    <3>1. m = k
      <4> HIDE DEF k
      <4>1. Append(<<>>, k) = <<k>> /\ Head(<<k>>) = k
        OBVIOUS
      <4> QED BY <1>1, <2>1, <2>4, <4>1
    <3>2. m.deviceId = d /\ m.seq = produced[d] + 1
      BY <3>1
    <3>3. m.seq <= produced[d]
      BY <2>1, <2>3, <3>1, <3>2 DEF NoneAhead
    <3> QED BY <1>0, <3>2, <3>3
  <2>5. CASE oq[d] # <<>>
    <3>1. m = Head(oq[d])
      <4> HIDE DEF k
      <4> QED BY <1>0, <1>1, <2>1, <2>5, HeadTailAppend
    <3>2. ~Awaited(d)
      BY <1>2, <2>2 DEF Awaited, Dropped
    <3> QED BY <2>3, <2>5, <3>1, <3>2 DEF Retried
  <2> QED BY <2>4, <2>5
<1>4. CASE DequeueAcked
  <2>1. cur = d /\ oq[d] # <<>> /\ oq'[d] = Tail(oq[d]) /\ produced' = produced
    BY <1>0, <1>4 DEF DequeueAcked, HeadPending, TypeOK
  <2>2. ~Send
    BY <1>4 DEF DequeueAcked, Send
  <2>3. PICK q : IsCopy(q, m)
    BY <1>2, <2>2, CopyComes
  <2> DEFINE a == produced[d]  b == Len(oq[d])  n == a - (b - 1) + 1
  <2>4. Tail(oq[d]) \in Seq(Measurement) /\ b \in Nat /\ Len(Tail(oq[d])) = b - 1
    BY <1>0, <2>1, Shortened
  <2>5. /\ Len(oq'[d]) = b - 1 /\ produced'[d] = a /\ m = oq'[d][1] /\ m \in Measurement
        /\ 1 \in 1..Len(oq'[d])
    BY <1>1, <1>2, <2>1, <2>4, Shortened
  <2>6. m = [deviceId |-> d, seq |-> n]
    BY <1>0, <2>5 DEF OrderedQueue
  <2> HIDE DEF n
  <2>7. m.deviceId = d /\ m.seq = n
    BY <2>6
  <2>8. n <= a - b + 1
    BY <2>3, <2>5, <2>7 DEF NoneAhead
  <2> HIDE DEF a, b
  <2>9. a \in Nat /\ b \in Nat
    BY <1>0, <2>4 DEF a
  <2> QED BY <2>8, <2>9 DEF n
<1> QED
  BY <1>3, <1>4, OrigSteps

\* ... and no other step makes it send a measurement the copy has.
LEMMA RetriedSteps ==
  ASSUME IInv, ShortWire, NoneAhead, [Next]_vars, NEW d \in Device,
         Retried(d)', ~Retried(d)
  PROVE  /\ d = cur /\ tpc = "ack" /\ ~Dropped(sock[cur])
         /\ \/ AckTimeout
            \/ AcceptRequest /\ backlog # <<>> /\ sock[cur] = Head(backlog)
<1>0. TypeOK /\ OrderedQueue /\ HeadPending
  BY DEF IInv
<1>1. oq'[d] = oq[d]
  BY NewHead
<1>2. PICK m : m = Head(oq[d])
  OBVIOUS
<1>3. oq[d] # <<>> /\ ~Awaited(d)' /\ \E p : IsCopy(p, m)'
  <2>1. m = Head(oq'[d])
    BY <1>1, <1>2
  <2> QED BY <1>1, <2>1, RetriedNext
<1>4. CASE Send
  <2>1. /\ cur \in Device /\ oq[cur] # <<>> /\ msg = Head(oq[cur]) /\ tpc = "send" /\ tpc' = "ack"
        /\ UNCHANGED <<cur, sock, backlog, socketQueue, wpc, wsock>>
    BY <1>4, SendsFirst DEF Send, copyVars
  <2>2. ~Awaited(d)
    BY <2>1 DEF Awaited
  <2>3. PICK p : IsCopy(p, m)' /\ ~IsCopy(p, m)
    BY <1>2, <1>3, <2>2 DEF Retried
  <2>4. m = msg /\ ~Dropped(sock[cur])
    BY <1>4, <2>3, SendCopies
  <2>5. d = cur
    BY <1>0, <1>2, <1>3, <2>1, <2>4, HeadNumber
  <2>6. Awaited(d)'
    BY <2>1, <2>4, <2>5 DEF Awaited, Dropped
  <2> QED BY <1>3, <2>6
<1>5. CASE ~Send
  <2>1. \E q : IsCopy(q, m)
    BY <1>3, <1>5, CopyComes
  <2>2. Awaited(d)
    BY <1>2, <1>3, <2>1 DEF Retried
  <2>3. ~Crash
    <3>1. ASSUME Crash, NEW p, IsCopy(p, m)' PROVE FALSE
      <4>1. \A e \in Device : cq'[e] = <<>>
        BY <3>1 DEF Crash
      <4>2. ~InSlot(p, m)'
        <5>1. Len(<<>>) = 0 /\ 1..0 = {}
          OBVIOUS
        <5>2. \A e \in Device : 1..Len(cq'[e]) = {}
          BY <4>1, <5>1
        <5> QED BY <5>2 DEF InSlot, Slot
      <4>3. \A w \in Workers : wpc'[w] = "wait"
        BY <3>1 DEF Crash
      <4>4. ~WithWorker(p, m)'
        BY <4>3 DEF WithWorker
      <4>5. \A c \in Conn : wire'[c] = <<>>
        BY <3>1 DEF Crash
      <4>6. <<m>> # <<>>
        OBVIOUS
      <4>7. ~OnLine(p, m)'
        BY <4>5, <4>6 DEF OnLine
      <4> QED BY <3>1, <4>2, <4>4, <4>7 DEF IsCopy
    <3> QED BY <1>3, <3>1
  <2>4. ~DequeueAcked
    <3>1. ASSUME DequeueAcked PROVE FALSE
      <4>0. cur = d /\ oq[d] \in Seq(Measurement)
        BY <1>0, <2>2 DEF Awaited, TypeOK
      <4>1. oq'[d] = Tail(oq[d])
        BY <1>0, <1>3, <3>1, <4>0 DEF DequeueAcked, TypeOK
      <4>2. Len(Tail(oq[d])) = Len(oq[d]) - 1 /\ Len(oq[d]) \in Nat
        BY <1>3, <4>0, Shortened
      <4>3. Len(Tail(oq[d])) = Len(oq[d])
        BY <1>1, <4>1
      <4> QED BY ONLY <4>2, <4>3
    <3> QED BY <3>1
  <2>5. d = cur /\ (tpc = "ack" => ~Dropped(sock[cur]))
    BY <2>2 DEF Awaited
  <2> QED BY <1>3, <2>2, <2>3, <2>4, <2>5, AwaitedSteps
<1> QED
  BY <1>4, <1>5

-----------------------------------------------------------------------------
(* The late acknowledgements pay for every copy.                           *)

LEMMA TimeoutSteps ==
  TypeOK /\ [Next]_vars =>
    /\ timeouts \in Nat /\ timeouts' \in Nat
    /\ \/ timeouts' = timeouts
       \/ AckTimeout /\ timeouts' = timeouts + 1
<1> SUFFICES ASSUME TypeOK, [Next]_vars
             PROVE  /\ timeouts \in Nat /\ timeouts' \in Nat
                    /\ \/ timeouts' = timeouts
                       \/ AckTimeout /\ timeouts' = timeouts + 1
  OBVIOUS
<1>1. timeouts \in Nat
  BY ConstantsAssumption DEF TypeOK
<1>2. CASE AckTimeout
  BY <1>1, <1>2 DEF AckTimeout
<1>3. CASE ~AckTimeout
  <2>1. timeouts' = timeouts
    BY <1>3
       DEF Next, vars, Handler, DeliveryThread, Worker, InitializeQu, HandlerEnqueue, SkipDevice,
           PeekHead, Connect, ConnectFails, Send, SendFails, AckArrives, AckFails,
           DequeueAcked, AcceptRequest, TakeRequest, Receive, ReceiveClosed, SendAck,
           LookupQueue, InsertQueue, EnqueueToMap, Crash, Restart
  <2> QED BY <1>1, <2>1
<1> QED
  BY <1>2, <1>3

\* A late acknowledgement pays for sending the measurement once more.
LEMMA TimeoutPays ==
  ASSUME IInv, ShortWire, NoneAhead, [Next]_vars, AckTimeout,
         timeouts' = timeouts + 1, NEW T, Paid(T)
  PROVE  \E U : Paid(U)'
<1>0. TypeOK
  BY DEF IInv
<1>1. \A p, m : IsCopy(p, m)' => IsCopy(p, m)
  <2>1. tpc' = "scan" /\ UNCHANGED <<wpc, wire>>
    BY DEF AckTimeout, GiveUp, copyVars, netVars
  <2>2. ~Send /\ \A w \in Workers : ~Receive(w) /\ ~EnqueueToMap(w)
    BY <1>0, <2>1 DEF Send, Receive, EnqueueToMap, TypeOK
  <2> QED BY <2>2, OthersKeepCopies
<1>2. \A d \in Device : Retried(d)' => Retried(d) \/ d = cur
  BY RetriedSteps
<1>3. /\ IsFiniteSet(T) /\ Cardinality(T) <= timeouts
      /\ \A d \in Device : Retried(d) => Again(d) \in T
      /\ \A p, q, m : IsCopy(p, m) /\ IsCopy(q, m) /\ p # q => p \in T \/ q \in T
  BY DEF Paid
<1>4. PICK e : e = Again(cur)
  OBVIOUS
<1>5. PICK U : /\ IsFiniteSet(U) /\ Cardinality(T) \in Nat
               /\ Cardinality(U) \in Nat /\ Cardinality(U) <= Cardinality(T) + 1
               /\ \A z : z \in U <=> z \in T \/ z = e
  BY <1>3, Added
<1>6. Cardinality(U) <= timeouts'
  <2>1. timeouts \in Nat
    BY <1>0, ConstantsAssumption DEF TypeOK
  <2>2. timeouts' = timeouts + 1 /\ Cardinality(T) <= timeouts
    BY <1>3
  <2> QED BY ONLY <1>5, <2>1, <2>2
<1>7. \A d \in Device : Retried(d)' => Again(d) \in U
  BY <1>2, <1>3, <1>4, <1>5
<1>8. \A p, q, m : IsCopy(p, m)' /\ IsCopy(q, m)' /\ p # q => p \in U \/ q \in U
  BY <1>1, <1>3, <1>5
<1>9. Paid(U)'
  BY <1>5, <1>6, <1>7, <1>8 DEF Paid, Again
<1> QED
  BY <1>9

\* Sending it uses up the mark.
LEMMA SendPays ==
  ASSUME IInv, ShortWire, NoneAhead, [Next]_vars, Send, NEW T, Paid(T)
  PROVE  \E U : Paid(U)'
<1>0. TypeOK /\ timeouts' = timeouts /\ timeouts \in Nat
  BY ConstantsAssumption DEF IInv, TypeOK, Send
<1>1. /\ cur \in Device /\ oq[cur] # <<>> /\ msg = Head(oq[cur])
      /\ UNCHANGED <<cur, sock, backlog, socketQueue, wpc, wsock>> /\ tpc = "send" /\ tpc' = "ack"
  BY SendsFirst DEF Send, copyVars
<1>2. PICK c : c = sock[cur]
  OBVIOUS
<1>3. /\ Dropped(c) => \A p, m : IsCopy(p, m)' => IsCopy(p, m)
      /\ \A p, m : IsCopy(p, m)' => \/ IsCopy(p, m) /\ p # Line(c)
                                    \/ p = Line(c) /\ m = msg
  BY <1>2, SendCopies
<1>4. /\ IsFiniteSet(T) /\ Cardinality(T) <= timeouts
      /\ \A d \in Device : Retried(d) => Again(d) \in T
      /\ \A p, q, m : IsCopy(p, m) /\ IsCopy(q, m) /\ p # q => p \in T \/ q \in T
  BY DEF Paid
<1>5. \A d \in Device : Retried(d)' => Retried(d)
  BY <1>1, RetriedSteps
<1>6. CASE Dropped(c)
  <2>1. \A p, m : IsCopy(p, m)' => IsCopy(p, m)
    BY <1>3, <1>6
  <2>2. Paid(T)'
    BY <1>0, <1>5, <2>1, PaidKept
  <2> QED BY <2>2
<1>7. CASE ~Dropped(c) /\ ~Retried(cur)
  <2>1. ~Awaited(cur)
    BY <1>1 DEF Awaited
  <2>2. \A p : ~IsCopy(p, msg)
    BY <1>1, <1>7, <2>1 DEF Retried
  <2>3. \A p, q, m : IsCopy(p, m)' /\ IsCopy(q, m)' /\ p # q => p \in T \/ q \in T
    BY <1>3, <1>4, <2>2
  <2>4. \A d \in Device : Retried(d)' => Again(d) \in T
    BY <1>4, <1>5
  <2>5. Paid(T)'
    BY <1>0, <1>4, <2>3, <2>4 DEF Paid, Again
  <2> QED BY <2>5
<1>8. CASE ~Dropped(c) /\ Retried(cur)
  <2>1. PICK x : x = Again(cur)
    OBVIOUS
  <2>2. x \in T
    BY <1>1, <1>4, <1>8, <2>1
  <2>3. PICK y : y = Line(c)
    OBVIOUS
  <2>4. PICK U : /\ IsFiniteSet(U) /\ Cardinality(T) \in Nat
                 /\ Cardinality(U) \in Nat /\ Cardinality(U) <= Cardinality(T)
                 /\ \A z : z \in U <=> (z \in T /\ z # x) \/ z = y
    BY <1>4, <2>2, Exchanged
  <2>5. Cardinality(U) <= timeouts'
    <3>1. Cardinality(T) <= timeouts
      BY <1>4
    <3> QED BY ONLY <1>0, <2>4, <3>1
  <2>6. \A p, q, m : IsCopy(p, m)' /\ IsCopy(q, m)' /\ p # q => p \in U \/ q \in U
    <3>1. \A p, m : IsCopy(p, m) => p # x
      BY <2>1, CopyPlace
    <3> QED BY <1>3, <1>4, <2>3, <2>4, <3>1
  <2>7. ASSUME NEW d \in Device, Retried(d)' PROVE Again(d) \in U
    <3>1. d # cur
      <4>1. ASSUME d = cur PROVE Awaited(d)'
        BY <1>1, <1>2, <1>8, <4>1 DEF Awaited, Dropped
      <4>2. ~Awaited(d)'
        BY <2>7 DEF Retried
      <4> QED BY <4>1, <4>2
    <3>2. Again(d) \in T
      BY <1>4, <1>5, <2>7
    <3>3. Again(d) # x
      BY <2>1, <3>1, Places
    <3> QED BY <2>4, <3>2, <3>3
  <2>8. Paid(U)'
    BY <2>4, <2>5, <2>6, <2>7 DEF Paid, Again
  <2> QED BY <2>8
<1> QED
  BY <1>6, <1>7, <1>8

\* A connection the copy forgets takes its copy of the measurement with it, and
\* pays with it for sending the measurement again.
LEMMA ForgettingPays ==
  ASSUME IInv, OnePlace, ShortWire, Unserved, NoneAhead, [Next]_vars, AcceptRequest,
         NEW T, Paid(T)
  PROVE  \E U : Paid(U)'
<1>0. TypeOK /\ LiveRefs /\ OwnSocket /\ StopAndWait /\ HeadPending
  BY DEF IInv
<1>1. timeouts' = timeouts /\ timeouts \in Nat
  <2>1. timeouts' = timeouts
    BY DEF AcceptRequest
  <2>2. timeouts \in Nat
    BY <1>0, TimeoutSteps
  <2> QED BY <2>1, <2>2
<1>2. \A p, m : IsCopy(p, m)' => IsCopy(p, m)
  BY OthersKeepCopies DEF AcceptRequest, threadVars, Send, copyVars, netVars, Receive, EnqueueToMap
<1>3. /\ IsFiniteSet(T) /\ Cardinality(T) <= timeouts
      /\ \A d \in Device : Retried(d) => Again(d) \in T
      /\ \A p, q, m : IsCopy(p, m) /\ IsCopy(q, m) /\ p # q => p \in T \/ q \in T
  BY DEF Paid
<1>4. CASE \A d \in Device : Retried(d)' => Retried(d)
  <2>1. Paid(T)'
    BY <1>2, <1>1, <1>4, PaidKept
  <2> QED BY <2>1
<1>5. ASSUME NEW d \in Device, Retried(d)', ~Retried(d) PROVE \E U : Paid(U)'
  <2>1. /\ d = cur /\ tpc = "ack" /\ ~Dropped(sock[d])
        /\ backlog # <<>> /\ sock[d] = Head(backlog)
    <3>1. ~AckTimeout
      BY DEF AcceptRequest, threadVars, AckTimeout, GiveUp
    <3> QED BY <1>5, <3>1, RetriedSteps
  <2>2. PICK c : c = sock[d]
    OBVIOUS
  <2>3. c \in ToSet(backlog) /\ c \in Held
    <3>1. backlog \in Seq(Conn)
      BY <1>0 DEF TypeOK
    <3>2. ToSet(backlog) = {c} \cup ToSet(Tail(backlog))
      BY <2>1, <2>2, <3>1, ToSetTail
    <3> QED BY <3>2 DEF Held
  <2>4. c \in Conn /\ Alive(c)
    BY <1>0, <2>3, HeldLive, LiveConn
  <2>5. OneUnderWay(c, msg)
    BY <1>0, <2>1, <2>2, <2>4 DEF StopAndWait
  <2>6. acks[c] = 0
    BY <2>3 DEF Unserved
  <2>7. \A w \in Workers : wpc[w] = "reply" => wsock[w] # c
    BY <2>3 DEF OnePlace, Serving
  <2>8. wire[c] = <<msg>>
    BY <2>5, <2>6, <2>7 DEF OneUnderWay, Replying
  <2>9. PICK l : l = Line(c)
    OBVIOUS
  <2>10. PICK k : k = msg
    OBVIOUS
  <2>11. IsCopy(l, k)
    BY <2>1, <2>2, <2>4, <2>8, <2>9, <2>10 DEF IsCopy, OnLine
  <2>12. PICK b : IsCopy(b, k)'
    <3>1. oq[d] # <<>> /\ k = Head(oq[d]) /\ oq' = oq
      BY <1>0, <2>1, <2>10 DEF HeadPending, AcceptRequest, origVars
    <3>2. k = Head(oq'[d])
      BY <3>1
    <3> QED BY <1>5, <3>2, RetriedNext
  <2>13. \A m : ~IsCopy(l, m)'
    <3>1. UNCHANGED <<sock, tpc, cur>>
      BY DEF AcceptRequest, threadVars
    <3>2. ~Awaited(d)'
      BY <1>5 DEF Retried
    <3>3. Dropped(c)'
      BY <2>1, <2>2, <3>1, <3>2 DEF Awaited, Dropped
    <3> QED BY <2>9, <3>3, Places DEF IsCopy, InSlot, WithWorker, OnLine, Dropped
  <2>14. b # l /\ IsCopy(b, k)
    BY <1>2, <2>12, <2>13
  <2>15. b \in T \/ l \in T
    BY <1>3, <2>11, <2>14
  <2>16. PICK x \in T : x = l \/ (x = b /\ l \notin T)
    BY <2>15
  <2>17. PICK y : y = Again(d)
    OBVIOUS
  <2>18. PICK U : /\ IsFiniteSet(U) /\ Cardinality(T) \in Nat
                  /\ Cardinality(U) \in Nat /\ Cardinality(U) <= Cardinality(T)
                  /\ \A z : z \in U <=> (z \in T /\ z # x) \/ z = y
    BY <1>3, Exchanged
  <2>19. Cardinality(U) <= timeouts'
    <3>1. Cardinality(T) <= timeouts
      BY <1>3
    <3> QED BY ONLY <1>1, <2>18, <3>1
  <2>20. ASSUME NEW p, NEW q, NEW m, IsCopy(p, m)', IsCopy(q, m)', p # q
         PROVE  p \in U \/ q \in U
    <3>1. IsCopy(p, m) /\ IsCopy(q, m) /\ p # l /\ q # l
      BY <1>2, <2>13, <2>20
    <3>2. p \in T \/ q \in T
      BY <1>3, <2>20, <3>1
    <3>3. CASE x = l
      BY <2>18, <3>1, <3>2, <3>3
    <3>4. CASE x = b /\ l \notin T
      <4>1. \A r : IsCopy(r, k) /\ r # l => r \in T
        BY <1>3, <2>11, <3>4
      <4>2. p = x => q \in T /\ q # x
        BY <2>14, <2>20, <3>1, <3>4, <4>1, OneInPlace
      <4>3. q = x => p \in T /\ p # x
        BY <2>14, <2>20, <3>1, <3>4, <4>1, OneInPlace
      <4> QED BY <2>18, <3>2, <4>2, <4>3
    <3> QED BY <2>16, <3>3, <3>4
  <2>21. ASSUME NEW e \in Device, Retried(e)' PROVE Again(e) \in U
    <3>1. CASE e = d
      BY <2>17, <2>18, <3>1
    <3>2. CASE e # d
      <4>1. Retried(e)
        BY <2>1, <2>21, <3>2, RetriedSteps
      <4>2. Again(e) \in T
        BY <1>3, <4>1
      <4>3. Again(e) # x
        BY <2>11, <2>14, <2>16, CopyPlace
      <4> QED BY <2>18, <4>2, <4>3
    <3> QED BY <3>1, <3>2
  <2>22. Paid(U)'
    BY <2>18, <2>19, <2>20, <2>21 DEF Paid, Again
  <2> QED BY <2>22
<1> QED
  BY <1>4, <1>5

LEMMA PaidStep ==
  ASSUME IInv, OnePlace, ShortWire, Unserved, NoneAhead, [Next]_vars, NEW T, Paid(T)
  PROVE  \E U : Paid(U)'
<1>0. TypeOK /\ LiveRefs
  BY DEF IInv
<1>1. timeouts \in Nat /\ timeouts' \in Nat
      /\ (timeouts' = timeouts \/ (AckTimeout /\ timeouts' = timeouts + 1))
  BY <1>0, TimeoutSteps
<1>2. CASE AckTimeout /\ timeouts' = timeouts + 1
  BY <1>2, TimeoutPays
<1>3. CASE Send
  BY <1>3, SendPays
<1>4. CASE AcceptRequest
  BY <1>4, ForgettingPays
<1>5. CASE timeouts' = timeouts /\ ~Send /\ ~AcceptRequest
  <2>1. \A d \in Device : Retried(d)' => Retried(d)
    <3>1. ASSUME NEW d \in Device, Retried(d)', ~Retried(d) PROVE FALSE
      <4>1. AckTimeout /\ ~Dropped(sock[cur])
        BY <1>5, <3>1, RetriedSteps
      <4>2. timeouts' = timeouts + 1
        BY <4>1 DEF AckTimeout
      <4> QED BY ONLY <1>1, <1>5, <4>2
    <3> QED BY <3>1
  <2>2. ASSUME NEW w \in Workers, Receive(w) PROVE \E U : Paid(U)'
    <3>1. PICK x : x = Line(wsock[w])
      OBVIOUS
    <3>2. PICK y : y = Hand(w)
      OBVIOUS
    <3>3. PICK k : /\ IsCopy(x, k)
                   /\ \A p, n : IsCopy(p, n)' => \/ IsCopy(p, n) /\ p # x /\ p # y
                                                 \/ p = y /\ n = k
      BY <1>0, <2>2, <3>1, <3>2, ReceiveMoves
    <3>4. x # y /\ \A d : x # Again(d)
      BY <3>1, <3>2, Places
    <3>5. \A p, m : IsCopy(p, m)' =>
            (IsCopy(p, m) /\ p # x /\ p # y) \/ (p = y /\ m = k)
      BY <3>3
    <3>6. IsCopy(x, k) /\ x # y /\ UNCHANGED timeouts
      BY <1>5, <3>3, <3>4
    <3> QED BY <1>1, <2>1, <3>4, <3>5, <3>6, PaidMoved
  <2>3. ASSUME NEW w \in Workers, EnqueueToMap(w) PROVE \E U : Paid(U)'
    <3>1. PICK x : x = Hand(w)
      OBVIOUS
    <3>2. PICK y : \E k : /\ IsCopy(x, k) /\ y # x
                          /\ \A p, n : IsCopy(p, n)' => \/ IsCopy(p, n) /\ p # x /\ p # y
                                                        \/ p = y /\ n = k
      BY <1>0, <2>3, <3>1, EnqueueMoves
    <3>3. PICK k : /\ IsCopy(x, k) /\ y # x
                   /\ \A p, n : IsCopy(p, n)' => \/ IsCopy(p, n) /\ p # x /\ p # y
                                                 \/ p = y /\ n = k
      BY <3>2
    <3>4. \A d : x # Again(d)
      BY <3>1, Places
    <3>5. \A p, m : IsCopy(p, m)' =>
            (IsCopy(p, m) /\ p # x /\ p # y) \/ (p = y /\ m = k)
      BY <3>3
    <3>6. IsCopy(x, k) /\ x # y /\ UNCHANGED timeouts
      BY <1>5, <3>3, <3>4
    <3> QED BY <1>1, <2>1, <3>4, <3>5, <3>6, PaidMoved
  <2>4. CASE \A w \in Workers : ~Receive(w) /\ ~EnqueueToMap(w)
    <3>1. \A p, m : IsCopy(p, m)' => IsCopy(p, m)
      BY <1>5, <2>4, OthersKeepCopies
    <3>2. timeouts <= timeouts'
      BY ONLY <1>1, <1>5
    <3>3. Paid(T)'
      BY <1>1, <2>1, <3>1, <3>2, PaidKept
    <3> QED BY <3>3
  <2> QED BY <2>2, <2>3, <2>4
<1> QED
  BY <1>1, <1>2, <1>3, <1>4, <1>5

-----------------------------------------------------------------------------
(* The bound.                                                              *)

LEMMA InitCopiesInv == Init => CopiesInv
<1> SUFFICES ASSUME Init PROVE CopiesInv
  OBVIOUS
<1>1. ShortWire
  BY DEF Init, ShortWire
<1>2. Unserved
  BY ToSetEmpty DEF Init, Unserved
<1>3. ASSUME NEW p, NEW m, IsCopy(p, m) PROVE FALSE
  <2>1. Len(<<>>) = 0 /\ 1..0 = {} /\ <<m>> # <<>>
    OBVIOUS
  <2>2. ~InSlot(p, m)
    BY <2>1 DEF Init, InSlot
  <2>3. ~WithWorker(p, m)
    BY DEF Init, WithWorker
  <2>4. ~OnLine(p, m)
    BY <2>1 DEF Init, OnLine
  <2> QED BY <1>3, <2>2, <2>3, <2>4 DEF IsCopy
<1>4. NoneAhead
  BY <1>3 DEF NoneAhead
<1>5. Paid({})
  <2>1. IsFiniteSet({}) /\ Cardinality({}) = 0 /\ timeouts = 0
    BY FS_EmptySet DEF Init
  <2>2. \A d \in Device : ~Retried(d)
    BY DEF Init, Retried
  <2> QED BY <1>3, <2>1, <2>2 DEF Paid
<1> QED
  BY <1>1, <1>2, <1>4, <1>5 DEF CopiesInv

LEMMA NextCopiesInv == IInv /\ CalmInv /\ CopiesInv /\ [Next]_vars => CopiesInv'
<1> SUFFICES ASSUME IInv, CalmInv, CopiesInv, [Next]_vars PROVE CopiesInv'
  OBVIOUS
<1>1. OnePlace /\ ShortWire /\ Unserved /\ NoneAhead
  BY DEF CalmInv, CopiesInv
<1>2. PICK T : Paid(T)
  BY DEF CopiesInv
<1>3. \E U : Paid(U)'
  BY <1>1, <1>2, PaidStep
<1>4. ShortWire' /\ Unserved' /\ NoneAhead'
  BY <1>1, ShortWireStep, UnservedStep, NoneAheadStep
<1> QED
  BY <1>3, <1>4 DEF CopiesInv

\* The slots of the copy's queues are finitely many.
LEMMA SlotsFinite == TypeOK => IsFiniteSet(Slots)
<1> SUFFICES ASSUME TypeOK PROVE IsFiniteSet(Slots)
  OBVIOUS
<1> DEFINE R == {{d} \X (1..Len(cq[d])) : d \in Device}
           f == [d \in Device |-> {d} \X (1..Len(cq[d]))]
<1>1. IsFiniteSet(Device)
  BY ConstantsAssumption, FS_Interval DEF Device
<1>2. f \in Surjection(Device, R)
  BY DEF Surjection
<1>3. IsFiniteSet(R)
  <2> HIDE DEF R, f
  <2> QED BY <1>1, <1>2, FS_Surjection
<1>4. ASSUME NEW d \in Device PROVE IsFiniteSet({d} \X (1..Len(cq[d])))
  <2>1. Len(cq[d]) \in Nat
    BY LenProperties DEF TypeOK
  <2>2. IsFiniteSet({d}) /\ IsFiniteSet(1..Len(cq[d]))
    <3>1. IsFiniteSet({d})
      BY FS_Singleton
    <3>2. 1 \in Int /\ Len(cq[d]) \in Int
      BY <2>1
    <3>3. IsFiniteSet(1..Len(cq[d]))
      BY <3>2, FS_Interval
    <3> QED BY <3>1, <3>3
  <2> QED BY <2>2, FS_Product
<1>5. \A Q \in R : IsFiniteSet(Q)
  BY <1>4
<1>6. IsFiniteSet(UNION R)
  <2> HIDE DEF R
  <2> QED BY <1>3, <1>5, FS_UNION
<1> QED
  BY <1>6 DEF Slots

LEMMA SlotsParts ==
  /\ \A s \in Slots : /\ s[1] \in Device /\ s[2] \in 1..Len(cq[s[1]])
                      /\ s = <<s[1], s[2]>>
  BY DEF Slots

\* A slot and what is in it.
LEMMA SlotCopy ==
  ASSUME NEW s \in Slots
  PROVE  IsCopy(Slot(s[1], s[2]), cq[s[1]][s[2]])
<1>1. s[1] \in Device /\ s[2] \in 1..Len(cq[s[1]])
  BY SlotsParts
<1> QED
  BY <1>1 DEF IsCopy, InSlot

\* The slots that are not paid for hold different measurements.
LEMMA FewCopies ==
  ASSUME TypeOK, NEW T, Paid(T)
  PROVE  DuplicatesBounded
<1> DEFINE A == {s \in Slots : Slot(s[1], s[2]) \in T}
           B == Slots \ A
           f == [s \in A |-> Slot(s[1], s[2])]
           g == [s \in B |-> cq[s[1]][s[2]]]
           h == [s \in Slots |-> cq[s[1]][s[2]]]
<1>1. IsFiniteSet(Slots) /\ IsFiniteSet(T) /\ Cardinality(T) <= timeouts
  BY SlotsFinite DEF Paid
<1>2. h \in Surjection(Slots, Copied)
  BY DEF Surjection, Copied
<1>3. IsFiniteSet(Copied)
  <2> HIDE DEF h
  <2> QED BY <1>1, <1>2, FS_Surjection
<1>4. A \subseteq Slots /\ B \subseteq Slots /\ A \cup B = Slots
  OBVIOUS
<1>5. IsFiniteSet(A) /\ IsFiniteSet(B)
  <2> HIDE DEF A, B
  <2> QED BY <1>1, <1>4, FS_Subset
<1>6. f \in Injection(A, T)
  <2>1. f \in [A -> T]
    OBVIOUS
  <2>2. ASSUME NEW s \in A, NEW t \in A, Slot(s[1], s[2]) = Slot(t[1], t[2]) PROVE s = t
    <3>1. s[1] = t[1] /\ s[2] = t[2]
      BY <2>2, Places
    <3>2. s = <<s[1], s[2]>> /\ t = <<t[1], t[2]>>
      BY SlotsParts
    <3> QED BY <3>1, <3>2
  <2>3. \A s, t \in A : f[s] = f[t] => s = t
    BY <2>2
  <2> QED BY <2>1, <2>3 DEF Injection, IsInjective
<1>7. g \in Injection(B, Copied)
  <2>1. g \in [B -> Copied]
    BY DEF Copied
  <2>2. ASSUME NEW s \in B, NEW t \in B, cq[s[1]][s[2]] = cq[t[1]][t[2]] PROVE s = t
    <3>1. PICK p : p = Slot(s[1], s[2])
      OBVIOUS
    <3>2. PICK q : q = Slot(t[1], t[2])
      OBVIOUS
    <3>3. PICK m : m = cq[s[1]][s[2]]
      OBVIOUS
    <3>4. IsCopy(p, m) /\ IsCopy(q, m)
      BY <2>2, <3>1, <3>2, <3>3, SlotCopy
    <3>5. p \notin T /\ q \notin T
      BY <3>1, <3>2
    <3>6. p = q
      BY <3>4, <3>5 DEF Paid
    <3>7. s[1] = t[1] /\ s[2] = t[2]
      <4>1. Slot(s[1], s[2]) = Slot(t[1], t[2])
        BY <3>1, <3>2, <3>6
      <4> QED BY <4>1, Places
    <3>8. s = <<s[1], s[2]>> /\ t = <<t[1], t[2]>>
      BY SlotsParts
    <3> QED BY <3>7, <3>8
  <2>3. \A s, t \in B : g[s] = g[t] => s = t
    BY <2>2
  <2> QED BY <2>1, <2>3 DEF Injection, IsInjective
<1> HIDE DEF A, B, f, g
<1>8. Cardinality(A) <= Cardinality(T)
  BY <1>1, <1>6, FS_Injection
<1>9. Cardinality(B) <= Cardinality(Copied)
  BY <1>3, <1>7, FS_Injection
<1>10. Cardinality(A \cup B) = Cardinality(A) + Cardinality(B) - Cardinality(A \cap B)
  BY <1>5, FS_Union
<1> DEFINE na == Cardinality(A)  nb == Cardinality(B)  nc == Cardinality(Copied)
           nt == Cardinality(T)  ni == Cardinality(A \cap B)  ns == Cardinality(Slots)
<1>11. IsFiniteSet(A \cap B)
  BY <1>5, FS_Intersection
<1>12. na \in Nat /\ nb \in Nat /\ nc \in Nat /\ nt \in Nat /\ ni \in Nat /\ ns \in Nat
  BY <1>1, <1>3, <1>5, <1>11, FS_CardinalityType
<1>13. na <= nt /\ nb <= nc /\ ns = na + nb - ni /\ nt <= timeouts /\ timeouts \in Nat
  <2>1. timeouts \in Nat
    BY ConstantsAssumption DEF TypeOK
  <2>2. ns = na + nb - ni
    BY <1>4, <1>10
  <2>3. na <= nt /\ nb <= nc /\ nt <= timeouts
    BY <1>1, <1>8, <1>9
  <2> QED BY <2>1, <2>2, <2>3
<1> HIDE DEF na, nb, nc, nt, ni, ns
<1>14. ns <= nc + timeouts
  BY <1>12, <1>13
<1> QED
  BY <1>14 DEF DuplicatesBounded, ns, nc

\* However many acknowledgements came late, connections were forgotten and
\* copies of the server died, EnqueueAndNotifyThread has stored at most one
\* measurement again for each late acknowledgement.
THEOREM TimeoutsPayForDuplicates == Spec => []DuplicatesBounded
<1>1. Init => CopiesInv
  BY InitCopiesInv
<1>2. IInv /\ CalmInv /\ CopiesInv /\ [Next]_vars => CopiesInv'
  BY NextCopiesInv
<1>3. IInv /\ CopiesInv => DuplicatesBounded
  BY FewCopies DEF IInv, CopiesInv
<1> QED
  BY <1>1, <1>2, <1>3, Invariance, CalmInvariance, PTL DEF Spec

=============================================================================
