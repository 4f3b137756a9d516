--------------------------- MODULE ClientForward ---------------------------
(***************************************************************************)
(* From the clients to the queue of their device: the handlers of one      *)
(* Process program (Process.cpp, handleClients), each with a connection of *)
(* its own to the original server, and the handlers of that server         *)
(* (Replication.cpp, handleProcesses).                                     *)
(*                                                                         *)
(* What a handler cannot send goes into temporaryQueue, which all handlers *)
(* of the Process share and each of them flushes when it has connected     *)
(* again.  The original server may die and be started again; the Process   *)
(* and its clients stay, or rather a client that leaves is followed by     *)
(* another.                                                                *)
(***************************************************************************)
EXTENDS Naturals, Sequences, SequencesExt, FiniteSetsExt, Functions

CONSTANTS
  Handlers,     \* threads of handleClients: 4
  PoolSize,     \* threads of handleProcesses for this device: 10 for all
  MaxMessages,  \* bound: measurements each handler receives from its clients
  Foreign,      \* those of them that name another device than the one looked at
  MaxConns,     \* bound: connections opened to port 8000
  MaxCrashes    \* bound: deaths of the original server

ASSUME ConstantsAssumption ==
  /\ IsFiniteSet(Handlers)
  /\ PoolSize \in Nat \ {0}
  /\ MaxMessages \in [Handlers -> Nat]
  /\ {MaxConns, MaxCrashes} \subseteq Nat

Conn == 1..MaxConns

\* A measurement is the handler that received it and its number there.
Measurement == UNION {{h} \X (1..MaxMessages[h]) : h \in Handlers}

ASSUME ForeignAssumption == Foreign \subseteq Measurement

\* What is sent in place of a measurement that was never initialised: its
\* device is none, as far as anybody can tell.
Garbage == <<>>

VARIABLES
  \* the Process
  pc,              \* where each handler is
  serverConn,      \* per handler, as is
  conn,            \* serviceSocket: its connection, 0 for INVALID_SOCKET
  tempMsg,         \* tempMsg, which keeps its place on the stack
  temporaryQueue,
  \* the connections
  nconn,           \* opened so far
  wire,            \* sent and not yet received, per connection
  \* the original server
  up,
  opc,             \* where the handler of each connection is, or the connection
  oid,             \* currentId, per connection: none, the device or another
  odata,           \* data, per connection
  oq,              \* qForDevice, per connection
  entries,         \* messageQueues: how many entries the device has, of which ...
  queue,           \* ... look-ups see the newest
  nmtx,            \* queueMtxs: how many entries the device has
  \* history and bounds
  received,        \* measurements each handler has received from clients
  missed,          \* a dequeue found temporaryQueue empty
  borrowed,        \* a handler took another one's measurement out of it
  crashes

handlerVars == <<pc, serverConn, conn, tempMsg, temporaryQueue, received, missed, borrowed>>
netVars == <<nconn, wire>>
connVars == <<oid, odata, oq>>
mapVars == <<entries, queue, nmtx>>
origVars == <<up, opc, connVars, mapVars, crashes>>
vars == <<handlerVars, netVars, origVars>>

\* Connections the original server has accepted or will.
Alive == {c \in Conn : opc[c] \notin {"unused", "dead"}}

\* The server is up; either the Process starts, or one of its handlers has saved
\* a measurement before, when a server it was connected to had died.
Init ==
  /\ temporaryQueue \in {<<>>} \cup {<< <<h, 1>> >> : h \in {g \in Handlers : MaxMessages[g] > 0}}
  /\ received = [h \in Handlers |-> IF temporaryQueue = << <<h, 1>> >> THEN 1 ELSE 0]
  /\ serverConn = [h \in Handlers |-> FALSE]
  /\ pc = [h \in Handlers |-> "connect"]
  /\ conn = [h \in Handlers |-> 0]
  /\ tempMsg = [h \in Handlers |-> Garbage]
  /\ nconn = 0
  /\ wire = [c \in Conn |-> <<>>]
  /\ up = TRUE
  /\ opc = [c \in Conn |-> "unused"]
  /\ oid = [c \in Conn |-> "none"]
  /\ odata = [c \in Conn |-> Garbage]
  /\ oq = [c \in Conn |-> 0]
  /\ entries = 0 /\ queue = <<>> /\ nmtx = 0
  /\ missed = FALSE /\ borrowed = FALSE
  /\ crashes = 0

Goto(h, place) == pc' = [pc EXCEPT ![h] = place]

-----------------------------------------------------------------------------
(* A handler of the Process.                                               *)

\* Connector(8000); while the server is down it fails and is tried again a
\* second later.  serviceSocket is overwritten, whatever it held.
Connect(h) ==
  /\ pc[h] = "connect"
  /\ up
  /\ nconn < MaxConns
  /\ nconn' = nconn + 1
  /\ conn' = [conn EXCEPT ![h] = nconn + 1]
  /\ opc' = [opc EXCEPT ![nconn + 1] = "recv"]
  /\ Goto(h, "test")
  /\ UNCHANGED <<serverConn, tempMsg, temporaryQueue, received, missed, borrowed,
                 wire, up, connVars, mapVars, crashes>>

\* is_queue_empty, without messageMutex ...
TestQueue(h) ==
  /\ pc[h] = "test"
  /\ Goto(h, IF temporaryQueue = <<>> THEN "check" ELSE "take")
  /\ UNCHANGED <<serverConn, conn, tempMsg, temporaryQueue, received, missed,
                 borrowed, netVars, origVars>>

\* ... and dequeue, whose result nobody looks at: if another handler was faster
\* tempMsg is what the stack holds, garbage or the measurement before.
TakeSaved(h) ==
  /\ pc[h] = "take"
  /\ IF temporaryQueue = <<>>
     THEN /\ \E m \in {Garbage, tempMsg[h]} : tempMsg' = [tempMsg EXCEPT ![h] = m]
          /\ missed' = TRUE
          /\ UNCHANGED <<temporaryQueue, borrowed>>
     ELSE /\ tempMsg' = [tempMsg EXCEPT ![h] = Head(temporaryQueue)]
          /\ temporaryQueue' = Tail(temporaryQueue)
          /\ borrowed' = (borrowed \/ Head(temporaryQueue) \notin {h} \X Nat)
          /\ UNCHANGED missed
  /\ Goto(h, "flush")
  /\ UNCHANGED <<serverConn, conn, received, netVars, origVars>>

\* send() puts m into connection c; with the server dead it is lost there.
Send(c, m) ==
  IF opc[c] = "dead" THEN UNCHANGED wire
                     ELSE wire' = [wire EXCEPT ![c] = Append(@, m)]

FlushSaved(h) ==
  /\ pc[h] = "flush"
  /\ Send(conn[h], tempMsg[h])
  /\ Goto(h, "test")
  /\ UNCHANGED <<serverConn, conn, tempMsg, temporaryQueue, received, missed, borrowed,
                 nconn, origVars>>

\* On a dead connection send() fails sooner or later, on none at once.
SendMayFail(h) == conn[h] # 0 => opc[conn[h]] = "dead"

\* (Each Wrong... operator is a plausible bug in the definition after it; no
\* specification uses it.)
WrongFlushFails(h) ==
  /\ pc[h] = "flush"
  /\ SendMayFail(h)
  /\ conn' = [conn EXCEPT ![h] = 0]
  /\ Goto(h, "connect")
  /\ UNCHANGED <<serverConn, tempMsg, temporaryQueue, received, missed, borrowed,
                 netVars, origVars>>

\* The measurement goes back, to the tail.
FlushFails(h) ==
  /\ pc[h] = "flush"
  /\ SendMayFail(h)
  /\ temporaryQueue' = Append(temporaryQueue, tempMsg[h])
  /\ conn' = [conn EXCEPT ![h] = 0]
  /\ Goto(h, "check")
  /\ UNCHANGED <<serverConn, tempMsg, received, missed, borrowed, netVars, origVars>>

WrongCheckFlushed(h) ==
  /\ pc[h] = "check"
  /\ serverConn' = [serverConn EXCEPT ![h] = TRUE]
  /\ Goto(h, "recv")
  /\ UNCHANGED <<conn, tempMsg, temporaryQueue, received, missed, borrowed,
                 netVars, origVars>>

\* The handler looks at the queue again, whichever way the loop ended.
CheckFlushed(h) ==
  /\ pc[h] = "check"
  /\ IF temporaryQueue = <<>>
     THEN serverConn' = [serverConn EXCEPT ![h] = TRUE] /\ Goto(h, "recv")
     ELSE Goto(h, "connect") /\ UNCHANGED serverConn
  /\ UNCHANGED <<conn, tempMsg, temporaryQueue, received, missed, borrowed,
                 netVars, origVars>>

\* recv of a client's next measurement.
Receive(h) ==
  /\ pc[h] = "recv"
  /\ received[h] < MaxMessages[h]
  /\ received' = [received EXCEPT ![h] = @ + 1]
  /\ Goto(h, "send")
  /\ UNCHANGED <<serverConn, conn, tempMsg, temporaryQueue, missed, borrowed,
                 netVars, origVars>>

data(h) == <<h, received[h]>>

WrongForward(h) ==
  /\ pc[h] = "send"
  /\ conn[h] # 0
  /\ Send(conn[h], data(h))
  /\ temporaryQueue' = Append(temporaryQueue, data(h))
  /\ Goto(h, "recv")
  /\ UNCHANGED <<serverConn, conn, tempMsg, received, missed, borrowed,
                 nconn, origVars>>

Forward(h) ==
  /\ pc[h] = "send"
  /\ conn[h] # 0
  /\ Send(conn[h], data(h))
  /\ Goto(h, "recv")
  /\ UNCHANGED <<serverConn, conn, tempMsg, temporaryQueue, received, missed, borrowed,
                 nconn, origVars>>

WrongForwardFails(h) ==
  /\ pc[h] = "send"
  /\ SendMayFail(h)
  /\ temporaryQueue' = Append(temporaryQueue, data(h))
  /\ Goto(h, "recv")
  /\ UNCHANGED <<serverConn, conn, tempMsg, received, missed, borrowed, netVars, origVars>>

\* The measurement is saved and the handler connects again.
ForwardFails(h) ==
  /\ pc[h] = "send"
  /\ SendMayFail(h)
  /\ serverConn' = [serverConn EXCEPT ![h] = FALSE]
  /\ conn' = [conn EXCEPT ![h] = 0]
  /\ temporaryQueue' = Append(temporaryQueue, data(h))
  /\ Goto(h, "connect")
  /\ UNCHANGED <<tempMsg, received, missed, borrowed, netVars, origVars>>

-----------------------------------------------------------------------------
(* The original server: one handler per connection, while there are any.   *)

\* The acceptor's queue is first in, first out and no connection to a living
\* server is closed: its handlers have the oldest ones.
Served(c) == Cardinality({k \in Alive : k < c}) < PoolSize

GotoO(c, place) == opc' = [opc EXCEPT ![c] = place]

\* A connection that a handler reads from, and its next measurement, received.
Readable(c) == opc[c] = "recv" /\ Served(c) /\ wire[c] # <<>>
Message(c) == Head(wire[c])
TakeMessage(c) == wire' = [wire EXCEPT ![c] = Tail(@)]

\* The device's mutex is looked up, or made when there is none, and its queue,
\* which handlers have made before (so neither is NULL at line 132).  What else
\* has happened to the maps since the measurement was read makes no difference.
FindQueue(c) ==
  IF nmtx = 0 THEN GotoO(c, "linkmtx") /\ UNCHANGED oq
              ELSE GotoO(c, "enqueue") /\ oq' = [oq EXCEPT ![c] = entries]

\* Of the first measurement a connection brings, InitializeQu remembers the
\* device.  Garbage names none.  One of another device than that is ignored, in
\* silence, and one of the other device goes to that one's queue, out of sight.
IgnoreMessage(c) ==
  /\ Readable(c)
  /\ Message(c) \in Foreign \cup {Garbage} \/ oid[c] = "other"
  /\ TakeMessage(c)
  /\ oid' = [oid EXCEPT ![c] = IF @ = "none" /\ Message(c) # Garbage THEN "other" ELSE @]
  /\ UNCHANGED <<handlerVars, nconn, up, opc, odata, oq, mapVars, crashes>>

WrongReceiveMessage(c) ==
  /\ Readable(c)
  /\ Message(c) # Garbage /\ oid[c] # "other"
  /\ TakeMessage(c)
  /\ oid' = [oid EXCEPT ![c] = "own"]
  /\ odata' = [odata EXCEPT ![c] = Message(c)]
  /\ IF oid[c] = "none" /\ entries = 0 THEN GotoO(c, "scan") /\ UNCHANGED oq
                                       ELSE FindQueue(c)
  /\ UNCHANGED <<handlerVars, nconn, up, mapVars, crashes>>

\* A measurement of the device.  If it is the connection's first, contains_key
\* of InitializeQu asks for the device's queue.
ReceiveMessage(c) ==
  /\ Readable(c)
  /\ Message(c) \notin Foreign \cup {Garbage} /\ oid[c] # "other"
  /\ TakeMessage(c)
  /\ oid' = [oid EXCEPT ![c] = "own"]
  /\ odata' = [odata EXCEPT ![c] = Message(c)]
  /\ IF oid[c] = "none" /\ entries = 0 THEN GotoO(c, "scan") /\ UNCHANGED oq
                                       ELSE FindQueue(c)
  /\ UNCHANGED <<handlerVars, nconn, up, mapVars, crashes>>

\* insert_queue_to_map searches again, and empties the queue another handler has
\* made in between ...
ScanQueue(c) ==
  /\ opc[c] = "scan"
  /\ queue' = <<>>
  /\ GotoO(c, IF entries = 0 THEN "linkq" ELSE "find")
  /\ UNCHANGED <<handlerVars, netVars, up, connVars, entries, nmtx, crashes>>

\* ... or puts a new one in front of what is in the bucket by now.
LinkQueue(c) ==
  /\ opc[c] = "linkq"
  /\ entries' = entries + 1
  /\ queue' = <<>>
  /\ GotoO(c, "find")
  /\ UNCHANGED <<handlerVars, netVars, up, connVars, nmtx, crashes>>

\* insert_mtx_to_map does not find a mutex, and links one later.
FindMutex(c) ==
  /\ opc[c] = "find"
  /\ FindQueue(c)
  /\ UNCHANGED <<handlerVars, netVars, up, oid, odata, mapVars, crashes>>

LinkMutex(c) ==
  /\ opc[c] = "linkmtx"
  /\ nmtx' = nmtx + 1
  /\ GotoO(c, "find")
  /\ UNCHANGED <<handlerVars, netVars, up, connVars, entries, queue, crashes>>

WrongEnqueue(c) ==
  /\ opc[c] = "enqueue"
  /\ IF oq[c] # entries THEN UNCHANGED queue
     ELSE queue' \in {<<odata[c]>> \o queue} \cup (IF nmtx > 1 THEN {queue, <<>>} ELSE {})
  /\ odata' = [odata EXCEPT ![c] = Garbage]
  /\ oq' = [oq EXCEPT ![c] = 0]
  /\ GotoO(c, "recv")
  /\ UNCHANGED <<handlerVars, netVars, up, oid, entries, nmtx, crashes>>

\* enqueue, under the mutex the handler has found, into the queue it has found:
\* nobody looks up one that is not the newest.  With two mutexes other handlers
\* and the delivery thread may be in the queue at the same time: the node, or
\* all of the list, may be lost.
Enqueue(c) ==
  /\ opc[c] = "enqueue"
  /\ IF oq[c] # entries THEN UNCHANGED queue
     ELSE queue' \in {Append(queue, odata[c])} \cup (IF nmtx > 1 THEN {queue, <<>>} ELSE {})
  /\ odata' = [odata EXCEPT ![c] = Garbage]
  /\ oq' = [oq EXCEPT ![c] = 0]
  /\ GotoO(c, "recv")
  /\ UNCHANGED <<handlerVars, netVars, up, oid, entries, nmtx, crashes>>

\* Measurements under way in connections and at the original's handlers.
UnderWay == (UNION {ToSet(wire[c]) : c \in Conn}) \ {Garbage}
AtServer == {odata[c] : c \in Conn} \ {Garbage}

\* Everything the server holds is gone, and its connections are dead.
Crash ==
  /\ up
  /\ crashes < MaxCrashes
  /\ crashes' = crashes + 1
  /\ up' = FALSE
  /\ opc' = [c \in Conn |-> IF opc[c] = "unused" THEN "unused" ELSE "dead"]
  /\ wire' = [c \in Conn |-> <<>>]
  /\ oid' = [c \in Conn |-> "none"]
  /\ odata' = [c \in Conn |-> Garbage]
  /\ oq' = [c \in Conn |-> 0]
  /\ entries' = 0 /\ queue' = <<>> /\ nmtx' = 0
  /\ UNCHANGED <<handlerVars, nconn>>

Restart ==
  /\ ~up
  /\ up' = TRUE
  /\ UNCHANGED <<handlerVars, netVars, opc, connVars, mapVars, crashes>>

-----------------------------------------------------------------------------

HandlerStep(h) ==
  \/ Connect(h) \/ TestQueue(h) \/ TakeSaved(h)
  \/ FlushSaved(h) \/ FlushFails(h) \/ CheckFlushed(h)
  \/ Forward(h) \/ ForwardFails(h)

ServerStep(c) ==
  \/ IgnoreMessage(c) \/ ReceiveMessage(c)
  \/ ScanQueue(c) \/ LinkQueue(c)
  \/ FindMutex(c) \/ LinkMutex(c) \/ Enqueue(c)

Next ==
  \/ \E h \in Handlers : Receive(h) \/ HandlerStep(h)
  \/ \E c \in Conn : ServerStep(c)
  \/ Crash \/ Restart

Spec == Init /\ [][Next]_vars

Threads ==
  \/ \E h \in Handlers : HandlerStep(h)
  \/ \E c \in Conn : ServerStep(c)
  \/ Restart

\* Some thread keeps running, and a dead server is started again; clients need
\* not send.  As each thread comes to rest, it need not be said which runs.
FairSpec == Spec /\ WF_vars(Threads)

-----------------------------------------------------------------------------
(* Properties.                                                             *)

Place == {"connect", "test", "take", "flush", "check", "recv", "send"}

ServerPlace == {"recv", "scan", "linkq", "find", "linkmtx", "enqueue"}

Sent == Measurement \cup {Garbage}

\* Types.  Only measurements of the device reach its queue, never what the stack
\* of a Process handler held, and nobody has found an entry that is not there.
\* conn[h] = 0 is possible even where the handler sends, if its last flush failed
\* and another one then emptied temporaryQueue.
TypeOK ==
  /\ pc \in [Handlers -> Place]
  /\ serverConn \in [Handlers -> BOOLEAN]
  /\ conn \in [Handlers -> 0..nconn]
  /\ tempMsg \in [Handlers -> Sent]
  /\ temporaryQueue \in Seq(Sent)
  /\ nconn \in 0..MaxConns
  /\ wire \in [Conn -> Seq(Sent)]
  /\ up \in BOOLEAN
  /\ opc \in [Conn -> ServerPlace \cup {"unused", "dead"}]
  /\ odata \in [Conn -> Sent]
  /\ oid \in [Conn -> {"none", "own", "other"}]
  /\ oq \in [Conn -> 0..entries]
  /\ entries \in Nat /\ nmtx \in Nat
  /\ queue \in Seq(Measurement \ Foreign)
  /\ received \in [Handlers -> Nat]
  /\ \A h \in Handlers : received[h] <= MaxMessages[h]
  /\ missed \in BOOLEAN /\ borrowed \in BOOLEAN
  /\ crashes \in 0..MaxCrashes

\* The measurement a handler of the Process holds.
Held(h) == IF pc[h] = "send" THEN {data(h)}
           ELSE IF pc[h] = "flush" THEN {tempMsg[h]} ELSE {}

InProcess == ToSet(temporaryQueue) \cup UNION {Held(h) : h \in Handlers}

Received == UNION {{<<h, n>> : n \in 1..received[h]} : h \in Handlers}

\* Where a measurement can be: with the Process, under way, with the server, or
\* stored for the copy.
Kept == InProcess \cup UnderWay \cup AtServer \cup ToSet(queue)

\* The steps that lose measurements: the server's death, a send on a connection
\* of a dead server, a connection on which another device was named first, the
\* second registration of the device by another handler, which empties or hides
\* its queue, and a device with two mutexes.
LossyStep ==
  \/ Crash
  \/ \E h \in Handlers : conn[h] # 0 /\ opc[conn[h]] = "dead" /\ (FlushSaved(h) \/ Forward(h))
  \/ \E c \in Conn :
       \/ oid[c] = "other" /\ IgnoreMessage(c)
       \/ entries > 0 /\ (ScanQueue(c) \/ LinkQueue(c))
       \/ (oq[c] # entries \/ nmtx > 1) /\ Enqueue(c)

\* No other step does: neither the queue the handlers share, nor a failed flush,
\* nor a handler that moves between them, nor the look-ups in the maps.
NothingElseLost ==
  [][(Received \ Foreign) \cap Kept \subseteq Kept' \/ LossyStep]_vars

\* A measurement is stored at most once, and none that waits to be sent again
\* is stored already, unless a handler flushed a queue that was empty by then.
StoredOnce == missed \/ IsInjective(queue \o temporaryQueue)

\* Connections a handler has replaced without closing them.
Forgotten == {c \in Alive : \A h \in Handlers : conn[h] # c}

\* The device's queue keeps the order of each handler's clients through any
\* crash, as long as each handler takes only its own measurement back and
\* closes a connection before it opens another.
InOrder ==
  missed \/ borrowed \/ Forgotten # {} \/
  \A i, j \in 1..Len(queue) :
    i < j /\ queue[i][1] = queue[j][1] => queue[i][2] < queue[j][2]

\* Whoever is not connected tries to be.  A measurement is never left behind
\* in temporaryQueue by handlers that are all content with their connections.
Flushing == {h \in Handlers : pc[h] \in {"connect", "test", "take", "flush", "check"}}
SavedIsFlushed == temporaryQueue # <<>> => Flushing # {}

\* Nothing stays under way: again and again every handler is connected and waits
\* for its client, temporaryQueue is empty and all that was sent has been read,
\* unless forgotten connections have used up the server's handlers.
AllDelivered ==
  []<>(\/ /\ \A h \in Handlers : pc[h] = "recv"
          /\ temporaryQueue = <<>>
          /\ \A c \in Conn : wire[c] = <<>> /\ odata[c] = Garbage
       \/ Cardinality(Alive) > PoolSize)

=============================================================================
