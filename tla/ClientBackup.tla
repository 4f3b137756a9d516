---------------------------- MODULE ClientBackup ----------------------------
(***************************************************************************)
(* A client asks for its backup: the client (Client.cpp, getBackup), the   *)
(* handler of its Process that answers it (Process.cpp, handleClients),    *)
(* and in the original server (Replication.cpp) the acceptor on port 8500, *)
(* handleBackupToClient, which answers, and getMessagesThread, which fills *)
(* the queues it sends, until that server is shut down.                    *)
(*                                                                         *)
(* Each Process has one client and one handler here, and the number of its *)
(* device.  What getMessagesThread gets from the copy, and when, is in     *)
(* Backup; here any measurement may come.                                  *)
(***************************************************************************)
EXTENDS Integers, Sequences, SequencesExt, FiniteSetsExt, Functions

CONSTANTS
  NumProcesses,   \* Process programs, and devices: 3
  QueueCapacity,  \* of backupConnections: 16
  MaxRestored,    \* bound: measurements restored
  MaxConns,       \* bound: connections to port 8500
  Earlier,        \* devices of which a first measurement has been restored and sent
  FirstChoice,    \* the backup chosen at the original's console by now, or 0
  MaxEvents       \* bound: how often, in all, a client sends something, a backup is
                  \* chosen and a Process ends

Process == 1..NumProcesses

ASSUME ConstantsAssumption ==
  /\ {NumProcesses, QueueCapacity} \subseteq Nat \ {0}
  /\ {MaxRestored, MaxConns, MaxEvents} \subseteq Nat
  /\ Earlier \subseteq Process
  /\ FirstChoice \in Process \cup {0}

Device == 1..NumProcesses
Conn == 1..MaxConns

\* Purposes: 0 and 8 are entered measurements and told apart by nobody here, 99
\* is a request, 505 a restored measurement.
DATA == 0
REQUEST == 99
RESTORED == 505
END_OF_QUEUE == -1
Purpose == {DATA, REQUEST, RESTORED, END_OF_QUEUE}

Measurement == [purpose : Purpose, deviceId : Device, seq : Nat]
Blank(p) == [purpose |-> DATA, deviceId |-> p, seq |-> 0]
Shell(m) == [m EXCEPT !.seq = 0]  \* of what is sent again the value is not followed
Stored(d, n) == [purpose |-> RESTORED, deviceId |-> d, seq |-> n]

VARIABLES
  \* the clients
  cpc,          \* at the menu, waiting in getBackup, or gone
  measurement,  \* the one a client reuses for all it sends and receives
  toProcess, toClient,  \* their connections
  \* the handlers of the Processes
  hpc, data,
  conn,         \* connect, 0 for INVALID_SOCKET and when there is none
  \* the connections to port 8500
  nconn, backlog,
  wire,         \* sent by the original and not yet received
  closed,       \* closed by the original
  \* the original server
  apc,          \* the acceptor
  backupConnections,
  spc, socket,  \* handleBackupToClient and its socket
  mtx,          \* mtxForBackup: a device, and which of its entries in queueMtxsBackup
  chosen,       \* the device whose queue currBackupQ is
  rpc,          \* getMessagesThread
  rmtx,         \* its mtxForBackup
  restoring,    \* the device it restores, 0 if none
  backup, currentBackupChoice,
  queue,        \* messageQueuesBackup
  nmtx,         \* queueMtxsBackup: how many entries each device has
  torn,         \* two threads were in a queue at once, each with another mutex
  mpc,          \* the main thread
  \* history and bounds
  restored,     \* measurements restored so far, per device
  foreign,      \* clients that have been given a measurement of another device
  events

clientVars == <<cpc, measurement, foreign>>
linkVars == <<toProcess, toClient>>
handlerVars == <<hpc, data, conn>>
netVars == <<nconn, backlog, wire, closed>>
threadVars == <<spc, socket, mtx, chosen>>
serverVars == <<apc, backupConnections, threadVars>>
restoreVars == <<rpc, rmtx, restoring, restored>>
queueVars == <<queue, nmtx, torn>>
commandVars == <<backup, currentBackupChoice, mpc>>
mainVars == <<commandVars, events>>
processVars == <<clientVars, linkVars, handlerVars>>
vars == <<processVars, netVars, serverVars, restoreVars, queueVars, mainVars>>

\* The server is up, some backups may have been made, and one may have been chosen.
Init ==
  /\ cpc = [p \in Process |-> "menu"]
  /\ measurement = [p \in Process |-> Blank(p)]
  /\ toProcess = [p \in Process |-> <<>>]
  /\ toClient = [p \in Process |-> <<>>]
  /\ hpc = [p \in Process |-> "recv"]
  /\ data = measurement
  /\ conn = [p \in Process |-> 0]
  /\ nconn = 0 /\ backlog = <<>> /\ closed = {}
  /\ wire = [c \in Conn |-> <<>>]
  /\ apc = "accept" /\ backupConnections = <<>>
  /\ spc = "lock" /\ socket = 0 /\ mtx = <<0, 0>> /\ chosen = 0
  /\ rpc = "check" /\ rmtx = <<0, 0>> /\ restoring = 0
  /\ currentBackupChoice = FirstChoice /\ backup = (FirstChoice # 0)
  /\ queue = [d \in Device |-> <<>>]
  /\ nmtx = [d \in 0..NumProcesses |-> IF d \in Earlier THEN 1 ELSE 0]
  /\ torn = FALSE
  /\ restored = [d \in Device |-> IF d \in Earlier THEN 1 ELSE 0]
  /\ mpc = "menu"
  /\ foreign = {} /\ events = 0

stopFlag == mpc # "menu"

\* Something happens that comes from without.
Event == events < MaxEvents /\ events' = events + 1

-----------------------------------------------------------------------------
(* The client.                                                             *)

Send(p, m) ==
  /\ cpc[p] = "menu"
  /\ Event
  /\ measurement' = [measurement EXCEPT ![p] = m]
  /\ toProcess' = [toProcess EXCEPT ![p] = Append(@, m)]

\* A typed measurement leaves the purpose as it was, massSend sets it.  Neither
\* touches the device.
Enter(p) ==
  /\ \E purpose \in {DATA, measurement[p].purpose} :
       Send(p, [measurement[p] EXCEPT !.purpose = purpose])
  /\ UNCHANGED <<cpc, foreign, toClient, handlerVars, netVars, serverVars, restoreVars,
                 queueVars, commandVars>>

RequestBackup(p) ==
  /\ Send(p, [measurement[p] EXCEPT !.purpose = REQUEST])
  /\ cpc' = [cpc EXCEPT ![p] = "wait"]
  /\ UNCHANGED <<foreign, toClient, handlerVars, netVars, serverVars, restoreVars, queueVars, commandVars>>

\* recv overwrites the client's measurement, whatever has come.
Receive(p) ==
  /\ cpc[p] = "wait"
  /\ toClient[p] # <<>>
  /\ LET m == Head(toClient[p]) IN
       /\ measurement' = [measurement EXCEPT ![p] = Shell(m)]
       /\ foreign' = IF m.purpose = RESTORED /\ m.deviceId # p THEN foreign \cup {p}
                                                               ELSE foreign
       /\ cpc' = [cpc EXCEPT ![p] = IF m.purpose = END_OF_QUEUE THEN "menu" ELSE @]
  /\ toClient' = [toClient EXCEPT ![p] = Tail(@)]
  /\ UNCHANGED <<toProcess, handlerVars, netVars, serverVars, restoreVars, queueVars, mainVars>>

-----------------------------------------------------------------------------
(* The handler of the Process.                                             *)

\* Anything but a request is forwarded to port 8000 (see ClientForward).
ForwardMessage(p) ==
  /\ hpc[p] = "recv"
  /\ toProcess[p] # <<>>
  /\ Head(toProcess[p]).purpose # REQUEST
  /\ toProcess' = [toProcess EXCEPT ![p] = Tail(@)]
  /\ UNCHANGED <<clientVars, toClient, handlerVars, netVars, serverVars, restoreVars, queueVars, mainVars>>

\* (Each Wrong... operator is a plausible bug in the definition after it; no
\* specification uses it.)
WrongTakeRequest(p) ==
  /\ hpc[p] = "recv"
  /\ toProcess[p] # <<>>
  /\ Head(toProcess[p]).purpose = REQUEST
  /\ data' = [data EXCEPT ![p] = Head(toProcess[p])]
  /\ toProcess' = [toProcess EXCEPT ![p] = Tail(@)]
  /\ toClient' = [toClient EXCEPT ![p] = Append(@, [Head(toProcess[p]) EXCEPT !.purpose = END_OF_QUEUE])]
  /\ hpc' = [hpc EXCEPT ![p] = "poll"]
  /\ IF apc = "done"
     THEN UNCHANGED <<nconn, conn, backlog>>
     ELSE /\ nconn < MaxConns
          /\ nconn' = nconn + 1
          /\ conn' = [conn EXCEPT ![p] = nconn + 1]
          /\ backlog' = Append(backlog, nconn + 1)
  /\ UNCHANGED <<clientVars, wire, closed, serverVars,
                 restoreVars, queueVars, mainVars>>

\* A request is followed by Connector(8500), which fails once the acceptor has
\* closed its listener.
TakeRequest(p) ==
  /\ hpc[p] = "recv"
  /\ toProcess[p] # <<>>
  /\ Head(toProcess[p]).purpose = REQUEST
  /\ data' = [data EXCEPT ![p] = Head(toProcess[p])]
  /\ toProcess' = [toProcess EXCEPT ![p] = Tail(@)]
  /\ hpc' = [hpc EXCEPT ![p] = "poll"]
  /\ IF apc = "done"
     THEN UNCHANGED <<nconn, conn, backlog>>
     ELSE /\ nconn < MaxConns
          /\ nconn' = nconn + 1
          /\ conn' = [conn EXCEPT ![p] = nconn + 1]
          /\ backlog' = Append(backlog, nconn + 1)
  /\ UNCHANGED <<clientVars, toClient, wire, closed, serverVars,
                 restoreVars, queueVars, mainVars>>

\* nonBlockingReceive returns a measurement, and the client is sent it.
Relay(p) ==
  /\ hpc[p] = "poll"
  /\ conn[p] # 0
  /\ wire[conn[p]] # <<>>
  /\ LET m == Head(wire[conn[p]]) IN
       /\ data' = [data EXCEPT ![p] = Shell(m)]
       /\ toClient' = [toClient EXCEPT ![p] = Append(@, m)]
  /\ wire' = [wire EXCEPT ![conn[p]] = Tail(@)]
  /\ UNCHANGED <<clientVars, toProcess, hpc, conn, nconn, backlog, closed,
                 serverVars, restoreVars, queueVars, mainVars>>

\* recv returns 0 on a connection the original has closed.
AtEnd(p) == conn[p] \in closed /\ wire[conn[p]] = <<>>

WrongAnswerEnd(p) ==
  /\ hpc[p] = "poll"
  /\ conn[p] # 0 => AtEnd(p)
  /\ toClient' = [toClient EXCEPT ![p] = Append(@, [Blank(1) EXCEPT !.purpose = END_OF_QUEUE])]
  /\ data' = [data EXCEPT ![p] = Blank(p)]
  /\ conn' = [conn EXCEPT ![p] = 0]
  /\ hpc' = [hpc EXCEPT ![p] = "recv"]
  /\ UNCHANGED <<clientVars, toProcess, netVars, serverVars, restoreVars, queueVars, mainVars>>

\* The last measurement, whichever that was, goes to the client once more, as
\* END_OF_QUEUE.  (Nobody reads data again before the next recv.)
AnswerEnd(p) ==
  /\ hpc[p] = "poll"
  /\ conn[p] # 0 => AtEnd(p)
  /\ toClient' = [toClient EXCEPT ![p] = Append(@, [data[p] EXCEPT !.purpose = END_OF_QUEUE])]
  /\ data' = [data EXCEPT ![p] = Blank(p)]
  /\ conn' = [conn EXCEPT ![p] = 0]
  /\ hpc' = [hpc EXCEPT ![p] = "recv"]
  /\ UNCHANGED <<clientVars, toProcess, netVars, serverVars, restoreVars, queueVars, mainVars>>

\* Or the handler still finds the WSAEWOULDBLOCK of an earlier poll, takes the end
\* for a connection without data, and polls it for ever.
MissEnd(p) ==
  /\ hpc[p] = "poll"
  /\ conn[p] # 0 /\ AtEnd(p)
  /\ hpc' = [hpc EXCEPT ![p] = "deaf"]
  /\ UNCHANGED <<clientVars, linkVars, data, conn, netVars, serverVars, restoreVars, queueVars, mainVars>>

\* The Process ends, and for its client all is over.
Dies(p) ==
  /\ Event
  /\ hpc[p] # "dead"
  /\ hpc' = [hpc EXCEPT ![p] = "dead"]
  /\ cpc' = [cpc EXCEPT ![p] = "gone"]
  /\ toProcess' = [toProcess EXCEPT ![p] = <<>>]
  /\ toClient' = [toClient EXCEPT ![p] = <<>>]
  /\ wire' = [c \in Conn |-> IF c = conn[p] THEN <<>> ELSE wire[c]]
  /\ measurement' = [measurement EXCEPT ![p] = Blank(p)]
  /\ data' = [data EXCEPT ![p] = Blank(p)]
  /\ UNCHANGED <<foreign, conn, nconn, backlog,
                 closed, serverVars, restoreVars, queueVars, commandVars>>

-----------------------------------------------------------------------------
(* The original server: the acceptor on port 8500.                         *)

\* backupCMutex is held from the test of the predicate to the close of the
\* connection, except while the thread waits; the end of the thread releases it.
MutexHeld == spc \notin {"lock", "wait", "done", "failed", "dead"}

WrongAcceptBackup ==
  /\ apc = "accept"
  /\ ~stopFlag
  /\ backlog # <<>>
  /\ ~MutexHeld
  /\ backlog' = Tail(backlog)
  /\ backupConnections' = Append(backupConnections, Head(backlog))
  /\ UNCHANGED <<processVars, nconn, wire, closed, apc, threadVars, restoreVars, queueVars, mainVars>>

\* enqueue_request, which forgets the socket if the queue is full; nobody is
\* notified.  A socket in the acceptor's hands while it waits for the mutex is
\* as good as in the backlog.
AcceptBackup ==
  /\ apc = "accept"
  /\ ~stopFlag
  /\ backlog # <<>>
  /\ ~MutexHeld
  /\ backlog' = Tail(backlog)
  /\ backupConnections' = IF Len(backupConnections) = QueueCapacity THEN backupConnections
                          ELSE Append(backupConnections, Head(backlog))
  /\ UNCHANGED <<processVars, nconn, wire, closed, apc, threadVars, restoreVars, queueVars, mainVars>>

AcceptorEnds ==
  /\ apc = "accept"
  /\ stopFlag
  /\ apc' = "done"
  /\ closed' = closed \cup ToSet(backlog)
  /\ backlog' = <<>>
  /\ UNCHANGED <<processVars, nconn, wire, backupConnections, threadVars, restoreVars, queueVars, mainVars>>

-----------------------------------------------------------------------------
(* handleBackupToClient.                                                   *)

GotoS(place) == spc' = place

\* backupCMutex is locked and the predicate of the wait is evaluated.  Is it
\* false, the thread begins to wait in a step of its own; a wait may end by itself.
TestPredicate ==
  /\ spc = "lock"
  /\ backupConnections = <<>> /\ ~stopFlag
  /\ GotoS("block")
  /\ UNCHANGED <<processVars, netVars, apc, backupConnections, socket, mtx, chosen,
                 restoreVars, queueVars, mainVars>>

Block ==
  /\ spc = "block"
  /\ GotoS("wait")
  /\ UNCHANGED <<processVars, netVars, apc, backupConnections, socket, mtx, chosen,
                 restoreVars, queueVars, mainVars>>

ThreadEnds ==
  /\ spc = "lock"
  /\ stopFlag
  /\ GotoS("done")
  /\ UNCHANGED <<processVars, netVars, apc, backupConnections, socket, mtx, chosen,
                 restoreVars, queueVars, mainVars>>

\* The predicate is true: dequeue_request.  Then insert_mtx_to_map searches for a
\* mutex of the device chosen by now ...
TakeConnection ==
  /\ spc = "lock"
  /\ backupConnections # <<>> /\ ~stopFlag
  /\ socket' = Head(backupConnections)
  /\ backupConnections' = Tail(backupConnections)
  /\ IF nmtx[currentBackupChoice] = 0
     THEN GotoS("link") /\ mtx' = <<currentBackupChoice, 0>>
     ELSE GotoS("find") /\ UNCHANGED mtx
  /\ UNCHANGED <<processVars, netVars, apc, chosen, restoreVars, queueVars, mainVars>>

\* ... and puts one in front of those that are there by then.
LinkMutex ==
  /\ spc = "link"
  /\ nmtx' = [nmtx EXCEPT ![mtx[1]] = @ + 1]
  /\ mtx' = <<0, 0>>
  /\ GotoS("find")
  /\ UNCHANGED <<processVars, netVars, apc, backupConnections, socket, chosen,
                 restoreVars, queue, torn, mainVars>>

\* get_mtx_for_key, for the device chosen by now: if it has none the thread is at
\* its end, and its connection stays open.
FindMutex ==
  /\ spc = "find"
  /\ mtx' = <<currentBackupChoice, nmtx[currentBackupChoice]>>
  /\ GotoS(IF nmtx[currentBackupChoice] = 0 THEN "failed" ELSE "look")
  /\ UNCHANGED <<processVars, netVars, apc, backupConnections, socket, chosen,
                 restoreVars, queueVars, mainVars>>

CloseConnection ==
  /\ closed' = closed \cup {socket}
  /\ socket' = 0 /\ mtx' = <<0, 0>> /\ chosen' = 0
  /\ GotoS("lock")

Registered(d) == d # 0 /\ restored[d] > 0

\* With the mutex locked: contains_key ...
HasQueue ==
  /\ spc = "look"
  /\ Registered(currentBackupChoice)
  /\ GotoS("get")
  /\ UNCHANGED <<processVars, netVars, apc, backupConnections, socket, mtx, chosen,
                 restoreVars, queueVars, mainVars>>

WrongNoQueue ==
  /\ spc = "look"
  /\ ~Registered(currentBackupChoice)
  /\ GotoS("lock") /\ mtx' = <<0, 0>>
  /\ UNCHANGED <<processVars, netVars, apc, backupConnections, socket, chosen,
                 restoreVars, queueVars, mainVars>>

NoQueue ==
  /\ spc = "look"
  /\ ~Registered(currentBackupChoice)
  /\ CloseConnection
  /\ UNCHANGED <<processVars, nconn, backlog, wire, apc, backupConnections,
                 restoreVars, queueVars, mainVars>>

\* ... and get_queue_for_key, for the device chosen by then.
GetQueue ==
  /\ spc = "get"
  /\ Registered(currentBackupChoice)
  /\ chosen' = currentBackupChoice
  /\ GotoS("send")
  /\ UNCHANGED <<processVars, netVars, apc, backupConnections, socket, mtx,
                 restoreVars, queueVars, mainVars>>

\* If that device has none, free_queue is given NULL and the server is no more.
\* What it has sent is lost with it or is still received.
FreeNull ==
  /\ spc = "get"
  /\ ~Registered(currentBackupChoice)
  /\ mpc' = "crashed" /\ apc' = "done" /\ spc' = "dead" /\ rpc' = "dead"
  /\ queue' = [d \in Device |-> <<>>]
  /\ backlog' = <<>> /\ backupConnections' = <<>>
  /\ closed' = 1..nconn
  /\ wire' \in {wire, [c \in Conn |-> <<>>]}
  /\ UNCHANGED <<processVars, nconn, socket, mtx, chosen, rmtx, restoring, restored,
                 nmtx, torn, backup, currentBackupChoice, events>>

PeerIsDead == \E p \in Process : conn[p] = socket /\ hpc[p] = "dead"

\* On the connection of a Process that has died a send may still succeed ...
SendOne ==
  /\ spc = "send"
  /\ queue[chosen] # <<>>
  /\ wire' = IF PeerIsDead THEN wire
             ELSE [wire EXCEPT ![socket] = Append(@, Head(queue[chosen]))]
  /\ queue' = [queue EXCEPT ![chosen] = Tail(@)]
  /\ UNCHANGED <<processVars, nconn, backlog, closed, serverVars, restoreVars, nmtx, torn,
                 mainVars>>

WrongSendFails ==
  /\ spc = "send"
  /\ queue[chosen] # <<>>
  /\ PeerIsDead
  /\ queue' = [queue EXCEPT ![chosen] = <<>>]
  /\ CloseConnection
  /\ UNCHANGED <<processVars, nconn, backlog, wire, apc, backupConnections, restoreVars,
                 nmtx, torn, mainVars>>

\* ... until it fails: the measurement goes to the tail, and the loop goes on.
SendFails ==
  /\ spc = "send"
  /\ queue[chosen] # <<>>
  /\ PeerIsDead
  /\ queue' = [queue EXCEPT ![chosen] = Append(Tail(@), Head(@))]
  /\ UNCHANGED <<processVars, netVars, serverVars, restoreVars, nmtx, torn, mainVars>>

\* is_queue_empty ends the loop, and free_queue finds nothing to free.
QueueSent ==
  /\ spc = "send"
  /\ queue[chosen] = <<>>
  /\ CloseConnection
  /\ UNCHANGED <<processVars, nconn, backlog, wire, apc, backupConnections, restoreVars,
                 queueVars, mainVars>>

\* Of a damaged queue the head may be NULL and the size not 0: the loop never ends.
\* (What is sent then, again and again, is left out.)
LoopsForEver ==
  /\ spc = "send"
  /\ torn
  /\ GotoS("lost")
  /\ UNCHANGED <<processVars, netVars, apc, backupConnections, socket, mtx, chosen,
                 restoreVars, queueVars, mainVars>>

-----------------------------------------------------------------------------
(* getMessagesThread.                                                      *)

GotoR(place) == rpc' = place

\* The predicate of the wait, and the wait.  It holds again when no connection to
\* the copy could be made.
TestBackup ==
  /\ rpc = "check"
  /\ ~backup /\ ~stopFlag
  /\ GotoR("block")
  /\ UNCHANGED <<processVars, netVars, serverVars, rmtx, restoring, restored, queueVars,
                 mainVars>>

BlockBackup ==
  /\ rpc = "block"
  /\ GotoR("wait")
  /\ UNCHANGED <<processVars, netVars, serverVars, rmtx, restoring, restored, queueVars,
                 mainVars>>

BackupThreadEnds ==
  /\ rpc = "check"
  /\ stopFlag
  /\ GotoR("done")
  /\ UNCHANGED <<processVars, netVars, serverVars, rmtx, restoring, restored, queueVars,
                 mainVars>>

\* The copy is asked for the device chosen by now.
StartRestore ==
  /\ rpc = "check"
  /\ backup /\ ~stopFlag
  /\ restoring' = currentBackupChoice
  /\ GotoR("insert")
  /\ UNCHANGED <<processVars, netVars, serverVars, rmtx, restored, queueVars, mainVars>>

\* Before every measurement a mutex is searched for, made and looked up as above,
\* for the device chosen by now, which need not be the one restored.
SearchMutexAgain ==
  /\ rpc = "insert"
  /\ IF nmtx[currentBackupChoice] = 0
     THEN GotoR("link") /\ rmtx' = <<currentBackupChoice, 0>>
     ELSE GotoR("find") /\ UNCHANGED rmtx
  /\ UNCHANGED <<processVars, netVars, serverVars, restoring, restored, queueVars, mainVars>>

LinkMutexAgain ==
  /\ rpc = "link"
  /\ nmtx' = [nmtx EXCEPT ![rmtx[1]] = @ + 1]
  /\ rmtx' = <<0, 0>>
  /\ GotoR("find")
  /\ UNCHANGED <<processVars, netVars, serverVars, restoring, restored, queue, torn,
                 mainVars>>

FindMutexAgain ==
  /\ rpc = "find"
  /\ rmtx' = <<currentBackupChoice, nmtx[currentBackupChoice]>>
  /\ GotoR(IF nmtx[currentBackupChoice] = 0 THEN "failed" ELSE "receive")
  /\ UNCHANGED <<processVars, netVars, serverVars, restoring, restored, queueVars, mainVars>>

\* ReceiveAndFilterMessages gets nothing ...
ReceiveNothing ==
  /\ rpc = "receive"
  /\ ~stopFlag
  /\ rmtx' = <<0, 0>>
  /\ GotoR("insert")
  /\ UNCHANGED <<processVars, netVars, serverVars, restoring, restored, queueVars, mainVars>>

\* The other thread holds this mutex, or is in the queue of this device while it
\* holds another.
Excluded == spc \in {"get", "send", "lost"} /\ mtx = rmtx
Meddling == spc \in {"send", "lost"} /\ chosen = restoring /\ mtx # rmtx

\* ... or a measurement of that device, which EnqueueToMap puts into its queue once
\* it has the mutex.  A queue that two threads have been in at once may lose it,
\* and all that it holds.
Restore ==
  /\ rpc = "receive"
  /\ ~stopFlag
  /\ FoldFunction(+, 0, restored) < MaxRestored
  /\ ~Excluded
  /\ restored' = [restored EXCEPT ![restoring] = @ + 1]
  /\ torn' = (torn \/ Meddling)
  /\ \/ queue' = [queue EXCEPT ![restoring] =
                     Append(@, Stored(restoring, restored[restoring] + 1))]
     \/ torn' /\ queue' = [queue EXCEPT ![restoring] = <<>>]
  /\ rmtx' = <<0, 0>>
  /\ GotoR("insert")
  /\ UNCHANGED <<processVars, netVars, serverVars, restoring, nmtx, mainVars>>

\* The end of the backup, or of the connection, or of the server.  A device chosen
\* meanwhile is forgotten.  clientInitiated is false, as no Process ever forwards a
\* request: nobody is notified.
EndRestore ==
  /\ rpc = "receive"
  /\ restoring' = 0 /\ rmtx' = <<0, 0>>
  /\ backup' = FALSE
  /\ GotoR("check")
  /\ UNCHANGED <<processVars, netVars, serverVars, restored, queueVars,
                 currentBackupChoice, mpc, events>>

-----------------------------------------------------------------------------
(* The main thread.                                                        *)

\* A device is chosen at the console, and a thread that waits for it is notified.
Choose(d) ==
  /\ mpc = "menu"
  /\ Event
  /\ currentBackupChoice' = d
  /\ backup' = TRUE
  /\ GotoR(IF rpc = "wait" THEN "check" ELSE rpc)
  /\ UNCHANGED <<processVars, netVars, serverVars, rmtx, restoring, restored, queueVars, mpc>>

Exit ==
  /\ mpc = "menu"
  /\ mpc' = "notify"
  /\ UNCHANGED <<processVars, netVars, serverVars, restoreVars, queueVars, backup,
                 currentBackupChoice, events>>

WrongNotifyAll ==
  /\ mpc = "notify"
  /\ mpc' = "join"
  /\ GotoR(IF rpc = "wait" THEN "check" ELSE rpc)
  /\ UNCHANGED <<processVars, netVars, serverVars, rmtx, restoring, restored, queueVars,
                 backup, currentBackupChoice, events>>

\* backupCondition.notify_all and backupConditionClient.notify_all, without their
\* mutexes.
NotifyAll ==
  /\ mpc = "notify"
  /\ mpc' = "join"
  /\ GotoS(IF spc = "wait" THEN "lock" ELSE spc)
  /\ GotoR(IF rpc = "wait" THEN "check" ELSE rpc)
  /\ UNCHANGED <<processVars, netVars, apc, backupConnections, socket, mtx, chosen,
                 rmtx, restoring, restored, queueVars, backup, currentBackupChoice, events>>

\* The waits for these threads are over, and the server cleans up and ends.
Joined ==
  /\ mpc = "join"
  /\ apc = "done" /\ {spc, rpc} \subseteq {"done", "failed"}
  /\ mpc' = "done"
  /\ queue' = [d \in Device |-> <<>>]
  /\ backupConnections' = <<>>
  /\ closed' = 1..nconn
  /\ UNCHANGED <<processVars, nconn, backlog, wire, apc, threadVars, restoreVars, nmtx, torn,
                 backup, currentBackupChoice, events>>

\* Either wait may end by itself.
SpuriousWakeup ==
  /\ \/ spc = "wait" /\ GotoS("lock") /\ UNCHANGED rpc
     \/ rpc = "wait" /\ GotoR("check") /\ UNCHANGED spc
  /\ UNCHANGED <<processVars, netVars, apc, backupConnections, socket, mtx, chosen,
                 rmtx, restoring, restored, queueVars, mainVars>>

-----------------------------------------------------------------------------

Handler(p) ==
  \/ ForwardMessage(p) \/ TakeRequest(p)
  \/ Relay(p) \/ AnswerEnd(p) \/ MissEnd(p)

Acceptor == AcceptBackup \/ AcceptorEnds

ClientThread ==
  \/ TestPredicate \/ Block \/ ThreadEnds
  \/ TakeConnection \/ LinkMutex \/ FindMutex
  \/ HasQueue \/ NoQueue \/ GetQueue \/ FreeNull
  \/ SendOne \/ SendFails \/ QueueSent \/ LoopsForEver

BackupThread ==
  \/ TestBackup \/ BlockBackup \/ BackupThreadEnds \/ StartRestore
  \/ SearchMutexAgain \/ LinkMutexAgain \/ FindMutexAgain
  \/ ReceiveNothing \/ Restore \/ EndRestore

MainThread == NotifyAll \/ Joined

Next ==
  \/ \E p \in Process : Enter(p) \/ RequestBackup(p) \/ Receive(p) \/ Handler(p) \/ Dies(p)
  \/ Acceptor \/ ClientThread \/ BackupThread \/ SpuriousWakeup
  \/ \E d \in Device : Choose(d)
  \/ Exit \/ MainThread

Spec == Init /\ [][Next]_vars

Others ==
  \/ \E p \in Process : Receive(p) \/ Handler(p)
  \/ Acceptor \/ MainThread

\* The two threads keep running and so do the others, all of which come to rest
\* after a while, so that it need not be said which runs.  Nobody need enter
\* anything or end a program, no measurement need come, and a wait need not end by
\* itself.
FairSpec == Spec /\ WF_<<spc, queue>>(ClientThread) /\ WF_rpc(BackupThread) /\ WF_vars(Others)

-----------------------------------------------------------------------------
(* Properties.                                                             *)

\* Types.
TypeOK ==
  /\ cpc \in [Process -> {"menu", "wait", "gone"}]
  /\ measurement \in [Process -> Measurement]
  /\ toProcess \in [Process -> Seq(Measurement)]
  /\ toClient \in [Process -> Seq(Measurement)]
  /\ hpc \in [Process -> {"recv", "poll", "deaf", "dead"}]
  /\ data \in [Process -> Measurement]
  /\ conn \in [Process -> 0..nconn]
  /\ nconn \in 0..MaxConns
  /\ backlog \in Seq(1..nconn)
  /\ wire \in [Conn -> Seq(Measurement)]
  /\ closed \subseteq 1..nconn
  /\ apc \in {"accept", "done"}
  /\ backupConnections \in Seq(1..nconn) /\ Len(backupConnections) <= QueueCapacity
  /\ spc \in {"lock", "block", "wait", "link", "find", "look", "get", "send", "done",
             "failed", "lost", "dead"}
  /\ rpc \in {"check", "block", "wait", "insert", "link", "find", "receive", "done",
             "failed", "dead"}
  /\ socket \in 0..nconn
  /\ {mtx, rmtx} \subseteq (Device \cup {0}) \X Nat
  /\ {chosen, currentBackupChoice, restoring} \subseteq Device \cup {0}
  /\ backup \in BOOLEAN /\ torn \in BOOLEAN
  /\ nmtx \in [Device \cup {0} -> Nat]
  /\ queue \in [Device -> Seq(Measurement)]
  /\ restored \in [Device -> Nat]
  /\ mpc \in {"menu", "notify", "join", "done", "crashed"}
  /\ foreign \subseteq Process
  /\ events \in 0..MaxEvents

Sequences == Range(queue) \cup Range(wire) \cup Range(toClient)

\* Where a restored measurement is until its client has it.
Kept == {m \in UNION {ToSet(s) : s \in Sequences} : m.purpose = RESTORED}

\* The steps that lose restored measurements: a Process dies, or is sent one
\* after it has died, the original ends or crashes, and what happens to a queue
\* once two threads have been in it with different mutexes.
LossyStep ==
  \/ \E p \in Process : Dies(p)
  \/ PeerIsDead /\ SendOne
  \/ Joined \/ FreeNull
  \/ torn' /\ Restore

\* No other step does, except that a client receives one.
NothingElseLost ==
  [][Kept \subseteq Kept' \/ LossyStep \/ \E p \in Process : Receive(p)]_vars

\* A client that waits until it is told END_OF_QUEUE leaves nothing of an answer
\* to be taken for the next one.
NoOldAnswers ==
  \A p \in Process :
    cpc[p] = "menu" => hpc[p] = "recv" /\ toClient[p] = <<>>

\* A client sends measurements of its own device, unless it has been given
\* another one's backup.
OwnDevice == \A p \in Process : measurement[p].deviceId = p \/ p \in foreign

\* Clients whose connection is served, or has been closed by the original.
Served == {p \in Process : conn[p] # 0 /\ conn[p] \in closed \cup {socket}}

\* The thread has found no mutex, or does not get out of a damaged queue.
Stuck == spc = "failed" \/ torn

\* Whoever is served gets to the end of the backup, unless the handler misses the
\* end or the thread is stuck with the connection: again and again no other client
\* is served and still waits.
ServedIsAnswered ==
  []<>(\A p \in Served :
         cpc[p] # "wait" \/ hpc[p] = "deaf" \/ (Stuck /\ conn[p] \notin closed))

\* The thread that sends to a dead Process.
Spinning == spc = "send" /\ PeerIsDead /\ queue[chosen] # <<>>

\* The original ends when told so, unless one of its threads is on its way into a
\* wait at that moment, or the other cannot get rid of a measurement or out of a
\* damaged queue.
ServerEnds ==
  (mpc = "notify" /\ "block" \notin {spc, rpc}) ~> (mpc \in {"done", "crashed"} \/ Spinning \/ torn)

=============================================================================
