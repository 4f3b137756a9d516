------------------------------- MODULE Backup -------------------------------
(***************************************************************************)
(* Restoring a device's measurements: the backup thread of the original    *)
(* server (Replication.cpp, getMessagesThread) asks the copy server        *)
(* (CopyService.cpp, getMessagesThread with ServiceHelper.cpp), which asks *)
(* each copy process in turn (CopyProcess.cpp) and relays what the one     *)
(* with the device's queue takes out of it.                                *)
(*                                                                         *)
(* Each direction of a connection is a first-in first-out sequence.  The   *)
(* copy server and its processes stay up; what happens to a device's       *)
(* measurements before they reach its process is in QueueDelivery.         *)
(***************************************************************************)
EXTENDS Integers, Sequences, SequencesExt

CONSTANTS
  NumProcesses,  \* copy processes, and devices: 3
  MaxMessages,   \* bound: measurements per device
  MaxConns,      \* bound: connections opened by the backup thread
  MaxRequests,   \* bound: backups chosen at the console
  MaxWakeups,    \* bound: Process connections a handler takes
  MaxTimeouts    \* bound: acknowledgements that take longer than 1 s

ASSUME ConstantsAssumption ==
  /\ NumProcesses \in Nat \ {0}
  /\ {MaxMessages, MaxConns, MaxRequests, MaxWakeups, MaxTimeouts} \subseteq Nat

Device == 1..NumProcesses
Process == 1..NumProcesses  \* in the order the copy server accepted them
Conn == 1..MaxConns

\* The purposes a relayed message is told apart by: a stored measurement is
\* sent as 505, and -4 says that no process has the device's queue.
DATA == 505
END_OF_QUEUE == -1
SKIP_QUEUE == -2
EMPTY_QUEUE == -3
NO_PROCESS == -4
Purpose == {DATA, END_OF_QUEUE, SKIP_QUEUE, EMPTY_QUEUE, NO_PROCESS}

Message == [purpose : Purpose, deviceId : Device, seq : Nat]
Signal(p, d) == [purpose |-> p, deviceId |-> d, seq |-> 0]
Stored(d, n) == [purpose |-> DATA, deviceId |-> d, seq |-> n]

VARIABLES
  \* the original server
  currentBackupChoice, backup,
  cpc,        \* where the console is
  opc,        \* where the backup thread is
  oconn,      \* backupRequest, 0 before the first
  odev,       \* the device it asked for
  mutexes,    \* queueMtxsBackup: the devices that have a mutex
  restored,   \* messageQueuesBackup: numbers of the measurements, per device
  \* the connections to port 9000
  nconn,      \* opened so far
  backlog,    \* not accepted by the copy yet
  request,    \* the unread request in each, 0 if none
  acks,       \* unread acknowledgement bytes
  reply,      \* messages relayed to the original and not yet read
  closed,     \* connections the original has closed
  \* the backup thread of the copy server
  bpc, bconn, bdev, bproc,  \* where it is, its connection, device and process
  bnum,       \* processes that had the device's queue
  \* the copy processes
  feeds,      \* the process that gets each device's measurements
  ask,        \* the unread request sent to each, 0 if none
  answer,     \* messages sent by each and not yet read
  processID,  \* the device each has been assigned, 0 if none
  store,      \* messageBackup: the measurements each keeps
  \* history and bounds
  sent,       \* measurements stored by the copy processes so far, per device
  wanted,     \* devices chosen at the console and not restored since
  requests, wakeups, timeouts

consoleVars == <<currentBackupChoice, cpc, wanted, requests>>
origVars == <<opc, oconn, odev, mutexes, restored>>
netVars == <<nconn, backlog, request, acks, reply, closed>>
copyVars == <<bpc, bconn, bdev, bproc, bnum>>
procVars == <<feeds, ask, answer, processID, store, sent>>
vars == <<consoleVars, backup, origVars, netVars, copyVars, procVars, wakeups, timeouts>>

\* The three processes may have connected in any order.
Init ==
  /\ currentBackupChoice = 1 /\ backup = FALSE /\ cpc = "menu"
  /\ opc = "check" /\ oconn = 0 /\ odev = 1 /\ mutexes = {}
  /\ restored = [d \in Device |-> <<>>]
  /\ nconn = 0 /\ backlog = <<>> /\ closed = {}
  /\ request = [c \in Conn |-> 0]
  /\ acks = [c \in Conn |-> 0]
  /\ reply = [c \in Conn |-> <<>>]
  /\ bpc = "accept" /\ bconn = 0 /\ bdev = 1 /\ bproc = 1 /\ bnum = 0
  /\ feeds \in Bijection(Device, Process)
  /\ ask = [p \in Process |-> 0]
  /\ answer = [p \in Process |-> <<>>]
  /\ processID = [p \in Process |-> 0]
  /\ store = [p \in Process |-> <<>>]
  /\ sent = [d \in Device |-> 0]
  /\ wanted = {} /\ requests = 0 /\ wakeups = 0 /\ timeouts = 0

-----------------------------------------------------------------------------
(* The console (InputCommands) and the other thread that writes backup.    *)

\* A device's number is typed.
Choose(d) ==
  /\ cpc = "menu"
  /\ requests < MaxRequests
  /\ requests' = requests + 1
  /\ currentBackupChoice' = d
  /\ wanted' = wanted \cup {d}
  /\ cpc' = "raise"
  /\ UNCHANGED <<backup, origVars, netVars, copyVars, procVars, wakeups, timeouts>>

\* backup = true, without backupMutex ...
RaiseBackup ==
  /\ cpc = "raise"
  /\ backup' = TRUE
  /\ cpc' = "notify"
  /\ UNCHANGED <<currentBackupChoice, wanted, requests, origVars, netVars,
                 copyVars, procVars, wakeups, timeouts>>

\* ... and notify_one, which only a thread already waiting hears.
NotifyBackup ==
  /\ cpc = "notify"
  /\ opc' = IF opc = "wait" THEN "check" ELSE opc
  /\ cpc' = "menu"
  /\ UNCHANGED <<currentBackupChoice, wanted, requests, backup, oconn, odev,
                 mutexes, restored, netVars, copyVars, procVars, wakeups, timeouts>>

\* A handler of handleProcesses that takes a connection resets backup.
HandlerWakes ==
  /\ wakeups < MaxWakeups
  /\ wakeups' = wakeups + 1
  /\ backup' = FALSE
  /\ UNCHANGED <<consoleVars, origVars, netVars, copyVars, procVars, timeouts>>

-----------------------------------------------------------------------------
(* The backup thread of the original server.                               *)

\* The predicate of backupCondition.wait is evaluated ...
CheckBackup ==
  /\ opc = "check"
  /\ opc' = IF backup THEN "connect" ELSE "block"
  /\ UNCHANGED <<consoleVars, backup, oconn, odev, mutexes, restored, netVars,
                 copyVars, procVars, wakeups, timeouts>>

\* ... and if it is false the thread begins to wait; a wait may end by itself.
BlockOnBackup ==
  /\ opc = "block"
  /\ opc' = "wait"
  /\ UNCHANGED <<consoleVars, backup, oconn, odev, mutexes, restored, netVars,
                 copyVars, procVars, wakeups, timeouts>>

SpuriousWakeup ==
  /\ opc = "wait"
  /\ opc' = "check"
  /\ UNCHANGED <<consoleVars, backup, oconn, odev, mutexes, restored, netVars,
                 copyVars, procVars, wakeups, timeouts>>

\* Connector, then the request for the device chosen by now.
SendRequest ==
  /\ opc = "connect"
  /\ nconn < MaxConns
  /\ nconn' = nconn + 1
  /\ backlog' = Append(backlog, nconn + 1)
  /\ request' = [request EXCEPT ![nconn + 1] = currentBackupChoice]
  /\ oconn' = nconn + 1 /\ odev' = currentBackupChoice
  /\ opc' = "ack"
  /\ UNCHANGED <<consoleVars, backup, mutexes, restored, acks, reply, closed,
                 copyVars, procVars, wakeups, timeouts>>

AckArrives ==
  /\ opc = "ack"
  /\ acks[oconn] > 0
  /\ acks' = [acks EXCEPT ![oconn] = @ - 1]
  /\ opc' = "insert"
  /\ UNCHANGED <<consoleVars, backup, oconn, odev, mutexes, restored, nconn,
                 backlog, request, reply, closed, copyVars, procVars, wakeups,
                 timeouts>>

\* A copy server that reads from a connection the original has given up on
\* will never acknowledge another one.
Stuck == bpc = "recv" /\ bconn # oconn /\ bconn \notin closed /\ request[bconn] = 0

\* No acknowledgement within a second: the connection is left open and the
\* loop starts again, backup still set.
AckTimeout ==
  /\ opc = "ack"
  /\ acks[oconn] = 0
  /\ \/ timeouts < MaxTimeouts /\ timeouts' = timeouts + 1
     \/ Stuck /\ UNCHANGED timeouts
  /\ opc' = "check"
  /\ UNCHANGED <<consoleVars, backup, oconn, odev, mutexes, restored, netVars,
                 copyVars, procVars, wakeups>>

\* Each time it receives, the device chosen by now is given a mutex if it has
\* none ...
InsertMutex ==
  /\ opc = "insert"
  /\ mutexes' = mutexes \cup {currentBackupChoice}
  /\ opc' = "find"
  /\ UNCHANGED <<consoleVars, backup, oconn, odev, restored, netVars, copyVars,
                 procVars, wakeups, timeouts>>

\* ... and the mutex of the device chosen by then is looked up; where there is
\* none the thread returns, and leaves the connection open.
FindMutex ==
  /\ opc = "find"
  /\ opc' = IF currentBackupChoice \in mutexes THEN "recv" ELSE "failed"
  /\ UNCHANGED <<consoleVars, backup, oconn, odev, mutexes, restored, netVars,
                 copyVars, procVars, wakeups, timeouts>>

\* ReceiveAndFilterMessages: nothing has come yet ...
ReceiveNothing ==
  /\ opc = "recv"
  /\ reply[oconn] = <<>>
  /\ opc' = "insert"
  /\ UNCHANGED <<consoleVars, backup, oconn, odev, mutexes, restored, netVars,
                 copyVars, procVars, wakeups, timeouts>>

\* ... or a signal, which ends the backup, or else a measurement of it.
ReceiveBackup ==
  /\ opc = "recv"
  /\ reply[oconn] # <<>>
  /\ LET m == Head(reply[oconn]) IN
       IF m.purpose = DATA
       THEN /\ restored' = [restored EXCEPT ![m.deviceId] = Append(@, m.seq)]
            /\ opc' = "insert"
       ELSE opc' = "finish" /\ UNCHANGED restored
  /\ reply' = [reply EXCEPT ![oconn] = Tail(@)]
  /\ UNCHANGED <<consoleVars, backup, oconn, odev, mutexes, nconn, backlog,
                 request, acks, closed, copyVars, procVars, wakeups, timeouts>>

\* backup = false, whoever set it last, and closesocket.
FinishBackup ==
  /\ opc = "finish"
  /\ backup' = FALSE
  /\ closed' = closed \cup {oconn}
  /\ wanted' = wanted \ {odev}
  /\ opc' = "check"
  /\ UNCHANGED <<currentBackupChoice, cpc, requests, oconn, odev, mutexes,
                 restored, nconn, backlog, request, acks, reply, copyVars, procVars,
                 wakeups, timeouts>>

-----------------------------------------------------------------------------
(* The backup thread of the copy server.                                   *)

AcceptBackup ==
  /\ bpc = "accept"
  /\ backlog # <<>>
  /\ bconn' = Head(backlog) /\ backlog' = Tail(backlog)
  /\ bpc' = "recv"
  /\ UNCHANGED <<bdev, bproc, bnum, consoleVars, backup, origVars, nconn,
                 request, acks, reply, closed, procVars, wakeups, timeouts>>

\* (Each Wrong... operator is a plausible bug in the definition after it; no
\* specification uses it.)
WrongReadRequest ==
  /\ bpc = "recv"
  /\ request[bconn] # 0
  /\ bdev' = request[bconn]
  /\ request' = [request EXCEPT ![bconn] = 0]
  /\ acks' = [acks EXCEPT ![bconn] = @ + 1]
  /\ bpc' = "ask" /\ bproc' = 1
  /\ UNCHANGED <<bnum, bconn, consoleVars, backup, origVars, nconn, backlog,
                 reply, closed, procVars, wakeups, timeouts>>

\* A request is read (the socket is blocking here) and acknowledged; the
\* non-blocking receive that follows finds nothing.
ReadRequest ==
  /\ bpc = "recv"
  /\ request[bconn] # 0
  /\ bdev' = request[bconn]
  /\ request' = [request EXCEPT ![bconn] = 0]
  /\ acks' = [acks EXCEPT ![bconn] = @ + 1]
  /\ bpc' = "ask" /\ bproc' = 1 /\ bnum' = 0
  /\ UNCHANGED <<bconn, consoleVars, backup, origVars, nconn, backlog, reply,
                 closed, procVars, wakeups, timeouts>>

\* The original has closed the connection: ready for the next one.
RequestorGone ==
  /\ bpc = "recv"
  /\ request[bconn] = 0 /\ bconn \in closed
  /\ bpc' = "accept"
  /\ UNCHANGED <<bconn, bdev, bproc, bnum, consoleVars, backup, origVars,
                 netVars, procVars, wakeups, timeouts>>

WrongAskProcess ==
  /\ bpc = "ask"
  /\ ask' = [p \in Process |-> bdev]
  /\ bpc' = "relay"
  /\ UNCHANGED <<bconn, bdev, bproc, bnum, consoleVars, backup, origVars,
                 netVars, feeds, answer, processID, store, sent, wakeups, timeouts>>

\* HandleBackupRequest22 turns to the next process ...
AskProcess ==
  /\ bpc = "ask"
  /\ ask' = [ask EXCEPT ![bproc] = bdev]
  /\ bpc' = "relay"
  /\ UNCHANGED <<bconn, bdev, bproc, bnum, consoleVars, backup, origVars,
                 netVars, feeds, answer, processID, store, sent, wakeups, timeouts>>

\* ... and ProcessDataTransfer33 passes its measurements on ...
RelayData ==
  /\ bpc = "relay"
  /\ answer[bproc] # <<>>
  /\ Head(answer[bproc]).purpose = DATA
  /\ reply' = [reply EXCEPT ![bconn] = Append(@, Head(answer[bproc]))]
  /\ answer' = [answer EXCEPT ![bproc] = Tail(@)]
  /\ UNCHANGED <<copyVars, consoleVars, backup, origVars, nconn, backlog,
                 request, acks, closed, feeds, ask, processID, store, sent,
                 wakeups, timeouts>>

WrongNextProcess == bpc' = "ask" /\ bproc' = bproc + 1

NextProcess ==
  IF bproc = NumProcesses
  THEN bpc' = "recv" /\ UNCHANGED bproc
  ELSE bpc' = "ask" /\ bproc' = bproc + 1

WrongRelaySignal ==
  /\ bpc = "relay"
  /\ answer[bproc] # <<>>
  /\ Head(answer[bproc]).purpose # DATA
  /\ LET m == Head(answer[bproc])
         found == m.purpose # SKIP_QUEUE
         none == ~found /\ bproc = NumProcesses
     IN /\ reply' = [reply EXCEPT ![bconn] =
                       (IF found THEN Append(@, m) ELSE @)
                       \o (IF none THEN <<Signal(NO_PROCESS, m.deviceId)>> ELSE <<>>)]
        /\ bnum' = bnum + (IF found THEN 1 ELSE 0)
  /\ answer' = [answer EXCEPT ![bproc] = Tail(@)]
  /\ NextProcess
  /\ UNCHANGED <<bconn, bdev, consoleVars, backup, origVars, nconn, backlog,
                 request, acks, closed, feeds, ask, processID, store, sent,
                 wakeups, timeouts>>

\* ... until a signal, which it passes on unless the process has another
\* device's queue; after the last process the original is told if all had.
RelaySignal ==
  /\ bpc = "relay"
  /\ answer[bproc] # <<>>
  /\ Head(answer[bproc]).purpose # DATA
  /\ LET m == Head(answer[bproc])
         found == m.purpose # SKIP_QUEUE
         none == ~found /\ bnum = 0 /\ bproc = NumProcesses
     IN /\ reply' = [reply EXCEPT ![bconn] =
                       (IF found THEN Append(@, m) ELSE @)
                       \o (IF none THEN <<Signal(NO_PROCESS, m.deviceId)>> ELSE <<>>)]
        /\ bnum' = bnum + (IF found THEN 1 ELSE 0)
  /\ answer' = [answer EXCEPT ![bproc] = Tail(@)]
  /\ NextProcess
  /\ UNCHANGED <<bconn, bdev, consoleVars, backup, origVars, nconn, backlog,
                 request, acks, closed, feeds, ask, processID, store, sent,
                 wakeups, timeouts>>

-----------------------------------------------------------------------------
(* Copy process p.                                                         *)

\* processDataFromCopy: an empty store is assigned to the measurement's
\* device.
StoreMeasurement(p, d) ==
  /\ feeds[d] = p
  /\ sent[d] < MaxMessages
  /\ sent' = [sent EXCEPT ![d] = @ + 1]
  /\ processID' = [processID EXCEPT ![p] = IF store[p] = <<>> THEN d ELSE @]
  /\ store' = IF processID'[p] = d
              THEN [store EXCEPT ![p] = Append(@, Stored(d, sent[d] + 1))]
              ELSE store
  /\ UNCHANGED <<consoleVars, backup, origVars, netVars, copyVars, feeds, ask,
                 answer, wakeups, timeouts>>

WrongAnswerRequest(p) ==
  /\ ask[p] # 0
  /\ ask' = [ask EXCEPT ![p] = 0]
  /\ IF processID[p] # ask[p]
     THEN answer' = [answer EXCEPT ![p] = Append(@, Signal(SKIP_QUEUE, ask[p]))]
     ELSE IF store[p] = <<>>
          THEN answer' = [answer EXCEPT ![p] = Append(@, Signal(EMPTY_QUEUE, ask[p]))]
          ELSE answer' = [answer EXCEPT ![p] =
                            (@ \o store[p]) \o <<Signal(END_OF_QUEUE, ask[p])>>]
  /\ UNCHANGED <<store, feeds, processID, sent, consoleVars, backup, origVars,
                 netVars, copyVars, wakeups, timeouts>>

\* getMessagesThread: the whole store is taken out and sent under queueMutex,
\* so that no measurement can come in between.
AnswerRequest(p) ==
  /\ ask[p] # 0
  /\ ask' = [ask EXCEPT ![p] = 0]
  /\ IF processID[p] # ask[p]
     THEN /\ answer' = [answer EXCEPT ![p] = Append(@, Signal(SKIP_QUEUE, ask[p]))]
          /\ UNCHANGED store
     ELSE /\ answer' = [answer EXCEPT ![p] =
                          IF store[p] = <<>>
                          THEN Append(@, Signal(EMPTY_QUEUE, ask[p]))
                          ELSE (@ \o store[p]) \o <<Signal(END_OF_QUEUE, ask[p])>>]
          /\ store' = [store EXCEPT ![p] = <<>>]
  /\ UNCHANGED <<feeds, processID, sent, consoleVars, backup, origVars,
                 netVars, copyVars, wakeups, timeouts>>

-----------------------------------------------------------------------------

Console == (\E d \in Device : Choose(d)) \/ RaiseBackup \/ NotifyBackup

BackupThread ==
  \/ CheckBackup \/ BlockOnBackup
  \/ SendRequest \/ AckArrives \/ AckTimeout
  \/ InsertMutex \/ FindMutex
  \/ ReceiveNothing \/ ReceiveBackup \/ FinishBackup

CopyThread ==
  \/ AcceptBackup \/ ReadRequest \/ RequestorGone
  \/ AskProcess \/ RelayData \/ RelaySignal

Next ==
  \/ Console \/ HandlerWakes
  \/ BackupThread \/ SpuriousWakeup
  \/ CopyThread
  \/ \E p \in Process : AnswerRequest(p) \/ \E d \in Device : StoreMeasurement(p, d)

Spec == Init /\ [][Next]_vars

\* The threads keep running; nothing obliges anyone to choose a backup, a
\* device to produce, or a wait to end by itself.
FairSpec ==
  /\ Spec
  /\ WF_vars(RaiseBackup \/ NotifyBackup)
  /\ WF_vars(BackupThread)
  /\ WF_vars(CopyThread)
  /\ \A p \in Process : WF_vars(AnswerRequest(p))

-----------------------------------------------------------------------------
(* Properties.                                                             *)

TypeOK ==
  /\ currentBackupChoice \in Device
  /\ backup \in BOOLEAN
  /\ cpc \in {"menu", "raise", "notify"}
  /\ opc \in {"check", "block", "wait", "connect", "ack", "insert", "find",
              "recv", "finish", "failed"}
  /\ oconn \in 0..nconn
  /\ odev \in Device
  /\ mutexes \subseteq Device
  /\ restored \in [Device -> Seq(Nat)]
  /\ nconn \in 0..MaxConns
  /\ backlog \in Seq(Conn)
  /\ request \in [Conn -> Device \cup {0}]
  /\ acks \in [Conn -> Nat]
  /\ reply \in [Conn -> Seq(Message)]
  /\ closed \subseteq Conn
  /\ bpc \in {"accept", "recv", "ask", "relay"}
  /\ bconn \in 0..nconn
  /\ bdev \in Device
  /\ bproc \in Process
  /\ bnum \in 0..NumProcesses
  /\ feeds \in [Device -> Process]
  /\ ask \in [Process -> Device \cup {0}]
  /\ answer \in [Process -> Seq(Message)]
  /\ processID \in [Process -> Device \cup {0}]
  /\ store \in [Process -> Seq(Message)]
  /\ sent \in [Device -> Nat]
  /\ wanted \subseteq Device
  /\ requests \in 0..MaxRequests
  /\ wakeups \in 0..MaxWakeups
  /\ timeouts \in 0..MaxTimeouts

\* Measurements in the order of their numbers, device by device.
Ascending(s) ==
  \A i, j \in 1..Len(s) :
    i < j /\ s[i].purpose = DATA /\ s[j].purpose = DATA /\ s[i].deviceId = s[j].deviceId
      => s[i].seq < s[j].seq

\* The measurements in a sequence of messages, and what the original's backup
\* thread may still read.
Data(s) == {m \in ToSet(s) : m.purpose = DATA}
Incoming == IF oconn \in Conn THEN reply[oconn] ELSE <<>>

\* The way back of device d's measurements, from its end: restored, at the
\* original's socket, at the copy's, stored by the copy process.
Way(d) ==
  [i \in 1..Len(restored[d]) |-> Stored(d, restored[d][i])]
  \o Incoming \o answer[feeds[d]] \o store[feeds[d]]

\* Every measurement a copy process has stored is, exactly once and in order,
\* in the original's backup, on its way there or still stored, although the
\* process deletes it as it sends it.
NoMeasurementLost ==
  \A d \in Device :
    /\ Ascending(Way(d))
    /\ {m \in Data(Way(d)) : m.deviceId = d} = {Stored(d, n) : n \in 1..sent[d]}

\* That holds as long as no acknowledgement of a request was late and the
\* original's backup thread has not returned, leaving what it was sent unread.
BackupComplete == timeouts = 0 /\ opc # "failed" => NoMeasurementLost

\* Whatever is late, nothing is restored twice or out of order.
RestoredInOrder ==
  \A d \in Device : \A i, j \in 1..Len(restored[d]) :
    i < j => restored[d][i] < restored[d][j]

\* When the original closes a connection nothing it was sent is unread, and
\* the copy has nothing more to send: the one signal that ends a backup comes
\* after all of it.
CleanClose ==
  \A c \in closed \cup (IF opc = "finish" THEN {oconn} ELSE {}) :
    /\ reply[c] = <<>>
    /\ bconn = c /\ bpc = "relay" =>
         \A i \in 1..Len(answer[bproc]) : answer[bproc][i].purpose = SKIP_QUEUE

\* The processes answer the request they were asked, and no earlier one: no
\* message of an old backup is waiting when a new one begins.
NoOldAnswers ==
  \A p \in Process :
    ask[p] # 0 \/ answer[p] # <<>> =>
      /\ bpc = "relay" /\ bproc = p
      /\ ask[p] # 0 => ask[p] = bdev /\ answer[p] = <<>>
      /\ \A i \in 1..Len(answer[p]) : answer[p][i].deviceId = bdev

\* A request that was sent is answered to the end, if no acknowledgement is
\* late, unless the thread returns; it only does after a choice that it has not
\* sent a request for.
RequestAnswered ==
  opc = "ack" ~> opc = "finish" \/ (opc = "failed" /\ requests > nconn) \/ timeouts > 0

\* A backup chosen at the console is carried out.
ChoiceCarriedOut == \A d \in Device : d \in wanted ~> d \notin wanted

=============================================================================
