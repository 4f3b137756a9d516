------------------------- MODULE ClientBackupProofs -------------------------
(***************************************************************************)
(* What holds of a client's backup for any number of Processes, requests,  *)
(* connections, restored measurements, choices at the console and deaths.  *)
(***************************************************************************)
EXTENDS ClientBackup, SequenceLemmas

\* The one thread's socket and device while it serves a connection, and the other's
\* device while it restores.
Serving == {"link", "find", "look", "get", "send"}
Restoring == {"insert", "link", "find", "receive"}
ThreadServes ==
  /\ spc \in Serving => socket \in 1..nconn
  /\ spc = "send" => chosen \in Device
  /\ backup => currentBackupChoice \in Device
  /\ rpc \in Restoring => restoring \in Device

\* What is restored is marked as such, and stays so.
RestoredOnly ==
  /\ \A d \in Device : \A m \in ToSet(queue[d]) : m.purpose = RESTORED
  /\ \A c \in Conn : \A m \in ToSet(wire[c]) : m.purpose = RESTORED

\* The stages of a request: none, with the Process, being answered, answered.
NoRequest(p) ==
  /\ hpc[p] = "recv" /\ toClient[p] = <<>>
  /\ measurement[p].purpose # REQUEST
  /\ \A m \in ToSet(toProcess[p]) : m.purpose # REQUEST
Asking(p) ==
  /\ hpc[p] = "recv" /\ toClient[p] = <<>>
  /\ toProcess[p] # <<>>
  /\ \A i \in 1..Len(toProcess[p]) :
       toProcess[p][i].purpose = REQUEST <=> i = Len(toProcess[p])
BeingAnswered(p) ==
  /\ hpc[p] \in {"poll", "deaf"} /\ toProcess[p] = <<>>
  /\ \A m \in ToSet(toClient[p]) : m.purpose = RESTORED
Answered(p) ==
  /\ hpc[p] = "recv" /\ toProcess[p] = <<>>
  /\ toClient[p] # <<>>
  /\ \A i \in 1..Len(toClient[p]) :
       toClient[p][i].purpose = IF i = Len(toClient[p]) THEN END_OF_QUEUE ELSE RESTORED

\* One request at a time, and everything of its answer belongs to it.
Stage(p) ==
  /\ cpc[p] = "menu" => NoRequest(p)
  /\ cpc[p] = "wait" => Asking(p) \/ BeingAnswered(p) \/ Answered(p)
  /\ cpc[p] = "gone" <=> hpc[p] = "dead"
Protocol == \A p \in Process : Stage(p)

\* A measurement of the client's own device, or one it may well send by now.
Ours(p, m) == m.deviceId = p \/ p \in foreign
Alien(p, m) == m.purpose = RESTORED /\ m.deviceId # p

\* Where another device's number gets to, a measurement of its backup has been
\* or is ahead.
Explained(p) ==
  /\ Ours(p, measurement[p])
  /\ \A m \in ToSet(toProcess[p]) : Ours(p, m)
  /\ Ours(p, data[p]) \/ \E j \in 1..Len(toClient[p]) : Alien(p, toClient[p][j])
  /\ \A i \in 1..Len(toClient[p]) :
       Ours(p, toClient[p][i]) \/ \E j \in 1..i : Alien(p, toClient[p][j])
Devices == \A p \in Process : Explained(p)

IInv == TypeOK /\ ThreadServes /\ RestoredOnly /\ Protocol /\ Devices

-----------------------------------------------------------------------------
(* Type correctness.                                                       *)

LEMMA MeasurementType ==
  /\ \A m \in Measurement : m.purpose \in Purpose /\ m.deviceId \in Device /\ m.seq \in Nat
  /\ \A p \in Process : Blank(p) \in Measurement
  /\ \A d \in Device, n \in Nat : Stored(d, n) \in Measurement
  /\ \A m \in Measurement, u \in Purpose :
       /\ [m EXCEPT !.purpose = u] \in Measurement
       /\ Shell(m) \in Measurement
       /\ Shell(m).purpose = m.purpose /\ Shell(m).deviceId = m.deviceId
  BY DEF Measurement, Blank, Stored, Shell, Purpose, Process, Device

\* TypeOK in parts.
ClientTypes ==
  /\ cpc \in [Process -> {"menu", "wait", "gone"}]
  /\ measurement \in [Process -> Measurement]
  /\ toProcess \in [Process -> Seq(Measurement)]
  /\ toClient \in [Process -> Seq(Measurement)]
  /\ hpc \in [Process -> {"recv", "poll", "deaf", "dead"}]
  /\ data \in [Process -> Measurement]
  /\ foreign \subseteq Process
ConnTypes ==
  /\ nconn \in 0..MaxConns
  /\ conn \in [Process -> 0..nconn]
  /\ backlog \in Seq(1..nconn)
  /\ closed \subseteq 1..nconn
  /\ backupConnections \in Seq(1..nconn) /\ Len(backupConnections) <= QueueCapacity
  /\ socket \in 0..nconn
  /\ spc \in Serving => socket \in 1..nconn
DataTypes ==
  /\ wire \in [Conn -> Seq(Measurement)]
  /\ queue \in [Device -> Seq(Measurement)]
  /\ restored \in [Device -> Nat]
ServerTypes ==
  /\ apc \in {"accept", "done"}
  /\ spc \in {"lock", "block", "wait", "link", "find", "look", "get", "send", "done",
             "failed", "lost", "dead"}
  /\ mtx \in (Device \cup {0}) \X Nat
  /\ chosen \in Device \cup {0}
  /\ spc = "send" => chosen \in Device
  /\ mpc \in {"menu", "notify", "join", "done", "crashed"}
RestoreTypes ==
  /\ rpc \in {"check", "block", "wait", "insert", "link", "find", "receive", "done",
             "failed", "dead"}
  /\ rmtx \in (Device \cup {0}) \X Nat
  /\ {currentBackupChoice, restoring} \subseteq Device \cup {0}
  /\ backup => currentBackupChoice \in Device
  /\ rpc \in Restoring => restoring \in Device
  /\ nmtx \in [Device \cup {0} -> Nat]
SwitchTypes ==
  /\ backup \in BOOLEAN /\ torn \in BOOLEAN
  /\ events \in 0..MaxEvents

clientTypesVars == <<cpc, measurement, toProcess, toClient, hpc, data, foreign>>
connTypesVars == <<nconn, conn, backlog, closed, backupConnections, socket, spc>>
dataTypesVars == <<wire, queue, restored>>
serverTypesVars == <<apc, spc, mtx, chosen, mpc>>
restoreTypesVars == <<rpc, rmtx, restoring, currentBackupChoice, backup, nmtx>>
switchTypesVars == <<backup, torn, events>>

LEMMA TypeParts ==
  TypeOK /\ ThreadServes <=> /\ ClientTypes /\ ConnTypes /\ DataTypes
                            /\ ServerTypes /\ RestoreTypes /\ SwitchTypes
<1>1. TypeOK /\ ThreadServes => /\ ClientTypes /\ ConnTypes /\ DataTypes
                               /\ ServerTypes /\ RestoreTypes /\ SwitchTypes
  BY Zenon DEF TypeOK, ThreadServes, ClientTypes, ConnTypes, DataTypes, ServerTypes, RestoreTypes,
     SwitchTypes
<1>2. ClientTypes /\ ConnTypes /\ DataTypes /\ ServerTypes /\ RestoreTypes /\ SwitchTypes
        => TypeOK /\ ThreadServes
  BY Zenon DEF TypeOK, ThreadServes, ClientTypes, ConnTypes, DataTypes, ServerTypes, RestoreTypes,
     SwitchTypes
<1> QED
  BY <1>1, <1>2

\* Which steps touch which part.
LEMMA ClientSteps ==
  [Next]_vars => \/ \E p \in Process : Enter(p) \/ RequestBackup(p) \/ Receive(p)
                                       \/ Handler(p) \/ Dies(p)
                 \/ UNCHANGED clientTypesVars
  BY DEF Next, vars, Acceptor, ClientThread, BackupThread, MainThread, AcceptBackup,
         AcceptorEnds, TestPredicate, Block, SpuriousWakeup, ThreadEnds, TakeConnection,
         LinkMutex, FindMutex, HasQueue, NoQueue, GetQueue, FreeNull, SendOne, SendFails,
         QueueSent, LoopsForEver, TestBackup, BlockBackup, BackupThreadEnds, StartRestore,
         SearchMutexAgain, LinkMutexAgain, FindMutexAgain, ReceiveNothing, Restore, EndRestore,
         Choose, Exit, NotifyAll, Joined, clientTypesVars, clientVars, linkVars, handlerVars,
         processVars

LEMMA ConnSteps ==
  [Next]_vars => \/ \E p \in Process : TakeRequest(p) \/ AnswerEnd(p)
                 \/ Acceptor \/ TestPredicate \/ Block \/ ThreadEnds \/ TakeConnection
                 \/ LinkMutex \/ FindMutex \/ HasQueue \/ NoQueue \/ GetQueue \/ FreeNull
                 \/ QueueSent \/ LoopsForEver \/ SpuriousWakeup \/ NotifyAll \/ Joined
                 \/ UNCHANGED connTypesVars
  BY DEF Next, vars, ClientThread, BackupThread, MainThread, Handler, Enter, RequestBackup,
         Receive, ForwardMessage, Relay, MissEnd, Dies, SendOne, SendFails, Choose, Exit,
         TestBackup, BlockBackup, BackupThreadEnds, StartRestore, SearchMutexAgain,
         LinkMutexAgain, FindMutexAgain, ReceiveNothing, Restore, EndRestore, connTypesVars,
         clientVars, linkVars, handlerVars, netVars, threadVars, serverVars, processVars

LEMMA DataSteps ==
  [Next]_vars => \/ \E p \in Process : Relay(p) \/ Dies(p)
                 \/ FreeNull \/ SendOne \/ SendFails \/ Restore \/ Joined
                 \/ UNCHANGED dataTypesVars
  BY DEF Next, vars, ClientThread, BackupThread, MainThread, Acceptor, Handler, Enter,
         RequestBackup, Receive, ForwardMessage, TakeRequest, AnswerEnd, MissEnd, AcceptBackup,
         AcceptorEnds, TestPredicate, Block, SpuriousWakeup, ThreadEnds, TakeConnection,
         LinkMutex, FindMutex, HasQueue, NoQueue, GetQueue, QueueSent, LoopsForEver, TestBackup,
         BlockBackup, BackupThreadEnds, StartRestore, SearchMutexAgain, LinkMutexAgain,
         FindMutexAgain, ReceiveNothing, EndRestore, Choose, Exit, NotifyAll, dataTypesVars,
         netVars, restoreVars, queueVars

LEMMA ServerSteps ==
  [Next]_vars => \/ AcceptorEnds \/ TestPredicate \/ Block \/ ThreadEnds \/ TakeConnection
                 \/ LinkMutex \/ FindMutex \/ HasQueue \/ NoQueue \/ GetQueue \/ FreeNull
                 \/ QueueSent \/ LoopsForEver \/ SpuriousWakeup
                 \/ Exit \/ NotifyAll \/ Joined
                 \/ UNCHANGED serverTypesVars
  BY DEF Next, vars, ClientThread, BackupThread, MainThread, Acceptor, Handler, Enter,
         RequestBackup, Receive, ForwardMessage, TakeRequest, Relay, AnswerEnd, MissEnd, Dies,
         AcceptBackup, SendOne, SendFails, TestBackup, BlockBackup, BackupThreadEnds,
         StartRestore, SearchMutexAgain, LinkMutexAgain, FindMutexAgain, ReceiveNothing,
         Restore, EndRestore, Choose, serverTypesVars, threadVars, serverVars, mainVars,
         commandVars

LEMMA RestoreSteps ==
  [Next]_vars => \/ LinkMutex \/ FreeNull \/ SpuriousWakeup \/ BackupThread
                 \/ \E d \in Device : Choose(d)
                 \/ NotifyAll
                 \/ UNCHANGED restoreTypesVars
  BY DEF Next, vars, ClientThread, MainThread, Acceptor, Handler, Enter, RequestBackup,
         Receive, ForwardMessage, TakeRequest, Relay, AnswerEnd, MissEnd, Dies, AcceptBackup,
         AcceptorEnds, TestPredicate, Block, ThreadEnds, TakeConnection, FindMutex, HasQueue,
         NoQueue, GetQueue, SendOne, SendFails, QueueSent, LoopsForEver, Exit, Joined,
         restoreTypesVars, restoreVars, queueVars, mainVars, commandVars

LEMMA SwitchSteps ==
  [Next]_vars => \/ \E p \in Process : Enter(p) \/ RequestBackup(p) \/ Dies(p)
                 \/ \E d \in Device : Choose(d)
                 \/ Restore \/ EndRestore
                 \/ UNCHANGED switchTypesVars
  BY DEF Next, vars, ClientThread, BackupThread, MainThread, Acceptor, Handler, Receive,
         ForwardMessage, TakeRequest, Relay, AnswerEnd, MissEnd, AcceptBackup, AcceptorEnds,
         TestPredicate, Block, ThreadEnds, TakeConnection, LinkMutex, FindMutex, HasQueue,
         NoQueue, GetQueue, FreeNull, SendOne, SendFails, QueueSent, LoopsForEver, TestBackup,
         BlockBackup, BackupThreadEnds, StartRestore, SearchMutexAgain, LinkMutexAgain,
         FindMutexAgain, ReceiveNothing, Exit, NotifyAll, Joined, SpuriousWakeup,
         switchTypesVars, queueVars, mainVars, commandVars

LEMMA InitTypeOK == Init => TypeOK /\ ThreadServes
<1> SUFFICES ASSUME Init PROVE TypeOK /\ ThreadServes
  OBVIOUS
<1>1. ClientTypes
  <2>1. measurement \in [Process -> Measurement] /\ data \in [Process -> Measurement]
    BY MeasurementType DEF Init
  <2> QED BY <2>1 DEF Init, ClientTypes
<1>2. ConnTypes
  BY ConstantsAssumption DEF Init, ConnTypes, Serving
<1>3. DataTypes
  BY DEF Init, DataTypes
<1>4. ServerTypes
  BY DEF Init, ServerTypes
<1>5. RestoreTypes
  <2>1. currentBackupChoice \in Device \cup {0} /\ (backup => currentBackupChoice \in Device)
    BY ConstantsAssumption, Zenon DEF Init, Device, Process
  <2>2. Device \cup {0} = 0..NumProcesses
    BY ConstantsAssumption DEF Device
  <2>3. nmtx \in [Device \cup {0} -> Nat]
    BY <2>2 DEF Init
  <2>4. /\ rpc = "check" /\ rmtx = <<0, 0>> /\ restoring = 0
    BY DEF Init
  <2> QED BY ONLY <2>1, <2>3, <2>4 DEF RestoreTypes, Restoring
<1>6. SwitchTypes
  <2>1. events \in 0..MaxEvents
    BY ConstantsAssumption DEF Init
  <2>2. backup \in BOOLEAN /\ torn \in BOOLEAN
    BY Zenon DEF Init
  <2> QED BY ONLY <2>1, <2>2, Zenon DEF SwitchTypes
<1> QED
  BY <1>1, <1>2, <1>3, <1>4, <1>5, <1>6, TypeParts

LEMMA ClientTypesStep ==
  ClientTypes /\ ConnTypes /\ DataTypes /\ [Next]_vars => ClientTypes'
<1> SUFFICES ASSUME ClientTypes, ConnTypes, DataTypes, [Next]_vars PROVE ClientTypes'
  OBVIOUS
<1> USE DEF ClientTypes, clientVars, linkVars, handlerVars
<1>send. ASSUME NEW p \in Process, NEW m \in Measurement, Send(p, m)
         PROVE  /\ measurement' \in [Process -> Measurement]
                /\ toProcess' \in [Process -> Seq(Measurement)]
  <2>1. Append(toProcess[p], m) \in Seq(Measurement)
    BY AppendProperties
  <2> QED BY <1>send, <2>1 DEF Send
<1>1. ASSUME NEW p \in Process, Enter(p) PROVE ClientTypes'
  <2>1. PICK u \in {DATA, measurement[p].purpose} :
          Send(p, [measurement[p] EXCEPT !.purpose = u])
    BY <1>1 DEF Enter
  <2>2. [measurement[p] EXCEPT !.purpose = u] \in Measurement
    BY <2>1, MeasurementType DEF Purpose
  <2> QED BY <1>1, <1>send, <2>1, <2>2 DEF Enter
<1>2. ASSUME NEW p \in Process, RequestBackup(p) PROVE ClientTypes'
  <2>1. [measurement[p] EXCEPT !.purpose = REQUEST] \in Measurement
    BY MeasurementType DEF Purpose
  <2> QED BY <1>2, <1>send, <2>1 DEF RequestBackup
<1>3. ASSUME NEW p \in Process, Receive(p) PROVE ClientTypes'
  <2>1. /\ Shell(Head(toClient[p])) \in Measurement
        /\ Tail(toClient[p]) \in Seq(Measurement)
    BY <1>3, HeadTailProperties, MeasurementType DEF Receive
  <2> QED BY <1>3, <2>1 DEF Receive
<1>4. ASSUME NEW p \in Process, ForwardMessage(p) PROVE ClientTypes'
  BY <1>4, HeadTailProperties DEF ForwardMessage
<1>5. ASSUME NEW p \in Process, TakeRequest(p) PROVE ClientTypes'
  <2>1. Head(toProcess[p]) \in Measurement /\ Tail(toProcess[p]) \in Seq(Measurement)
    BY <1>5, HeadTailProperties DEF TakeRequest
  <2> QED BY <1>5, <2>1 DEF TakeRequest
<1>6. ASSUME NEW p \in Process, Relay(p) PROVE ClientTypes'
  <2> DEFINE m == Head(wire[conn[p]])
  <2>1. conn[p] \in Conn
    BY <1>6, ConstantsAssumption, SMTT(30) DEF Relay, ConnTypes, Conn
  <2>2. m \in Measurement
    BY <1>6, <2>1, HeadTailProperties DEF Relay, DataTypes
  <2>3. /\ data' = [data EXCEPT ![p] = Shell(m)]
        /\ toClient' = [toClient EXCEPT ![p] = Append(@, m)]
        /\ Shell(m) \in Measurement
    BY <1>6, <2>2, MeasurementType DEF Relay
  <2> HIDE DEF m
  <2>4. data' \in [Process -> Measurement] /\ toClient' \in [Process -> Seq(Measurement)]
    BY <2>2, <2>3
  <2> QED BY <1>6, <2>4 DEF Relay
<1>7. ASSUME NEW p \in Process, AnswerEnd(p) PROVE ClientTypes'
  <2>1. [data[p] EXCEPT !.purpose = END_OF_QUEUE] \in Measurement /\ Blank(p) \in Measurement
    BY MeasurementType DEF Purpose
  <2>2. data' \in [Process -> Measurement] /\ toClient' \in [Process -> Seq(Measurement)]
    BY <1>7, <2>1 DEF AnswerEnd
  <2> QED BY <1>7, <2>2 DEF AnswerEnd
<1>8. ASSUME NEW p \in Process, MissEnd(p) PROVE ClientTypes'
  BY <1>8 DEF MissEnd
<1>9. ASSUME NEW p \in Process, Dies(p) PROVE ClientTypes'
  <2>1. Blank(p) \in Measurement
    BY MeasurementType
  <2>2. data' \in [Process -> Measurement] /\ measurement' \in [Process -> Measurement]
    BY <1>9, <2>1 DEF Dies
  <2> QED BY <1>9, <2>2 DEF Dies
<1>10. CASE UNCHANGED clientTypesVars
  BY <1>10 DEF clientTypesVars
<1> QED
  BY <1>1, <1>2, <1>3, <1>4, <1>5, <1>6, <1>7, <1>8, <1>9, <1>10, ClientSteps DEF Handler

LEMMA ConnTypesStep == ConnTypes /\ [Next]_vars => ConnTypes'
<1> SUFFICES ASSUME ConnTypes, [Next]_vars PROVE ConnTypes'
  OBVIOUS
<1> USE DEF ConnTypes, Serving, GotoS, clientVars, linkVars, handlerVars, netVars, threadVars,
            serverVars, processVars
<1>1. ASSUME NEW p \in Process, TakeRequest(p) PROVE ConnTypes'
  <2>1. CASE apc = "done"
    BY <1>1, <2>1 DEF TakeRequest
  <2>2. CASE apc # "done"
    <3>1. /\ nconn' \in 0..MaxConns /\ nconn' = nconn + 1 /\ nconn \in Nat
          /\ conn' = [conn EXCEPT ![p] = nconn + 1]
          /\ backlog' = Append(backlog, nconn + 1)
          /\ UNCHANGED <<closed, backupConnections, socket, spc>>
      BY <1>1, <2>2, ConstantsAssumption DEF TakeRequest
    <3>2. /\ 1..nconn \subseteq 1..nconn' /\ nconn + 1 \in 1..nconn'
          /\ 0..nconn \subseteq 0..nconn' /\ nconn + 1 \in 0..nconn'
      BY <3>1
    <3> DEFINE N == 1..nconn'
    <3>3. backlog \in Seq(N) /\ backupConnections \in Seq(N)
      <4>1. 1..nconn \subseteq N /\ backlog \in Seq(1..nconn) /\ backupConnections \in Seq(1..nconn)
        BY <3>2
      <4> HIDE DEF N
      <4> QED BY <4>1
    <3>4. backlog' \in Seq(1..nconn')
      BY <3>1, <3>2, <3>3, AppendProperties
    <3>5. conn' \in [Process -> 0..nconn']
      BY <3>1, <3>2
    <3> QED BY <3>1, <3>2, <3>3, <3>4, <3>5
  <2> QED BY <2>1, <2>2
<1>2. ASSUME NEW p \in Process, AnswerEnd(p) PROVE ConnTypes'
  <2>1. conn' \in [Process -> 0..nconn]
    BY <1>2 DEF AnswerEnd
  <2> QED BY <1>2, <2>1 DEF AnswerEnd
<1>3. CASE AcceptBackup
  <2>1. Head(backlog) \in 1..nconn /\ Tail(backlog) \in Seq(1..nconn)
    BY <1>3, HeadTailProperties DEF AcceptBackup
  <2>2. backupConnections' \in Seq(1..nconn) /\ Len(backupConnections') <= QueueCapacity
    <3>1. CASE Len(backupConnections) = QueueCapacity
      BY <1>3, <3>1 DEF AcceptBackup
    <3>2. CASE Len(backupConnections) # QueueCapacity
      <4>1. backupConnections' = Append(backupConnections, Head(backlog))
        BY <1>3, <3>2 DEF AcceptBackup
      <4>2. Len(backupConnections') = Len(backupConnections) + 1 /\ Len(backupConnections) \in Nat
            /\ QueueCapacity \in Nat
        BY <2>1, <4>1, AppendProperties, LenProperties, ConstantsAssumption
      <4> QED BY <2>1, <3>2, <4>1, <4>2, AppendProperties
    <3> QED BY <3>1, <3>2
  <2> QED BY <1>3, <2>1, <2>2 DEF AcceptBackup
<1>4. CASE AcceptorEnds
  <2>1. ToSet(backlog) \subseteq 1..nconn
    BY DEF ToSet
  <2>2. /\ closed' = closed \cup ToSet(backlog) /\ backlog' = <<>>
        /\ UNCHANGED <<nconn, conn, backupConnections, socket, spc>>
    BY <1>4 DEF AcceptorEnds
  <2>3. backlog' \in Seq(1..nconn)
    BY <2>2
  <2> QED BY <2>1, <2>2, <2>3
<1>5. CASE TestPredicate
  BY <1>5 DEF TestPredicate
<1>6. CASE Block
  BY <1>6 DEF Block
<1>7. CASE SpuriousWakeup
  BY <1>7 DEF SpuriousWakeup
<1>8. CASE ThreadEnds
  BY <1>8 DEF ThreadEnds
<1>9. CASE TakeConnection
  <2>1. /\ Head(backupConnections) \in 1..nconn /\ Tail(backupConnections) \in Seq(1..nconn)
        /\ Len(Tail(backupConnections)) = Len(backupConnections) - 1
        /\ Len(backupConnections) \in Nat /\ QueueCapacity \in Nat
    BY <1>9, HeadTailProperties, LenProperties, ConstantsAssumption DEF TakeConnection
  <2> QED BY <1>9, <2>1 DEF TakeConnection
<1>10. CASE LinkMutex \/ FindMutex \/ HasQueue \/ GetQueue \/ LoopsForEver
  BY <1>10 DEF LinkMutex, FindMutex, HasQueue, GetQueue, LoopsForEver
<1>11. CASE NoQueue \/ QueueSent
  <2>1. /\ spc \in Serving /\ closed' = closed \cup {socket} /\ socket' = 0 /\ spc' = "lock"
        /\ UNCHANGED <<nconn, conn, backlog, backupConnections>>
    BY <1>11 DEF NoQueue, QueueSent, CloseConnection
  <2>2. 0 \in 0..nconn
    OBVIOUS
  <2> QED BY <2>1, <2>2
<1>12. CASE FreeNull \/ Joined
  <2>1. /\ UNCHANGED <<nconn, conn, socket>>
        /\ backlog' = <<>> \/ UNCHANGED backlog
        /\ backupConnections' = <<>> /\ closed' = 1..nconn
        /\ spc' = "dead" \/ UNCHANGED spc
    BY <1>12, Zenon DEF FreeNull, Joined
  <2>2. \A S : <<>> \in Seq(S) /\ Len(<<>>) <= QueueCapacity
    BY ConstantsAssumption
  <2> QED BY <2>1, <2>2
<1>13. CASE NotifyAll
  BY <1>13 DEF NotifyAll
<1>14. CASE UNCHANGED connTypesVars
  BY <1>14 DEF connTypesVars
<1> QED
  BY <1>1, <1>2, <1>3, <1>4, <1>5, <1>6, <1>7, <1>8, <1>9, <1>10, <1>11, <1>12, <1>13,
     <1>14, ConnSteps DEF Acceptor

LEMMA DataTypesStep ==
  ConnTypes /\ DataTypes /\ ServerTypes /\ RestoreTypes /\ [Next]_vars => DataTypes'
<1> SUFFICES ASSUME ConnTypes, DataTypes, ServerTypes, RestoreTypes, [Next]_vars
             PROVE  DataTypes'
  OBVIOUS
<1> USE DEF DataTypes, netVars, restoreVars, queueVars
<1>1. ASSUME NEW p \in Process, Relay(p) PROVE DataTypes'
  <2>1. conn[p] \in Conn
    BY <1>1, ConstantsAssumption DEF Relay, ConnTypes, Conn
  <2>2. Tail(wire[conn[p]]) \in Seq(Measurement)
    BY <1>1, <2>1, HeadTailProperties DEF Relay
  <2> QED BY <1>1, <2>1, <2>2 DEF Relay
<1>2. ASSUME NEW p \in Process, Dies(p) PROVE DataTypes'
  BY <1>2 DEF Dies, serverVars
<1>3. CASE SendOne
  <2>1. socket \in Conn /\ chosen \in Device /\ queue[chosen] # <<>>
    BY <1>3, ConstantsAssumption DEF SendOne, ConnTypes, ServerTypes, Conn, Serving
  <2>2. Head(queue[chosen]) \in Measurement /\ Tail(queue[chosen]) \in Seq(Measurement)
    BY <2>1, HeadTailProperties
  <2>3. queue' \in [Device -> Seq(Measurement)]
    BY <1>3, <2>1, <2>2 DEF SendOne
  <2>4. wire' \in [Conn -> Seq(Measurement)]
    <3>1. CASE PeerIsDead
      BY <1>3, <3>1 DEF SendOne
    <3>2. CASE ~PeerIsDead
      <4>1. wire' = [wire EXCEPT ![socket] = Append(wire[socket], Head(queue[chosen]))]
        BY <1>3, <3>2, <2>1 DEF SendOne
      <4>2. Append(wire[socket], Head(queue[chosen])) \in Seq(Measurement)
        BY <2>1, <2>2, AppendProperties
      <4> QED BY <2>1, <4>1, <4>2
    <3> QED BY <3>1, <3>2
  <2> QED BY <1>3, <2>3, <2>4 DEF SendOne
<1>4. CASE SendFails
  <2>1. chosen \in Device /\ queue[chosen] # <<>>
    BY <1>4 DEF SendFails, ServerTypes
  <2>2. Head(queue[chosen]) \in Measurement /\ Tail(queue[chosen]) \in Seq(Measurement)
    BY <2>1, HeadTailProperties
  <2>3. Append(Tail(queue[chosen]), Head(queue[chosen])) \in Seq(Measurement)
    BY <2>2, AppendProperties
  <2>4. queue' = [queue EXCEPT ![chosen] = Append(Tail(queue[chosen]), Head(queue[chosen]))]
    BY <1>4, <2>1 DEF SendFails
  <2> QED BY <1>4, <2>1, <2>3, <2>4 DEF SendFails
<1>5. CASE FreeNull \/ Joined
  <2>1. /\ queue' = [d \in Device |-> <<>>] /\ UNCHANGED restored
        /\ wire' \in {wire, [c \in Conn |-> <<>>]}
    BY <1>5, Zenon DEF FreeNull, Joined
  <2>2. <<>> \in Seq(Measurement)
    OBVIOUS
  <2> QED BY <2>1, <2>2
<1>6. CASE Restore
  <2> DEFINE m == Stored(restoring, restored[restoring] + 1)
  <2>1. restoring \in Device
    BY <1>6 DEF Restore, RestoreTypes, Restoring
  <2>2. /\ restored' = [restored EXCEPT ![restoring] = @ + 1] /\ UNCHANGED wire
        /\ \/ queue' = [queue EXCEPT ![restoring] = Append(@, m)]
           \/ queue' = [queue EXCEPT ![restoring] = <<>>]
    BY <1>6, Zenon DEF Restore, processVars
  <2>3. restored' \in [Device -> Nat] /\ restored[restoring] + 1 \in Nat
    BY <2>1, <2>2
  <2>4. m \in Measurement
    BY <2>1, <2>3, MeasurementType
  <2> HIDE DEF m
  <2>5. Append(queue[restoring], m) \in Seq(Measurement) /\ <<>> \in Seq(Measurement)
    BY <2>1, <2>4, AppendProperties
  <2> QED BY <2>1, <2>2, <2>3, <2>5
<1>7. CASE UNCHANGED dataTypesVars
  BY <1>7 DEF dataTypesVars
<1> QED
  BY <1>1, <1>2, <1>3, <1>4, <1>5, <1>6, <1>7, DataSteps

LEMMA ServerTypesStep == ServerTypes /\ RestoreTypes /\ [Next]_vars => ServerTypes'
<1> SUFFICES ASSUME ServerTypes, RestoreTypes, [Next]_vars PROVE ServerTypes'
  OBVIOUS
<1> USE DEF ServerTypes, GotoS, threadVars, serverVars, mainVars, commandVars
<1>1. CASE AcceptorEnds
  BY <1>1 DEF AcceptorEnds
<1>2. CASE TestPredicate \/ Block \/ ThreadEnds \/ SpuriousWakeup
  BY <1>2 DEF TestPredicate, Block, ThreadEnds, SpuriousWakeup
<1>3. CASE TakeConnection
  BY <1>3 DEF TakeConnection, RestoreTypes
<1>4. CASE LinkMutex \/ HasQueue \/ LoopsForEver
  BY <1>4 DEF LinkMutex, HasQueue, LoopsForEver
<1>5. CASE FindMutex
  BY <1>5 DEF FindMutex, RestoreTypes
<1>6. CASE NoQueue \/ QueueSent
  BY <1>6 DEF NoQueue, QueueSent, CloseConnection
<1>7. CASE GetQueue
  BY <1>7 DEF GetQueue, Registered, RestoreTypes
<1>8. CASE FreeNull
  BY <1>8 DEF FreeNull
<1>9. CASE Exit \/ NotifyAll \/ Joined
  BY <1>9 DEF Exit, NotifyAll, Joined
<1>10. CASE UNCHANGED serverTypesVars
  BY <1>10 DEF serverTypesVars
<1> QED
  BY <1>1, <1>2, <1>3, <1>4, <1>5, <1>6, <1>7, <1>8, <1>9, <1>10, ServerSteps

LEMMA RestoreTypesStep == ServerTypes /\ RestoreTypes /\ [Next]_vars => RestoreTypes'
<1> SUFFICES ASSUME ServerTypes, RestoreTypes, [Next]_vars PROVE RestoreTypes'
  OBVIOUS
<1> USE DEF RestoreTypes, Restoring, GotoR, restoreVars, queueVars, mainVars, commandVars
<1>link. ASSUME NEW d \in Device \cup {0} PROVE [nmtx EXCEPT ![d] = @ + 1] \in [Device \cup {0} -> Nat]
  OBVIOUS
<1>1. CASE LinkMutex
  <2>1. mtx[1] \in Device \cup {0}
    BY DEF ServerTypes
  <2> QED BY <1>1, <1>link, <2>1 DEF LinkMutex
<1>2. CASE LinkMutexAgain
  <2>1. rmtx[1] \in Device \cup {0}
    OBVIOUS
  <2> QED BY <1>2, <1>link, <2>1 DEF LinkMutexAgain
<1>3. CASE FreeNull
  BY <1>3 DEF FreeNull
<1>4. CASE SpuriousWakeup \/ TestBackup \/ BlockBackup \/ BackupThreadEnds \/ NotifyAll
  BY <1>4 DEF SpuriousWakeup, TestBackup, BlockBackup, BackupThreadEnds, NotifyAll
<1>5. CASE StartRestore
  BY <1>5 DEF StartRestore
<1>6. CASE SearchMutexAgain
  BY <1>6 DEF SearchMutexAgain
<1>7. CASE FindMutexAgain
  BY <1>7 DEF FindMutexAgain
<1>8. CASE ReceiveNothing
  BY <1>8 DEF ReceiveNothing
<1>9. CASE Restore
  <2>1. /\ rpc = "receive" /\ rpc' = "insert" /\ rmtx' = <<0, 0>>
        /\ UNCHANGED <<restoring, nmtx, currentBackupChoice, backup>>
    BY <1>9, Zenon DEF Restore
  <2> QED BY ONLY <2>1, RestoreTypes DEF RestoreTypes, Restoring
<1>10. CASE EndRestore
  BY <1>10 DEF EndRestore
<1>11. ASSUME NEW d \in Device, Choose(d) PROVE RestoreTypes'
  BY <1>11 DEF Choose
<1>12. CASE UNCHANGED restoreTypesVars
  BY <1>12 DEF restoreTypesVars
<1> QED
  BY <1>1, <1>2, <1>3, <1>4, <1>5, <1>6, <1>7, <1>8, <1>9, <1>10, <1>11, <1>12, RestoreSteps
  DEF BackupThread

LEMMA SwitchTypesStep == SwitchTypes /\ [Next]_vars => SwitchTypes'
<1> SUFFICES ASSUME SwitchTypes, [Next]_vars PROVE SwitchTypes'
  OBVIOUS
<1>1. events' = events \/ Event
  BY SwitchSteps, Zenon DEF Enter, RequestBackup, Send, Dies, Choose, Restore, EndRestore, mainVars,
     switchTypesVars
<1>2. events' \in 0..MaxEvents
  BY <1>1, ConstantsAssumption DEF SwitchTypes, Event
<1>3. backup' \in BOOLEAN /\ torn' \in BOOLEAN
  BY SwitchSteps, Zenon DEF SwitchTypes, Enter, RequestBackup, Dies, Choose, Restore, EndRestore,
     mainVars, commandVars, queueVars, switchTypesVars
<1> QED
  BY ONLY <1>2, <1>3, Zenon DEF SwitchTypes

LEMMA NextTypeOK == TypeOK /\ ThreadServes /\ [Next]_vars => TypeOK' /\ ThreadServes'
<1> SUFFICES ASSUME TypeOK, ThreadServes, [Next]_vars PROVE TypeOK' /\ ThreadServes'
  OBVIOUS
<1>1. /\ ClientTypes' /\ ConnTypes' /\ DataTypes'
      /\ ServerTypes' /\ RestoreTypes' /\ SwitchTypes'
  BY ClientTypesStep, ConnTypesStep, DataTypesStep, ServerTypesStep, RestoreTypesStep,
     SwitchTypesStep, TypeParts
<1> QED
  BY <1>1, Zenon DEF TypeOK, ThreadServes, ClientTypes, ConnTypes, DataTypes, ServerTypes,
     RestoreTypes, SwitchTypes

-----------------------------------------------------------------------------
(* Restored measurements.                                                  *)

LEMMA RestoredOnlyStep == IInv /\ [Next]_vars => RestoredOnly'
<1> SUFFICES ASSUME IInv, [Next]_vars PROVE RestoredOnly'
  OBVIOUS
<1>t. RestoredOnly /\ ConnTypes /\ DataTypes /\ ServerTypes /\ RestoreTypes
  BY TypeParts DEF IInv
<1> USE DEF RestoredOnly, queueVars
<1>1. ASSUME NEW p \in Process, Relay(p) PROVE RestoredOnly'
  <2>1. conn[p] \in Conn
    BY <1>1, <1>t, ConstantsAssumption DEF Relay, ConnTypes, Conn
  <2>2. ToSet(Tail(wire[conn[p]])) \subseteq ToSet(wire[conn[p]])
    BY <1>1, <1>t, <2>1, ToSetTail DEF Relay, DataTypes
  <2>3. wire' = [wire EXCEPT ![conn[p]] = Tail(wire[conn[p]])] /\ UNCHANGED queue
    BY <1>1, <2>1 DEF Relay, restoreVars
  <2> QED BY <1>t, <2>1, <2>2, <2>3 DEF DataTypes
<1>2. ASSUME NEW p \in Process, Dies(p) PROVE RestoredOnly'
  BY <1>2, <1>t, ToSetEmpty DEF Dies, restoreVars
<1>3. CASE SendOne
  <2> DEFINE m == Head(queue[chosen])
  <2>1. socket \in Conn /\ chosen \in Device /\ queue[chosen] # <<>>
    BY <1>3, <1>t, ConstantsAssumption DEF SendOne, ConnTypes, ServerTypes, Conn, Serving
  <2>2. /\ ToSet(queue[chosen]) = {m} \cup ToSet(Tail(queue[chosen]))
        /\ m \in Measurement
    BY <1>t, <2>1, ToSetTail DEF DataTypes
  <2>3. queue' = [queue EXCEPT ![chosen] = Tail(queue[chosen])]
    BY <1>3, <2>1 DEF SendOne
  <2>4. \A d \in Device : \A x \in ToSet(queue'[d]) : x.purpose = RESTORED
    BY <1>t, <2>1, <2>2, <2>3 DEF DataTypes
  <2>5. \A c \in Conn : \A x \in ToSet(wire'[c]) : x.purpose = RESTORED
    <3>1. CASE PeerIsDead
      BY <1>3, <1>t, <3>1 DEF SendOne
    <3>2. CASE ~PeerIsDead
      <4>1. wire' = [wire EXCEPT ![socket] = Append(wire[socket], m)]
        BY <1>3, <3>2, <2>1 DEF SendOne
      <4>2. ToSet(Append(wire[socket], m)) = ToSet(wire[socket]) \cup {m}
        BY <1>t, <2>1, <2>2, ToSetAppend DEF DataTypes
      <4> QED BY <1>t, <2>1, <2>2, <4>1, <4>2 DEF DataTypes
    <3> QED BY <3>1, <3>2
  <2> QED BY <2>4, <2>5
<1>4. CASE SendFails
  <2> DEFINE m == Head(queue[chosen])
  <2>1. chosen \in Device /\ queue[chosen] # <<>>
    BY <1>4, <1>t DEF SendFails, ServerTypes
  <2>2. /\ ToSet(queue[chosen]) = {m} \cup ToSet(Tail(queue[chosen]))
        /\ m \in Measurement /\ Tail(queue[chosen]) \in Seq(Measurement)
    BY <1>t, <2>1, ToSetTail DEF DataTypes
  <2>3. ToSet(Append(Tail(queue[chosen]), m)) = ToSet(Tail(queue[chosen])) \cup {m}
    <3> DEFINE q == Tail(queue[chosen])
    <3>1. q \in Seq(Measurement) /\ m \in Measurement
      BY <2>2
    <3>2. \A r \in Seq(Measurement), e \in Measurement :
            ToSet(Append(r, e)) = ToSet(r) \cup {e}
      BY ToSetAppend
    <3> HIDE DEF m, q
    <3>3. ToSet(Append(q, m)) = ToSet(q) \cup {m}
      BY <3>1, <3>2
    <3> QED BY <3>3 DEF q
  <2>4. queue' = [queue EXCEPT ![chosen] = Append(Tail(queue[chosen]), m)] /\ UNCHANGED wire
    BY <1>4, <2>1 DEF SendFails, netVars
  <2> QED BY <1>t, <2>1, <2>2, <2>3, <2>4 DEF DataTypes
<1>5. CASE FreeNull \/ Joined
  <2>1. /\ queue' = [d \in Device |-> <<>>]
        /\ wire' \in {wire, [c \in Conn |-> <<>>]}
    BY <1>5, Zenon DEF FreeNull, Joined
  <2> QED BY <1>t, <2>1, ToSetEmpty
<1>6. CASE Restore
  <2> DEFINE m == Stored(restoring, restored[restoring] + 1)
  <2>0. rpc = "receive"
    BY <1>6, Zenon DEF Restore
  <2>1. restoring \in Device /\ restored[restoring] + 1 \in Nat
    BY <1>t, <2>0 DEF RestoreTypes, Restoring, DataTypes
  <2>2. /\ UNCHANGED wire
        /\ \/ queue' = [queue EXCEPT ![restoring] = Append(@, m)]
           \/ queue' = [queue EXCEPT ![restoring] = <<>>]
    BY <1>6, Zenon DEF Restore, netVars
  <2>3. m \in Measurement /\ m.purpose = RESTORED
    BY <2>1, MeasurementType DEF Stored
  <2> HIDE DEF m
  <2>4. ToSet(Append(queue[restoring], m)) = ToSet(queue[restoring]) \cup {m}
    BY <1>t, <2>1, <2>3, ToSetAppend DEF DataTypes
  <2>5. \A d \in Device : \A e \in ToSet(queue'[d]) : e.purpose = RESTORED
    <3>1. CASE queue' = [queue EXCEPT ![restoring] = Append(@, m)]
      <4>1. /\ queue'[restoring] = Append(queue[restoring], m)
            /\ \A d \in Device \ {restoring} : queue'[d] = queue[d]
        BY <1>t, <2>1, <3>1 DEF DataTypes
      <4> QED BY <1>t, <2>3, <2>4, <4>1
    <3>2. CASE queue' = [queue EXCEPT ![restoring] = <<>>]
      <4>1. /\ queue'[restoring] = <<>>
            /\ \A d \in Device \ {restoring} : queue'[d] = queue[d]
        BY <1>t, <2>1, <3>2 DEF DataTypes
      <4> QED BY <1>t, <4>1, ToSetEmpty
    <3> QED BY <2>2, <3>1, <3>2
  <2> QED BY <1>t, <2>2, <2>5
<1>7. CASE UNCHANGED dataTypesVars
  BY <1>7, <1>t DEF dataTypesVars
<1> QED
  BY <1>1, <1>2, <1>3, <1>4, <1>5, <1>6, <1>7, DataSteps

-----------------------------------------------------------------------------
(* The stages of a request.                                                *)

\* A client nobody touches stays at its stage.
LEMMA StageKept ==
  ASSUME NEW k \in Process, Stage(k), cpc'[k] = cpc[k], measurement'[k] = measurement[k],
         toProcess'[k] = toProcess[k], toClient'[k] = toClient[k], hpc'[k] = hpc[k]
  PROVE  Stage(k)'
  BY DEF Stage, NoRequest, Asking, BeingAnswered, Answered

LEMMA ProtocolStep == IInv /\ [Next]_vars => Protocol'
<1> SUFFICES ASSUME IInv, [Next]_vars PROVE Protocol'
  OBVIOUS
<1>t. Protocol /\ ClientTypes /\ ConnTypes /\ DataTypes /\ RestoredOnly
  BY TypeParts DEF IInv
<1>others. ASSUME NEW p \in Process, Stage(p)',
                  \A k \in Process \ {p} :
                    /\ cpc'[k] = cpc[k] /\ measurement'[k] = measurement[k]
                    /\ toProcess'[k] = toProcess[k] /\ toClient'[k] = toClient[k]
                    /\ hpc'[k] = hpc[k]
           PROVE  Protocol'
  BY <1>others, <1>t, StageKept DEF Protocol
<1>s. \A p \in Process : Stage(p)
  BY <1>t DEF Protocol
<1> USE DEF clientVars, linkVars, handlerVars
<1>send. ASSUME NEW p \in Process, NEW m \in Measurement, Send(p, m)
         PROVE  /\ cpc[p] = "menu" /\ NoRequest(p)
                /\ measurement'[p] = m /\ toProcess'[p] = Append(toProcess[p], m)
                /\ toProcess[p] \in Seq(Measurement)
                /\ \A k \in Process \ {p} : /\ measurement'[k] = measurement[k]
                                            /\ toProcess'[k] = toProcess[k]
  BY <1>send, <1>s, <1>t DEF Send, Stage, ClientTypes
<1>1. ASSUME NEW p \in Process, Enter(p) PROVE Protocol'
  <2>1. PICK u \in {DATA, measurement[p].purpose} :
          Send(p, [measurement[p] EXCEPT !.purpose = u])
    BY <1>1 DEF Enter
  <2> DEFINE m == [measurement[p] EXCEPT !.purpose = u]
  <2>2. m \in Measurement /\ m.purpose = u /\ u \in Purpose
    BY <1>t, <2>1, MeasurementType DEF ClientTypes, Measurement, Purpose
  <2>3. Send(p, m)
    BY <2>1
  <2> HIDE DEF m
  <2>4. /\ UNCHANGED <<cpc, toClient, hpc>>
    BY <1>1 DEF Enter
  <2>5. u # REQUEST
    BY <2>1, <2>2, <2>3, <1>send DEF NoRequest, DATA, REQUEST
  <2>6. ToSet(toProcess'[p]) = ToSet(toProcess[p]) \cup {m}
    <3>1. toProcess'[p] = Append(toProcess[p], m) /\ toProcess[p] \in Seq(Measurement)
      BY <2>2, <2>3, <1>send
    <3> QED BY <2>2, <3>1, ToSetAppend
  <2>7. Stage(p)'
    BY <2>2, <2>3, <2>4, <2>5, <2>6, <1>send, <1>s DEF Stage, NoRequest
  <2> QED BY <2>2, <2>3, <2>4, <2>7, <1>send, <1>others
<1>2. ASSUME NEW p \in Process, RequestBackup(p) PROVE Protocol'
  <2> DEFINE m == [measurement[p] EXCEPT !.purpose = REQUEST]
  <2>1. m \in Measurement /\ m.purpose = REQUEST
    BY <1>t, MeasurementType DEF ClientTypes, Measurement, Purpose
  <2>2. Send(p, m) /\ cpc' = [cpc EXCEPT ![p] = "wait"] /\ UNCHANGED <<toClient, hpc>>
    BY <1>2 DEF RequestBackup
  <2> HIDE DEF m
  <2> DEFINE q == toProcess[p]
  <2>3. /\ q \in Seq(Measurement) /\ toProcess'[p] = Append(q, m)
        /\ \A x \in ToSet(q) : x.purpose # REQUEST
        /\ hpc[p] = "recv" /\ toClient[p] = <<>>
    BY <2>1, <2>2, <1>send DEF NoRequest
  <2>4. \A i \in 1..Len(q) : q[i].purpose # REQUEST
    BY <2>3 DEF ToSet
  <2>5. Asking(p)'
    BY <2>1, <2>2, <2>3, <2>4, Appended DEF Asking
  <2>6. Stage(p)'
    BY <1>t, <2>2, <2>3, <2>5 DEF Stage, ClientTypes
  <2> QED BY <1>t, <2>1, <2>2, <2>6, <1>send, <1>others DEF ClientTypes
<1>3. ASSUME NEW p \in Process, Receive(p) PROVE Protocol'
  <2> DEFINE q == toClient[p]
             m == Head(toClient[p])
  <2>1. /\ cpc[p] = "wait" /\ q # <<>> /\ q \in Seq(Measurement)
        /\ measurement' = [measurement EXCEPT ![p] = Shell(m)]
        /\ toClient' = [toClient EXCEPT ![p] = Tail(q)]
        /\ cpc' = [cpc EXCEPT ![p] = IF m.purpose = END_OF_QUEUE THEN "menu" ELSE @]
        /\ UNCHANGED <<toProcess, hpc>>
    BY <1>3, <1>t DEF Receive, ClientTypes
  <2>2. /\ m \in Measurement /\ Tail(q) \in Seq(Measurement) /\ m = q[1]
        /\ Len(q) \in Nat \ {0} /\ Len(Tail(q)) = Len(q) - 1
        /\ \A i \in 1..Len(Tail(q)) : Tail(q)[i] = q[i + 1]
        /\ (Tail(q) = <<>>) <=> (Len(q) = 1)
        /\ ToSet(q) = {m} \cup ToSet(Tail(q))
    BY <2>1, Shortened, ToSetTail
  <2>3. BeingAnswered(p) \/ Answered(p)
    BY <1>s, <2>1 DEF Stage, Asking
  <2>o. \A k \in Process \ {p} :
          /\ cpc'[k] = cpc[k] /\ measurement'[k] = measurement[k]
          /\ toProcess'[k] = toProcess[k] /\ toClient'[k] = toClient[k]
          /\ hpc'[k] = hpc[k]
    BY <1>t, <2>1 DEF ClientTypes
  <2> SUFFICES Stage(p)'
    BY <2>o, <1>others
  <2> HIDE DEF q, m
  <2>4. /\ measurement'[p] = Shell(m) /\ toClient'[p] = Tail(q)
        /\ Shell(m).purpose = m.purpose
        /\ cpc'[p] = (IF m.purpose = END_OF_QUEUE THEN "menu" ELSE "wait")
        /\ toProcess'[p] = toProcess[p] /\ hpc'[p] = hpc[p]
    BY <1>t, <2>1, <2>2, MeasurementType DEF ClientTypes
  <2>5. CASE BeingAnswered(p)
    <3>1. /\ m.purpose = RESTORED /\ BeingAnswered(p)'
      BY <2>2, <2>4, <2>5 DEF BeingAnswered, q
    <3>2. hpc'[p] # "dead"
      BY <2>4, <2>5 DEF BeingAnswered
    <3>3. cpc'[p] = "wait"
      BY <2>4, <3>1 DEF RESTORED, END_OF_QUEUE
    <3> QED BY <3>1, <3>2, <3>3 DEF Stage
  <2>6. CASE Answered(p)
    <3>1. \A i \in 1..Len(q) :
            q[i].purpose = IF i = Len(q) THEN END_OF_QUEUE ELSE RESTORED
      BY <2>6 DEF Answered, q
    <3>2. CASE Len(q) = 1
      <4>1. m.purpose = END_OF_QUEUE /\ toClient'[p] = <<>>
        BY <2>2, <2>4, <3>1, <3>2
      <4>2. toProcess'[p] = <<>> /\ hpc'[p] = "recv"
        BY <2>4, <2>6 DEF Answered
      <4>3. measurement'[p].purpose # REQUEST /\ cpc'[p] = "menu"
        BY <2>4, <4>1 DEF END_OF_QUEUE, REQUEST
      <4>4. NoRequest(p)'
        BY <4>1, <4>2, <4>3, ToSetEmpty DEF NoRequest
      <4> QED BY <4>2, <4>3, <4>4 DEF Stage
    <3>3. CASE Len(q) # 1
      <4>1. m.purpose = RESTORED
        <5>1. 1 \in 1..Len(q) /\ 1 # Len(q)
          BY <2>2, <3>3
        <5> QED BY <5>1, <2>2, <3>1
      <4>2. Tail(q) # <<>>
        BY <2>2, <3>3
      <4>3. ASSUME NEW i \in 1..Len(Tail(q))
            PROVE  Tail(q)[i].purpose =
                     IF i = Len(Tail(q)) THEN END_OF_QUEUE ELSE RESTORED
        <5>1. i + 1 \in 1..Len(q) /\ (i + 1 = Len(q) <=> i = Len(Tail(q)))
          BY <2>2
        <5> QED BY <5>1, <2>2, <3>1
      <4>4. toProcess'[p] = <<>> /\ hpc'[p] = "recv"
        BY <2>4, <2>6 DEF Answered
      <4>5. Answered(p)'
        BY <2>4, <4>2, <4>3, <4>4 DEF Answered
      <4>6. cpc'[p] = "wait"
        BY <2>4, <4>1 DEF RESTORED, END_OF_QUEUE
      <4> QED BY <4>4, <4>5, <4>6 DEF Stage
    <3> QED BY <3>2, <3>3
  <2> QED BY <2>3, <2>5, <2>6
<1>4. ASSUME NEW p \in Process, ForwardMessage(p) PROVE Protocol'
  <2> DEFINE q == toProcess[p]
  <2>1. /\ hpc[p] = "recv" /\ q # <<>> /\ q \in Seq(Measurement)
        /\ Head(q).purpose # REQUEST
        /\ toProcess' = [toProcess EXCEPT ![p] = Tail(q)]
        /\ UNCHANGED <<cpc, measurement, toClient, hpc>>
    BY <1>4, <1>t DEF ForwardMessage, ClientTypes
  <2> SUFFICES Stage(p)'
    BY <1>t, <2>1, <1>others DEF ClientTypes
  <2>2. /\ Tail(q) \in Seq(Measurement) /\ Head(q) = q[1]
        /\ Len(q) \in Nat \ {0} /\ Len(Tail(q)) = Len(q) - 1
        /\ \A i \in 1..Len(Tail(q)) : Tail(q)[i] = q[i + 1]
        /\ (Tail(q) = <<>>) <=> (Len(q) = 1)
        /\ ToSet(q) = {Head(q)} \cup ToSet(Tail(q))
    BY <2>1, Shortened, ToSetTail
  <2>3. toProcess'[p] = Tail(q)
    BY <1>t, <2>1 DEF ClientTypes
  <2>4. ASSUME NoRequest(p) PROVE NoRequest(p)'
    <3>1. \A x \in ToSet(q) : x.purpose # REQUEST
      BY <2>4 DEF NoRequest
    <3>2. \A x \in ToSet(Tail(q)) : x.purpose # REQUEST
      <4> HIDE DEF q
      <4> QED BY <3>1, <2>2
    <3> HIDE DEF q
    <3> QED BY <2>1, <2>3, <2>4, <3>2 DEF NoRequest
  <2>5. ASSUME Asking(p) PROVE Asking(p)'
    <3>1. \A i \in 1..Len(q) : q[i].purpose = REQUEST <=> i = Len(q)
      BY <2>5 DEF Asking
    <3> HIDE DEF q
    <3>2. Len(q) # 1
      <4>1. q[1].purpose # REQUEST /\ 1 \in 1..Len(q)
        BY <2>1, <2>2
      <4> QED BY <4>1, <3>1
    <3>3. ASSUME NEW i \in 1..Len(Tail(q))
          PROVE  Tail(q)[i].purpose = REQUEST <=> i = Len(Tail(q))
      <4>1. i + 1 \in 1..Len(q) /\ (i + 1 = Len(q) <=> i = Len(Tail(q)))
        BY <2>2
      <4> QED BY <4>1, <2>2, <3>1
    <3> QED BY <2>1, <2>2, <2>3, <2>5, <3>2, <3>3 DEF Asking
  <2>6. ~BeingAnswered(p) /\ ~Answered(p)
    BY <2>1 DEF BeingAnswered, Answered
  <2> HIDE DEF q
  <2> QED BY <1>s, <2>1, <2>4, <2>5, <2>6 DEF Stage
<1>5. ASSUME NEW p \in Process, TakeRequest(p) PROVE Protocol'
  <2> DEFINE q == toProcess[p]
  <2>1. /\ hpc[p] = "recv" /\ q # <<>> /\ q \in Seq(Measurement)
        /\ Head(q).purpose = REQUEST
        /\ toProcess' = [toProcess EXCEPT ![p] = Tail(q)]
        /\ hpc' = [hpc EXCEPT ![p] = "poll"]
        /\ UNCHANGED <<cpc, measurement, toClient>>
    BY <1>5, <1>t DEF TakeRequest, ClientTypes
  <2> SUFFICES Stage(p)'
    BY <1>t, <2>1, <1>others DEF ClientTypes
  <2>2. /\ Head(q) = q[1] /\ Len(q) \in Nat \ {0} /\ Head(q) \in ToSet(q)
        /\ (Tail(q) = <<>>) <=> (Len(q) = 1)
    BY <2>1, Shortened, ToSetTail
  <2>3. ~NoRequest(p) /\ ~BeingAnswered(p) /\ ~Answered(p)
    BY <2>1, <2>2 DEF NoRequest, BeingAnswered, Answered
  <2>4. cpc[p] = "wait" /\ Asking(p)
    BY <1>s, <1>t, <2>1, <2>3 DEF Stage, ClientTypes
  <2>5. Len(q) = 1
    <3>1. \A i \in 1..Len(q) : q[i].purpose = REQUEST <=> i = Len(q)
      BY <2>4 DEF Asking
    <3> HIDE DEF q
    <3> QED BY <2>1, <2>2, <3>1
  <2>6. /\ toProcess'[p] = <<>> /\ hpc'[p] = "poll"
        /\ toClient'[p] = <<>> /\ cpc'[p] = "wait"
    BY <1>t, <2>1, <2>2, <2>4, <2>5 DEF ClientTypes, Asking
  <2> QED BY <2>6, ToSetEmpty DEF Stage, BeingAnswered
<1>6. ASSUME NEW p \in Process, Relay(p) PROVE Protocol'
  <2> DEFINE w == wire[conn[p]]
             m == Head(w)
             q == toClient[p]
  <2>1. conn[p] \in Conn
    BY <1>6, <1>t, ConstantsAssumption DEF Relay, ConnTypes, Conn
  <2>2. /\ hpc[p] = "poll" /\ w # <<>> /\ w \in Seq(Measurement) /\ q \in Seq(Measurement)
        /\ toClient' = [toClient EXCEPT ![p] = Append(q, m)]
        /\ UNCHANGED <<cpc, measurement, toProcess, hpc>>
    BY <1>6, <1>t, <2>1 DEF Relay, ClientTypes, DataTypes
  <2>3. \A x \in ToSet(w) : x.purpose = RESTORED
    BY <1>t, <2>1 DEF RestoredOnly
  <2> SUFFICES Stage(p)'
    BY <1>t, <2>2, <1>others DEF ClientTypes
  <2>4. m \in Measurement /\ m.purpose = RESTORED
    <3> HIDE DEF w
    <3>1. Head(w) \in Measurement /\ ToSet(w) = {Head(w)} \cup ToSet(Tail(w))
      BY <2>2, ToSetTail
    <3> QED BY <2>3, <3>1
  <2>5. toClient'[p] = Append(q, m)
    BY <1>t, <2>2 DEF ClientTypes
  <2>6. cpc[p] = "wait" /\ BeingAnswered(p)
    BY <1>s, <1>t, <2>2 DEF Stage, ClientTypes, NoRequest, Asking, Answered
  <2>7. \A x \in ToSet(q) : x.purpose = RESTORED
    BY <2>6 DEF BeingAnswered
  <2>8. ToSet(Append(q, m)) = ToSet(q) \cup {m}
    <3> HIDE DEF q, m
    <3> QED BY <2>2, <2>4, ToSetAppend
  <2> HIDE DEF q, m, w
  <2>9. BeingAnswered(p)'
    BY <2>2, <2>4, <2>5, <2>6, <2>7, <2>8 DEF BeingAnswered
  <2> QED BY <2>2, <2>6, <2>9 DEF Stage
<1>7. ASSUME NEW p \in Process, AnswerEnd(p) PROVE Protocol'
  <2> DEFINE m == [data[p] EXCEPT !.purpose = END_OF_QUEUE]
             q == toClient[p]
  <2>1. m \in Measurement /\ m.purpose = END_OF_QUEUE
    BY <1>t, MeasurementType DEF ClientTypes, Purpose, Measurement
  <2>2. /\ hpc[p] = "poll" /\ q \in Seq(Measurement)
        /\ toClient' = [toClient EXCEPT ![p] = Append(q, m)]
        /\ hpc' = [hpc EXCEPT ![p] = "recv"]
        /\ UNCHANGED <<cpc, measurement, toProcess>>
    BY <1>7, <1>t DEF AnswerEnd, ClientTypes
  <2> SUFFICES Stage(p)'
    BY <1>t, <2>2, <1>others DEF ClientTypes
  <2>3. toClient'[p] = Append(q, m) /\ hpc'[p] = "recv"
    BY <1>t, <2>2 DEF ClientTypes
  <2>4. cpc[p] = "wait" /\ BeingAnswered(p)
    BY <1>s, <1>t, <2>2 DEF Stage, ClientTypes, NoRequest, Asking, Answered
  <2>5. \A i \in 1..Len(q) : q[i].purpose = RESTORED
    BY <2>4 DEF BeingAnswered, ToSet
  <2> HIDE DEF q, m
  <2>6. /\ Append(q, m) # <<>> /\ Len(Append(q, m)) = Len(q) + 1 /\ Len(q) \in Nat
        /\ \A i \in 1..Len(q) + 1 :
             Append(q, m)[i] = IF i = Len(q) + 1 THEN m ELSE q[i]
    BY <2>1, <2>2, Appended
  <2>7. Answered(p)'
    BY <2>1, <2>2, <2>3, <2>4, <2>5, <2>6 DEF Answered, BeingAnswered
  <2> QED BY <2>2, <2>3, <2>4, <2>7 DEF Stage
<1>8. ASSUME NEW p \in Process, MissEnd(p) PROVE Protocol'
  <2>1. /\ hpc[p] = "poll" /\ hpc' = [hpc EXCEPT ![p] = "deaf"]
        /\ UNCHANGED <<cpc, measurement, toProcess, toClient>>
    BY <1>8 DEF MissEnd
  <2>2. cpc[p] = "wait" /\ BeingAnswered(p)
    BY <1>s, <1>t, <2>1 DEF Stage, ClientTypes, NoRequest, Asking, Answered
  <2>3. BeingAnswered(p)' /\ hpc'[p] = "deaf" /\ cpc'[p] = "wait"
    BY <1>t, <2>1, <2>2 DEF BeingAnswered, ClientTypes
  <2>4. Stage(p)'
    BY <2>3 DEF Stage
  <2> QED BY <1>t, <2>1, <2>4, <1>others DEF ClientTypes
<1>9. ASSUME NEW p \in Process, Dies(p) PROVE Protocol'
  <2>1. cpc'[p] = "gone" /\ hpc'[p] = "dead"
    BY <1>9, <1>t DEF Dies, ClientTypes
  <2>2. Stage(p)'
    BY <2>1 DEF Stage
  <2> QED BY <1>9, <1>t, <2>2, <1>others DEF Dies, ClientTypes
<1>10. CASE UNCHANGED clientTypesVars
  BY <1>10, <1>t, StageKept DEF clientTypesVars, Protocol
<1> QED
  BY <1>1, <1>2, <1>3, <1>4, <1>5, <1>6, <1>7, <1>8, <1>9, <1>10, ClientSteps DEF Handler

-----------------------------------------------------------------------------
(* Devices.                                                                *)

\* A client nobody touches stays explained; one that was given another device's
\* measurement always is.
LEMMA ExplainedKept ==
  ASSUME NEW k \in Process, Explained(k), foreign \subseteq foreign',
         measurement'[k] = measurement[k], toProcess'[k] = toProcess[k],
         toClient'[k] = toClient[k], data'[k] = data[k]
  PROVE  Explained(k)'
  BY DEF Explained, Ours

LEMMA ForeignExplained == ASSUME NEW k, k \in foreign' PROVE Explained(k)'
  BY DEF Explained, Ours

LEMMA DevicesStep == IInv /\ [Next]_vars => Devices'
<1> SUFFICES ASSUME IInv, [Next]_vars PROVE Devices'
  OBVIOUS
<1>t. Devices /\ ClientTypes /\ ConnTypes /\ DataTypes /\ RestoredOnly
  BY TypeParts DEF IInv
<1>e. \A p \in Process : Explained(p)
  BY <1>t DEF Devices
<1>others. ASSUME NEW p \in Process, Explained(p)', foreign \subseteq foreign',
                  \A k \in Process \ {p} :
                    /\ measurement'[k] = measurement[k] /\ toProcess'[k] = toProcess[k]
                    /\ toClient'[k] = toClient[k] /\ data'[k] = data[k]
           PROVE  Devices'
  BY <1>others, <1>e, ExplainedKept DEF Devices
<1> USE DEF clientVars, linkVars, handlerVars
<1>send. ASSUME NEW p \in Process, NEW m \in Measurement, Send(p, m),
                m.deviceId = measurement[p].deviceId,
                UNCHANGED <<toClient, data, foreign>>
         PROVE  Devices'
  <2> DEFINE q == toProcess[p]
  <2>1. /\ measurement' = [measurement EXCEPT ![p] = m]
        /\ toProcess' = [toProcess EXCEPT ![p] = Append(q, m)]
    BY <1>send, <1>t DEF Send, ClientTypes
  <2>2. measurement'[p] = m /\ toProcess'[p] = Append(q, m) /\ q \in Seq(Measurement)
    BY <1>t, <2>1 DEF ClientTypes
  <2>3. Ours(p, m) /\ \A x \in ToSet(q) : Ours(p, x)
    BY <1>send, <1>e DEF Explained, Ours
  <2>4. ToSet(Append(q, m)) = ToSet(q) \cup {m}
    <3> HIDE DEF q
    <3> QED BY <2>2, ToSetAppend
  <2>5. \A x \in ToSet(toProcess'[p]) : Ours(p, x)
    <3> HIDE DEF q
    <3> QED BY <2>2, <2>3, <2>4
  <2>6. Explained(p)'
    BY <1>e, <1>send, <2>2, <2>3, <2>5 DEF Explained, Ours
  <2> QED BY <1>send, <1>t, <2>1, <2>6, <1>others DEF ClientTypes
<1>1. ASSUME NEW p \in Process, Enter(p) PROVE Devices'
  <2>1. PICK u \in {DATA, measurement[p].purpose} :
          Send(p, [measurement[p] EXCEPT !.purpose = u])
    BY <1>1 DEF Enter
  <2> DEFINE m == [measurement[p] EXCEPT !.purpose = u]
  <2>2. m \in Measurement /\ m.deviceId = measurement[p].deviceId
    BY <1>t, <2>1, MeasurementType DEF ClientTypes, Measurement, Purpose
  <2>3. Send(p, m)
    BY <2>1
  <2>4. UNCHANGED <<toClient, data, foreign>>
    BY <1>1 DEF Enter
  <2> HIDE DEF m
  <2> QED BY <2>2, <2>3, <2>4, <1>send
<1>2. ASSUME NEW p \in Process, RequestBackup(p) PROVE Devices'
  <2> DEFINE m == [measurement[p] EXCEPT !.purpose = REQUEST]
  <2>1. m \in Measurement /\ m.deviceId = measurement[p].deviceId
    BY <1>t, MeasurementType DEF ClientTypes, Measurement, Purpose
  <2>2. Send(p, m) /\ UNCHANGED <<toClient, data, foreign>>
    BY <1>2 DEF RequestBackup
  <2> HIDE DEF m
  <2> QED BY <2>1, <2>2, <1>send
<1>3. ASSUME NEW p \in Process, Receive(p) PROVE Devices'
  <2> DEFINE q == toClient[p]
             m == Head(toClient[p])
  <2>1. /\ q # <<>> /\ q \in Seq(Measurement)
        /\ measurement' = [measurement EXCEPT ![p] = Shell(m)]
        /\ toClient' = [toClient EXCEPT ![p] = Tail(q)]
        /\ foreign' = IF m.purpose = RESTORED /\ m.deviceId # p THEN foreign \cup {p}
                                                                 ELSE foreign
        /\ UNCHANGED <<toProcess, data>>
    BY <1>3, <1>t DEF Receive, ClientTypes
  <2>2. foreign \subseteq foreign'
    BY <2>1
  <2>o. \A k \in Process \ {p} :
          /\ measurement'[k] = measurement[k] /\ toProcess'[k] = toProcess[k]
          /\ toClient'[k] = toClient[k] /\ data'[k] = data[k]
    BY <1>t, <2>1 DEF ClientTypes
  <2> SUFFICES Explained(p)'
    BY <2>2, <2>o, <1>others
  <2>3. /\ m \in Measurement /\ m = q[1] /\ Len(q) \in Nat \ {0}
        /\ Len(Tail(q)) = Len(q) - 1
        /\ \A i \in 1..Len(Tail(q)) : Tail(q)[i] = q[i + 1]
    BY <2>1, Shortened
  <2>4. /\ measurement'[p] = Shell(m) /\ toClient'[p] = Tail(q)
        /\ Shell(m).deviceId = m.deviceId
    BY <1>t, <2>1, <2>3, MeasurementType DEF ClientTypes
  <2>5. /\ \A i \in 1..Len(q) : Ours(p, q[i]) \/ \E j \in 1..i : Alien(p, q[j])
        /\ Ours(p, data[p]) \/ \E j \in 1..Len(q) : Alien(p, q[j])
        /\ \A x \in ToSet(toProcess[p]) : Ours(p, x)
    BY <1>e DEF Explained
  <2> HIDE DEF q, m
  <2>6. CASE Alien(p, m)
    <3>1. p \in foreign'
      BY <2>1, <2>6 DEF Alien
    <3> QED BY <3>1, ForeignExplained
  <2>7. CASE ~Alien(p, m)
    <3>1. foreign' = foreign
      BY <2>1, <2>7 DEF Alien
    <3>2. Ours(p, m)
      <4>1. 1 \in 1..Len(q)
        BY <2>3
      <4>2. PICK j \in 1..1 : Ours(p, q[1]) \/ Alien(p, q[j])
        BY <4>1, <2>5
      <4> QED BY <2>3, <2>7, <4>2
    <3>3. ASSUME NEW n \in 1..Len(q), \E j \in 1..n : Alien(p, q[j])
          PROVE  \E j \in 1..(n - 1) : Alien(p, Tail(q)[j])
      <4>1. PICK j \in 1..n : Alien(p, q[j])
        BY <3>3
      <4>2. j # 1
        BY <2>3, <2>7, <4>1
      <4>3. j - 1 \in 1..(n - 1) /\ j - 1 \in 1..Len(Tail(q)) /\ (j - 1) + 1 = j
        BY <2>3, <4>2
      <4>4. Tail(q)[j - 1] = q[j]
        BY <2>3, <4>3
      <4> QED BY <4>1, <4>3, <4>4
    <3>4. ASSUME NEW i \in 1..Len(Tail(q))
          PROVE  Ours(p, Tail(q)[i]) \/ \E j \in 1..i : Alien(p, Tail(q)[j])
      <4>1. i + 1 \in 1..Len(q) /\ Tail(q)[i] = q[i + 1] /\ (i + 1) - 1 = i
        BY <2>3
      <4>2. Ours(p, q[i + 1]) \/ \E j \in 1..(i + 1) : Alien(p, q[j])
        BY <2>5, <4>1
      <4> DEFINE n == i + 1
      <4>3. n \in 1..Len(q) /\ n - 1 = i
        BY <4>1
      <4> HIDE DEF n
      <4>4. Ours(p, q[n]) \/ \E j \in 1..n : Alien(p, q[j])
        BY <2>5, <4>3
      <4>5. Tail(q)[i] = q[n]
        BY <4>1 DEF n
      <4> QED BY <3>3, <4>3, <4>4, <4>5
    <3>5. Ours(p, data[p]) \/ \E j \in 1..Len(Tail(q)) : Alien(p, Tail(q)[j])
      <4> DEFINE n == Len(q)
      <4>1. n \in 1..Len(q) /\ Len(Tail(q)) = n - 1
        BY <2>3
      <4>2. Ours(p, data[p]) \/ \E j \in 1..n : Alien(p, q[j])
        BY <2>5
      <4> HIDE DEF n
      <4> QED BY <3>3, <4>1, <4>2
    <3> QED BY <2>1, <2>4, <2>5, <3>1, <3>2, <3>4, <3>5 DEF Explained, Ours
  <2> QED BY <2>6, <2>7
<1>4. ASSUME NEW p \in Process, ForwardMessage(p) PROVE Devices'
  <2> DEFINE q == toProcess[p]
  <2>1. /\ q # <<>> /\ q \in Seq(Measurement)
        /\ toProcess' = [toProcess EXCEPT ![p] = Tail(q)]
        /\ UNCHANGED <<measurement, toClient, data, foreign>>
    BY <1>4, <1>t DEF ForwardMessage, ClientTypes
  <2>2. toProcess'[p] = Tail(q) /\ ToSet(Tail(q)) \subseteq ToSet(q)
    BY <1>t, <2>1, ToSetTail DEF ClientTypes
  <2>3. Explained(p)'
    <3>1. \A x \in ToSet(q) : Ours(p, x)
      BY <1>e DEF Explained
    <3> HIDE DEF q
    <3> QED BY <1>e, <2>1, <2>2, <3>1 DEF Explained, Ours
  <2> QED BY <1>t, <2>1, <2>3, <1>others DEF ClientTypes
<1>5. ASSUME NEW p \in Process, TakeRequest(p) PROVE Devices'
  <2> DEFINE q == toProcess[p]
             m == Head(toProcess[p])
  <2>1. /\ q # <<>> /\ q \in Seq(Measurement)
        /\ toProcess' = [toProcess EXCEPT ![p] = Tail(q)]
        /\ data' = [data EXCEPT ![p] = m]
        /\ UNCHANGED <<measurement, toClient, foreign>>
    BY <1>5, <1>t DEF TakeRequest, ClientTypes
  <2>2. /\ toProcess'[p] = Tail(q) /\ data'[p] = m
        /\ ToSet(q) = {m} \cup ToSet(Tail(q))
    BY <1>t, <2>1, ToSetTail DEF ClientTypes
  <2>3. Explained(p)'
    <3>1. \A x \in ToSet(q) : Ours(p, x)
      BY <1>e DEF Explained
    <3> HIDE DEF q, m
    <3> QED BY <1>e, <2>1, <2>2, <3>1 DEF Explained, Ours
  <2> QED BY <1>t, <2>1, <2>3, <1>others DEF ClientTypes
<1>6. ASSUME NEW p \in Process, Relay(p) PROVE Devices'
  <2> DEFINE w == wire[conn[p]]
             m == Head(w)
             q == toClient[p]
  <2>1. conn[p] \in Conn
    BY <1>6, <1>t, ConstantsAssumption DEF Relay, ConnTypes, Conn
  <2>2. /\ w # <<>> /\ w \in Seq(Measurement) /\ q \in Seq(Measurement)
        /\ toClient' = [toClient EXCEPT ![p] = Append(q, m)]
        /\ data' = [data EXCEPT ![p] = Shell(m)]
        /\ UNCHANGED <<measurement, toProcess, foreign>>
    BY <1>6, <1>t, <2>1 DEF Relay, ClientTypes, DataTypes
  <2>3. m \in Measurement /\ m.purpose = RESTORED
    <3>1. \A x \in ToSet(w) : x.purpose = RESTORED
      BY <1>t, <2>1 DEF RestoredOnly
    <3> HIDE DEF w
    <3>2. Head(w) \in Measurement /\ ToSet(w) = {Head(w)} \cup ToSet(Tail(w))
      BY <2>2, ToSetTail
    <3> QED BY <3>1, <3>2
  <2>4. /\ toClient'[p] = Append(q, m) /\ data'[p] = Shell(m)
        /\ Shell(m).deviceId = m.deviceId
    BY <1>t, <2>2, <2>3, MeasurementType DEF ClientTypes
  <2>5. \A i \in 1..Len(q) : Ours(p, q[i]) \/ \E j \in 1..i : Alien(p, q[j])
    BY <1>e DEF Explained
  <2> DEFINE r == Append(q, m)
  <2> HIDE DEF q, m, w
  <2>6. /\ Len(q) \in Nat /\ Len(r) = Len(q) + 1
        /\ \A i \in 1..Len(q) : r[i] = q[i]
        /\ r[Len(q) + 1] = m
    BY <2>2, <2>3, Appended
  <2>7. toClient'[p] = r
    BY <2>4
  <2> HIDE DEF r
  <2>8. Ours(p, m) \/ Alien(p, m)
    BY <2>3 DEF Ours, Alien
  <2>9. ASSUME NEW i \in 1..Len(r)
        PROVE  Ours(p, r[i]) \/ \E j \in 1..i : Alien(p, r[j])
    <3>1. CASE i = Len(q) + 1
      <4>1. r[i] = m /\ i \in 1..i
        BY <2>6, <3>1
      <4> QED BY <2>8, <4>1
    <3>2. CASE i # Len(q) + 1
      <4>1. i \in 1..Len(q) /\ r[i] = q[i] /\ \A j \in 1..i : r[j] = q[j]
        BY <2>6, <3>2
      <4> QED BY <2>5, <4>1
    <3> QED BY <3>1, <3>2
  <2>10. Ours(p, m) \/ \E j \in 1..Len(r) : Alien(p, r[j])
    <3>1. Len(r) \in 1..Len(r) /\ r[Len(r)] = m
      BY <2>6
    <3> QED BY <2>8, <3>1
  <2>11. Explained(p)'
    BY <1>e, <2>2, <2>4, <2>7, <2>9, <2>10 DEF Explained, Ours
  <2> QED BY <1>t, <2>2, <2>11, <1>others DEF ClientTypes
<1>7. ASSUME NEW p \in Process, AnswerEnd(p) PROVE Devices'
  <2> DEFINE m == [data[p] EXCEPT !.purpose = END_OF_QUEUE]
             q == toClient[p]
  <2>1. m \in Measurement /\ m.deviceId = data[p].deviceId
    BY <1>t, MeasurementType DEF ClientTypes, Purpose, Measurement
  <2>2. /\ q \in Seq(Measurement)
        /\ toClient' = [toClient EXCEPT ![p] = Append(q, m)]
        /\ data' = [data EXCEPT ![p] = Blank(p)]
        /\ UNCHANGED <<measurement, toProcess, foreign>>
    BY <1>7, <1>t DEF AnswerEnd, ClientTypes
  <2>3. toClient'[p] = Append(q, m) /\ data'[p] = Blank(p) /\ Ours(p, Blank(p))
    BY <1>t, <2>2 DEF ClientTypes, Ours, Blank
  <2>4. /\ \A i \in 1..Len(q) : Ours(p, q[i]) \/ \E j \in 1..i : Alien(p, q[j])
        /\ Ours(p, m) \/ \E j \in 1..Len(q) : Alien(p, q[j])
    BY <1>e, <2>1 DEF Explained, Ours
  <2> DEFINE r == Append(q, m)
  <2> HIDE DEF q, m
  <2>5. /\ Len(q) \in Nat /\ Len(r) = Len(q) + 1
        /\ \A i \in 1..Len(q) : r[i] = q[i]
        /\ r[Len(q) + 1] = m
    BY <2>1, <2>2, Appended
  <2>6. toClient'[p] = r
    BY <2>3
  <2> HIDE DEF r
  <2>7. ASSUME NEW i \in 1..Len(r)
        PROVE  Ours(p, r[i]) \/ \E j \in 1..i : Alien(p, r[j])
    <3>1. CASE i = Len(q) + 1
      <4>1. r[i] = m /\ 1..Len(q) \subseteq 1..i
        BY <2>5, <3>1
      <4> QED BY <2>4, <2>5, <4>1
    <3>2. CASE i # Len(q) + 1
      <4>1. i \in 1..Len(q) /\ r[i] = q[i] /\ \A j \in 1..i : r[j] = q[j]
        BY <2>5, <3>2
      <4> QED BY <2>4, <4>1
    <3> QED BY <3>1, <3>2
  <2>8. Explained(p)'
    BY <1>e, <2>2, <2>3, <2>6, <2>7 DEF Explained, Ours
  <2> QED BY <1>t, <2>2, <2>8, <1>others DEF ClientTypes
<1>8. ASSUME NEW p \in Process, MissEnd(p) PROVE Devices'
  BY <1>8, <1>e, ExplainedKept DEF MissEnd, Devices
<1>9. ASSUME NEW p \in Process, Dies(p) PROVE Devices'
  <2>1. /\ measurement'[p] = Blank(p) /\ data'[p] = Blank(p)
        /\ toProcess'[p] = <<>> /\ toClient'[p] = <<>>
        /\ UNCHANGED foreign
    BY <1>9, <1>t DEF Dies, ClientTypes
  <2>2. Blank(p).deviceId = p
    BY DEF Blank
  <2>3. Explained(p)'
    BY <2>1, <2>2, ToSetEmpty DEF Explained, Ours
  <2> QED BY <1>9, <1>t, <2>1, <2>3, <1>others DEF Dies, ClientTypes
<1>10. CASE UNCHANGED clientTypesVars
  BY <1>10, <1>e, ExplainedKept DEF clientTypesVars, Devices
<1> QED
  BY <1>1, <1>2, <1>3, <1>4, <1>5, <1>6, <1>7, <1>8, <1>9, <1>10, ClientSteps DEF Handler

-----------------------------------------------------------------------------
(* What is not lost.                                                       *)

Queued(m) == \E d \in Device : m \in ToSet(queue[d])
OnWire(m) == \E c \in Conn : m \in ToSet(wire[c])
Relayed(m) == \E p \in Process : m \in ToSet(toClient[p])
Somewhere(m) == Queued(m) \/ OnWire(m) \/ Relayed(m)

LEMMA KeptSteps ==
  [Next]_vars => \/ \E p \in Process : Receive(p) \/ Relay(p) \/ AnswerEnd(p) \/ Dies(p)
                 \/ FreeNull \/ SendOne \/ SendFails \/ Restore \/ Joined
                 \/ UNCHANGED <<queue, wire, toClient>>
  BY DEF Next, vars, ClientThread, BackupThread, MainThread, Acceptor, Handler, Enter,
         RequestBackup, ForwardMessage, TakeRequest, MissEnd, AcceptBackup, AcceptorEnds,
         TestPredicate, Block, SpuriousWakeup, ThreadEnds, TakeConnection, LinkMutex, FindMutex,
         HasQueue, NoQueue, GetQueue, QueueSent, LoopsForEver, TestBackup, BlockBackup,
         BackupThreadEnds, StartRestore, SearchMutexAgain, LinkMutexAgain, FindMutexAgain,
         ReceiveNothing, EndRestore, Choose, Exit, NotifyAll, netVars, queueVars, processVars,
         linkVars

LEMMA KeptStep ==
  ASSUME IInv, [Next]_vars, ~LossyStep, ~\E p \in Process : Receive(p),
         NEW m, Somewhere(m)
  PROVE  Somewhere(m)'
<1>t. ClientTypes /\ ConnTypes /\ DataTypes /\ ServerTypes /\ RestoreTypes
  BY TypeParts DEF IInv
<1> USE DEF Somewhere, queueVars
<1>1. ASSUME NEW p \in Process, Relay(p) PROVE Somewhere(m)'
  <2> DEFINE w == wire[conn[p]]
             x == Head(w)
             q == toClient[p]
  <2>1. conn[p] \in Conn
    BY <1>1, <1>t, ConstantsAssumption DEF Relay, ConnTypes, Conn
  <2>2. /\ w # <<>> /\ w \in Seq(Measurement) /\ q \in Seq(Measurement)
        /\ wire' = [wire EXCEPT ![conn[p]] = Tail(w)]
        /\ toClient' = [toClient EXCEPT ![p] = Append(q, x)]
        /\ UNCHANGED queue
    BY <1>1, <1>t, <2>1 DEF Relay, ClientTypes, DataTypes, restoreVars
  <2>3. x \in Measurement /\ ToSet(w) = {x} \cup ToSet(Tail(w))
    <3> HIDE DEF w
    <3> QED BY <2>2, ToSetTail
  <2>4. ToSet(Append(q, x)) = ToSet(q) \cup {x}
    <3> HIDE DEF q, x
    <3> QED BY <2>2, <2>3, ToSetAppend
  <2>5. toClient'[p] = Append(q, x) /\ \A k \in Process \ {p} : toClient'[k] = toClient[k]
    BY <1>t, <2>2 DEF ClientTypes
  <2>6. Relayed(m) \/ m = x => Relayed(m)'
    <3>1. \A k \in Process : ToSet(toClient[k]) \subseteq ToSet(toClient'[k])
      BY <2>4, <2>5
    <3>2. x \in ToSet(toClient'[p])
      BY <2>4, <2>5
    <3> HIDE DEF x
    <3> QED BY <3>1, <3>2 DEF Relayed
  <2>7. OnWire(m) => OnWire(m)' \/ m = x
    <3>1. wire'[conn[p]] = Tail(w) /\ \A c \in Conn \ {conn[p]} : wire'[c] = wire[c]
      BY <1>t, <2>1, <2>2 DEF DataTypes
    <3> HIDE DEF x
    <3> QED BY <2>1, <2>3, <3>1 DEF OnWire
  <2>8. Queued(m) => Queued(m)'
    BY <2>2 DEF Queued
  <2> QED BY <2>6, <2>7, <2>8
<1>2. ASSUME NEW p \in Process, AnswerEnd(p) PROVE Somewhere(m)'
  <2> DEFINE x == [data[p] EXCEPT !.purpose = END_OF_QUEUE]
             q == toClient[p]
  <2>1. x \in Measurement
    BY <1>t, MeasurementType DEF ClientTypes, Purpose
  <2>2. /\ q \in Seq(Measurement)
        /\ toClient' = [toClient EXCEPT ![p] = Append(q, x)]
        /\ UNCHANGED <<queue, wire>>
    BY <1>2, <1>t DEF AnswerEnd, ClientTypes, netVars, restoreVars
  <2>3. ToSet(Append(q, x)) = ToSet(q) \cup {x}
    <3> HIDE DEF q, x
    <3> QED BY <2>1, <2>2, ToSetAppend
  <2>4. toClient'[p] = Append(q, x) /\ \A k \in Process \ {p} : toClient'[k] = toClient[k]
    BY <1>t, <2>2 DEF ClientTypes
  <2>5. \A k \in Process : ToSet(toClient[k]) \subseteq ToSet(toClient'[k])
    BY <2>3, <2>4
  <2>6. Relayed(m) => Relayed(m)'
    BY <2>5 DEF Relayed
  <2> QED BY <2>2, <2>6 DEF Queued, OnWire
<1>3. CASE SendOne
  <2> DEFINE q == queue[chosen]
             x == Head(q)
  <2>1. socket \in Conn /\ chosen \in Device /\ q # <<>> /\ ~PeerIsDead
    BY <1>3, <1>t, ConstantsAssumption DEF SendOne, ConnTypes, ServerTypes, Conn, Serving,
       LossyStep
  <2>2. /\ wire' = [wire EXCEPT ![socket] = Append(wire[socket], x)]
        /\ queue' = [queue EXCEPT ![chosen] = Tail(q)]
        /\ UNCHANGED toClient
    BY <1>3, <2>1 DEF SendOne, processVars, linkVars
  <2>3. q \in Seq(Measurement) /\ wire[socket] \in Seq(Measurement)
    BY <1>t, <2>1 DEF DataTypes
  <2>4. x \in Measurement /\ ToSet(q) = {x} \cup ToSet(Tail(q))
    <3> HIDE DEF q
    <3> QED BY <2>1, <2>3, ToSetTail
  <2>5. ToSet(Append(wire[socket], x)) = ToSet(wire[socket]) \cup {x}
    <3> HIDE DEF x
    <3> QED BY <2>3, <2>4, ToSetAppend
  <2>6. OnWire(m) \/ m = x => OnWire(m)'
    <3>1. wire'[socket] = Append(wire[socket], x)
          /\ \A c \in Conn \ {socket} : wire'[c] = wire[c]
      BY <1>t, <2>1, <2>2 DEF DataTypes
    <3>2. \A c \in Conn : ToSet(wire[c]) \subseteq ToSet(wire'[c])
      BY <2>5, <3>1
    <3>3. x \in ToSet(wire'[socket])
      BY <2>5, <3>1
    <3> HIDE DEF x
    <3> QED BY <2>1, <3>2, <3>3 DEF OnWire
  <2>7. Queued(m) => Queued(m)' \/ m = x
    <3>1. queue'[chosen] = Tail(q) /\ \A d \in Device \ {chosen} : queue'[d] = queue[d]
      BY <1>t, <2>1, <2>2 DEF DataTypes
    <3> HIDE DEF x
    <3> QED BY <2>1, <2>4, <3>1 DEF Queued
  <2>8. Relayed(m) => Relayed(m)'
    BY <2>2 DEF Relayed
  <2> QED BY <2>6, <2>7, <2>8
<1>4. CASE SendFails
  <2> DEFINE q == queue[chosen]
             x == Head(q)
             r == Tail(q)
  <2>1. chosen \in Device /\ q # <<>>
    BY <1>4, <1>t DEF SendFails, ServerTypes
  <2>2. queue' = [queue EXCEPT ![chosen] = Append(r, x)] /\ UNCHANGED <<wire, toClient>>
    BY <1>4, <2>1 DEF SendFails, netVars, processVars, linkVars
  <2>3. q \in Seq(Measurement)
    BY <1>t, <2>1 DEF DataTypes
  <2>4. x \in Measurement /\ r \in Seq(Measurement) /\ ToSet(q) = {x} \cup ToSet(r)
    <3> HIDE DEF q
    <3> QED BY <2>1, <2>3, ToSetTail
  <2>5. ToSet(Append(r, x)) = ToSet(r) \cup {x}
    <3> HIDE DEF x, r
    <3> QED BY <2>4, ToSetAppend
  <2>6. queue'[chosen] = Append(r, x) /\ \A d \in Device \ {chosen} : queue'[d] = queue[d]
    BY <1>t, <2>1, <2>2 DEF DataTypes
  <2>7. \A d \in Device : ToSet(queue[d]) \subseteq ToSet(queue'[d])
    BY <2>4, <2>5, <2>6
  <2>8. Queued(m) => Queued(m)'
    BY <2>7 DEF Queued
  <2> QED BY <2>2, <2>8 DEF OnWire, Relayed
<1>5. CASE Restore
  <2> DEFINE x == Stored(restoring, restored[restoring] + 1)
             q == queue[restoring]
  <2>1. ~torn'
    BY <1>5, Zenon DEF LossyStep
  <2>r. rpc = "receive"
    BY <1>5, Zenon DEF Restore
  <2>2. restoring \in Device /\ restored[restoring] + 1 \in Nat
    BY <1>t, <2>r DEF RestoreTypes, Restoring, DataTypes
  <2>0. /\ queue' = [queue EXCEPT ![restoring] = Append(@, x)]
        /\ UNCHANGED <<wire, toClient>>
    BY <1>5, <2>1, Zenon DEF Restore, netVars, processVars, linkVars
  <2>3. x \in Measurement /\ q \in Seq(Measurement)
    BY <1>t, <2>2, MeasurementType DEF DataTypes
  <2>4. ToSet(Append(q, x)) = ToSet(q) \cup {x}
    <3> HIDE DEF x, q
    <3> QED BY <2>3, ToSetAppend
  <2> HIDE DEF x
  <2>5. queue'[restoring] = Append(q, x) /\ \A d \in Device \ {restoring} : queue'[d] = queue[d]
    BY <1>t, <2>0, <2>2 DEF DataTypes
  <2>6. \A d \in Device : ToSet(queue[d]) \subseteq ToSet(queue'[d])
    BY <2>4, <2>5
  <2>7. Queued(m) => Queued(m)'
    BY <2>6 DEF Queued
  <2> QED BY <2>0, <2>7 DEF OnWire, Relayed
<1>6. CASE UNCHANGED <<queue, wire, toClient>>
  BY <1>6 DEF Queued, OnWire, Relayed
<1> QED
  BY <1>1, <1>2, <1>3, <1>4, <1>5, <1>6, KeptSteps DEF LossyStep

-----------------------------------------------------------------------------
(* The theorems.                                                           *)

LEMMA InitIInv == Init => IInv
<1> SUFFICES ASSUME Init PROVE IInv
  OBVIOUS
<1>1. TypeOK /\ ThreadServes
  BY InitTypeOK
<1>2. RestoredOnly
  BY ToSetEmpty DEF Init, RestoredOnly
<1>3. Protocol
  <2>1. \A p \in Process : NoRequest(p)
    BY ToSetEmpty DEF Init, NoRequest, Blank, DATA, REQUEST
  <2> QED BY <2>1 DEF Init, Protocol, Stage
<1>4. Devices
  <2>1. ASSUME NEW p \in Process PROVE Explained(p)
    <3>1. /\ measurement[p] = Blank(p) /\ data[p] = Blank(p)
          /\ toProcess[p] = <<>> /\ toClient[p] = <<>>
      BY DEF Init
    <3>2. Blank(p).deviceId = p
      BY DEF Blank
    <3> QED BY <3>1, <3>2, ToSetEmpty DEF Explained, Ours
  <2> QED BY <2>1 DEF Devices
<1> QED
  BY <1>1, <1>2, <1>3, <1>4 DEF IInv

LEMMA Invariance == Spec => []IInv
<1>1. IInv /\ [Next]_vars => IInv'
  BY NextTypeOK, RestoredOnlyStep, ProtocolStep, DevicesStep DEF IInv
<1> QED
  BY InitIInv, <1>1, PTL DEF Spec

\* Every variable keeps its type: whatever connections are dropped, closed or
\* polled for ever, the thread only serves one that was opened, and the queue of
\* backup connections stays within its array.
THEOREM TypeCorrect == Spec => []TypeOK
<1>1. IInv => TypeOK
  BY DEF IInv
<1> QED
  BY <1>1, Invariance, PTL

\* When a client is back at its menu, all of the answer to its last request has
\* been received, and its handler waits for the next message.
THEOREM AnswersAreOver == Spec => []NoOldAnswers
<1>1. IInv => NoOldAnswers
  BY DEF IInv, Protocol, Stage, NoRequest, NoOldAnswers
<1> QED
  BY <1>1, Invariance, PTL

\* Only a client that has received a restored measurement of another device sends
\* measurements under another device's number.
THEOREM DeviceIsKept == Spec => []OwnDevice
<1>1. IInv => OwnDevice
  BY DEF IInv, Devices, Explained, Ours, OwnDevice
<1> QED
  BY <1>1, Invariance, PTL

\* A restored measurement that is not yet received is lost by no step but those
\* LossyStep names; in particular the thread that sends a queue and the one that
\* fills it lose none, whatever is chosen meanwhile, unless they were in it at once
\* with two mutexes or one of them was given NULL for a queue.
THEOREM LossesAreKnown == Spec => NothingElseLost
<1>1. IInv /\ [Next]_vars
        => [Kept \subseteq Kept' \/ LossyStep \/ \E p \in Process : Receive(p)]_vars
  <2> SUFFICES ASSUME IInv, [Next]_vars, ~LossyStep, ~\E p \in Process : Receive(p),
                      NEW m \in Kept
               PROVE  m \in Kept'
    OBVIOUS
  <2>1. ClientTypes /\ DataTypes
    BY TypeParts DEF IInv
  <2>2. ClientTypes' /\ DataTypes'
    BY ClientTypesStep, DataTypesStep, TypeParts DEF IInv
  <2>3. /\ queue \in [Device -> Seq(Measurement)] /\ queue' \in [Device -> Seq(Measurement)]
        /\ wire \in [Conn -> Seq(Measurement)] /\ wire' \in [Conn -> Seq(Measurement)]
        /\ toClient \in [Process -> Seq(Measurement)]
        /\ toClient' \in [Process -> Seq(Measurement)]
    BY <2>1, <2>2 DEF ClientTypes, DataTypes
  <2>4. m.purpose = RESTORED /\ \E s \in Sequences : m \in ToSet(s)
    BY Zenon DEF Kept
  <2>5. Somewhere(m)
    <3>1. PICK s \in Range(queue) \cup Range(wire) \cup Range(toClient) : m \in ToSet(s)
      BY <2>4 DEF Sequences
    <3>2. \/ \E d \in Device : s = queue[d]
          \/ \E c \in Conn : s = wire[c]
          \/ \E p \in Process : s = toClient[p]
      BY <2>3, <3>1 DEF Range
    <3> QED BY <3>1, <3>2 DEF Somewhere, Queued, OnWire, Relayed
  <2>6. Somewhere(m)'
    BY <2>5, KeptStep
  <2>7. \E s \in Sequences' : m \in ToSet(s)
    <3>1. /\ \A d \in Device : queue'[d] \in Range(queue')
          /\ \A c \in Conn : wire'[c] \in Range(wire')
          /\ \A p \in Process : toClient'[p] \in Range(toClient')
      BY <2>3 DEF Range
    <3>2. Sequences' = Range(queue') \cup Range(wire') \cup Range(toClient')
      BY DEF Sequences
    <3> QED BY <2>6, <3>1, <3>2, Zenon DEF Somewhere, Queued, OnWire, Relayed
  <2> QED
    BY <2>4, <2>7, Zenon DEF Kept
<1> QED
  BY <1>1, Invariance, PTL DEF Spec, NothingElseLost

=============================================================================
