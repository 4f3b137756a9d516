---------------------------- MODULE BackupProofs ----------------------------
(***************************************************************************)
(* What holds of a backup for any number of copy processes, measurements,  *)
(* connections, choices at the console and late acknowledgements.          *)
(***************************************************************************)
EXTENDS Backup, SequenceLemmas

\* A request has been sent, and it has been acknowledged.
Acknowledged == {"insert", "find", "recv", "finish", "failed"}
Engaged == {"ack"} \cup Acknowledged

USE DEF Acknowledged, Engaged

\* Types, in parts.
ConsoleTypes ==
  /\ currentBackupChoice \in Device
  /\ backup \in BOOLEAN
  /\ cpc \in {"menu", "raise", "notify"}
  /\ wanted \subseteq Device
  /\ requests \in 0..MaxRequests
  /\ wakeups \in 0..MaxWakeups
  /\ timeouts \in 0..MaxTimeouts
OrigTypes ==
  /\ opc \in {"check", "block", "wait", "connect"} \cup Engaged
  /\ odev \in Device
  /\ mutexes \subseteq Device
  /\ restored \in [Device -> Seq(Nat)]
ConnTypes ==
  /\ nconn \in 0..MaxConns
  /\ oconn = nconn
  /\ backlog \in Seq(1..nconn)
  /\ closed \subseteq 1..nconn
  /\ bpc \in {"accept", "recv", "ask", "relay"}
  /\ bconn \in 0..nconn
  /\ bpc # "accept" => bconn # 0
  /\ opc \in Engaged => oconn \in 1..nconn
DataTypes ==
  /\ request \in [Conn -> Device \cup {0}]
  /\ acks \in [Conn -> Nat]
  /\ reply \in [Conn -> Seq(Message)]
  /\ answer \in [Process -> Seq(Message)]
  /\ store \in [Process -> Seq(Message)]
  /\ ask \in [Process -> Device \cup {0}]
  /\ sent \in [Device -> Nat]
CopyTypes ==
  /\ bdev \in Device
  /\ bproc \in Process
  /\ bnum \in 0..NumProcesses
  /\ bpc \in {"ask", "relay"} => bnum < bproc
AssignTypes ==
  /\ feeds \in [Device -> Process]
  /\ processID \in [Process -> Device \cup {0}]
Types ==
  /\ ConsoleTypes /\ OrigTypes /\ ConnTypes /\ DataTypes /\ CopyTypes /\ AssignTypes

\* A copy process keeps measurements of one device, the one it is fed.
OneDevice ==
  /\ \A d, e \in Device : feeds[d] = feeds[e] => d = e
  /\ \A p \in Process : processID[p] # 0 => feeds[processID[p]] = p
  /\ \A p \in Process : \A i \in 1..Len(store[p]) :
       store[p][i].purpose = DATA /\ store[p][i].deviceId = processID[p]

\* An answer ends with its only signal; a process that is not fed the requested
\* device has nothing but SKIP_QUEUE to say.
AnswerShape ==
  \A p \in Process : \A i \in 1..Len(answer[p]) :
    /\ answer[p][i].purpose = DATA <=> i < Len(answer[p])
    /\ p # feeds[bdev] => answer[p][i].purpose = SKIP_QUEUE

\* A connection whose request has not been read yet.
Pending(c) ==
  \/ \E i \in 1..Len(backlog) : backlog[i] = c
  \/ c = bconn /\ bpc = "recv" /\ request[c] # 0

\* Nothing has been sent on it, nor on one that is yet to be opened.
Unanswered(c) ==
  /\ reply[c] = <<>> /\ acks[c] = 0 /\ c \notin closed
  /\ c = oconn => opc \notin Acknowledged
PendingUnanswered ==
  /\ \A i \in 1..Len(backlog) : request[backlog[i]] # 0 /\ backlog[i] # bconn
  /\ \A i, j \in 1..Len(backlog) : backlog[i] = backlog[j] => i = j
  /\ bpc \in {"ask", "relay"} => request[bconn] = 0
  /\ \A c \in Conn : Pending(c) \/ c > nconn => Unanswered(c)

\* The final signal of a backup has been sent on connection c.
Closing(c) == c \in closed \/ (c = oconn /\ opc = "finish")
Ended(c) == Closing(c) \/ \E i \in 1..Len(reply[c]) : reply[c][i].purpose # DATA

\* It is the last message there, and what ends a backup is its signal.
ReplyShape ==
  \A c \in Conn :
    /\ \A i \in 1..Len(reply[c]) : i < Len(reply[c]) => reply[c][i].purpose = DATA
    /\ Closing(c) => reply[c] = <<>>

\* It is sent when the process that is fed the device has been passed.
FoundPassed ==
  bpc \in {"ask", "relay"} =>
    /\ Ended(bconn) => bnum > 0
    /\ bnum > 0 => feeds[bdev] < bproc

\* The same of the measurements of two sets.
Before(S, T) == \A m \in S, n \in T : m.deviceId = n.deviceId => m.seq < n.seq

\* The places of a measurement from its way back to the copy process, besides
\* Incoming, with those that are yet to be produced.
Restored == UNION {{Stored(d, restored[d][i]) : i \in 1..Len(restored[d])} : d \in Device}
InAnswers == UNION {Data(answer[p]) : p \in Process}
InStores == UNION {Data(store[p]) : p \in Process}
Coming == {Stored(d, sent[d] + 1) : d \in Device}

Chain(A, B, C, D, E) ==
  /\ Before(A, B) /\ Before(A, C) /\ Before(A, D) /\ Before(A, E)
  /\ Before(B, C) /\ Before(B, D) /\ Before(B, E)
  /\ Before(C, D) /\ Before(C, E)
  /\ Before(D, E)

\* What is further on its way back is older.
InOrder ==
  /\ Chain(Restored, Data(Incoming), InAnswers, InStores, Coming)
  /\ Ascending(Incoming)
  /\ \A p \in Process : Ascending(answer[p]) /\ Ascending(store[p])

\* Every measurement that was stored, and where they all are.
Produced == UNION {{Stored(d, n) : n \in 1..sent[d]} : d \in Device}
Everywhere == Restored \cup Data(Incoming) \cup InAnswers \cup InStores

\* As long as no acknowledgement is late the original has at most one
\* connection open, and gives none up; nothing is lost then.
OneRequest ==
  \A c \in 1..nconn : c \in closed \/ (c = oconn /\ opc \in Engaged)
AllThere == timeouts = 0 => OneRequest /\ Everywhere = Produced

IInv ==
  /\ Types /\ OneDevice /\ NoOldAnswers /\ AnswerShape
  /\ PendingUnanswered /\ ReplyShape /\ FoundPassed
  /\ InOrder /\ RestoredInOrder /\ AllThere

-----------------------------------------------------------------------------
(* Types.                                                                  *)

LEMMA Constants ==
  /\ NumProcesses \in Nat \ {0}
  /\ MaxMessages \in Nat /\ MaxConns \in Nat /\ MaxRequests \in Nat
  /\ MaxWakeups \in Nat /\ MaxTimeouts \in Nat
  /\ 1 \in Device /\ 1 \in Process
  BY ConstantsAssumption DEF Device, Process

LEMMA MessageType ==
  /\ \A m \in Message : m.purpose \in Purpose /\ m.deviceId \in Device /\ m.seq \in Nat
  /\ \A u \in Purpose, d \in Device :
       /\ Signal(u, d) \in Message
       /\ Signal(u, d).purpose = u /\ Signal(u, d).deviceId = d
  /\ \A d \in Device, n \in Nat :
       /\ Stored(d, n) \in Message
       /\ Stored(d, n).purpose = DATA /\ Stored(d, n).deviceId = d /\ Stored(d, n).seq = n
  BY DEF Message, Signal, Stored, Purpose

LEMMA Signals ==
  /\ DATA \in Purpose /\ END_OF_QUEUE \in Purpose /\ SKIP_QUEUE \in Purpose
  /\ EMPTY_QUEUE \in Purpose /\ NO_PROCESS \in Purpose
  /\ DATA # END_OF_QUEUE /\ DATA # SKIP_QUEUE /\ DATA # EMPTY_QUEUE /\ DATA # NO_PROCESS
  /\ SKIP_QUEUE # END_OF_QUEUE /\ SKIP_QUEUE # EMPTY_QUEUE
  BY DEF Purpose, DATA, END_OF_QUEUE, SKIP_QUEUE, EMPTY_QUEUE, NO_PROCESS

\* What a relayed signal does to the connection and to the process's answer.
LEMMA RelayedSignal ==
  ASSUME Types, RelaySignal
  PROVE  LET m == Head(answer[bproc])
             found == m.purpose # SKIP_QUEUE
             none == ~found /\ bnum = 0 /\ bproc = NumProcesses
         IN /\ bpc = "relay" /\ answer[bproc] # <<>> /\ m \in Message /\ m.purpose # DATA
            /\ answer' = [answer EXCEPT ![bproc] = Tail(@)]
            /\ reply' = [reply EXCEPT ![bconn] =
                           IF found THEN Append(@, m)
                           ELSE IF none THEN Append(@, Signal(NO_PROCESS, m.deviceId)) ELSE @]
            /\ bnum' = IF found THEN bnum + 1 ELSE bnum
            /\ IF bproc = NumProcesses THEN bpc' = "recv" /\ bproc' = bproc
                                       ELSE bpc' = "ask" /\ bproc' = bproc + 1
            /\ UNCHANGED <<bconn, bdev, consoleVars, backup, origVars, nconn, backlog, request,
                           acks, closed, feeds, ask, processID, store, sent, wakeups, timeouts>>
<1> DEFINE m == Head(answer[bproc])
           found == m.purpose # SKIP_QUEUE
           none == ~found /\ bnum = 0 /\ bproc = NumProcesses
<1>1. /\ bpc = "relay" /\ answer[bproc] # <<>> /\ m.purpose # DATA
      /\ answer' = [answer EXCEPT ![bproc] = Tail(@)]
      /\ reply' = [reply EXCEPT ![bconn] =
                     (IF found THEN Append(@, m) ELSE @)
                     \o (IF none THEN <<Signal(NO_PROCESS, m.deviceId)>> ELSE <<>>)]
      /\ bnum' = bnum + (IF found THEN 1 ELSE 0)
      /\ NextProcess
      /\ UNCHANGED <<bconn, bdev, consoleVars, backup, origVars, nconn, backlog, request,
                     acks, closed, feeds, ask, processID, store, sent, wakeups, timeouts>>
  BY DEF RelaySignal
<1>2. answer[bproc] \in Seq(Message) /\ reply[bconn] \in Seq(Message) /\ bnum \in Nat
  <2>1. bconn \in Conn
    BY <1>1, Constants DEF Types, ConnTypes, Conn
  <2> QED BY <2>1, Constants DEF Types, DataTypes, CopyTypes
<1>3. m \in Message
  BY <1>1, <1>2, Shortened
<1>4. Signal(NO_PROCESS, m.deviceId) \in Message
  BY <1>3, MessageType, Signals
<1> HIDE DEF m
<1>5. \A q \in Seq(Message), s \in Message : q \o <<s>> = Append(q, s) /\ q \o <<>> = q
  OBVIOUS
<1>6. reply' = [reply EXCEPT ![bconn] =
                  IF found THEN Append(@, m)
                  ELSE IF none THEN Append(@, Signal(NO_PROCESS, m.deviceId)) ELSE @]
  <2>1. (IF found THEN Append(reply[bconn], m) ELSE reply[bconn])
        \o (IF none THEN <<Signal(NO_PROCESS, m.deviceId)>> ELSE <<>>)
        = IF found THEN Append(reply[bconn], m)
          ELSE IF none THEN Append(reply[bconn], Signal(NO_PROCESS, m.deviceId))
          ELSE reply[bconn]
    <3>1. CASE found
      <4>1. Append(reply[bconn], m) \in Seq(Message)
        BY <1>2, <1>3
      <4>2. Append(reply[bconn], m) \o <<>> = Append(reply[bconn], m)
        BY <4>1, <1>3, <1>5
      <4> QED BY <3>1, <4>2
    <3>2. CASE ~found
      BY <3>2, <1>2, <1>4, <1>5
    <3> QED BY <3>1, <3>2
  <2> QED BY <1>1, <2>1
<1>7. bnum' = IF found THEN bnum + 1 ELSE bnum
  BY <1>1, <1>2
<1> QED
  BY <1>1, <1>3, <1>6, <1>7 DEF NextProcess, m

LEMMA ConsoleTypesStep == Types /\ [Next]_vars => ConsoleTypes'
<1> SUFFICES ASSUME Types, [Next]_vars PROVE ConsoleTypes'
  OBVIOUS
<1> USE Constants DEF Types, ConsoleTypes
<1>1. ASSUME NEW d \in Device, Choose(d) PROVE ConsoleTypes'
  BY <1>1 DEF Choose
<1>2. CASE RaiseBackup
  BY <1>2 DEF RaiseBackup
<1>3. CASE NotifyBackup
  BY <1>3 DEF NotifyBackup
<1>4. CASE HandlerWakes
  <2>1. wakeups' \in 0..MaxWakeups
    BY <1>4 DEF HandlerWakes
  <2>3. backup' \in BOOLEAN
    BY <1>4 DEF HandlerWakes
  <2>2. UNCHANGED <<currentBackupChoice, cpc, wanted, requests, timeouts>>
    BY <1>4 DEF HandlerWakes, consoleVars
  <2> QED BY <2>1, <2>2, <2>3
<1>5. CASE AckTimeout
  BY <1>5 DEF AckTimeout, consoleVars
<1>6. CASE FinishBackup
  BY <1>6 DEF FinishBackup
<1>7. CASE UNCHANGED <<consoleVars, backup, wakeups, timeouts>>
  BY <1>7 DEF consoleVars
<1>8. CASE SpuriousWakeup
  BY <1>8, <1>7 DEF SpuriousWakeup
<1>9. CASE BackupThread
  BY <1>9, <1>5, <1>6, <1>7
     DEF BackupThread, CheckBackup, BlockOnBackup, SendRequest, AckArrives, InsertMutex, FindMutex, ReceiveNothing,
         ReceiveBackup
<1>10. CASE CopyThread
  BY <1>10, <1>7
     DEF CopyThread, AcceptBackup, ReadRequest, RequestorGone, AskProcess, RelayData, RelaySignal
<1>11. ASSUME NEW p \in Process, AnswerRequest(p) \/ \E d \in Device : StoreMeasurement(p, d)
       PROVE  ConsoleTypes'
  BY <1>11, <1>7 DEF AnswerRequest, StoreMeasurement
<1>12. CASE UNCHANGED vars
  BY <1>12, <1>7 DEF vars
<1> QED
  BY <1>1, <1>2, <1>3, <1>4, <1>8, <1>9, <1>10, <1>11, <1>12 DEF Next, Console

LEMMA OrigTypesStep == Types /\ [Next]_vars => OrigTypes'
<1> SUFFICES ASSUME Types, [Next]_vars PROVE OrigTypes'
  OBVIOUS
<1> USE Constants DEF Types, OrigTypes
<1>1. CASE UNCHANGED origVars
  BY <1>1 DEF origVars
<1>2. CASE Console \/ HandlerWakes
  BY <1>2, <1>1 DEF Console, Choose, RaiseBackup, NotifyBackup, HandlerWakes, origVars
<1>3. CASE \/ CheckBackup \/ BlockOnBackup \/ SpuriousWakeup \/ AckArrives \/ AckTimeout
           \/ FindMutex \/ ReceiveNothing \/ FinishBackup
  BY <1>3 DEF CheckBackup, BlockOnBackup, SpuriousWakeup, AckArrives, AckTimeout, FindMutex,
     ReceiveNothing, FinishBackup
<1>9. CASE InsertMutex
  BY <1>9 DEF InsertMutex, ConsoleTypes
<1>4. CASE SendRequest
  BY <1>4 DEF SendRequest, ConsoleTypes
<1>5. CASE ReceiveBackup
  <2> DEFINE m == Head(reply[oconn])
  <2>1. m \in Message
    <3>1. oconn \in Conn /\ reply[oconn] \in Seq(Message) /\ reply[oconn] # <<>>
      BY <1>5 DEF ReceiveBackup, ConnTypes, DataTypes, Conn
    <3> QED BY <3>1, Shortened
  <2>2. m.deviceId \in Device /\ m.seq \in Nat
    BY <2>1, MessageType
  <2> HIDE DEF m
  <2>3. /\ odev' = odev
        /\ \/ /\ restored' = [restored EXCEPT ![m.deviceId] = Append(@, m.seq)]
              /\ opc' = "insert"
           \/ opc' = "finish" /\ restored' = restored
        /\ mutexes' = mutexes
    BY <1>5 DEF ReceiveBackup, m
  <2>4. restored' \in [Device -> Seq(Nat)]
    <3>1. Append(restored[m.deviceId], m.seq) \in Seq(Nat)
      BY <2>2
    <3> QED BY <2>2, <2>3, <3>1
  <2> QED BY <2>3, <2>4
<1>6. CASE CopyThread
  BY <1>6, <1>1
     DEF CopyThread, AcceptBackup, ReadRequest, RequestorGone, AskProcess, RelayData, RelaySignal
<1>7. ASSUME NEW p \in Process, AnswerRequest(p) \/ \E d \in Device : StoreMeasurement(p, d)
      PROVE  OrigTypes'
  BY <1>7, <1>1 DEF AnswerRequest, StoreMeasurement
<1>8. CASE UNCHANGED vars
  BY <1>8, <1>1 DEF vars
<1> QED
  BY <1>2, <1>3, <1>4, <1>5, <1>6, <1>7, <1>8, <1>9 DEF Next, BackupThread

LEMMA ConnTypesStep == Types /\ [Next]_vars => ConnTypes'
<1> SUFFICES ASSUME Types, [Next]_vars PROVE ConnTypes'
  OBVIOUS
<1> USE Constants DEF Types, ConnTypes
<1>1. CASE UNCHANGED <<opc, oconn, nconn, backlog, closed, bpc, bconn>>
  BY <1>1
<1>2. CASE Console \/ HandlerWakes
  BY <1>2 DEF Console, Choose, RaiseBackup, NotifyBackup, HandlerWakes, origVars, netVars,
     copyVars
<1>3. CASE \/ CheckBackup \/ BlockOnBackup \/ SpuriousWakeup \/ AckArrives \/ AckTimeout
           \/ InsertMutex \/ FindMutex \/ ReceiveNothing \/ ReceiveBackup
  BY <1>3 DEF CheckBackup, BlockOnBackup, SpuriousWakeup, AckArrives, AckTimeout,
     InsertMutex, FindMutex, ReceiveNothing, ReceiveBackup,
     netVars, copyVars
<1>4. CASE FinishBackup
  BY <1>4 DEF FinishBackup, copyVars
<1>5. CASE SendRequest
  <2>1. /\ nconn' = nconn + 1 /\ oconn' = nconn' /\ opc' = "ack" /\ nconn < MaxConns
        /\ backlog' = Append(backlog, nconn + 1)
        /\ UNCHANGED <<closed, bpc, bconn>>
    BY <1>5 DEF SendRequest, copyVars
  <2>2. 1..nconn \subseteq 1..nconn' /\ nconn' \in 1..nconn'
    BY <2>1
  <2>3. backlog \in Seq(1..nconn')
    BY <2>2, SeqMonotonic
  <2>4. backlog' \in Seq(1..nconn')
    BY <2>1, <2>2, <2>3
  <2> QED BY <2>1, <2>2, <2>4
<1>6. CASE AcceptBackup
  <2>1. Head(backlog) \in 1..nconn /\ Tail(backlog) \in Seq(1..nconn)
    BY <1>6, Shortened DEF AcceptBackup
  <2> QED BY <1>6, <2>1 DEF AcceptBackup, origVars
<1>7. CASE ReadRequest \/ RequestorGone \/ AskProcess \/ RelayData
  BY <1>7 DEF ReadRequest, RequestorGone, AskProcess, RelayData, origVars, netVars, copyVars
<1>8. CASE RelaySignal
  BY <1>8 DEF RelaySignal, NextProcess, origVars
<1>9. ASSUME NEW p \in Process, AnswerRequest(p) \/ \E d \in Device : StoreMeasurement(p, d)
      PROVE  ConnTypes'
  BY <1>9, <1>1 DEF AnswerRequest, StoreMeasurement, origVars, netVars, copyVars
<1>10. CASE UNCHANGED vars
  BY <1>10, <1>1 DEF vars, origVars, netVars, copyVars
<1> QED
  BY <1>2, <1>3, <1>4, <1>5, <1>6, <1>7, <1>8, <1>9, <1>10 DEF Next, BackupThread, CopyThread

\* The measurements keep their types through every step.
LEMMA DataTypesStep == Types /\ [Next]_vars => DataTypes'
<1> SUFFICES ASSUME Types, [Next]_vars PROVE DataTypes'
  OBVIOUS
<1> USE Constants DEF Types
<1>t. /\ reply \in [Conn -> Seq(Message)] /\ answer \in [Process -> Seq(Message)]
      /\ bproc \in Process /\ bdev \in Device
  BY DEF DataTypes, CopyTypes
<1>1. CASE UNCHANGED <<request, acks, reply, answer, store, ask, sent>>
  BY <1>1 DEF DataTypes
<1>2. CASE Console \/ HandlerWakes
  BY <1>2, <1>1 DEF Console, Choose, RaiseBackup, NotifyBackup, HandlerWakes, netVars, procVars
<1>3. CASE \/ CheckBackup \/ BlockOnBackup \/ SpuriousWakeup \/ AckTimeout \/ FinishBackup
           \/ InsertMutex \/ FindMutex \/ ReceiveNothing \/ AcceptBackup \/ RequestorGone
  BY <1>3, <1>1 DEF CheckBackup, BlockOnBackup, SpuriousWakeup, AckTimeout, FinishBackup,
     InsertMutex, FindMutex, ReceiveNothing, AcceptBackup, RequestorGone, netVars, procVars
<1>4. CASE SendRequest
  BY <1>4 DEF SendRequest, DataTypes, ConsoleTypes, procVars
<1>5. CASE AckArrives
  <2>1. oconn \in Conn /\ acks[oconn] \in Nat /\ acks[oconn] > 0
    BY <1>5 DEF AckArrives, ConnTypes, DataTypes, Conn
  <2>2. acks[oconn] - 1 \in Nat
    BY <2>1
  <2>3. /\ acks' = [acks EXCEPT ![oconn] = acks[oconn] - 1]
        /\ UNCHANGED <<request, reply, answer, store, ask, sent>>
    BY <1>5 DEF AckArrives, procVars
  <2> QED BY <2>1, <2>2, <2>3 DEF DataTypes
<1>6. CASE ReceiveBackup
  <2>1. /\ reply' = [reply EXCEPT ![oconn] = Tail(@)] /\ reply[oconn] # <<>>
        /\ UNCHANGED <<request, acks, answer, store, ask, sent>>
    BY <1>6 DEF ReceiveBackup, procVars
  <2>2. oconn \in Conn => Tail(reply[oconn]) \in Seq(Message)
    BY <2>1, <1>t, Shortened
  <2> QED BY <2>1, <2>2 DEF DataTypes
<1>7. CASE ReadRequest
  <2>1. bconn \in Conn /\ acks[bconn] + 1 \in Nat
    BY <1>7, SMTT(30) DEF ReadRequest, ConnTypes, DataTypes, Conn
  <2>2. /\ acks' = [acks EXCEPT ![bconn] = acks[bconn] + 1]
        /\ request' = [request EXCEPT ![bconn] = 0]
        /\ UNCHANGED <<reply, answer, store, ask, sent>>
    BY <1>7 DEF ReadRequest, procVars
  <2> QED BY <2>1, <2>2 DEF DataTypes
<1>8. CASE AskProcess
  BY <1>8, <1>t DEF AskProcess, DataTypes, netVars
<1>9. CASE RelayData
  <2>1. Head(answer[bproc]) \in Message /\ Tail(answer[bproc]) \in Seq(Message)
    BY <1>9, <1>t, Shortened DEF RelayData
  <2>2. /\ reply' = [reply EXCEPT ![bconn] = Append(@, Head(answer[bproc]))]
        /\ answer' = [answer EXCEPT ![bproc] = Tail(@)]
        /\ UNCHANGED <<request, acks, store, ask, sent>>
    BY <1>9 DEF RelayData
  <2>3. bconn \in Conn => Append(reply[bconn], Head(answer[bproc])) \in Seq(Message)
    BY <2>1, <1>t
  <2> QED BY <2>1, <2>2, <2>3 DEF DataTypes
<1>10. CASE RelaySignal
  <2> DEFINE m == Head(answer[bproc])
  <2>1. /\ m \in Message /\ answer' = [answer EXCEPT ![bproc] = Tail(@)]
        /\ \E q \in {Append(reply[bconn], m), Append(reply[bconn], Signal(NO_PROCESS, m.deviceId)),
                     reply[bconn]} : reply' = [reply EXCEPT ![bconn] = q]
        /\ UNCHANGED <<request, acks, store, ask, sent>>
    BY <1>10, RelayedSignal
  <2>2. Tail(answer[bproc]) \in Seq(Message)
    BY <1>10, <1>t, Shortened DEF RelaySignal
  <2>3. Signal(NO_PROCESS, m.deviceId) \in Message
    BY <2>1, MessageType, Signals
  <2> HIDE DEF m
  <2>4. reply' \in [Conn -> Seq(Message)]
    <3>1. PICK q \in {Append(reply[bconn], m), Append(reply[bconn], Signal(NO_PROCESS, m.deviceId)),
                      reply[bconn]} : reply' = [reply EXCEPT ![bconn] = q]
      BY <2>1
    <3>2. bconn \in Conn => q \in Seq(Message)
      <4>1. bconn \in Conn => reply[bconn] \in Seq(Message)
        BY <1>t
      <4>2. \A w \in Seq(Message), n \in Message : Append(w, n) \in Seq(Message)
        OBVIOUS
      <4>3. \/ q = Append(reply[bconn], m)
            \/ q = Append(reply[bconn], Signal(NO_PROCESS, m.deviceId))
            \/ q = reply[bconn]
        OBVIOUS
      <4> QED BY <2>1, <2>3, <4>1, <4>2, <4>3
    <3> QED BY <3>1, <3>2, <1>t
  <2> QED BY <2>1, <2>2, <2>4 DEF DataTypes
<1>11. ASSUME NEW p \in Process, AnswerRequest(p) PROVE DataTypes'
  <2>1. ask[p] \in Device /\ store[p] \in Seq(Message) /\ answer[p] \in Seq(Message)
    BY <1>11 DEF AnswerRequest, DataTypes
  <2>2. \A u \in Purpose : Signal(u, ask[p]) \in Message
    BY <2>1, MessageType
  <2>3. /\ \E q \in {Append(answer[p], Signal(SKIP_QUEUE, ask[p])),
                     Append(answer[p], Signal(EMPTY_QUEUE, ask[p])),
                     (answer[p] \o store[p]) \o <<Signal(END_OF_QUEUE, ask[p])>>} :
              answer' = [answer EXCEPT ![p] = q]
        /\ store' = store \/ store' = [store EXCEPT ![p] = <<>>]
        /\ ask' = [ask EXCEPT ![p] = 0]
        /\ UNCHANGED <<request, acks, reply, sent>>
    BY <1>11 DEF AnswerRequest, netVars
  <2>4. /\ Append(answer[p], Signal(SKIP_QUEUE, ask[p])) \in Seq(Message)
        /\ Append(answer[p], Signal(EMPTY_QUEUE, ask[p])) \in Seq(Message)
        /\ (answer[p] \o store[p]) \o <<Signal(END_OF_QUEUE, ask[p])>> \in Seq(Message)
    BY <2>1, <2>2, Signals
  <2>5. answer' \in [Process -> Seq(Message)]
    <3>1. PICK q \in {Append(answer[p], Signal(SKIP_QUEUE, ask[p])),
                      Append(answer[p], Signal(EMPTY_QUEUE, ask[p])),
                      (answer[p] \o store[p]) \o <<Signal(END_OF_QUEUE, ask[p])>>} :
               answer' = [answer EXCEPT ![p] = q]
      BY <2>3
    <3>2. q \in Seq(Message)
      BY <2>4
    <3> QED BY <3>1, <3>2, <1>t
  <2>6. store' \in [Process -> Seq(Message)]
    <3>1. store \in [Process -> Seq(Message)] /\ <<>> \in Seq(Message)
      BY DEF DataTypes
    <3> QED BY <2>3, <3>1
  <2> QED BY <2>3, <2>5, <2>6 DEF DataTypes
<1>12. ASSUME NEW p \in Process, NEW d \in Device, StoreMeasurement(p, d) PROVE DataTypes'
  <2>1. /\ store' = store \/ store' = [store EXCEPT ![p] = Append(@, Stored(d, sent[d] + 1))]
        /\ sent' = [sent EXCEPT ![d] = @ + 1]
        /\ UNCHANGED <<request, acks, reply, answer, ask>>
    BY <1>12 DEF StoreMeasurement, netVars
  <2>2. sent[d] + 1 \in Nat /\ store[p] \in Seq(Message)
    BY DEF DataTypes
  <2>3. Append(store[p], Stored(d, sent[d] + 1)) \in Seq(Message)
    BY <2>2, MessageType
  <2> QED BY <2>1, <2>2, <2>3 DEF DataTypes
<1>13. CASE UNCHANGED vars
  BY <1>13, <1>1 DEF vars, netVars, procVars
<1> QED
  BY <1>2, <1>3, <1>4, <1>5, <1>6, <1>7, <1>8, <1>9, <1>10, <1>11, <1>12, <1>13
     DEF Next, BackupThread, CopyThread

LEMMA CopyTypesStep == Types /\ [Next]_vars => CopyTypes'
<1> SUFFICES ASSUME Types, [Next]_vars PROVE CopyTypes'
  OBVIOUS
<1> USE Constants DEF Types, CopyTypes
<1>1. CASE UNCHANGED copyVars
  BY <1>1 DEF copyVars
<1>2. CASE Console \/ HandlerWakes \/ SpuriousWakeup \/ BackupThread
  BY <1>2, <1>1 DEF Console, Choose, RaiseBackup, NotifyBackup, HandlerWakes, SpuriousWakeup,
     BackupThread, CheckBackup, BlockOnBackup, SendRequest, AckArrives, AckTimeout,
     InsertMutex, FindMutex, ReceiveNothing, ReceiveBackup, FinishBackup
<1>3. CASE AcceptBackup \/ RequestorGone \/ AskProcess \/ RelayData
  BY <1>3 DEF AcceptBackup, RequestorGone, AskProcess, RelayData, copyVars
<1>4. CASE ReadRequest
  <2>1. bdev' \in Device
    <3>1. bconn \in Conn
      BY <1>4 DEF ReadRequest, ConnTypes, Conn
    <3> QED BY <1>4, <3>1 DEF ReadRequest, DataTypes
  <2> QED BY <1>4, <2>1 DEF ReadRequest
<1>5. CASE RelaySignal
  <2>1. /\ bpc = "relay" /\ bnum' \in {bnum, bnum + 1} /\ bdev' = bdev
        /\ \/ bproc = NumProcesses /\ bpc' = "recv" /\ bproc' = bproc
           \/ bproc # NumProcesses /\ bpc' = "ask" /\ bproc' = bproc + 1
    BY <1>5, RelayedSignal
  <2> QED BY <2>1 DEF Process
<1>6. ASSUME NEW p \in Process, AnswerRequest(p) \/ \E d \in Device : StoreMeasurement(p, d)
      PROVE  CopyTypes'
  BY <1>6, <1>1 DEF AnswerRequest, StoreMeasurement
<1>7. CASE UNCHANGED vars
  BY <1>7, <1>1 DEF vars
<1> QED
  BY <1>2, <1>3, <1>4, <1>5, <1>6, <1>7 DEF Next, CopyThread

LEMMA AssignTypesStep == Types /\ [Next]_vars => AssignTypes'
<1> SUFFICES ASSUME Types, [Next]_vars PROVE AssignTypes'
  OBVIOUS
<1> USE Constants DEF Types, AssignTypes
<1>1. CASE UNCHANGED <<feeds, processID>>
  BY <1>1
<1>2. CASE Console \/ HandlerWakes \/ SpuriousWakeup \/ BackupThread
  BY <1>2, <1>1 DEF Console, Choose, RaiseBackup, NotifyBackup, HandlerWakes, SpuriousWakeup,
     BackupThread, CheckBackup, BlockOnBackup, SendRequest, AckArrives, AckTimeout,
     InsertMutex, FindMutex, ReceiveNothing, ReceiveBackup, FinishBackup, procVars
<1>3. CASE CopyThread
  BY <1>3, <1>1
     DEF CopyThread, AcceptBackup, ReadRequest, RequestorGone, AskProcess, RelayData, RelaySignal,
         procVars
<1>4. ASSUME NEW p \in Process, AnswerRequest(p) \/ \E d \in Device : StoreMeasurement(p, d)
      PROVE  AssignTypes'
  <2>1. CASE AnswerRequest(p)
    BY <2>1, <1>1 DEF AnswerRequest
  <2>2. ASSUME NEW d \in Device, StoreMeasurement(p, d) PROVE AssignTypes'
    <3>1. feeds' = feeds /\ \E e \in {d, processID[p]} : processID' = [processID EXCEPT ![p] = e]
      BY <2>2 DEF StoreMeasurement
    <3> QED BY <3>1
  <2> QED BY <1>4, <2>1, <2>2
<1>5. CASE UNCHANGED vars
  BY <1>5, <1>1 DEF vars, procVars
<1> QED
  BY <1>2, <1>3, <1>4, <1>5 DEF Next

LEMMA TypesStep == Types /\ [Next]_vars => Types'
  BY ConsoleTypesStep, OrigTypesStep, ConnTypesStep, DataTypesStep, CopyTypesStep, AssignTypesStep
     DEF Types

LEMMA InitTypes == Init => Types
<1> SUFFICES ASSUME Init PROVE Types
  OBVIOUS
<1>1. ConsoleTypes
  <2>1. currentBackupChoice = 1 /\ requests = 0 /\ wakeups = 0 /\ timeouts = 0 /\ wanted = {}
    BY DEF Init
  <2>2. backup \in BOOLEAN /\ cpc = "menu"
    BY DEF Init
  <2> QED BY <2>1, <2>2, Constants DEF ConsoleTypes
<1>2. OrigTypes
  BY Constants DEF Init, OrigTypes
<1>3. ConnTypes
  BY Constants DEF Init, ConnTypes
<1>4. DataTypes
  BY Constants DEF Init, DataTypes
<1>5. CopyTypes
  BY Constants DEF Init, CopyTypes
<1>6. AssignTypes
  BY Constants DEF Init, AssignTypes, Bijection, Injection, Surjection
<1> QED
  BY <1>1, <1>2, <1>3, <1>4, <1>5, <1>6 DEF Types

LEMMA TypesAreCorrect == Types => TypeOK
<1> SUFFICES ASSUME Types PROVE TypeOK
  OBVIOUS
<1>1. backlog \in Seq(Conn) /\ closed \subseteq Conn /\ nconn \in 0..MaxConns
      /\ oconn \in 0..nconn /\ bconn \in 0..nconn /\ bpc \in {"accept", "recv", "ask", "relay"}
  <2>1. 1..nconn \subseteq Conn
    BY Constants DEF Types, ConnTypes, Conn
  <2> QED BY <2>1, SeqMonotonic, Constants DEF Types, ConnTypes
<1> QED
  BY <1>1 DEF Types, ConsoleTypes, OrigTypes, DataTypes, CopyTypes, AssignTypes, TypeOK

-----------------------------------------------------------------------------
(* The copy processes and their answers.                                   *)

LEMMA OneDeviceStep == Types /\ OneDevice /\ [Next]_vars => OneDevice'
<1> SUFFICES ASSUME Types, OneDevice, [Next]_vars PROVE OneDevice'
  OBVIOUS
<1>t. /\ feeds \in [Device -> Process] /\ processID \in [Process -> Device \cup {0}]
      /\ store \in [Process -> Seq(Message)] /\ sent \in [Device -> Nat]
  BY DEF Types, AssignTypes, DataTypes
<1>1. CASE UNCHANGED <<feeds, processID, store>>
  BY <1>1 DEF OneDevice
<1>2. CASE Console \/ HandlerWakes \/ SpuriousWakeup \/ BackupThread
  BY <1>2, <1>1 DEF Console, Choose, RaiseBackup, NotifyBackup, HandlerWakes, SpuriousWakeup,
     BackupThread, CheckBackup, BlockOnBackup, SendRequest, AckArrives, AckTimeout,
     InsertMutex, FindMutex, ReceiveNothing, ReceiveBackup, FinishBackup, procVars
<1>3. CASE CopyThread
  BY <1>3, <1>1
     DEF CopyThread, AcceptBackup, ReadRequest, RequestorGone, AskProcess, RelayData, RelaySignal,
         procVars
<1>4. ASSUME NEW p \in Process, AnswerRequest(p) PROVE OneDevice'
  <2>1. /\ feeds' = feeds /\ processID' = processID
        /\ store' = store \/ store' = [store EXCEPT ![p] = <<>>]
    BY <1>4 DEF AnswerRequest
  <2>2. \A r \in Process : store'[r] = store[r] \/ store'[r] = <<>>
    BY <2>1, <1>t
  <2>3. Len(<<>>) = 0
    OBVIOUS
  <2> QED BY <2>1, <2>2, <2>3 DEF OneDevice
<1>5. ASSUME NEW p \in Process, NEW d \in Device, StoreMeasurement(p, d) PROVE OneDevice'
  <2>1. /\ feeds' = feeds /\ feeds[d] = p
        /\ processID' = [processID EXCEPT ![p] = IF store[p] = <<>> THEN d ELSE @]
        /\ store' = IF processID'[p] = d
                    THEN [store EXCEPT ![p] = Append(@, Stored(d, sent[d] + 1))] ELSE store
    BY <1>5 DEF StoreMeasurement
  <2>2. ASSUME NEW r \in Process, r # p
        PROVE  processID'[r] = processID[r] /\ store'[r] = store[r]
    BY <2>1, <2>2, <1>t
  <2>3. /\ processID'[p] = IF store[p] = <<>> THEN d ELSE processID[p]
        /\ store'[p] = IF processID'[p] = d
                       THEN Append(store[p], Stored(d, sent[d] + 1)) ELSE store[p]
    BY <2>1, <1>t
  <2>4. processID'[p] # 0 => feeds[processID'[p]] = p
    BY <2>1, <2>3 DEF OneDevice
  <2>5. ASSUME NEW i \in 1..Len(store'[p])
        PROVE  store'[p][i].purpose = DATA /\ store'[p][i].deviceId = processID'[p]
    <3> DEFINE m == Stored(d, sent[d] + 1)
    <3>1. m \in Message /\ m.purpose = DATA /\ m.deviceId = d
      BY <1>t, MessageType
    <3>2. store[p] # <<>> => processID'[p] = processID[p]
      BY <2>3
    <3>3. store[p] = <<>> => Len(store[p]) = 0
      OBVIOUS
    <3>4. \A j \in 1..Len(store[p]) :
            store[p][j].purpose = DATA /\ store[p][j].deviceId = processID'[p]
      BY <3>2, <3>3 DEF OneDevice
    <3>5. CASE processID'[p] = d
      <4>1. store'[p] = Append(store[p], m) /\ store[p] \in Seq(Message)
        BY <2>3, <3>5, <1>t
      <4> HIDE DEF m
      <4>2. /\ Len(store[p]) \in Nat /\ Len(store'[p]) = Len(store[p]) + 1
            /\ \A j \in 1..Len(store[p]) : store'[p][j] = store[p][j]
            /\ store'[p][Len(store[p]) + 1] = m
        BY <4>1, <3>1, Appended
      <4>3. i \in 1..Len(store[p]) \/ i = Len(store[p]) + 1
        BY <4>2
      <4> QED BY <4>2, <4>3, <3>1, <3>4, <3>5
    <3>6. CASE processID'[p] # d
      BY <3>4, <3>6, <2>3
    <3> QED BY <3>5, <3>6
  <2> QED BY <2>1, <2>2, <2>4, <2>5 DEF OneDevice
<1>6. CASE UNCHANGED vars
  BY <1>6, <1>1 DEF vars, procVars
<1> QED
  BY <1>2, <1>3, <1>4, <1>5, <1>6 DEF Next

\* Between two processes nothing has been asked and nothing is being answered.
Quiet == \A p \in Process : ask[p] = 0 /\ answer[p] = <<>>

LEMMA QuietUnlessRelaying ==
  Types /\ NoOldAnswers /\ bpc # "relay" => Quiet
  BY DEF NoOldAnswers, Quiet

LEMMA QuietIsFine == Quiet => NoOldAnswers /\ AnswerShape
<1>1. Len(<<>>) = 0
  OBVIOUS
<1> QED BY <1>1 DEF NoOldAnswers, AnswerShape, Quiet

LEMMA AnswersStep ==
  Types /\ OneDevice /\ NoOldAnswers /\ AnswerShape /\ [Next]_vars => NoOldAnswers' /\ AnswerShape'
<1> SUFFICES ASSUME Types, OneDevice, NoOldAnswers, AnswerShape, [Next]_vars
             PROVE  NoOldAnswers' /\ AnswerShape'
  OBVIOUS
<1>t. /\ bdev \in Device /\ bproc \in Process
      /\ ask \in [Process -> Device \cup {0}]
      /\ answer \in [Process -> Seq(Message)] /\ store \in [Process -> Seq(Message)]
  BY DEF Types, CopyTypes, DataTypes
<1>0. 0 \notin Device
  BY DEF Device
<1>1. CASE UNCHANGED <<ask, answer, bpc, bproc, bdev, feeds>>
  BY <1>1 DEF NoOldAnswers, AnswerShape
<1>2. CASE Console \/ HandlerWakes \/ SpuriousWakeup \/ BackupThread
  BY <1>2, <1>1 DEF Console, Choose, RaiseBackup, NotifyBackup, HandlerWakes, SpuriousWakeup,
     BackupThread, CheckBackup, BlockOnBackup, SendRequest, AckArrives, AckTimeout,
     InsertMutex, FindMutex, ReceiveNothing, ReceiveBackup, FinishBackup, procVars, copyVars
<1>3. CASE AcceptBackup \/ ReadRequest \/ RequestorGone
  <2>1. bpc # "relay" /\ UNCHANGED <<ask, answer>>
    BY <1>3 DEF AcceptBackup, ReadRequest, RequestorGone, procVars
  <2>2. Quiet'
    BY <2>1, QuietUnlessRelaying DEF Quiet
  <2>3. Quiet' => NoOldAnswers' /\ AnswerShape'
    BY QuietIsFine, PTL
  <2> QED BY <2>2, <2>3
<1>4. CASE AskProcess
  <2>1. /\ bpc = "ask" /\ bpc' = "relay" /\ ask' = [ask EXCEPT ![bproc] = bdev]
        /\ UNCHANGED <<answer, bproc, bdev, feeds>>
    BY <1>4 DEF AskProcess
  <2>2. Quiet
    BY <2>1, QuietUnlessRelaying
  <2>3. \A p \in Process : answer'[p] = <<>> /\ ask'[p] = IF p = bproc THEN bdev ELSE 0
    BY <2>1, <2>2, <1>t DEF Quiet
  <2>4. Len(<<>>) = 0
    OBVIOUS
  <2> QED BY <2>1, <2>3, <2>4, <1>t, <1>0 DEF NoOldAnswers, AnswerShape
<1>5. CASE RelayData
  <2> DEFINE q == answer[bproc]
  <2>1. /\ bpc = "relay" /\ q # <<>> /\ answer' = [answer EXCEPT ![bproc] = Tail(@)]
        /\ UNCHANGED <<ask, bpc, bproc, bdev, feeds>>
    BY <1>5 DEF RelayData, copyVars
  <2>2. /\ q \in Seq(Message) /\ answer'[bproc] = Tail(q)
        /\ \A p \in Process \ {bproc} : answer'[p] = answer[p]
    BY <2>1, <1>t
  <2>3. /\ Len(q) \in Nat \ {0} /\ Len(Tail(q)) = Len(q) - 1
        /\ \A i \in 1..Len(Tail(q)) : Tail(q)[i] = q[i + 1]
    BY <2>1, <2>2, Shortened
  <2>4. \A i \in 1..Len(q) : /\ q[i].purpose = DATA <=> i < Len(q)
                             /\ bproc # feeds[bdev] => q[i].purpose = SKIP_QUEUE
                             /\ q[i].deviceId = bdev
    BY <2>1, <1>t DEF AnswerShape, NoOldAnswers
  <2> HIDE DEF q
  <2>5. \A i \in 1..Len(Tail(q)) : i + 1 \in 1..Len(q) /\ (i + 1 < Len(q) <=> i < Len(Tail(q)))
    BY <2>3
  <2>6. \A i \in 1..Len(Tail(q)) : /\ Tail(q)[i].purpose = DATA <=> i < Len(Tail(q))
                                   /\ bproc # feeds[bdev] => Tail(q)[i].purpose = SKIP_QUEUE
                                   /\ Tail(q)[i].deviceId = bdev
    BY <2>3, <2>4, <2>5
  <2>7. ask[bproc] = 0
    BY <2>1, <1>t DEF NoOldAnswers, q
  <2>8. NoOldAnswers'
    <3>1. ASSUME NEW p \in Process, ask'[p] # 0 \/ answer'[p] # <<>>
          PROVE  /\ bpc' = "relay" /\ bproc' = p
                 /\ ask'[p] # 0 => ask'[p] = bdev' /\ answer'[p] = <<>>
                 /\ \A i \in 1..Len(answer'[p]) : answer'[p][i].deviceId = bdev'
      <4>1. CASE p = bproc
        BY <4>1, <2>1, <2>2, <2>6, <2>7
      <4>2. CASE p # bproc
        BY <4>2, <3>1, <2>1, <2>2 DEF NoOldAnswers
      <4> QED BY <4>1, <4>2
    <3> QED BY <3>1 DEF NoOldAnswers
  <2>9. AnswerShape'
    <3>1. ASSUME NEW p \in Process, NEW i \in 1..Len(answer'[p])
          PROVE  /\ answer'[p][i].purpose = DATA <=> i < Len(answer'[p])
                 /\ p # feeds'[bdev'] => answer'[p][i].purpose = SKIP_QUEUE
      <4>1. CASE p = bproc
        BY <4>1, <2>1, <2>2, <2>6
      <4>2. CASE p # bproc
        BY <4>2, <2>1, <2>2 DEF AnswerShape
      <4> QED BY <4>1, <4>2
    <3> QED BY <3>1 DEF AnswerShape
  <2> QED BY <2>8, <2>9
<1>6. CASE RelaySignal
  <2> DEFINE q == answer[bproc]
  <2>1. /\ bpc = "relay" /\ q # <<>> /\ Head(q).purpose # DATA /\ ask' = ask
        /\ answer' = [answer EXCEPT ![bproc] = Tail(@)]
    BY <1>6 DEF RelaySignal
  <2>2. Len(q) = 1
    <3>1. q \in Seq(Message) /\ Len(q) \in Nat \ {0} /\ Head(q) = q[1]
      BY <2>1, <1>t, Shortened
    <3>2. 1 \in 1..Len(q) /\ (q[1].purpose = DATA <=> 1 < Len(q))
      BY <3>1, <1>t DEF AnswerShape
    <3> HIDE DEF q
    <3>3. q[1].purpose # DATA
      BY <2>1, <3>1
    <3>4. ~(1 < Len(q))
      BY <3>2, <3>3
    <3>5. Len(q) \in Nat \ {0}
      BY <3>1
    <3> DEFINE n == Len(q)
    <3>6. n \in Nat \ {0} /\ ~(1 < n)
      BY <3>4, <3>5
    <3> HIDE DEF n
    <3>7. n = 1
      BY <3>6
    <3> QED BY <3>7 DEF n
  <2>3. Tail(q) = <<>>
    BY <2>1, <2>2, <1>t, Shortened
  <2>4. \A p \in Process : ask[p] = 0 /\ (p # bproc => answer[p] = <<>>)
    BY <2>1, <1>t DEF NoOldAnswers
  <2>5. Quiet'
    BY <2>1, <2>3, <2>4, <1>t DEF Quiet
  <2>6. Quiet' => NoOldAnswers' /\ AnswerShape'
    BY QuietIsFine, PTL
  <2> QED BY <2>5, <2>6
<1>7. ASSUME NEW p \in Process, AnswerRequest(p) PROVE NoOldAnswers' /\ AnswerShape'
  <2>1. /\ ask[p] # 0 /\ ask' = [ask EXCEPT ![p] = 0]
        /\ answer' = [answer EXCEPT ![p] =
             IF processID[p] # ask[p] THEN Append(@, Signal(SKIP_QUEUE, ask[p]))
             ELSE IF store[p] = <<>> THEN Append(@, Signal(EMPTY_QUEUE, ask[p]))
             ELSE (@ \o store[p]) \o <<Signal(END_OF_QUEUE, ask[p])>>]
        /\ UNCHANGED <<bpc, bproc, bdev, feeds>>
    BY <1>7 DEF AnswerRequest, copyVars
  <2>2. bpc = "relay" /\ bproc = p /\ ask[p] = bdev /\ answer[p] = <<>>
    BY <2>1 DEF NoOldAnswers
  <2>3. \A r \in Process \ {p} : ask[r] = 0 /\ answer[r] = <<>>
    BY <2>2 DEF NoOldAnswers
  <2> DEFINE q == IF processID[p] # bdev THEN Append(<<>>, Signal(SKIP_QUEUE, bdev))
                  ELSE IF store[p] = <<>> THEN Append(<<>>, Signal(EMPTY_QUEUE, bdev))
                  ELSE Append(store[p], Signal(END_OF_QUEUE, bdev))
  <2>4. answer' = [answer EXCEPT ![p] = q]
    <3>1. \A s : (<<>> \o store[p]) \o <<s>> = Append(store[p], s)
      BY <1>t
    <3> QED BY <2>1, <2>2, <3>1
  <2>5. \A u \in Purpose : /\ Signal(u, bdev) \in Message
                           /\ Signal(u, bdev).purpose = u /\ Signal(u, bdev).deviceId = bdev
    BY <1>t, MessageType
  <2>6. ASSUME NEW i \in 1..Len(q)
        PROVE  /\ q[i].purpose = DATA <=> i < Len(q)
               /\ p # feeds[bdev] => q[i].purpose = SKIP_QUEUE
               /\ q[i].deviceId = bdev
    <3>1. <<>> \in Seq(Message) /\ Len(<<>>) = 0
      OBVIOUS
    <3>2. CASE processID[p] # bdev
      <4> DEFINE s == Signal(SKIP_QUEUE, bdev)
      <4>1. s \in Message /\ s.purpose = SKIP_QUEUE /\ s.deviceId = bdev
        BY <2>5, Signals
      <4> HIDE DEF s
      <4>2. Len(Append(<<>>, s)) = 1 /\ Append(<<>>, s)[1] = s
        BY <4>1, <3>1, Appended
      <4>3. q = Append(<<>>, s)
        BY <3>2 DEF s
      <4> QED BY <4>1, <4>2, <4>3, Signals
    <3>3. CASE processID[p] = bdev
      <4>1. p = feeds[bdev]
        BY <3>3, <1>t, <1>0 DEF OneDevice
      <4>2. CASE store[p] = <<>>
        <5> DEFINE s == Signal(EMPTY_QUEUE, bdev)
        <5>1. s \in Message /\ s.purpose = EMPTY_QUEUE /\ s.deviceId = bdev
          BY <2>5, Signals
        <5> HIDE DEF s
        <5>2. Len(Append(<<>>, s)) = 1 /\ Append(<<>>, s)[1] = s
          BY <5>1, <3>1, Appended
        <5>3. q = Append(<<>>, s)
          BY <3>3, <4>2 DEF s
        <5> QED BY <4>1, <5>1, <5>2, <5>3, Signals
      <4>3. CASE store[p] # <<>>
        <5> DEFINE s == Signal(END_OF_QUEUE, bdev)
        <5>1. s \in Message /\ s.purpose = END_OF_QUEUE /\ s.deviceId = bdev
          BY <2>5, Signals
        <5> HIDE DEF s
        <5>2. q = Append(store[p], s)
          BY <3>3, <4>3 DEF s
        <5>i. i \in 1..Len(q)
          OBVIOUS
        <5> HIDE DEF q
        <5>3. /\ Len(store[p]) \in Nat /\ Len(q) = Len(store[p]) + 1
              /\ \A j \in 1..Len(store[p]) : q[j] = store[p][j]
              /\ q[Len(store[p]) + 1] = s
          BY <5>1, <5>2, <1>t, Appended
        <5>4. \A j \in 1..Len(store[p]) :
                store[p][j].purpose = DATA /\ store[p][j].deviceId = bdev
          BY <3>3 DEF OneDevice
        <5>5. \/ i \in 1..Len(store[p]) /\ i < Len(q)
              \/ i = Len(store[p]) + 1 /\ ~(i < Len(q))
          BY <5>i, <5>3
        <5> QED BY <4>1, <5>1, <5>3, <5>4, <5>5, Signals
      <4> QED BY <4>2, <4>3
    <3> QED BY <3>2, <3>3
  <2> HIDE DEF q
  <2>7. /\ ask'[p] = 0 /\ answer'[p] = q
        /\ \A r \in Process \ {p} : ask'[r] = 0 /\ answer'[r] = <<>>
    BY <2>1, <2>3, <2>4, <1>t
  <2>8. NoOldAnswers'
    BY <2>1, <2>2, <2>6, <2>7 DEF NoOldAnswers
  <2>9. AnswerShape'
    <3>1. \A r \in Process \ {p} : Len(answer'[r]) = 0
      BY <2>7
    <3>2. ASSUME NEW r \in Process, NEW i \in 1..Len(answer'[r])
          PROVE  /\ answer'[r][i].purpose = DATA <=> i < Len(answer'[r])
                 /\ r # feeds'[bdev'] => answer'[r][i].purpose = SKIP_QUEUE
      <4>1. CASE r = p
        BY <4>1, <2>1, <2>6, <2>7
      <4>2. CASE r # p
        BY <4>2, <3>1
      <4> QED BY <4>1, <4>2
    <3> QED BY <3>2 DEF AnswerShape
  <2> QED BY <2>8, <2>9
<1>8. ASSUME NEW p \in Process, NEW d \in Device, StoreMeasurement(p, d)
      PROVE  NoOldAnswers' /\ AnswerShape'
  BY <1>8, <1>1 DEF StoreMeasurement, copyVars
<1>9. CASE UNCHANGED vars
  BY <1>9, <1>1 DEF vars, procVars, copyVars
<1> QED
  BY <1>2, <1>3, <1>4, <1>5, <1>6, <1>7, <1>8, <1>9 DEF Next, CopyThread

-----------------------------------------------------------------------------
(* The connections.                                                        *)

LEMMA PendingStep == Types /\ PendingUnanswered /\ [Next]_vars => PendingUnanswered'
<1> SUFFICES ASSUME Types, PendingUnanswered, [Next]_vars PROVE PendingUnanswered'
  OBVIOUS
<1>t. /\ nconn \in Nat /\ nconn <= MaxConns /\ oconn = nconn
      /\ backlog \in Seq(1..nconn) /\ bconn \in 0..nconn
      /\ bpc # "accept" => bconn \in 1..nconn
      /\ opc \in Engaged => oconn \in 1..nconn
      /\ closed \subseteq 1..nconn
      /\ request \in [Conn -> Device \cup {0}] /\ acks \in [Conn -> Nat]
      /\ reply \in [Conn -> Seq(Message)]
      /\ 1..nconn \subseteq Conn /\ currentBackupChoice # 0
  <2>1. /\ nconn \in Nat /\ nconn <= MaxConns /\ oconn = nconn
        /\ backlog \in Seq(1..nconn) /\ bconn \in 0..nconn
        /\ bpc # "accept" => bconn \in 1..nconn
        /\ opc \in Engaged => oconn \in 1..nconn
        /\ closed \subseteq 1..nconn
    BY DEF Types, ConnTypes
  <2>2. /\ request \in [Conn -> Device \cup {0}] /\ acks \in [Conn -> Nat]
        /\ reply \in [Conn -> Seq(Message)]
    BY DEF Types, DataTypes, ConnTypes
  <2>3. currentBackupChoice # 0
    BY DEF Types, ConsoleTypes, Device
  <2>4. 1..nconn \subseteq Conn
    BY <2>1, Constants DEF Conn
  <2> QED BY <2>1, <2>2, <2>3, <2>4
<1>0. \A c \in Conn : Pending(c) \/ c > nconn => Unanswered(c)
  BY DEF PendingUnanswered
\* A step that makes nothing pending and sends nothing on what is.
<1>same. ASSUME backlog' = backlog, nconn' = nconn, bconn' = bconn, request' = request,
                bpc' \in {"ask", "relay"} => bpc \in {"ask", "relay"},
                \A c \in Conn : Pending(c)' => Pending(c),
                \A c \in Conn : Unanswered(c) => Unanswered(c)'
         PROVE  PendingUnanswered'
  BY <1>same, <1>0 DEF PendingUnanswered
<1>1. CASE UNCHANGED <<backlog, nconn, bconn, bpc, request, reply, acks, closed, oconn, opc>>
  BY <1>1, <1>same DEF Pending, Unanswered
<1>2. CASE \/ Console \/ HandlerWakes \/ CheckBackup \/ BlockOnBackup \/ SpuriousWakeup
           \/ AckTimeout \/ InsertMutex \/ FindMutex \/ ReceiveNothing
  <2>1. /\ UNCHANGED <<backlog, nconn, bconn, bpc, request, reply, acks, closed, oconn>>
        /\ opc' \in Acknowledged => opc \in Acknowledged
    BY <1>2 DEF Console, Choose, RaiseBackup, NotifyBackup, HandlerWakes, CheckBackup,
       BlockOnBackup, SpuriousWakeup, AckTimeout, InsertMutex, FindMutex, ReceiveNothing,
       netVars, copyVars, origVars
  <2> QED BY <2>1, <1>same DEF Pending, Unanswered
<1>3. CASE SendRequest
  <2> DEFINE n == nconn + 1
  <2>1. /\ n \in Conn /\ nconn' = n /\ oconn' = n /\ opc' = "ack"
        /\ backlog' = Append(backlog, n)
        /\ request' = [request EXCEPT ![n] = currentBackupChoice]
        /\ UNCHANGED <<bconn, bpc, reply, acks, closed>>
    BY <1>3, <1>t, Constants DEF SendRequest, copyVars, Conn
  <2>2. /\ Len(backlog) \in Nat /\ Len(backlog') = Len(backlog) + 1
        /\ \A i \in 1..Len(backlog) : backlog'[i] = backlog[i] /\ backlog[i] \in 1..nconn
        /\ backlog'[Len(backlog) + 1] = n
    <3>1. 1..nconn \subseteq 1..n
      BY <1>t
    <3>2. backlog \in Seq(1..n) /\ n \in 1..n
      BY <3>1, <1>t, SeqMonotonic
    <3>3. \A i \in 1..Len(backlog) : backlog[i] \in 1..nconn
      BY <1>t, ElementOfSeq
    <3> HIDE DEF n
    <3> QED BY <2>1, <3>2, <3>3, Appended
  <2>3. \A k \in 1..nconn : k # n /\ k \in Conn /\ request'[k] = request[k]
    BY <2>1, <1>t
  <2>4. request'[n] # 0 /\ n # bconn /\ n > nconn /\ n \notin 1..nconn
    BY <2>1, <1>t
  <2>5. \A i \in 1..Len(backlog') : i \in 1..Len(backlog) \/ i = Len(backlog) + 1
    BY <2>2
  <2> HIDE DEF n
  <2>6. \A i \in 1..Len(backlog') : request'[backlog'[i]] # 0 /\ backlog'[i] # bconn'
    BY <2>1, <2>2, <2>3, <2>4, <2>5 DEF PendingUnanswered
  <2>7. \A i, j \in 1..Len(backlog') : backlog'[i] = backlog'[j] => i = j
    BY <2>2, <2>4, <2>5 DEF PendingUnanswered
  <2>8. bpc' \in {"ask", "relay"} => request'[bconn'] = 0
    <3>1. bpc \in {"ask", "relay"} => bconn \in 1..nconn
      BY <1>t
    <3> QED BY <2>1, <2>3, <3>1 DEF PendingUnanswered
  <2>9. ASSUME NEW c \in Conn, Pending(c)' \/ c > nconn' PROVE Unanswered(c)'
    <3>1. Pending(c) \/ c > nconn
      <4>1. CASE c > nconn'
        BY <4>1, <2>1, <1>t DEF n, Conn
      <4>2. CASE \E i \in 1..Len(backlog') : backlog'[i] = c
        BY <4>2, <2>2, <2>4, <2>5 DEF Pending
      <4>3. CASE c = bconn' /\ bpc' = "recv" /\ request'[c] # 0
        <5>1. c \in 1..nconn /\ c = bconn /\ bpc = "recv"
          BY <4>3, <2>1, <1>t
        <5> QED BY <5>1, <4>3, <2>3 DEF Pending
      <4> QED BY <2>9, <4>1, <4>2, <4>3 DEF Pending
    <3> QED BY <3>1, <1>0, <2>1 DEF Unanswered
  <2> QED BY <2>6, <2>7, <2>8, <2>9 DEF PendingUnanswered
<1>4. CASE AckArrives \/ ReceiveBackup \/ FinishBackup
  <2>1. /\ opc \in Acknowledged \/ acks[oconn] # 0
        /\ oconn \in 1..nconn
        /\ UNCHANGED <<backlog, nconn, bconn, bpc, request, oconn>>
        /\ \/ opc \in Acknowledged /\ acks' = acks
           \/ acks' = [acks EXCEPT ![oconn] = acks[oconn] - 1]
        /\ reply' = reply \/ reply' = [reply EXCEPT ![oconn] = Tail(@)]
        /\ closed' \subseteq closed \cup {oconn}
    <3>1. CASE AckArrives
      BY <3>1, <1>t DEF AckArrives, copyVars
    <3>2. CASE ReceiveBackup
      BY <3>2, <1>t DEF ReceiveBackup, copyVars
    <3>3. CASE FinishBackup
      BY <3>3, <1>t DEF FinishBackup, copyVars
    <3> QED BY <1>4, <3>1, <3>2, <3>3
  <2>2. ~Unanswered(oconn)
    BY <2>1 DEF Unanswered
  <2>3. \A c \in Conn : Unanswered(c) => Unanswered(c)'
    BY <2>1, <2>2, <1>t DEF Unanswered
  <2>4. \A c \in Conn : Pending(c)' => Pending(c)
    BY <2>1 DEF Pending
  <2> QED BY <2>1, <2>3, <2>4, <1>same
<1>5. CASE AcceptBackup
  <2>1. /\ bpc = "accept" /\ bpc' = "recv" /\ backlog # <<>>
        /\ bconn' = Head(backlog) /\ backlog' = Tail(backlog)
        /\ UNCHANGED <<nconn, request, reply, acks, closed, oconn, opc>>
    BY <1>5 DEF AcceptBackup, origVars
  <2>2. /\ Head(backlog) = backlog[1]
        /\ Len(backlog) \in Nat \ {0} /\ Len(backlog') = Len(backlog) - 1
        /\ \A i \in 1..Len(backlog') : backlog'[i] = backlog[i + 1]
    BY <2>1, <1>t, Shortened
  <2>3. /\ 1 \in 1..Len(backlog)
        /\ \A i \in 1..Len(backlog') : i + 1 \in 1..Len(backlog) /\ i + 1 # 1
        /\ \A i, j \in 1..Len(backlog') : i + 1 = j + 1 => i = j
    BY <2>2
  <2>4. \A i \in 1..Len(backlog') : request'[backlog'[i]] # 0 /\ backlog'[i] # bconn'
    BY <2>1, <2>2, <2>3 DEF PendingUnanswered
  <2>5. \A i, j \in 1..Len(backlog') : backlog'[i] = backlog'[j] => i = j
    BY <2>2, <2>3 DEF PendingUnanswered
  <2>6. \A c \in Conn : Pending(c)' => Pending(c)
    BY <2>1, <2>2, <2>3 DEF Pending
  <2> QED BY <2>1, <2>4, <2>5, <2>6, <1>0 DEF PendingUnanswered, Unanswered
<1>6. CASE ReadRequest
  <2>1. /\ bpc = "recv" /\ bpc' = "ask" /\ bconn \in Conn
        /\ request' = [request EXCEPT ![bconn] = 0]
        /\ acks' = [acks EXCEPT ![bconn] = acks[bconn] + 1]
        /\ UNCHANGED <<nconn, backlog, bconn, reply, closed, oconn, opc>>
    BY <1>6, <1>t DEF ReadRequest, origVars
  <2>2. \A i \in 1..Len(backlog) : backlog[i] \in Conn
    BY <1>t, ElementOfSeq
  <2>3. \A c \in Conn \ {bconn} : request'[c] = request[c] /\ acks'[c] = acks[c]
    BY <2>1, <1>t
  <2>4. request'[bconn] = 0 /\ ~(bconn > nconn)
    BY <2>1, <1>t
  <2>5. \A c \in Conn : Pending(c)' => Pending(c) /\ c # bconn
    BY <2>1 DEF Pending, PendingUnanswered
  <2>6. \A c \in Conn : Pending(c)' \/ c > nconn' => Unanswered(c)'
    BY <2>1, <2>3, <2>4, <2>5, <1>0 DEF Unanswered
  <2> QED BY <2>1, <2>2, <2>3, <2>4, <2>6 DEF PendingUnanswered
<1>7. CASE RequestorGone \/ AskProcess
  <2>1. /\ UNCHANGED <<nconn, backlog, bconn, request, reply, acks, closed, oconn, opc>>
        /\ bpc' # "recv"
        /\ bpc' \in {"ask", "relay"} => bpc \in {"ask", "relay"}
    BY <1>7 DEF RequestorGone, AskProcess, netVars, origVars
  <2> QED BY <2>1, <1>same DEF Pending, Unanswered
<1>8. CASE RelayData \/ RelaySignal
  <2>1. /\ bpc = "relay" /\ bpc' \in {"relay", "ask", "recv"} /\ bconn \in 1..nconn
        /\ request[bconn] = 0
        /\ \E q : reply' = [reply EXCEPT ![bconn] = q]
        /\ UNCHANGED <<nconn, backlog, bconn, request, acks, closed, oconn, opc>>
    BY <1>8, <1>t, RelayedSignal DEF RelayData, RelaySignal, copyVars, NextProcess, origVars,
       PendingUnanswered
  <2>2. \A c \in Conn : Pending(c)' => Pending(c) /\ c # bconn
    BY <2>1 DEF Pending, PendingUnanswered
  <2>3. \A c \in Conn \ {bconn} : reply'[c] = reply[c]
    BY <2>1, <1>t
  <2>4. ~(bconn > nconn)
    BY <2>1, <1>t
  <2>5. \A c \in Conn : Pending(c)' \/ c > nconn' => Unanswered(c)'
    BY <2>1, <2>2, <2>3, <2>4, <1>0 DEF Unanswered
  <2> QED BY <2>1, <2>5 DEF PendingUnanswered
<1>9. ASSUME NEW p \in Process, AnswerRequest(p) \/ \E d \in Device : StoreMeasurement(p, d)
      PROVE  PendingUnanswered'
  BY <1>9, <1>1 DEF AnswerRequest, StoreMeasurement, netVars, copyVars, origVars
<1>10. CASE UNCHANGED vars
  BY <1>10, <1>1 DEF vars, netVars, copyVars, origVars
<1> QED
  BY <1>2, <1>3, <1>4, <1>5, <1>6, <1>7, <1>8, <1>9, <1>10 DEF Next, BackupThread, CopyThread

LEMMA ClosingStep ==
  /\ Types /\ AnswerShape /\ PendingUnanswered /\ ReplyShape /\ FoundPassed
  /\ [Next]_vars
  => ReplyShape' /\ FoundPassed'
<1> SUFFICES ASSUME Types, AnswerShape, PendingUnanswered, ReplyShape, FoundPassed, [Next]_vars
             PROVE  ReplyShape' /\ FoundPassed'
  OBVIOUS
<1>t. /\ nconn \in Nat /\ oconn = nconn /\ bconn \in 0..nconn
      /\ bpc # "accept" => bconn \in Conn
      /\ opc \in Engaged => oconn \in Conn
      /\ closed \subseteq 1..nconn
      /\ reply \in [Conn -> Seq(Message)] /\ answer \in [Process -> Seq(Message)]
      /\ feeds \in [Device -> Process] /\ bdev \in Device
      /\ bproc \in Process /\ bproc \in Nat /\ bnum \in Nat
  <2>1. /\ nconn \in Nat /\ oconn = nconn /\ bconn \in 0..nconn
        /\ bpc # "accept" => bconn \in Conn
        /\ opc \in Engaged => oconn \in Conn
        /\ closed \subseteq 1..nconn
    BY Constants DEF Types, ConnTypes, Conn
  <2>2. reply \in [Conn -> Seq(Message)] /\ answer \in [Process -> Seq(Message)]
    BY DEF Types, DataTypes
  <2>3. /\ feeds \in [Device -> Process] /\ bdev \in Device
        /\ bproc \in Process
    BY DEF Types, CopyTypes, AssignTypes
  <2>4. bproc \in Nat /\ bnum \in Nat
    BY Constants DEF Types, CopyTypes, Process
  <2> QED BY <2>1, <2>2, <2>3, <2>4
\* A step that sends nothing, and ends nothing that was not ended.
<1>same. ASSUME \A c \in Conn : reply'[c] = reply[c], \A c \in Conn : Closing(c)' <=> Closing(c),
                bpc' \in {"ask", "relay"} => /\ bpc \in {"ask", "relay"}
                                             /\ UNCHANGED <<bconn, bnum, bproc, bdev, feeds>>
         PROVE  ReplyShape' /\ FoundPassed'
  <2>1. ReplyShape'
    BY <1>same DEF ReplyShape
  <2>2. ASSUME bpc' \in {"ask", "relay"} PROVE Ended(bconn)' <=> Ended(bconn)
    <3>1. bconn' = bconn /\ bconn \in Conn
      BY <2>2, <1>same, <1>t
    <3>2. Closing(bconn)' <=> Closing(bconn)
      BY <3>1, <1>same DEF Closing
    <3> QED BY <3>1, <3>2, <1>same DEF Ended
  <2>3. FoundPassed'
    BY <2>2, <1>same DEF FoundPassed
  <2> QED BY <2>1, <2>3
<1>1. CASE UNCHANGED <<oconn, opc, closed, reply, bpc, bconn, bnum, bproc, bdev, feeds>>
  BY <1>1, <1>same DEF Closing
<1>2. CASE \/ Console \/ HandlerWakes \/ CheckBackup \/ BlockOnBackup \/ SpuriousWakeup
           \/ AckArrives \/ AckTimeout \/ InsertMutex \/ FindMutex \/ ReceiveNothing
  <2>1. /\ UNCHANGED <<oconn, closed, reply, bpc, bconn, bnum, bproc, bdev, feeds>>
        /\ opc' = "finish" <=> opc = "finish"
    BY <1>2 DEF Console, Choose, RaiseBackup, NotifyBackup, HandlerWakes, CheckBackup,
       BlockOnBackup, SpuriousWakeup, AckArrives, AckTimeout, InsertMutex, FindMutex, ReceiveNothing,
       netVars, copyVars, origVars, procVars
  <2> QED BY <2>1, <1>same DEF Closing
<1>3. CASE SendRequest
  <2>1. /\ opc = "connect" /\ opc' = "ack"
        /\ UNCHANGED <<closed, reply, bpc, bconn, bnum, bproc, bdev, feeds>>
    BY <1>3 DEF SendRequest, copyVars, procVars
  <2> QED BY <2>1, <1>same DEF Closing
<1>4. CASE ReceiveBackup
  <2> DEFINE q == reply[oconn]
  <2>1. /\ opc = "recv" /\ q # <<>> /\ oconn \in Conn
        /\ reply' = [reply EXCEPT ![oconn] = Tail(@)]
        /\ IF Head(q).purpose = DATA THEN opc' = "insert" ELSE opc' = "finish"
        /\ UNCHANGED <<oconn, closed, bpc, bconn, bnum, bproc, bdev, feeds>>
    BY <1>4, <1>t DEF ReceiveBackup, copyVars, procVars
  <2>2. /\ reply'[oconn] = Tail(q)
        /\ \A c \in Conn \ {oconn} : reply'[c] = reply[c]
    BY <2>1, <1>t
  <2>3. /\ Head(q) = q[1] /\ Len(q) \in Nat \ {0} /\ Len(Tail(q)) = Len(q) - 1
        /\ \A i \in 1..Len(Tail(q)) : Tail(q)[i] = q[i + 1]
        /\ Tail(q) = <<>> <=> Len(q) = 1
    BY <2>1, <1>t, Shortened
  <2>4. \A i \in 1..Len(q) : i < Len(q) => q[i].purpose = DATA
    BY <2>1 DEF ReplyShape
  <2>5. ~Closing(oconn)
    BY <2>1 DEF ReplyShape
  <2> HIDE DEF q
  <2>6. /\ 1 \in 1..Len(q)
        /\ \A i \in 1..Len(Tail(q)) : /\ i + 1 \in 1..Len(q)
                                      /\ i < Len(Tail(q)) => i + 1 < Len(q)
    BY <2>3
  <2>7. \A i \in 1..Len(Tail(q)) : i < Len(Tail(q)) => Tail(q)[i].purpose = DATA
    BY <2>3, <2>4, <2>6
  <2>8. Head(q).purpose # DATA => Tail(q) = <<>>
    <3>1. Head(q).purpose # DATA => ~(1 < Len(q))
      BY <2>3, <2>4, <2>6
    <3> DEFINE n == Len(q)
    <3>2. n \in Nat \ {0} /\ (~(1 < n) => n = 1)
      <4>1. n \in Nat \ {0}
        BY <2>3
      <4> HIDE DEF n
      <4> QED BY <4>1
    <3> QED BY <3>1, <3>2, <2>3
  <2>9. \A c \in Conn : Closing(c)' => Closing(c) \/ (c = oconn /\ Head(q).purpose # DATA)
    BY <2>1 DEF Closing
  <2>10. ReplyShape'
    <3>1. ASSUME NEW c \in Conn
          PROVE  /\ \A i \in 1..Len(reply'[c]) : i < Len(reply'[c]) => reply'[c][i].purpose = DATA
                 /\ Closing(c)' => reply'[c] = <<>>
      <4>1. CASE c = oconn
        BY <4>1, <2>2, <2>5, <2>7, <2>8, <2>9
      <4>2. CASE c # oconn
        BY <4>2, <2>2, <2>9 DEF ReplyShape
      <4> QED BY <4>1, <4>2
    <3> QED BY <3>1 DEF ReplyShape
  <2>11. ASSUME NEW c \in Conn, Ended(c)' PROVE Ended(c)
    <3>1. CASE Closing(c)'
      BY <3>1, <2>1, <2>3, <2>6, <2>9 DEF Ended, q
    <3>2. ASSUME NEW i \in 1..Len(reply'[c]), reply'[c][i].purpose # DATA PROVE Ended(c)
      <4>1. CASE c = oconn
        <5>1. i \in 1..Len(Tail(q)) /\ reply'[c][i] = Tail(q)[i]
          BY <4>1, <2>2
        <5>2. i + 1 \in 1..Len(q) /\ q[i + 1].purpose # DATA
          BY <5>1, <3>2, <2>3, <2>6
        <5> QED BY <5>2, <4>1 DEF Ended, q
      <4>2. CASE c # oconn
        BY <4>2, <3>2, <2>2 DEF Ended
      <4> QED BY <4>1, <4>2
    <3> QED BY <2>11, <3>1, <3>2 DEF Ended
  <2>12. FoundPassed'
    <3>1. bpc \in {"ask", "relay"} => bconn \in Conn
      BY <1>t
    <3>2. bpc \in {"ask", "relay"} => (Ended(bconn)' => Ended(bconn))
      BY <3>1, <2>1, <2>11 DEF Ended, Closing
    <3> QED BY <2>1, <3>2 DEF FoundPassed
  <2> QED BY <2>10, <2>12
<1>5. CASE FinishBackup
  <2>1. /\ opc = "finish" /\ opc' = "check" /\ closed' = closed \cup {oconn}
        /\ UNCHANGED <<oconn, reply, bpc, bconn, bnum, bproc, bdev, feeds>>
    BY <1>5 DEF FinishBackup, copyVars, procVars
  <2> QED BY <2>1, <1>same DEF Closing
<1>6. CASE AcceptBackup \/ RequestorGone \/ AskProcess
  <2>1. /\ UNCHANGED <<oconn, opc, closed, reply>>
        /\ bpc' \in {"ask", "relay"} => /\ bpc \in {"ask", "relay"}
                                        /\ UNCHANGED <<bconn, bnum, bproc, bdev, feeds>>
    BY <1>6 DEF AcceptBackup, RequestorGone, AskProcess, netVars, origVars
  <2> QED BY <2>1, <1>same DEF Closing
<1>7. CASE ReadRequest
  <2>1. /\ bpc = "recv" /\ request[bconn] # 0 /\ bpc' = "ask" /\ bnum' = 0
        /\ UNCHANGED <<oconn, opc, closed, reply, bconn>>
    BY <1>7 DEF ReadRequest, origVars
  <2>2. bconn \in Conn /\ Pending(bconn)
    BY <2>1, <1>t DEF Pending
  <2>3. Unanswered(bconn)
    BY <2>2 DEF PendingUnanswered
  <2>4. Len(<<>>) = 0
    OBVIOUS
  <2>5. ~Ended(bconn)'
    BY <2>1, <2>3, <2>4 DEF Unanswered, Ended, Closing
  <2>6. ReplyShape'
    BY <2>1 DEF ReplyShape, Closing
  <2> QED BY <2>1, <2>5, <2>6 DEF FoundPassed
\* What may be appended to what has been sent.
<1>w. ASSUME bpc = "relay", ~Ended(bconn), NEW m \in Message
      PROVE  LET r == Append(reply[bconn], m)
             IN  /\ \A i \in 1..Len(r) : i < Len(r) => r[i].purpose = DATA
                 /\ m.purpose = DATA => \A i \in 1..Len(r) : r[i].purpose = DATA
  <2> DEFINE q == reply[bconn]
             r == Append(q, m)
  <2>1. q \in Seq(Message) /\ \A i \in 1..Len(q) : q[i].purpose = DATA
    BY <1>w, <1>t DEF Ended
  <2> HIDE DEF q
  <2>2. /\ Len(q) \in Nat /\ Len(r) = Len(q) + 1
        /\ \A i \in 1..Len(q) : r[i] = q[i]
        /\ r[Len(q) + 1] = m
    BY <2>1, Appended
  <2> HIDE DEF r
  <2>3. \A i \in 1..Len(r) : i \in 1..Len(q) \/ (i = Len(q) + 1 /\ ~(i < Len(r)))
    BY <2>2
  <2>4. /\ \A i \in 1..Len(r) : i < Len(r) => r[i].purpose = DATA
        /\ m.purpose = DATA => \A i \in 1..Len(r) : r[i].purpose = DATA
    BY <2>1, <2>2, <2>3
  <2> QED BY <2>4 DEF q, r
<1>h. bpc = "relay" /\ answer[bproc] # <<>> =>
        /\ Head(answer[bproc]) \in Message
        /\ Head(answer[bproc]).purpose # SKIP_QUEUE => bproc = feeds[bdev]
  <2> SUFFICES ASSUME answer[bproc] # <<>>
               PROVE  /\ Head(answer[bproc]) \in Message
                      /\ Head(answer[bproc]).purpose # SKIP_QUEUE => bproc = feeds[bdev]
    OBVIOUS
  <2>1. /\ Head(answer[bproc]) \in Message /\ Head(answer[bproc]) = answer[bproc][1]
        /\ 1 \in 1..Len(answer[bproc])
    BY <1>t, Shortened
  <2> QED BY <2>1, <1>t DEF AnswerShape
<1>n. bpc = "relay" /\ (bnum = 0 \/ bproc = feeds[bdev]) => ~Ended(bconn) /\ bnum = 0
  <2>1. bpc = "relay" /\ bnum > 0 => feeds[bdev] < bproc
    BY DEF FoundPassed
  <2>2. bpc = "relay" /\ bproc = feeds[bdev] => ~(bnum > 0)
    BY <2>1, <1>t
  <2>3. bpc = "relay" /\ (bnum = 0 \/ bproc = feeds[bdev]) => bnum = 0
    BY <2>2, <1>t
  <2>4. bpc = "relay" /\ bnum = 0 => ~Ended(bconn)
    BY DEF FoundPassed
  <2> QED BY <2>3, <2>4
<1>8. CASE RelayData
  <2> DEFINE m == Head(answer[bproc])
  <2>1. /\ bpc = "relay" /\ answer[bproc] # <<>> /\ m.purpose = DATA
        /\ reply' = [reply EXCEPT ![bconn] = Append(@, m)]
        /\ UNCHANGED <<oconn, opc, closed, bpc, bconn, bnum, bproc, bdev, feeds>>
    BY <1>8 DEF RelayData, copyVars, origVars
  <2>2. m \in Message /\ ~Ended(bconn)
    BY <2>1, <1>h, <1>n, Signals
  <2> HIDE DEF m
  <2>3. /\ bconn \in Conn /\ reply'[bconn] = Append(reply[bconn], m)
        /\ \A c \in Conn \ {bconn} : reply'[c] = reply[c]
        /\ \A c \in Conn : Closing(c)' <=> Closing(c)
    BY <2>1, <1>t DEF Closing
  <2>4. \A i \in 1..Len(reply'[bconn]) : reply'[bconn][i].purpose = DATA
    BY <2>1, <2>2, <2>3, <1>w
  <2>5. ReplyShape'
    <3>2. ASSUME NEW c \in Conn
          PROVE  /\ \A i \in 1..Len(reply'[c]) : i < Len(reply'[c]) => reply'[c][i].purpose = DATA
                 /\ Closing(c)' => reply'[c] = <<>>
      <4>1. CASE c = bconn
        <5>1. ~Closing(c)'
          BY <4>1, <2>2, <2>3 DEF Ended
        <5> QED BY <4>1, <5>1, <2>4
      <4>2. CASE c # bconn
        BY <4>2, <2>3 DEF ReplyShape
      <4> QED BY <4>1, <4>2
    <3> QED BY <3>2 DEF ReplyShape
  <2>6. ~Ended(bconn)'
    BY <2>1, <2>2, <2>3, <2>4 DEF Ended, Closing
  <2>7. FoundPassed'
    BY <2>1, <2>6 DEF FoundPassed
  <2> QED BY <2>5, <2>7
<1>9. CASE RelaySignal
  <2> DEFINE m == Head(answer[bproc])
             found == m.purpose # SKIP_QUEUE
             none == ~found /\ bnum = 0 /\ bproc = NumProcesses
             s == IF found THEN m ELSE Signal(NO_PROCESS, m.deviceId)
  <2>1. /\ bpc = "relay" /\ answer[bproc] # <<>> /\ m \in Message
        /\ reply' = [reply EXCEPT ![bconn] =
                       IF found THEN Append(@, m)
                       ELSE IF none THEN Append(@, Signal(NO_PROCESS, m.deviceId)) ELSE @]
        /\ bnum' = IF found THEN bnum + 1 ELSE bnum
        /\ IF bproc = NumProcesses THEN bpc' = "recv" /\ bproc' = bproc
                                   ELSE bpc' = "ask" /\ bproc' = bproc + 1
        /\ UNCHANGED <<oconn, opc, closed, bconn, bdev, feeds>>
    BY <1>9, RelayedSignal DEF origVars
  <2>2. found => bproc = feeds[bdev]
    BY <2>1, <1>h
  <2>3. s \in Message
    BY <2>1, MessageType, Signals
  <2>4. /\ bconn \in Conn
        /\ reply'[bconn] = IF found \/ none THEN Append(reply[bconn], s) ELSE reply[bconn]
        /\ \A c \in Conn \ {bconn} : reply'[c] = reply[c]
        /\ \A c \in Conn : Closing(c)' <=> Closing(c)
    BY <2>1, <1>t DEF Closing
  <2>5. found \/ none => ~Ended(bconn) /\ bnum = 0
    BY <2>1, <2>2, <1>n
  <2> HIDE DEF m, s
  <2>6. ReplyShape'
    <3>1. ASSUME NEW c \in Conn
          PROVE  /\ \A i \in 1..Len(reply'[c]) : i < Len(reply'[c]) => reply'[c][i].purpose = DATA
                 /\ Closing(c)' => reply'[c] = <<>>
      <4>1. CASE c = bconn /\ (found \/ none)
        <5>1. ~Closing(c)'
          BY <4>1, <2>4, <2>5 DEF Ended
        <5>2. \A i \in 1..Len(reply'[bconn]) :
                i < Len(reply'[bconn]) => reply'[bconn][i].purpose = DATA
          BY <4>1, <2>1, <2>3, <2>4, <2>5, <1>w
        <5> QED BY <4>1, <5>1, <5>2
      <4>2. CASE ~(c = bconn /\ (found \/ none))
        <5>1. reply'[c] = reply[c]
          BY <4>2, <2>4
        <5> QED BY <5>1, <2>4 DEF ReplyShape
      <4> QED BY <4>1, <4>2
    <3> QED BY <3>1 DEF ReplyShape
  <2>7. FoundPassed'
    <3> SUFFICES ASSUME bpc' \in {"ask", "relay"}
                 PROVE  /\ Ended(bconn)' => bnum' > 0
                        /\ bnum' > 0 => feeds'[bdev'] < bproc'
      BY DEF FoundPassed
    <3>1. bproc # NumProcesses /\ bproc' = bproc + 1 /\ ~none
      BY <2>1
    <3>2. feeds[bdev] \in Nat
      BY <1>t DEF Process
    <3>3. CASE found
      BY <3>1, <3>2, <3>3, <2>1, <2>2, <1>t
    <3>4. CASE ~found
      <4>1. reply'[bconn] = reply[bconn] /\ bnum' = bnum
        BY <3>1, <3>4, <2>1, <2>4
      <4>2. Ended(bconn)' <=> Ended(bconn)
        BY <4>1, <2>1 DEF Ended, Closing
      <4> QED BY <3>1, <3>2, <4>1, <4>2, <2>1, <1>t DEF FoundPassed
    <3> QED BY <3>3, <3>4
  <2> QED BY <2>6, <2>7
<1>10. ASSUME NEW p \in Process, AnswerRequest(p) \/ \E d \in Device : StoreMeasurement(p, d)
       PROVE  ReplyShape' /\ FoundPassed'
  BY <1>10, <1>1 DEF AnswerRequest, StoreMeasurement, netVars, copyVars, origVars
<1>11. CASE UNCHANGED vars
  BY <1>11, <1>1 DEF vars, netVars, copyVars, origVars, procVars
<1> QED
  BY <1>2, <1>3, <1>4, <1>5, <1>6, <1>7, <1>8, <1>9, <1>10, <1>11
     DEF Next, BackupThread, CopyThread

-----------------------------------------------------------------------------
(* The order of the measurements.                                          *)

LEMMA DataAppend ==
  ASSUME NEW s \in Seq(Message), NEW m \in Message
  PROVE  Data(Append(s, m)) = IF m.purpose = DATA THEN Data(s) \cup {m} ELSE Data(s)
<1>1. ToSet(Append(s, m)) = ToSet(s) \cup {m}
  BY ToSetAppend
<1> QED BY <1>1 DEF Data

LEMMA DataTail ==
  ASSUME NEW s \in Seq(Message), s # <<>>
  PROVE  /\ Head(s) \in Message /\ Data(Tail(s)) \subseteq Data(s)
         /\ Head(s).purpose = DATA => Head(s) \in Data(s)
<1>1. Head(s) \in Message /\ ToSet(s) = {Head(s)} \cup ToSet(Tail(s))
  BY ToSetTail
<1> QED BY <1>1 DEF Data

LEMMA DataEmpty == Data(<<>>) = {}
  BY ToSetEmpty DEF Data

LEMMA DataMembers ==
  ASSUME NEW s \in Seq(Message)
  PROVE  /\ \A m \in Data(s) : /\ m \in Message /\ m.purpose = DATA
                               /\ \E i \in 1..Len(s) : s[i] = m
         /\ \A i \in 1..Len(s) : s[i].purpose = DATA => s[i] \in Data(s)
<1>1. DOMAIN s = 1..Len(s) /\ \A i \in 1..Len(s) : s[i] \in Message
  BY LenProperties, ElementOfSeq
<1> QED BY <1>1 DEF Data, ToSet

LEMMA AscendingTail ==
  ASSUME NEW s \in Seq(Message), s # <<>>, Ascending(s)
  PROVE  /\ Ascending(Tail(s))
         /\ Head(s).purpose = DATA => Before({Head(s)}, Data(Tail(s)))
<1> DEFINE r == Tail(s)
<1>1. /\ Head(s) = s[1] /\ r \in Seq(Message)
      /\ Len(s) \in Nat \ {0} /\ Len(r) = Len(s) - 1
      /\ \A i \in 1..Len(r) : r[i] = s[i + 1]
  BY Shortened
<1> HIDE DEF r
<1>2. /\ 1 \in 1..Len(s)
      /\ \A i \in 1..Len(r) : i + 1 \in 1..Len(s) /\ 1 < i + 1
      /\ \A i, j \in 1..Len(r) : i < j => i + 1 < j + 1
  BY <1>1
<1>3. Ascending(r)
  BY <1>1, <1>2 DEF Ascending
<1>4. ASSUME Head(s).purpose = DATA, NEW n \in Data(r), Head(s).deviceId = n.deviceId
      PROVE  Head(s).seq < n.seq
  <2>1. PICK j \in 1..Len(r) : r[j] = n /\ n.purpose = DATA
    BY <1>1, <1>4, DataMembers
  <2> QED BY <2>1, <1>1, <1>2, <1>4 DEF Ascending
<1> QED
  BY <1>3, <1>4 DEF Before, r

LEMMA AscendingAppend ==
  ASSUME NEW s \in Seq(Message), NEW m \in Message, Ascending(s),
         m.purpose = DATA => Before(Data(s), {m})
  PROVE  Ascending(Append(s, m))
<1> DEFINE r == Append(s, m)
<1>1. /\ Len(s) \in Nat /\ Len(r) = Len(s) + 1
      /\ \A i \in 1..Len(s) : r[i] = s[i]
      /\ r[Len(s) + 1] = m
  BY Appended
<1> HIDE DEF r
<1>2. \A i, j \in 1..Len(r) : i < j => i \in 1..Len(s) /\ (j \in 1..Len(s) \/ j = Len(s) + 1)
  BY <1>1
<1>3. ASSUME NEW i \in 1..Len(s), s[i].purpose = DATA, m.purpose = DATA,
             s[i].deviceId = m.deviceId
      PROVE  s[i].seq < m.seq
  BY <1>3, DataMembers DEF Before
<1>4. Ascending(r)
  <2> SUFFICES ASSUME NEW i \in 1..Len(r), NEW j \in 1..Len(r), i < j,
                      r[i].purpose = DATA, r[j].purpose = DATA, r[i].deviceId = r[j].deviceId
               PROVE  r[i].seq < r[j].seq
    BY DEF Ascending
  <2>1. i \in 1..Len(s) /\ r[i] = s[i]
    BY <1>1, <1>2
  <2>2. CASE j \in 1..Len(s)
    BY <2>1, <2>2, <1>1 DEF Ascending
  <2>3. CASE j = Len(s) + 1
    BY <2>1, <2>3, <1>1, <1>3
  <2> QED BY <2>2, <2>3, <1>2
<1> QED
  BY <1>4 DEF r

\* A measurement that moves on.
LEMMA ChainSmaller ==
  ASSUME NEW A, NEW B, NEW C, NEW D, NEW E, Chain(A, B, C, D, E),
         NEW B2 \in SUBSET B, NEW C2 \in SUBSET C
  PROVE  Chain(A, B2, C2, D, E)
  BY DEF Chain, Before

LEMMA ChainRead ==
  ASSUME NEW A, NEW B, NEW C, NEW D, NEW E, Chain(A, B, C, D, E),
         NEW x \in B, NEW A2 \in SUBSET (A \cup {x}), NEW B2 \in SUBSET B, Before({x}, B2)
  PROVE  Chain(A2, B2, C, D, E)
  BY DEF Chain, Before

LEMMA ChainRelay ==
  ASSUME NEW A, NEW B, NEW C, NEW D, NEW E, Chain(A, B, C, D, E),
         NEW x \in C, NEW B2 \in SUBSET (B \cup {x}), NEW C2 \in SUBSET C, Before({x}, C2)
  PROVE  Chain(A, B2, C2, D, E)
  BY DEF Chain, Before

LEMMA ChainAnswer ==
  ASSUME NEW A, NEW B, NEW C, NEW D, NEW E, Chain(A, B, C, D, E),
         NEW X \in SUBSET D, NEW C2 \in SUBSET (C \cup X), NEW D2 \in SUBSET D, Before(X, D2)
  PROVE  Chain(A, B, C2, D2, E)
  BY DEF Chain, Before

LEMMA ChainStore ==
  ASSUME NEW A \in SUBSET Message, NEW B \in SUBSET Message, NEW C \in SUBSET Message,
         NEW D \in SUBSET Message, NEW E, Chain(A, B, C, D, E),
         NEW x \in E, NEW D2 \in SUBSET (D \cup {x}), NEW E2, Before({x}, E2),
         \A S \in SUBSET Message : Before(S, E) => Before(S, E2)
  PROVE  Chain(A, B, C, D2, E2)
<1>1. Before(A, E2) /\ Before(B, E2) /\ Before(C, E2) /\ Before(D, E2)
  BY DEF Chain
<1> QED
  BY <1>1 DEF Chain, Before

LEMMA InOrderStep ==
  /\ Types /\ OneDevice /\ NoOldAnswers /\ PendingUnanswered /\ InOrder /\ RestoredInOrder
  /\ [Next]_vars
  => InOrder' /\ RestoredInOrder'
<1> SUFFICES ASSUME Types, OneDevice, NoOldAnswers, PendingUnanswered, InOrder, RestoredInOrder,
                    [Next]_vars
             PROVE  InOrder' /\ RestoredInOrder'
  OBVIOUS
<1>t. /\ reply \in [Conn -> Seq(Message)] /\ answer \in [Process -> Seq(Message)]
      /\ store \in [Process -> Seq(Message)] /\ restored \in [Device -> Seq(Nat)]
      /\ sent \in [Device -> Nat] /\ bproc \in Process
  BY DEF Types, DataTypes, OrigTypes, CopyTypes
<1>u. /\ nconn \in Nat /\ oconn = nconn
      /\ opc \in Engaged => oconn \in Conn
      /\ bpc # "accept" => bconn \in Conn
  BY Constants DEF Types, ConnTypes, Conn
<1>i. Incoming \in Seq(Message)
  BY <1>t DEF Incoming
<1>o. /\ Chain(Restored, Data(Incoming), InAnswers, InStores, Coming)
      /\ Ascending(Incoming)
      /\ \A p \in Process : Ascending(answer[p]) /\ Ascending(store[p])
  BY DEF InOrder
<1>1. CASE UNCHANGED <<oconn, reply, answer, store, sent, restored>>
  <2>1. /\ Incoming' = Incoming /\ Restored' = Restored /\ InAnswers' = InAnswers
        /\ InStores' = InStores /\ Coming' = Coming
    BY <1>1 DEF Incoming, Restored, InAnswers, InStores, Coming
  <2> QED BY <1>1, <2>1 DEF InOrder, RestoredInOrder
<1>2. CASE \/ Console \/ HandlerWakes \/ CheckBackup \/ BlockOnBackup \/ SpuriousWakeup
           \/ AckArrives \/ AckTimeout \/ FinishBackup
           \/ InsertMutex \/ FindMutex \/ ReceiveNothing
  BY <1>2, <1>1
     DEF Console, Choose, RaiseBackup, NotifyBackup, HandlerWakes, CheckBackup, BlockOnBackup,
         SpuriousWakeup, AckArrives, AckTimeout, FinishBackup, InsertMutex, FindMutex, ReceiveNothing,
         origVars, netVars, procVars
<1>3. CASE AcceptBackup \/ ReadRequest \/ RequestorGone \/ AskProcess
  BY <1>3, <1>1
     DEF AcceptBackup, ReadRequest, RequestorGone, AskProcess, origVars, netVars, procVars
\* A new connection: nothing can be read from it.
<1>4. CASE SendRequest
  <2>1. /\ oconn' = nconn + 1 /\ nconn + 1 \in Conn
        /\ UNCHANGED <<reply, answer, store, sent, restored>>
    BY <1>4, <1>u, Constants DEF SendRequest, procVars, Conn
  <2>2. reply[nconn + 1] = <<>>
    BY <2>1, <1>u DEF PendingUnanswered, Unanswered
  <2>3. Incoming' = <<>>
    BY <2>1, <2>2 DEF Incoming
  <2>4. Data(Incoming)' = {}
    BY <2>3, DataEmpty DEF Data
  <2>5. /\ Restored' = Restored /\ InAnswers' = InAnswers
        /\ InStores' = InStores /\ Coming' = Coming
    BY <2>1 DEF Restored, InAnswers, InStores, Coming
  <2>6. Chain(Restored, {}, InAnswers, InStores, Coming)
    <3>1. {} \in SUBSET Data(Incoming) /\ InAnswers \in SUBSET InAnswers
      OBVIOUS
    <3> QED BY <3>1, <1>o, ChainSmaller
  <2>7. Ascending(<<>>)
    BY DEF Ascending
  <2> QED BY <2>1, <2>3, <2>4, <2>5, <2>6, <2>7, <1>o DEF InOrder, RestoredInOrder
\* From the connection into the restored queue.
<1>5. CASE ReceiveBackup
  <2> DEFINE q == reply[oconn]
             m == Head(q)
  <2>1. /\ q # <<>> /\ oconn \in Conn /\ oconn' = oconn
        /\ reply' = [reply EXCEPT ![oconn] = Tail(@)]
        /\ IF m.purpose = DATA
           THEN restored' = [restored EXCEPT ![m.deviceId] = Append(@, m.seq)]
           ELSE restored' = restored
        /\ UNCHANGED <<answer, store, sent>>
    BY <1>5, <1>u DEF ReceiveBackup, procVars
  <2>2. /\ Incoming = q /\ q \in Seq(Message) /\ Incoming' = Tail(q)
    BY <2>1, <1>t DEF Incoming
  <2>3. /\ m \in Message /\ Data(Tail(q)) \subseteq Data(q)
        /\ m.purpose = DATA => m \in Data(q)
    BY <2>1, <2>2, DataTail
  <2>4. /\ Ascending(Tail(q))
        /\ m.purpose = DATA => Before({m}, Data(Tail(q)))
    BY <2>1, <2>2, <1>o, AscendingTail
  <2>5. InAnswers' = InAnswers /\ InStores' = InStores /\ Coming' = Coming
    BY <2>1 DEF InAnswers, InStores, Coming
  <2>6. Data(Incoming)' = Data(Tail(q))
    BY <2>2 DEF Data
  <2> HIDE DEF q, m
  <2>7. CASE m.purpose = DATA
    <3> DEFINE e == m.deviceId
    <3>1. e \in Device /\ m.seq \in Nat /\ m = Stored(e, m.seq)
      <4>1. /\ m \in [purpose : Purpose, deviceId : Device, seq : Nat] /\ m.purpose = DATA
        BY <2>3, <2>7 DEF Message
      <4> QED BY <4>1 DEF Stored
    <3>2. /\ restored'[e] = Append(restored[e], m.seq)
          /\ \A d \in Device \ {e} : restored'[d] = restored[d]
      BY <2>1, <2>7, <3>1, <1>t
    <3> HIDE DEF e
    <3>3. /\ Len(restored[e]) \in Nat /\ Len(restored'[e]) = Len(restored[e]) + 1
          /\ \A i \in 1..Len(restored[e]) : restored'[e][i] = restored[e][i]
          /\ restored'[e][Len(restored[e]) + 1] = m.seq
      BY <3>1, <3>2, <1>t, Appended
    <3>4. \A i \in 1..Len(restored'[e]) : i \in 1..Len(restored[e]) \/ i = Len(restored[e]) + 1
      BY <3>3
    <3>5. Restored' \subseteq Restored \cup {m}
      <4>1. ASSUME NEW d \in Device, NEW i \in 1..Len(restored'[d])
            PROVE  Stored(d, restored'[d][i]) \in Restored \cup {m}
        <5>1. CASE d = e /\ i = Len(restored[e]) + 1
          BY <5>1, <3>1, <3>3
        <5>2. CASE i \in 1..Len(restored[d]) /\ restored'[d][i] = restored[d][i]
          BY <5>2 DEF Restored
        <5> QED BY <5>1, <5>2, <3>2, <3>3, <3>4
      <4> QED BY <4>1 DEF Restored
    <3>6. Before({m}, Data(Tail(q))) /\ m \in Data(q)
      BY <2>3, <2>4, <2>7
    <3>7. Chain(Restored', Data(Tail(q)), InAnswers, InStores, Coming)
      <4>1. /\ Restored' \in SUBSET (Restored \cup {m}) /\ Data(Tail(q)) \in SUBSET Data(q)
            /\ Chain(Restored, Data(q), InAnswers, InStores, Coming)
        BY <3>5, <2>3, <2>2, <1>o
      <4> QED BY <4>1, <3>6, ChainRead
    <3>8. ASSUME NEW i \in 1..Len(restored[e]) PROVE restored[e][i] < m.seq
      <4>1. Stored(e, restored[e][i]) \in Restored
        BY <3>1 DEF Restored
      <4>2. Before(Restored, Data(q))
        BY <1>o, <2>2 DEF Chain
      <4>3. /\ Stored(e, restored[e][i]).deviceId = e /\ Stored(e, restored[e][i]).seq = restored[e][i]
            /\ m.deviceId = e
        BY DEF Stored, e
      <4> QED BY <4>1, <4>2, <4>3, <3>6 DEF Before
    <3>9. RestoredInOrder'
      <4>1. ASSUME NEW d \in Device, NEW i \in 1..Len(restored'[d]), NEW j \in 1..Len(restored'[d]),
                   i < j
            PROVE  restored'[d][i] < restored'[d][j]
        <5>1. CASE d # e
          BY <4>1, <5>1, <3>2 DEF RestoredInOrder
        <5>2. CASE d = e
          <6>1. i \in 1..Len(restored[e]) /\ (j \in 1..Len(restored[e]) \/ j = Len(restored[e]) + 1)
            BY <4>1, <5>2, <3>3
          <6>2. CASE j \in 1..Len(restored[e])
            BY <4>1, <5>2, <6>1, <6>2, <3>1, <3>3 DEF RestoredInOrder
          <6>3. CASE j = Len(restored[e]) + 1
            BY <5>2, <6>1, <6>3, <3>3, <3>8
          <6> QED BY <6>1, <6>2, <6>3
        <5> QED BY <5>1, <5>2
      <4> QED BY <4>1 DEF RestoredInOrder
    <3> QED BY <3>7, <3>9, <2>1, <2>2, <2>4, <2>5, <2>6, <1>o DEF InOrder
  <2>8. CASE m.purpose # DATA
    <3>1. restored' = restored
      BY <2>1, <2>8 DEF m
    <3>2. Restored' = Restored
      BY <3>1 DEF Restored
    <3>3. Chain(Restored, Data(Tail(q)), InAnswers, InStores, Coming)
      <4>1. /\ Data(Tail(q)) \in SUBSET Data(q) /\ InAnswers \in SUBSET InAnswers
            /\ Chain(Restored, Data(q), InAnswers, InStores, Coming)
        BY <2>3, <2>2, <1>o
      <4> QED BY <4>1, ChainSmaller
    <3> QED BY <3>1, <3>2, <3>3, <2>1, <2>2, <2>4, <2>5, <2>6, <1>o DEF InOrder, RestoredInOrder
  <2> QED BY <2>7, <2>8
\* The head of an answer leaves it: the others have nothing to say.
<1>h. ASSUME bpc = "relay", answer[bproc] # <<>>, answer' = [answer EXCEPT ![bproc] = Tail(@)]
      PROVE  LET m == Head(answer[bproc]) IN
             /\ m \in Message /\ InAnswers' \subseteq InAnswers
             /\ \A p \in Process : Ascending(answer'[p])
             /\ m.purpose = DATA => m \in InAnswers /\ Before({m}, InAnswers')
  <2> DEFINE q == answer[bproc]
             m == Head(q)
  <2>1. q \in Seq(Message) /\ q # <<>> /\ Ascending(q)
    BY <1>h, <1>t, <1>o
  <2>2. answer'[bproc] = Tail(q) /\ \A p \in Process \ {bproc} : answer'[p] = answer[p]
    BY <1>h, <1>t
  <2>3. \A p \in Process \ {bproc} : answer[p] = <<>>
    BY DEF NoOldAnswers
  <2> HIDE DEF q
  <2>4. /\ m \in Message /\ Data(Tail(q)) \subseteq Data(q)
        /\ m.purpose = DATA => m \in Data(q)
        /\ Ascending(Tail(q)) /\ (m.purpose = DATA => Before({m}, Data(Tail(q))))
    BY <2>1, DataTail, AscendingTail
  <2>5. InAnswers' = Data(Tail(q)) /\ InAnswers = Data(q)
    <3>1. \A p \in Process : Data(answer[p]) = IF p = bproc THEN Data(q) ELSE {}
      BY <2>3, DataEmpty DEF q
    <3>2. \A p \in Process : Data(answer'[p]) = IF p = bproc THEN Data(Tail(q)) ELSE {}
      BY <2>2, <2>3, DataEmpty
    <3> QED BY <3>1, <3>2, <1>t DEF InAnswers, Data
  <2>6. \A p \in Process : Ascending(answer'[p])
    BY <2>2, <2>4, <1>o
  <2> QED BY <2>4, <2>5, <2>6 DEF q
\* What is sent to the original can be read by its thread, or by nobody.
<1>w. ASSUME bpc = "relay", NEW m \in Message, oconn' = oconn,
             reply' = [reply EXCEPT ![bconn] = Append(@, m)]
      PROVE  Incoming' = Incoming \/ Incoming' = Append(Incoming, m)
  BY <1>w, <1>u, <1>t DEF Incoming
<1>6. CASE RelayData
  <2> DEFINE m == Head(answer[bproc])
  <2>1. /\ bpc = "relay" /\ answer[bproc] # <<>> /\ m.purpose = DATA
        /\ answer' = [answer EXCEPT ![bproc] = Tail(@)]
        /\ reply' = [reply EXCEPT ![bconn] = Append(@, m)]
        /\ UNCHANGED <<oconn, store, sent, restored>>
    BY <1>6 DEF RelayData, origVars
  <2>2. /\ m \in Message /\ InAnswers' \subseteq InAnswers
        /\ \A p \in Process : Ascending(answer'[p])
        /\ m \in InAnswers /\ Before({m}, InAnswers')
    BY <2>1, <1>h
  <2> HIDE DEF m
  <2>3. Incoming' = Incoming \/ Incoming' = Append(Incoming, m)
    BY <2>1, <2>2, <1>w
  <2>4. Data(Incoming') \subseteq Data(Incoming) \cup {m}
    BY <2>1, <2>2, <2>3, <1>i, DataAppend
  <2>5. Ascending(Incoming')
    <3>1. Before(Data(Incoming), {m})
      BY <2>2, <1>o DEF Chain, Before
    <3> QED BY <3>1, <2>2, <2>3, <1>i, <1>o, AscendingAppend
  <2>6. Restored' = Restored /\ InStores' = InStores /\ Coming' = Coming
    BY <2>1 DEF Restored, InStores, Coming
  <2>7. Chain(Restored, Data(Incoming'), InAnswers', InStores, Coming)
    <3>1. Data(Incoming') \in SUBSET (Data(Incoming) \cup {m}) /\ InAnswers' \in SUBSET InAnswers
      BY <2>2, <2>4
    <3> QED BY <3>1, <2>2, <1>o, ChainRelay
  <2>8. Data(Incoming)' = Data(Incoming')
    BY DEF Data
  <2> QED BY <2>1, <2>2, <2>5, <2>6, <2>7, <2>8, <1>o DEF InOrder, RestoredInOrder
<1>7. CASE RelaySignal
  <2> DEFINE m == Head(answer[bproc])
             found == m.purpose # SKIP_QUEUE
             s == IF found THEN m ELSE Signal(NO_PROCESS, m.deviceId)
  <2>1. /\ bpc = "relay" /\ answer[bproc] # <<>> /\ m \in Message /\ m.purpose # DATA
        /\ answer' = [answer EXCEPT ![bproc] = Tail(@)]
        /\ \/ reply' = [reply EXCEPT ![bconn] = Append(@, s)]
           \/ reply' = reply
        /\ UNCHANGED <<oconn, store, sent, restored>>
    <3>1. /\ bpc = "relay" /\ answer[bproc] # <<>> /\ m \in Message /\ m.purpose # DATA
          /\ answer' = [answer EXCEPT ![bproc] = Tail(@)]
          /\ UNCHANGED <<oconn, store, sent, restored>>
      BY <1>7, RelayedSignal DEF origVars
    <3>2. \/ reply' = [reply EXCEPT ![bconn] = Append(@, s)]
          \/ reply' = [reply EXCEPT ![bconn] = @]
      BY <1>7, RelayedSignal
    <3>3. [reply EXCEPT ![bconn] = reply[bconn]] = reply
      BY <1>t
    <3> QED BY <3>1, <3>2, <3>3
  <2>2. s \in Message /\ s.purpose # DATA
    BY <2>1, MessageType, Signals
  <2>3. InAnswers' \subseteq InAnswers /\ \A p \in Process : Ascending(answer'[p])
    BY <2>1, <1>h
  <2> HIDE DEF m, s
  <2>4. Incoming' = Incoming \/ Incoming' = Append(Incoming, s)
    BY <2>1, <2>2, <1>w DEF Incoming
  <2>5. Data(Incoming') = Data(Incoming) /\ Ascending(Incoming')
    BY <2>2, <2>4, <1>i, <1>o, DataAppend, AscendingAppend
  <2>6. Restored' = Restored /\ InStores' = InStores /\ Coming' = Coming
    BY <2>1 DEF Restored, InStores, Coming
  <2>7. Chain(Restored, Data(Incoming'), InAnswers', InStores, Coming)
    <3>1. Data(Incoming') \in SUBSET Data(Incoming) /\ InAnswers' \in SUBSET InAnswers
      BY <2>3, <2>5
    <3> QED BY <3>1, <1>o, ChainSmaller
  <2>8. Data(Incoming)' = Data(Incoming')
    BY DEF Data
  <2> QED BY <2>1, <2>3, <2>5, <2>6, <2>7, <2>8, <1>o DEF InOrder, RestoredInOrder
\* A process's whole store goes into its answer.
<1>8. ASSUME NEW p \in Process, AnswerRequest(p) PROVE InOrder' /\ RestoredInOrder'
  <2> DEFINE q == store[p]
             s(u) == Signal(u, ask[p])
  <2>1. /\ ask[p] \in Device /\ answer[p] = <<>> /\ q \in Seq(Message)
        /\ UNCHANGED <<oconn, reply, sent, restored>>
    BY <1>8, <1>t DEF AnswerRequest, NoOldAnswers, netVars, origVars, Types, DataTypes
  <2>2. \A u \in Purpose : s(u) \in Message /\ s(u).purpose = u
    BY <2>1, MessageType
  <2>3. \/ /\ \E u \in {SKIP_QUEUE, EMPTY_QUEUE} :
                answer' = [answer EXCEPT ![p] = Append(<<>>, s(u))]
           /\ \/ store' = store
              \/ store' = [store EXCEPT ![p] = <<>>]
        \/ /\ answer' = [answer EXCEPT ![p] = Append(q, s(END_OF_QUEUE))]
           /\ store' = [store EXCEPT ![p] = <<>>]
    <3>1. \A m : (<<>> \o q) \o <<m>> = Append(q, m)
      BY <2>1
    <3> QED BY <1>8, <2>1, <3>1 DEF AnswerRequest
  <2> HIDE DEF q, s
  <2>4. Data(answer'[p]) \subseteq Data(q) /\ Ascending(answer'[p])
    <3>1. Ascending(<<>>) /\ <<>> \in Seq(Message) /\ Ascending(q)
      BY <1>o DEF Ascending, q
    <3>2. ASSUME NEW u \in {SKIP_QUEUE, EMPTY_QUEUE, END_OF_QUEUE}
          PROVE  s(u) \in Message /\ s(u).purpose # DATA
      BY <2>2, Signals
    <3>3. ASSUME NEW u \in {SKIP_QUEUE, EMPTY_QUEUE}, answer'[p] = Append(<<>>, s(u))
          PROVE  Data(answer'[p]) \subseteq Data(q) /\ Ascending(answer'[p])
      <4>1. s(u) \in Message /\ s(u).purpose # DATA
        BY <3>2
      <4>2. Data(Append(<<>>, s(u))) = Data(<<>>) /\ Ascending(Append(<<>>, s(u)))
        BY <4>1, <3>1, DataAppend, AscendingAppend
      <4> QED BY <4>2, <3>3, DataEmpty
    <3>4. CASE answer'[p] = Append(q, s(END_OF_QUEUE))
      <4>1. s(END_OF_QUEUE) \in Message /\ s(END_OF_QUEUE).purpose # DATA
        BY <3>2
      <4>2. /\ Data(Append(q, s(END_OF_QUEUE))) = Data(q)
            /\ Ascending(Append(q, s(END_OF_QUEUE)))
        BY <4>1, <3>1, <2>1, DataAppend, AscendingAppend
      <4> QED BY <4>2, <3>4
    <3> QED BY <2>3, <3>3, <3>4, <1>t
  <2>5. /\ \A r \in Process \ {p} : answer'[r] = answer[r] /\ store'[r] = store[r]
        /\ store'[p] = store[p] \/ store'[p] = <<>>
    BY <2>3, <1>t
  <2>6. InAnswers' \subseteq InAnswers \cup Data(q)
    BY <2>4, <2>5 DEF InAnswers, Data
  <2>7. InStores' \subseteq InStores
    <3>1. \A r \in Process : Data(store'[r]) \subseteq Data(store[r])
      BY <2>5, DataEmpty
    <3> QED BY <3>1 DEF InStores, Data
  <2>8. \A r \in Process : Ascending(answer'[r]) /\ Ascending(store'[r])
    <3>1. Ascending(<<>>)
      BY DEF Ascending
    <3> QED BY <3>1, <2>4, <2>5, <1>o
  <2>9. Incoming' = Incoming /\ Restored' = Restored /\ Coming' = Coming
    BY <2>1 DEF Incoming, Restored, Coming
  <2>10. Chain(Restored, Data(Incoming), InAnswers', InStores', Coming)
    <3>1. Data(q) \in SUBSET InStores
      BY DEF InStores, q
    <3>2. CASE store'[p] = <<>>
      <4>1. Before(Data(q), InStores')
        <5> SUFFICES ASSUME NEW m \in Data(q), NEW r \in Process, NEW n \in Data(store'[r]),
                            m.deviceId = n.deviceId
                     PROVE  FALSE
          BY DEF InStores, Before, Data
        <5>1. r # p /\ n \in Data(store[r])
          BY <3>2, <2>5, DataEmpty
        <5>2. m.deviceId = processID[p] /\ m.deviceId \in Device
          <6>1. PICK i \in 1..Len(store[p]) : store[p][i] = m
            BY <2>1, DataMembers DEF q
          <6>2. m \in Message
            BY <2>1, DataMembers
          <6> QED BY <6>1, <6>2, MessageType DEF OneDevice
        <5>3. n.deviceId = processID[r]
          <6>1. PICK i \in 1..Len(store[r]) : store[r][i] = n
            BY <5>1, <1>t, DataMembers
          <6> QED BY <6>1 DEF OneDevice
        <5>4. processID[p] = processID[r] /\ processID[p] # 0
          <6>1. 0 \notin Device
            BY DEF Device
          <6>2. processID[p] \in Device
            BY <5>2
          <6>3. processID[p] = processID[r]
            BY <5>2, <5>3
          <6> QED BY <6>1, <6>2, <6>3
        <5>5. feeds[processID[p]] = p /\ feeds[processID[r]] = r
          BY <5>4 DEF OneDevice
        <5> QED BY <5>1, <5>4, <5>5
      <4> QED BY <4>1, <3>1, <2>6, <2>7, <1>o, ChainAnswer
    <3>3. CASE store'[p] # <<>>
      <4>1. Data(answer'[p]) = {}
        <5>1. store'[p] # <<>> => \E u \in {SKIP_QUEUE, EMPTY_QUEUE} : answer'[p] = Append(<<>>, s(u))
          BY <2>3, <1>t
        <5>2. PICK u \in {SKIP_QUEUE, EMPTY_QUEUE} : answer'[p] = Append(<<>>, s(u))
          BY <3>3, <5>1
        <5>3. s(u) \in Message /\ s(u).purpose # DATA /\ <<>> \in Seq(Message)
          BY <2>2, Signals
        <5> QED BY <5>2, <5>3, DataAppend, DataEmpty
      <4>2. InAnswers' \subseteq InAnswers
        BY <4>1, <2>5 DEF InAnswers, Data
      <4>3. InStores' = InStores
        BY <3>3, <2>5 DEF InStores, Data
      <4>4. InAnswers' \in SUBSET InAnswers /\ Data(Incoming) \in SUBSET Data(Incoming)
        BY <4>2
      <4> QED BY <4>3, <4>4, <1>o, ChainSmaller
    <3> QED BY <3>2, <3>3
  <2>11. Data(Incoming)' = Data(Incoming)
    BY <2>9 DEF Data
  <2> QED BY <2>1, <2>8, <2>9, <2>10, <2>11, <1>o DEF InOrder, RestoredInOrder
\* The next measurement is stored.
<1>9. ASSUME NEW p \in Process, NEW d \in Device, StoreMeasurement(p, d)
      PROVE  InOrder' /\ RestoredInOrder'
  <2> DEFINE x == Stored(d, sent[d] + 1)
  <2>1. /\ sent' = [sent EXCEPT ![d] = @ + 1]
        /\ \/ store' = store
           \/ store' = [store EXCEPT ![p] = Append(@, x)]
        /\ UNCHANGED <<oconn, reply, answer, restored>>
    BY <1>9 DEF StoreMeasurement, netVars, origVars
  <2>2. /\ x \in Message /\ x.purpose = DATA /\ x.deviceId = d /\ x.seq = sent[d] + 1
    BY <1>t, MessageType
  <2>3. x \in Coming
    BY DEF Coming
  <2>4. /\ \A e \in Device : sent[e] \in Nat
        /\ sent'[d] = sent[d] + 1
        /\ \A e \in Device \ {d} : sent'[e] = sent[e]
    BY <2>1, <1>t
  <2>5. \A e \in Device, n \in Nat : Stored(e, n).deviceId = e /\ Stored(e, n).seq = n
    BY MessageType
  <2>6. /\ \A k \in Coming' : k.deviceId \in Device /\ k.seq = sent'[k.deviceId] + 1
        /\ \A e \in Device : \E k \in Coming : k.deviceId = e /\ k.seq = sent[e] + 1
    BY <2>4, <2>5 DEF Coming
  <2> HIDE DEF x
  <2>7. Before({x}, Coming')
    BY <2>2, <2>4, <2>6 DEF Before
  <2>8. ASSUME NEW S \in SUBSET Message, Before(S, Coming) PROVE Before(S, Coming')
    <3> SUFFICES ASSUME NEW m \in S, NEW k \in Coming', m.deviceId = k.deviceId
                 PROVE  m.seq < k.seq
      BY DEF Before
    <3>1. k.deviceId \in Device /\ k.seq = sent'[k.deviceId] + 1
      BY <2>6
    <3>2. m.seq < sent[k.deviceId] + 1
      BY <3>1, <2>6, <2>8 DEF Before
    <3>3. m.seq \in Nat
      BY MessageType
    <3>4. sent'[k.deviceId] = sent[k.deviceId] \/ sent'[k.deviceId] = sent[k.deviceId] + 1
      BY <3>1, <2>4
    <3> QED BY <3>1, <3>2, <3>3, <3>4, <2>4
  <2>9. ASSUME NEW r \in Process
        PROVE  Ascending(store'[r]) /\ Data(store'[r]) \subseteq Data(store[r]) \cup {x}
    <3>1. CASE store'[r] = store[r]
      BY <3>1, <1>o
    <3>2. CASE store'[r] = Append(store[r], x)
      <4>1. Before(Data(store[r]), {x})
        BY <2>3, <1>o DEF Chain, Before, InStores
      <4> QED BY <3>2, <4>1, <2>2, <1>t, <1>o, DataAppend, AscendingAppend
    <3> QED BY <3>1, <3>2, <2>1, <1>t
  <2>10. InStores' \subseteq InStores \cup {x}
    BY <2>9 DEF InStores, Data
  <2>11. /\ Restored \subseteq Message /\ Data(Incoming) \subseteq Message
         /\ InAnswers \subseteq Message /\ InStores \subseteq Message
    <3>1. Restored \subseteq Message
      <4> SUFFICES ASSUME NEW e \in Device, NEW i \in 1..Len(restored[e])
                   PROVE  Stored(e, restored[e][i]) \in Message
        BY DEF Restored
      <4>1. restored[e][i] \in Nat
        BY <1>t, ElementOfSeq
      <4> QED BY <4>1, MessageType
    <3> QED BY <3>1, <1>i, <1>t, DataMembers DEF InAnswers, InStores
  <2>12. Incoming' = Incoming /\ Restored' = Restored /\ InAnswers' = InAnswers
    BY <2>1 DEF Incoming, Restored, InAnswers
  <2>13. Chain(Restored, Data(Incoming), InAnswers, InStores', Coming')
    <3>1. /\ Restored \in SUBSET Message /\ Data(Incoming) \in SUBSET Message
          /\ InAnswers \in SUBSET Message /\ InStores \in SUBSET Message
          /\ InStores' \in SUBSET (InStores \cup {x})
      BY <2>10, <2>11
    <3> QED BY <3>1, <2>3, <2>7, <2>8, <1>o, ChainStore
  <2>14. Data(Incoming)' = Data(Incoming)
    BY <2>12 DEF Data
  <2> QED BY <2>1, <2>9, <2>12, <2>13, <2>14, <1>o DEF InOrder, RestoredInOrder
<1>10. CASE UNCHANGED vars
  BY <1>10, <1>1 DEF vars, origVars, netVars, procVars
<1> QED
  BY <1>2, <1>3, <1>4, <1>5, <1>6, <1>7, <1>8, <1>9, <1>10 DEF Next, BackupThread, CopyThread

-----------------------------------------------------------------------------
(* Nothing is lost.                                                        *)

LEMMA TimeoutsGrow ==
  ASSUME Types, [Next]_vars, timeouts' = 0
  PROVE  timeouts = 0 /\ (AckTimeout => Stuck)
<1>1. CASE AckTimeout
  <2>1. timeouts \in Nat
    BY Constants DEF Types, ConsoleTypes
  <2> QED BY <1>1, <2>1 DEF AckTimeout
<1>2. CASE ~AckTimeout
  <2>1. timeouts' = timeouts
    BY <1>2
       DEF Next, Console, Choose, RaiseBackup, NotifyBackup, HandlerWakes, BackupThread,
           CheckBackup, BlockOnBackup, SpuriousWakeup, SendRequest, AckArrives,
           InsertMutex, FindMutex, ReceiveNothing, ReceiveBackup, FinishBackup, CopyThread, AcceptBackup, ReadRequest, RequestorGone, AskProcess,
           RelayData, RelaySignal, AnswerRequest, StoreMeasurement, vars
  <2> QED BY <1>2, <2>1
<1> QED
  BY <1>1, <1>2

\* The copy server never waits for a request that will not come.
LEMMA OneRequestStep ==
  ASSUME Types, OneRequest, [Next]_vars, timeouts' = 0
  PROVE  OneRequest'
<1> USE Constants DEF Types, ConnTypes
<1>1. CASE SendRequest
  <2>1. /\ nconn' = nconn + 1 /\ oconn' = nconn + 1 /\ opc = "connect" /\ opc' = "ack"
        /\ closed' = closed
    BY <1>1 DEF SendRequest
  <2>2. \A c \in 1..nconn' : c \in 1..nconn \/ c = nconn + 1
    BY <2>1
  <2> QED BY <2>1, <2>2 DEF OneRequest
<1>2. CASE FinishBackup
  BY <1>2 DEF FinishBackup, OneRequest
<1>3. CASE AckTimeout
  <2>1. bconn \in 1..nconn /\ bconn # oconn /\ bconn \notin closed
    BY <1>3, TimeoutsGrow DEF Stuck
  <2> QED BY <2>1 DEF OneRequest
<1>4. CASE /\ UNCHANGED <<oconn, nconn, closed>>
           /\ opc \in Engaged => opc' \in Engaged
  BY <1>4 DEF OneRequest
<1>5. CASE Console \/ HandlerWakes \/ CheckBackup \/ BlockOnBackup \/ SpuriousWakeup
  BY <1>4, <1>5 DEF Console, Choose, RaiseBackup, NotifyBackup, HandlerWakes, CheckBackup,
                    BlockOnBackup, SpuriousWakeup, origVars, netVars
<1>6. CASE AckArrives \/ InsertMutex \/ FindMutex \/ ReceiveNothing \/ ReceiveBackup
  BY <1>4, <1>6 DEF AckArrives, InsertMutex, FindMutex, ReceiveNothing, ReceiveBackup, netVars
<1>7. CASE CopyThread
  BY <1>4, <1>7 DEF CopyThread, AcceptBackup, ReadRequest, RequestorGone, AskProcess,
                    RelayData, RelaySignal, origVars, netVars
<1>8. ASSUME NEW p \in Process, AnswerRequest(p) \/ \E d \in Device : StoreMeasurement(p, d)
      PROVE  OneRequest'
  BY <1>4, <1>8 DEF AnswerRequest, StoreMeasurement, origVars, netVars
<1>9. CASE UNCHANGED vars
  BY <1>4, <1>9 DEF vars, origVars, netVars
<1> QED
  BY <1>1, <1>2, <1>3, <1>5, <1>6, <1>7, <1>8, <1>9 DEF Next, BackupThread

LEMMA DataHead ==
  ASSUME NEW s \in Seq(Message), s # <<>>
  PROVE  Data(s) = (IF Head(s).purpose = DATA THEN {Head(s)} ELSE {}) \cup Data(Tail(s))
<1>1. ToSet(s) = {Head(s)} \cup ToSet(Tail(s))
  BY ToSetTail
<1> QED BY <1>1 DEF Data

\* The measurements at the processes, at one of which something changes.
DataOfAll(f) == UNION {Data(f[r]) : r \in Process}

LEMMA DataOfAllStep ==
  ASSUME NEW f, NEW g, NEW p \in Process, NEW X,
         \A r \in Process \ {p} : g[r] = f[r],
         Data(g[p]) \cup X = Data(f[p])
  PROVE  DataOfAll(g) \cup X = DataOfAll(f)
<1> DEFINE F == UNION {Data(f[r]) : r \in Process}
           G == UNION {Data(g[r]) : r \in Process}
<1>1. \A r \in Process \ {p} : Data(g[r]) = Data(f[r])
  OBVIOUS
<1>2. F = Data(f[p]) \cup UNION {Data(f[r]) : r \in Process \ {p}}
  OBVIOUS
<1>3. G = Data(g[p]) \cup UNION {Data(g[r]) : r \in Process \ {p}}
  OBVIOUS
<1>4. UNION {Data(g[r]) : r \in Process \ {p}} = UNION {Data(f[r]) : r \in Process \ {p}}
  BY <1>1
<1>5. G \cup X = F
  <2> HIDE DEF F, G
  <2> QED
    BY <1>2, <1>3, <1>4
<1> QED
  BY <1>5 DEF DataOfAll

\* With one connection open, what the copy relays is read by the original.
LEMMA RelayedIsRead ==
  ASSUME Types, AnswerShape, FoundPassed, OneRequest, bpc = "relay",
         answer[bproc] # <<>>, Head(answer[bproc]).purpose = DATA
  PROVE  bconn = oconn /\ oconn \in Conn
<1>1. bconn \in 1..nconn /\ 1..nconn \subseteq Conn
  BY Constants DEF Types, ConnTypes, Conn
<1>2. ASSUME bconn \in closed PROVE FALSE
  <2>1. bproc # feeds[bdev]
    <3>1. feeds[bdev] < bproc
      BY <1>2 DEF FoundPassed, Ended, Closing
    <3>2. bproc \in Nat /\ feeds[bdev] \in Nat
      BY DEF Types, CopyTypes, AssignTypes, Process
    <3> QED BY <3>1, <3>2
  <2>2. answer[bproc] \in Seq(Message) /\ bproc \in Process
    BY DEF Types, DataTypes, CopyTypes
  <2>3. 1 \in 1..Len(answer[bproc]) /\ Head(answer[bproc]) = answer[bproc][1]
    BY <2>2, Shortened
  <2> QED BY <2>1, <2>2, <2>3, Signals DEF AnswerShape
<1> QED BY <1>1, <1>2 DEF OneRequest

LEMMA EverywhereStep ==
  ASSUME Types, OneDevice, NoOldAnswers, AnswerShape, PendingUnanswered, ReplyShape, FoundPassed,
         OneRequest, Everywhere = Produced, [Next]_vars
  PROVE  Everywhere' = Produced'
<1>t. /\ reply \in [Conn -> Seq(Message)] /\ answer \in [Process -> Seq(Message)]
      /\ store \in [Process -> Seq(Message)] /\ restored \in [Device -> Seq(Nat)]
      /\ sent \in [Device -> Nat] /\ bproc \in Process
  BY DEF Types, DataTypes, OrigTypes, CopyTypes
<1>u. /\ nconn \in Nat /\ oconn = nconn
      /\ opc \in Engaged => oconn \in Conn
  BY Constants DEF Types, ConnTypes, Conn
<1>i. Incoming \in Seq(Message)
  BY <1>t DEF Incoming
<1>e. Everywhere = Restored \cup Data(Incoming) \cup InAnswers \cup InStores
  BY DEF Everywhere
<1>f. Everywhere' = Restored' \cup Data(Incoming') \cup InAnswers' \cup InStores'
  <2>1. Data(Incoming)' = Data(Incoming')
    BY DEF Data
  <2> QED BY <2>1 DEF Everywhere
<1>1. CASE UNCHANGED <<oconn, reply, answer, store, sent, restored>>
  <2>1. /\ Incoming' = Incoming /\ Restored' = Restored /\ InAnswers' = InAnswers
        /\ InStores' = InStores /\ Produced' = Produced
    BY <1>1 DEF Incoming, Restored, InAnswers, InStores, Produced
  <2> QED BY <2>1, <1>e, <1>f
<1>2. CASE \/ Console \/ HandlerWakes \/ CheckBackup \/ BlockOnBackup \/ SpuriousWakeup
           \/ AckArrives \/ AckTimeout \/ FinishBackup
           \/ InsertMutex \/ FindMutex \/ ReceiveNothing
  BY <1>2, <1>1
     DEF Console, Choose, RaiseBackup, NotifyBackup, HandlerWakes, CheckBackup, BlockOnBackup,
         SpuriousWakeup, AckArrives, AckTimeout, FinishBackup, InsertMutex, FindMutex, ReceiveNothing,
         origVars, netVars, procVars
<1>3. CASE AcceptBackup \/ ReadRequest \/ RequestorGone \/ AskProcess
  BY <1>3, <1>1
     DEF AcceptBackup, ReadRequest, RequestorGone, AskProcess, origVars, netVars, procVars
\* The connection before it was closed, with everything read.
<1>4. CASE SendRequest
  <2>1. /\ oconn' = nconn + 1 /\ nconn + 1 \in Conn /\ opc = "connect"
        /\ UNCHANGED <<reply, answer, store, sent, restored>>
    BY <1>4, <1>u, Constants DEF SendRequest, procVars, Conn
  <2>2. Incoming' = <<>>
    <3>1. reply[nconn + 1] = <<>>
      BY <2>1, <1>u DEF PendingUnanswered, Unanswered
    <3> QED BY <2>1, <3>1 DEF Incoming
  <2>3. Incoming = <<>>
    <3>1. ASSUME oconn \in Conn PROVE reply[oconn] = <<>>
      <4>1. oconn \in 1..nconn
        BY <3>1, <1>u DEF Conn
      <4>2. oconn \in closed
        BY <4>1, <2>1 DEF OneRequest
      <4> QED BY <3>1, <4>2 DEF ReplyShape, Closing
    <3> QED BY <3>1 DEF Incoming
  <2>4. /\ Restored' = Restored /\ InAnswers' = InAnswers
        /\ InStores' = InStores /\ Produced' = Produced
    BY <2>1 DEF Restored, InAnswers, InStores, Produced
  <2> QED BY <2>2, <2>3, <2>4, <1>e, <1>f
<1>5. CASE ReceiveBackup
  <2> DEFINE q == reply[oconn]
             m == Head(q)
  <2>1. /\ q # <<>> /\ oconn \in Conn /\ oconn' = oconn
        /\ reply' = [reply EXCEPT ![oconn] = Tail(@)]
        /\ IF m.purpose = DATA
           THEN restored' = [restored EXCEPT ![m.deviceId] = Append(@, m.seq)]
           ELSE restored' = restored
        /\ UNCHANGED <<answer, store, sent>>
    BY <1>5, <1>u DEF ReceiveBackup, procVars
  <2>2. /\ Incoming = q /\ q \in Seq(Message) /\ Incoming' = Tail(q)
    BY <2>1, <1>t DEF Incoming
  <2>3. m \in Message
    BY <2>1, <2>2, DataTail
  <2>4. Data(q) = (IF m.purpose = DATA THEN {m} ELSE {}) \cup Data(Tail(q))
    BY <2>1, <2>2, DataHead
  <2>5. InAnswers' = InAnswers /\ InStores' = InStores /\ Produced' = Produced
    BY <2>1 DEF InAnswers, InStores, Produced
  <2> HIDE DEF q, m
  <2>6. CASE m.purpose = DATA
    <3> DEFINE e == m.deviceId
               R(d) == {Stored(d, restored[d][i]) : i \in 1..Len(restored[d])}
               S(d) == {Stored(d, restored'[d][i]) : i \in 1..Len(restored'[d])}
    <3>1. e \in Device /\ m.seq \in Nat /\ m = Stored(e, m.seq)
      <4>1. /\ m \in [purpose : Purpose, deviceId : Device, seq : Nat] /\ m.purpose = DATA
        BY <2>3, <2>6 DEF Message
      <4> QED BY <4>1 DEF Stored
    <3>2. /\ restored'[e] = Append(restored[e], m.seq)
          /\ \A d \in Device \ {e} : restored'[d] = restored[d]
      BY <2>1, <2>6, <3>1, <1>t
    <3> HIDE DEF e
    <3>3. /\ Len(restored[e]) \in Nat /\ Len(restored'[e]) = Len(restored[e]) + 1
          /\ \A i \in 1..Len(restored[e]) : restored'[e][i] = restored[e][i]
          /\ restored'[e][Len(restored[e]) + 1] = m.seq
      BY <3>1, <3>2, <1>t, Appended
    <3>4. 1..Len(restored'[e]) = 1..Len(restored[e]) \cup {Len(restored[e]) + 1}
      BY <3>3
    <3>5. S(e) = R(e) \cup {m}
      BY <3>1, <3>3, <3>4
    <3>6. \A d \in Device \ {e} : S(d) = R(d)
      BY <3>2
    <3>7. Restored = UNION {R(d) : d \in Device} /\ Restored' = UNION {S(d) : d \in Device}
      BY DEF Restored
    <3> HIDE DEF R, S
    <3>8. Restored' = Restored \cup {m}
      BY <3>1, <3>5, <3>6, <3>7
    <3> QED BY <3>8, <2>2, <2>4, <2>5, <2>6, <1>e, <1>f
  <2>7. CASE m.purpose # DATA
    <3>1. restored' = restored
      BY <2>1, <2>7 DEF m
    <3>2. Restored' = Restored
      BY <3>1 DEF Restored
    <3> QED BY <3>2, <2>2, <2>4, <2>5, <2>7, <1>e, <1>f
  <2> QED BY <2>6, <2>7
\* The head of an answer leaves it.
<1>h. ASSUME answer[bproc] # <<>>, answer' = [answer EXCEPT ![bproc] = Tail(@)]
      PROVE  LET m == Head(answer[bproc]) IN
             /\ m \in Message
             /\ InAnswers' \cup (IF m.purpose = DATA THEN {m} ELSE {}) = InAnswers
  <2> DEFINE m == Head(answer[bproc])
             X == IF m.purpose = DATA THEN {m} ELSE {}
  <2>1. answer[bproc] \in Seq(Message)
    BY <1>t
  <2>2. m \in Message /\ Data(answer[bproc]) = X \cup Data(Tail(answer[bproc]))
    BY <1>h, <2>1, DataTail, DataHead
  <2>3. answer'[bproc] = Tail(answer[bproc])
    BY <1>h, <1>t
  <2>r. \A r \in Process \ {bproc} : answer'[r] = answer[r]
    BY <1>h, <1>t
  <2> HIDE DEF m, X
  <2>4. Data(answer'[bproc]) \cup X = Data(answer[bproc])
    BY <2>2, <2>3
  <2>5. DataOfAll(answer') \cup X = DataOfAll(answer)
    <3>1. bproc \in Process
      BY <1>t
    <3> QED BY <3>1, <2>r, <2>4, DataOfAllStep
  <2>6. InAnswers' \cup X = InAnswers
    BY <2>5 DEF InAnswers, DataOfAll, Data
  <2> QED BY <2>2, <2>6 DEF m, X
<1>6. CASE RelayData
  <2> DEFINE m == Head(answer[bproc])
  <2>1. /\ bpc = "relay" /\ answer[bproc] # <<>> /\ m.purpose = DATA
        /\ answer' = [answer EXCEPT ![bproc] = Tail(@)]
        /\ reply' = [reply EXCEPT ![bconn] = Append(@, m)]
        /\ UNCHANGED <<oconn, store, sent, restored>>
    BY <1>6 DEF RelayData, origVars
  <2>2. m \in Message /\ InAnswers' \cup {m} = InAnswers
    BY <2>1, <1>h
  <2>3. bconn = oconn /\ oconn \in Conn
    BY <2>1, RelayedIsRead
  <2> HIDE DEF m
  <2>4. Incoming' = Append(Incoming, m)
    BY <2>1, <2>3, <1>t DEF Incoming
  <2>5. Data(Incoming') = Data(Incoming) \cup {m}
    <3>1. m.purpose = DATA
      BY <2>1 DEF m
    <3> QED BY <3>1, <2>2, <2>4, <1>i, DataAppend
  <2>6. Restored' = Restored /\ InStores' = InStores /\ Produced' = Produced
    BY <2>1 DEF Restored, InStores, Produced
  <2> QED BY <2>2, <2>5, <2>6, <1>e, <1>f
<1>7. CASE RelaySignal
  <2> DEFINE m == Head(answer[bproc])
             found == m.purpose # SKIP_QUEUE
             s == IF found THEN m ELSE Signal(NO_PROCESS, m.deviceId)
  <2>1. /\ bpc = "relay" /\ answer[bproc] # <<>> /\ m \in Message /\ m.purpose # DATA
        /\ answer' = [answer EXCEPT ![bproc] = Tail(@)]
        /\ UNCHANGED <<oconn, store, sent, restored>>
    BY <1>7, RelayedSignal DEF origVars
  <2>2. \/ reply' = [reply EXCEPT ![bconn] = Append(@, s)]
        \/ reply' = reply
    <3>1. \/ reply' = [reply EXCEPT ![bconn] = Append(@, s)]
          \/ reply' = [reply EXCEPT ![bconn] = @]
      BY <1>7, RelayedSignal
    <3>2. [reply EXCEPT ![bconn] = reply[bconn]] = reply
      BY <1>t
    <3> QED BY <3>1, <3>2
  <2>3. s \in Message /\ s.purpose # DATA
    BY <2>1, MessageType, Signals
  <2>4. InAnswers' = InAnswers
    BY <2>1, <1>h
  <2> HIDE DEF m, s
  <2>5. Incoming' = Incoming \/ Incoming' = Append(Incoming, s)
    BY <2>1, <2>2, <2>3, <1>t DEF Incoming
  <2>6. Data(Incoming') = Data(Incoming)
    BY <2>3, <2>5, <1>i, DataAppend
  <2>7. Restored' = Restored /\ InStores' = InStores /\ Produced' = Produced
    BY <2>1 DEF Restored, InStores, Produced
  <2> QED BY <2>4, <2>6, <2>7, <1>e, <1>f
\* A process's whole store goes into its answer.
<1>8. ASSUME NEW p \in Process, AnswerRequest(p) PROVE Everywhere' = Produced'
  <2> DEFINE q == store[p]
             s(u) == Signal(u, ask[p])
  <2>1. /\ ask[p] \in Device /\ answer[p] = <<>> /\ q \in Seq(Message)
        /\ UNCHANGED <<oconn, reply, sent, restored>>
    BY <1>8, <1>t DEF AnswerRequest, NoOldAnswers, netVars, origVars, Types, DataTypes
  <2>2. \A u \in {SKIP_QUEUE, EMPTY_QUEUE, END_OF_QUEUE} : s(u) \in Message /\ s(u).purpose # DATA
    BY <2>1, MessageType, Signals
  <2>3. \/ /\ \E u \in {SKIP_QUEUE, EMPTY_QUEUE} :
                answer' = [answer EXCEPT ![p] = Append(<<>>, s(u))]
           /\ \/ store' = store
              \/ q = <<>> /\ store' = [store EXCEPT ![p] = <<>>]
        \/ /\ answer' = [answer EXCEPT ![p] = Append(q, s(END_OF_QUEUE))]
           /\ store' = [store EXCEPT ![p] = <<>>]
    <3>1. \A m : (<<>> \o q) \o <<m>> = Append(q, m)
      BY <2>1
    <3> QED BY <1>8, <2>1, <3>1 DEF AnswerRequest
  <2> HIDE DEF s
  <2>4. /\ \A r \in Process \ {p} : answer'[r] = answer[r] /\ store'[r] = store[r]
        /\ \/ /\ \E u \in {SKIP_QUEUE, EMPTY_QUEUE} : answer'[p] = Append(<<>>, s(u))
              /\ store'[p] = q
           \/ answer'[p] = Append(q, s(END_OF_QUEUE)) /\ store'[p] = <<>>
    BY <2>3, <1>t
  <2>5. PICK T \in SUBSET Data(q) :
          Data(answer'[p]) = T /\ Data(store'[p]) \cup T = Data(q)
    <3>1. CASE \E u \in {SKIP_QUEUE, EMPTY_QUEUE} : answer'[p] = Append(<<>>, s(u)) /\ store'[p] = q
      <4>1. PICK u \in {SKIP_QUEUE, EMPTY_QUEUE} : answer'[p] = Append(<<>>, s(u)) /\ store'[p] = q
        BY <3>1
      <4>2. s(u) \in Message /\ s(u).purpose # DATA /\ <<>> \in Seq(Message)
        BY <2>2
      <4>3. Data(answer'[p]) = {}
        BY <4>1, <4>2, DataAppend, DataEmpty
      <4>4. {} \in SUBSET Data(q) /\ Data(store'[p]) \cup {} = Data(q)
        BY <4>1
      <4> QED BY <4>3, <4>4
    <3>2. CASE answer'[p] = Append(q, s(END_OF_QUEUE)) /\ store'[p] = <<>>
      <4>1. s(END_OF_QUEUE) \in Message /\ s(END_OF_QUEUE).purpose # DATA
        BY <2>2
      <4>2. Data(answer'[p]) = Data(q)
        BY <4>1, <3>2, <2>1, DataAppend
      <4>3. Data(q) \in SUBSET Data(q) /\ Data(store'[p]) \cup Data(q) = Data(q)
        BY <3>2, DataEmpty
      <4> QED BY <4>2, <4>3
    <3> QED BY <2>4, <3>1, <3>2
  <2>6. InAnswers \cup T = InAnswers'
    <3>1. Data(answer[p]) = {}
      BY <2>1, DataEmpty
    <3>2. Data(answer[p]) \cup T = Data(answer'[p])
      BY <3>1, <2>5
    <3>3. \A r \in Process \ {p} : answer[r] = answer'[r]
      BY <2>4
    <3>4. DataOfAll(answer) \cup T = DataOfAll(answer')
      BY <3>2, <3>3, DataOfAllStep
    <3> QED BY <3>4 DEF InAnswers, DataOfAll, Data
  <2>7. InStores' \cup T = InStores
    <3>1. Data(store'[p]) \cup T = Data(store[p])
      BY <2>5
    <3>3. \A r \in Process \ {p} : store'[r] = store[r]
      BY <2>4
    <3>2. DataOfAll(store') \cup T = DataOfAll(store)
      BY <3>1, <3>3, DataOfAllStep
    <3> QED BY <3>2 DEF InStores, DataOfAll, Data
  <2>8. Incoming' = Incoming /\ Restored' = Restored /\ Produced' = Produced
    BY <2>1 DEF Incoming, Restored, Produced
  <2> HIDE DEF q
  <2> QED BY <2>6, <2>7, <2>8, <1>e, <1>f
\* The process keeps what it is sent: its store is empty, or of that device.
<1>9. ASSUME NEW p \in Process, NEW d \in Device, StoreMeasurement(p, d)
      PROVE  Everywhere' = Produced'
  <2> DEFINE x == Stored(d, sent[d] + 1)
  <2>1. processID'[p] = d
    <3>1. /\ processID' = [processID EXCEPT ![p] = IF store[p] = <<>> THEN d ELSE @]
          /\ feeds[d] = p
      BY <1>9 DEF StoreMeasurement
    <3>2. processID \in [Process -> Device \cup {0}] /\ 0 \notin Device
      BY DEF Types, AssignTypes, Device
    <3>3. ASSUME store[p] # <<>> PROVE processID[p] = d
      <4>1. store[p] \in Seq(Message)
        BY <1>t
      <4>2. 1 \in 1..Len(store[p]) /\ store[p][1] \in Message
        BY <3>3, <4>1, Shortened
      <4>3. processID[p] \in Device
        BY <4>2, MessageType DEF OneDevice
      <4>4. processID[p] # 0
        BY <4>3, <3>2
      <4> QED BY <3>1, <4>3, <4>4 DEF OneDevice
    <3> QED BY <3>1, <3>2, <3>3
  <2>2. /\ sent' = [sent EXCEPT ![d] = @ + 1]
        /\ store' = [store EXCEPT ![p] = Append(@, x)]
        /\ UNCHANGED <<oconn, reply, answer, restored>>
    BY <1>9, <2>1 DEF StoreMeasurement, netVars, origVars
  <2>3. /\ x \in Message /\ x.purpose = DATA
    BY <1>t, MessageType
  <2>4. InStores \cup {x} = InStores'
    <3>1. store'[p] = Append(store[p], x)
      BY <2>2, <1>t
    <3>4. \A r \in Process \ {p} : store[r] = store'[r]
      BY <2>2, <1>t
    <3> HIDE DEF x
    <3>2. Data(store[p]) \cup {x} = Data(store'[p])
      BY <3>1, <2>3, <1>t, DataAppend
    <3>3. DataOfAll(store) \cup {x} = DataOfAll(store')
      BY <3>2, <3>4, DataOfAllStep
    <3> QED BY <3>3 DEF InStores, DataOfAll, Data
  <2>5. Produced' = Produced \cup {x}
    <3> DEFINE R(e) == {Stored(e, n) : n \in 1..sent[e]}
               S(e) == {Stored(e, n) : n \in 1..sent'[e]}
    <3>1. sent[d] \in Nat /\ sent'[d] = sent[d] + 1 /\ \A e \in Device \ {d} : sent'[e] = sent[e]
      BY <2>2, <1>t
    <3>2. 1..sent'[d] = 1..sent[d] \cup {sent[d] + 1}
      BY <3>1
    <3>3. S(d) = R(d) \cup {x}
      BY <3>2
    <3>4. \A e \in Device \ {d} : S(e) = R(e)
      BY <3>1
    <3>5. Produced = UNION {R(e) : e \in Device} /\ Produced' = UNION {S(e) : e \in Device}
      BY DEF Produced
    <3> HIDE DEF R, S, x
    <3> QED BY <3>3, <3>4, <3>5
  <2>6. Incoming' = Incoming /\ Restored' = Restored /\ InAnswers' = InAnswers
    BY <2>2 DEF Incoming, Restored, InAnswers
  <2> HIDE DEF x
  <2> QED BY <2>4, <2>5, <2>6, <1>e, <1>f
<1>10. CASE UNCHANGED vars
  BY <1>10, <1>1 DEF vars, origVars, netVars, procVars
<1> QED
  BY <1>2, <1>3, <1>4, <1>5, <1>6, <1>7, <1>8, <1>9, <1>10 DEF Next, BackupThread, CopyThread

LEMMA AscendingConcat ==
  ASSUME NEW s \in Seq(Message), NEW t \in Seq(Message), Ascending(s), Ascending(t),
         Before(Data(s), Data(t))
  PROVE  s \o t \in Seq(Message) /\ Ascending(s \o t) /\ Data(s \o t) = Data(s) \cup Data(t)
<1> DEFINE r == s \o t
<1>1. /\ r \in Seq(Message) /\ Len(s) \in Nat /\ Len(t) \in Nat /\ Len(r) = Len(s) + Len(t)
      /\ \A i \in 1..Len(s) : r[i] = s[i]
      /\ \A i \in 1..Len(t) : r[Len(s) + i] = t[i]
  OBVIOUS
<1> HIDE DEF r
<1>2. \A i \in 1..Len(r) : i \in 1..Len(s) \/ \E k \in 1..Len(t) : i = Len(s) + k
  <2> SUFFICES ASSUME NEW i \in 1..Len(r), i \notin 1..Len(s)
               PROVE  \E k \in 1..Len(t) : i = Len(s) + k
    OBVIOUS
  <2>1. i - Len(s) \in 1..Len(t) /\ i = Len(s) + (i - Len(s))
    BY <1>1
  <2> QED BY <2>1
<1>3. /\ \A i \in 1..Len(s) : i \in 1..Len(r)
      /\ \A k \in 1..Len(t) : Len(s) + k \in 1..Len(r)
  BY <1>1
<1>4. Data(r) = Data(s) \cup Data(t)
  <2>1. ASSUME NEW m \in Data(r) PROVE m \in Data(s) \cup Data(t)
    <3>1. PICK i \in 1..Len(r) : r[i] = m /\ m.purpose = DATA
      BY <1>1, DataMembers
    <3>2. CASE i \in 1..Len(s)
      BY <3>1, <3>2, <1>1, DataMembers
    <3>3. CASE i \notin 1..Len(s)
      <4>1. PICK k \in 1..Len(t) : i = Len(s) + k
        BY <3>3, <1>2
      <4> QED BY <3>1, <4>1, <1>1, DataMembers
    <3> QED BY <3>2, <3>3
  <2>2. ASSUME NEW m \in Data(s) PROVE m \in Data(r)
    <3>1. PICK i \in 1..Len(s) : s[i] = m /\ m.purpose = DATA
      BY DataMembers
    <3> QED BY <3>1, <1>1, <1>3, DataMembers
  <2>3. ASSUME NEW m \in Data(t) PROVE m \in Data(r)
    <3>1. PICK k \in 1..Len(t) : t[k] = m /\ m.purpose = DATA
      BY DataMembers
    <3> QED BY <3>1, <1>1, <1>3, DataMembers
  <2> QED BY <2>1, <2>2, <2>3
<1>5. Ascending(r)
  <2> SUFFICES ASSUME NEW i \in 1..Len(r), NEW j \in 1..Len(r), i < j,
                      r[i].purpose = DATA, r[j].purpose = DATA, r[i].deviceId = r[j].deviceId
               PROVE  r[i].seq < r[j].seq
    BY DEF Ascending
  <2>1. CASE i \in 1..Len(s) /\ j \in 1..Len(s)
    BY <2>1, <1>1 DEF Ascending
  <2>2. CASE i \in 1..Len(s) /\ j \notin 1..Len(s)
    <3>1. PICK k \in 1..Len(t) : j = Len(s) + k
      BY <2>2, <1>2
    <3>2. r[i] = s[i] /\ r[j] = t[k]
      BY <2>2, <3>1, <1>1
    <3>3. s[i].purpose = DATA /\ t[k].purpose = DATA /\ s[i].deviceId = t[k].deviceId
      BY <3>2
    <3>4. s[i] \in Data(s)
      BY <2>2, <3>3, DataMembers
    <3>5. t[k] \in Data(t)
      BY <3>3, DataMembers
    <3> QED BY <3>2, <3>3, <3>4, <3>5 DEF Before
  <2>3. CASE i \notin 1..Len(s)
    <3>1. j \notin 1..Len(s)
      BY <2>3, <1>1
    <3>2. PICK k \in 1..Len(t) : i = Len(s) + k
      BY <2>3, <1>2
    <3>3. PICK l \in 1..Len(t) : j = Len(s) + l
      BY <3>1, <1>2
    <3>4. k < l
      BY <3>2, <3>3, <1>1
    <3> QED BY <3>2, <3>3, <3>4, <1>1 DEF Ascending
  <2> QED BY <2>1, <2>2, <2>3
<1> QED
  BY <1>1, <1>4, <1>5 DEF r

\* The way of one device has its measurements in order, and all of them.
LEMMA NothingMissing ==
  ASSUME Types, OneDevice, NoOldAnswers, AnswerShape, InOrder, RestoredInOrder,
         Everywhere = Produced
  PROVE  NoMeasurementLost
<1> SUFFICES ASSUME NEW d \in Device
             PROVE  /\ Ascending(Way(d))
                    /\ {m \in Data(Way(d)) : m.deviceId = d} = {Stored(d, n) : n \in 1..sent[d]}
  BY DEF NoMeasurementLost
<1> DEFINE p == feeds[d]
           R == [i \in 1..Len(restored[d]) |-> Stored(d, restored[d][i])]
           W == R \o Incoming \o answer[p] \o store[p]
<1>t. /\ reply \in [Conn -> Seq(Message)] /\ answer \in [Process -> Seq(Message)]
      /\ store \in [Process -> Seq(Message)] /\ restored[d] \in Seq(Nat)
      /\ sent \in [Device -> Nat] /\ p \in Process /\ 0 \notin Device
  <2>1. 0 \notin Device
    BY DEF Device
  <2>2. restored[d] \in Seq(Nat) /\ p \in Process
    BY DEF Types, OrigTypes, AssignTypes
  <2> QED BY <2>1, <2>2 DEF Types, DataTypes
<1>o. /\ Chain(Restored, Data(Incoming), InAnswers, InStores, Coming)
      /\ Ascending(Incoming) /\ Ascending(answer[p]) /\ Ascending(store[p])
  BY <1>t DEF InOrder
<1>1. Incoming \in Seq(Message) /\ answer[p] \in Seq(Message) /\ store[p] \in Seq(Message)
  BY <1>t DEF Incoming
<1>2. /\ R \in Seq(Message) /\ Len(R) = Len(restored[d])
      /\ \A i \in 1..Len(restored[d]) :
           /\ R[i] = Stored(d, restored[d][i])
           /\ R[i].purpose = DATA /\ R[i].seq = restored[d][i]
  <2>1. Len(restored[d]) \in Nat /\ \A i \in 1..Len(restored[d]) : restored[d][i] \in Nat
    BY <1>t
  <2>2. \A i \in 1..Len(restored[d]) : Stored(d, restored[d][i]) \in Message
    BY <2>1, MessageType
  <2>3. R \in Seq(Message) /\ Len(R) = Len(restored[d])
    BY <2>1, <2>2
  <2> QED BY <2>1, <2>3, MessageType
<1> HIDE DEF R
<1>3. Ascending(R)
  BY <1>2 DEF Ascending, RestoredInOrder
<1>4. Data(R) = {Stored(d, restored[d][i]) : i \in 1..Len(restored[d])}
  <2>1. ASSUME NEW m \in Data(R) PROVE \E i \in 1..Len(restored[d]) : m = Stored(d, restored[d][i])
    BY <1>2, DataMembers
  <2>2. ASSUME NEW i \in 1..Len(restored[d]) PROVE Stored(d, restored[d][i]) \in Data(R)
    BY <1>2, DataMembers
  <2> QED BY <2>1, <2>2
<1>5. Data(R) \subseteq Restored /\ Data(answer[p]) \subseteq InAnswers /\ Data(store[p]) \subseteq InStores
  BY <1>4, <1>t DEF Restored, InAnswers, InStores
<1>6. /\ Before(Data(R), Data(Incoming)) /\ Before(Data(R), Data(answer[p]))
      /\ Before(Data(R), Data(store[p])) /\ Before(Data(Incoming), Data(answer[p]))
      /\ Before(Data(Incoming), Data(store[p])) /\ Before(Data(answer[p]), Data(store[p]))
  BY <1>o, <1>5 DEF Chain, Before
<1> HIDE DEF p
<1>7. /\ W \in Seq(Message) /\ Ascending(W)
      /\ Data(W) = Data(R) \cup Data(Incoming) \cup Data(answer[p]) \cup Data(store[p])
  <2> DEFINE U == R \o Incoming
             V == U \o answer[p]
  <2>1. U \in Seq(Message) /\ Ascending(U) /\ Data(U) = Data(R) \cup Data(Incoming)
    BY <1>1, <1>2, <1>3, <1>o, <1>6, AscendingConcat
  <2>2. W = V \o store[p]
    OBVIOUS
  <2> HIDE DEF U, W
  <2>3. Before(Data(U), Data(answer[p])) /\ Before(Data(U), Data(store[p]))
    BY <2>1, <1>6 DEF Before
  <2>4. V \in Seq(Message) /\ Ascending(V) /\ Data(V) = Data(U) \cup Data(answer[p])
    BY <2>1, <2>3, <1>1, <1>o, AscendingConcat
  <2> HIDE DEF V
  <2>5. Before(Data(V), Data(store[p]))
    BY <2>3, <2>4, <1>6 DEF Before
  <2>6. W \in Seq(Message) /\ Ascending(W) /\ Data(W) = Data(V) \cup Data(store[p])
    BY <2>2, <2>4, <2>5, <1>1, <1>o, AscendingConcat
  <2> QED BY <2>1, <2>4, <2>6
<1>8. W = Way(d)
  BY DEF Way, R, p
<1> HIDE DEF W
<1>9. ASSUME NEW m \in Data(W), m.deviceId = d
      PROVE  \E n \in 1..sent[d] : m = Stored(d, n)
  <2>1. m \in Produced
    BY <1>5, <1>7 DEF Everywhere
  <2>2. PICK e \in Device : \E n \in 1..sent[e] : m = Stored(e, n)
    BY <2>1 DEF Produced
  <2>3. e = d
    BY <2>2, <1>9 DEF Stored
  <2> QED BY <2>2, <2>3
<1>10. ASSUME NEW n \in 1..sent[d] PROVE Stored(d, n) \in Data(W)
  <2> DEFINE m == Stored(d, n)
  <2>1. m.deviceId = d
    BY DEF Stored
  <2>2. m \in Restored \cup Data(Incoming) \cup InAnswers \cup InStores
    BY DEF Produced, Everywhere
  <2>3. ASSUME m \in Restored PROVE m \in Data(R)
    <3>1. PICK e \in Device : \E i \in 1..Len(restored[e]) : m = Stored(e, restored[e][i])
      BY <2>3 DEF Restored
    <3>2. e = d
      BY <3>1, <2>1 DEF Stored
    <3> QED BY <3>1, <3>2, <1>4
  <2> HIDE DEF m
  <2>4. ASSUME m \in InAnswers PROVE m \in Data(answer[p])
    <3>1. PICK r \in Process : m \in Data(answer[r])
      BY <2>4 DEF InAnswers
    <3>2. answer[r] \in Seq(Message)
      BY <1>t
    <3>3. PICK i \in 1..Len(answer[r]) : answer[r][i] = m /\ m.purpose = DATA
      BY <3>1, <3>2, DataMembers
    <3>4. answer[r] # <<>>
      BY <3>1, DataEmpty
    <3>5. bdev = d
      BY <3>3, <3>4, <2>1 DEF NoOldAnswers
    <3>6. r = feeds[bdev]
      BY <3>3, Signals DEF AnswerShape
    <3> QED BY <3>1, <3>5, <3>6 DEF p
  <2>5. ASSUME m \in InStores PROVE m \in Data(store[p])
    <3>1. PICK r \in Process : m \in Data(store[r])
      BY <2>5 DEF InStores
    <3>2. store[r] \in Seq(Message)
      BY <1>t
    <3>3. PICK i \in 1..Len(store[r]) : store[r][i] = m
      BY <3>1, <3>2, DataMembers
    <3>4. processID[r] = d
      BY <3>3, <2>1 DEF OneDevice
    <3>5. feeds[d] = r
      BY <3>4, <1>t DEF OneDevice
    <3> QED BY <3>1, <3>5 DEF p
  <2> QED BY <2>2, <2>3, <2>4, <2>5, <1>7 DEF m
<1>11. {m \in Data(W) : m.deviceId = d} = {Stored(d, n) : n \in 1..sent[d]}
  <2>1. \A n \in 1..sent[d] : Stored(d, n).deviceId = d
    BY DEF Stored
  <2> QED BY <2>1, <1>9, <1>10
<1> QED
  BY <1>7, <1>8, <1>11

LEMMA AllThereStep == IInv /\ [Next]_vars => AllThere'
<1> SUFFICES ASSUME IInv, [Next]_vars, timeouts' = 0
             PROVE  OneRequest' /\ Everywhere' = Produced'
  BY DEF AllThere
<1>1. OneRequest /\ Everywhere = Produced
  BY TimeoutsGrow DEF IInv, AllThere
<1>2. OneRequest'
  BY <1>1, OneRequestStep DEF IInv
<1>3. Everywhere' = Produced'
  BY <1>1, EverywhereStep DEF IInv
<1> QED
  BY <1>2, <1>3

-----------------------------------------------------------------------------
(* The invariant and what follows from it.                                 *)

LEMMA InitIInv == Init => IInv
<1> SUFFICES ASSUME Init PROVE IInv
  OBVIOUS
<1>1. /\ \A c \in Conn : request[c] = 0 /\ acks[c] = 0 /\ reply[c] = <<>>
      /\ \A p \in Process : ask[p] = 0 /\ answer[p] = <<>> /\ store[p] = <<>> /\ processID[p] = 0
      /\ \A d \in Device : restored[d] = <<>>
      /\ nconn = 0 /\ oconn = 0 /\ bconn = 0 /\ backlog = <<>> /\ closed = {}
      /\ opc = "check" /\ bpc = "accept" /\ bnum = 0
  BY DEF Init
<1>2. Types
  BY InitTypes
<1>3. OneDevice
  <2>1. feeds \in Injection(Device, Process)
    BY DEF Init, Bijection
  <2>2. \A d, e \in Device : feeds[d] = feeds[e] => d = e
    BY <2>1 DEF Injection, IsInjective
  <2> QED BY <1>1, <2>2 DEF OneDevice
<1>4. NoOldAnswers /\ AnswerShape
  BY <1>1 DEF NoOldAnswers, AnswerShape
<1>5. PendingUnanswered
  BY <1>1 DEF PendingUnanswered, Unanswered
<1>6. ReplyShape /\ FoundPassed
  BY <1>1 DEF ReplyShape, Closing, FoundPassed
<1>7. InOrder
  <2>1. Incoming = <<>> /\ Restored = {}
    BY <1>1 DEF Incoming, Restored
  <2>2. InAnswers = {} /\ InStores = {}
    BY <1>1, DataEmpty DEF InAnswers, InStores
  <2>3. Ascending(<<>>)
    BY DEF Ascending
  <2> QED BY <1>1, <2>1, <2>2, <2>3, DataEmpty DEF InOrder, Chain, Before
<1>8. RestoredInOrder
  BY <1>1 DEF RestoredInOrder
<1>9. AllThere
  <2>1. Incoming = <<>> /\ Restored = {}
    BY <1>1 DEF Incoming, Restored
  <2>2. InAnswers = {} /\ InStores = {}
    BY <1>1, DataEmpty DEF InAnswers, InStores
  <2>3. Produced = {}
    BY DEF Init, Produced
  <2>4. OneRequest
    BY <1>1 DEF OneRequest
  <2> QED BY <2>1, <2>2, <2>3, <2>4, DataEmpty DEF AllThere, Everywhere
<1> QED
  BY <1>2, <1>3, <1>4, <1>5, <1>6, <1>7, <1>8, <1>9 DEF IInv

LEMMA Invariance == Spec => []IInv
<1>1. IInv /\ [Next]_vars => IInv'
  BY TypesStep, OneDeviceStep, AnswersStep, PendingStep, ClosingStep, InOrderStep,
     AllThereStep DEF IInv
<1> QED
  BY InitIInv, <1>1, PTL DEF Spec

\* Every variable has its type.
THEOREM TypeCorrect == Spec => []TypeOK
<1>1. IInv => TypeOK
  BY TypesAreCorrect DEF IInv
<1> QED
  BY <1>1, Invariance, PTL

\* What the copy server reads from a process answers the request it made of it:
\* nothing is left over from an earlier backup, also when the original server
\* has given that one up.
THEOREM AnswersBelong == Spec => []NoOldAnswers
<1>1. IInv => NoOldAnswers
  BY DEF IInv
<1> QED
  BY <1>1, Invariance, PTL

\* The original closes a connection when it has read all that will ever be sent
\* there.
THEOREM ClosesAfterAnswer == Spec => []CleanClose
<1>1. IInv => CleanClose
  <2> SUFFICES ASSUME IInv, NEW c \in closed \cup (IF opc = "finish" THEN {oconn} ELSE {})
               PROVE  /\ reply[c] = <<>>
                      /\ bconn = c /\ bpc = "relay" =>
                           \A i \in 1..Len(answer[bproc]) : answer[bproc][i].purpose = SKIP_QUEUE
    BY DEF CleanClose
  <2>1. /\ c \in Conn /\ Closing(c)
        /\ bproc \in Process /\ bproc \in Nat
        /\ bdev \in Device /\ feeds[bdev] \in Nat
    BY Constants, SMTT(30)
       DEF IInv, Types, ConnTypes, CopyTypes, AssignTypes, Closing, Conn, Process, Device
  <2>2. reply[c] = <<>>
    BY <2>1 DEF IInv, ReplyShape
  <2>3. ASSUME bconn = c, bpc = "relay"
        PROVE  \A i \in 1..Len(answer[bproc]) : answer[bproc][i].purpose = SKIP_QUEUE
    <3>1. feeds[bdev] < bproc
      BY <2>1, <2>3 DEF IInv, FoundPassed, Ended
    <3>2. bproc # feeds[bdev]
      BY <2>1, <3>1
    <3> QED BY <2>1, <3>2 DEF IInv, AnswerShape
  <2> QED BY <2>2, <2>3
<1> QED
  BY <1>1, Invariance, PTL

\* Whatever is late, no measurement is restored twice, or after a later one of
\* its device.
THEOREM RestoresInOrder == Spec => []RestoredInOrder
<1>1. IInv => RestoredInOrder
  BY DEF IInv
<1> QED
  BY <1>1, Invariance, PTL

\* As long as no acknowledgement of a request is late, and the original's backup
\* thread has not returned, every measurement a copy process has stored is at
\* exactly one place of its way back, in order.
THEOREM NothingLostOnTheWay == Spec => []BackupComplete
<1>1. IInv => BackupComplete
  BY NothingMissing DEF IInv, AllThere, BackupComplete
<1> QED
  BY <1>1, Invariance, PTL

=============================================================================
