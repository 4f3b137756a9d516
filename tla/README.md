# ReplicationService in TLA+

Formal models of the replication service in `src/Replication`: measurements of
three kinds of devices go from clients through a Process program to the
original server, are copied to a copy server and kept there by copy processes,
and can be restored from them.

## The system

    Client --> Process --8000--> original server --7000--> copy server --6000--> copy processes
       ^          ^                |        ^                  |      ^               |
       +--backup--+----8500--------+        +------9000--------+      +-----9001------+

| Component | State | Operations |
|---|---|---|
| Client (`Client.cpp`) | one socket, a measurement it reuses | send one or many measurements, request a backup (purpose 99) and read until `END_OF_QUEUE` |
| Process (`Process.cpp`) | `socketQueue`, `temporaryQueue`, 4 handlers with one connection each to the original | accept clients, forward, keep in `temporaryQueue` while the original is away, answer a backup request from port 8500 |
| Original: intake (`Replication.cpp`) | `socketQueue`, 10 handlers, `messageQueues` and `queueMtxs` by device | accept on 8000, register a device's queue, append a measurement |
| Original: delivery (`QueueDeliveryThread`) | one socket per device | peek, send, wait a second for the acknowledgement, dequeue; reconnect on failure |
| Original: backup (`getMessagesThread`, `InputCommands`) | `currentBackupChoice`, `backup`, `clientInitiated`, `messageQueuesBackup` | choose a device, request its measurements on 9000, store what comes until a final signal |
| Original: backup to clients (`handleBackupToClient`) | `backupConnections` | send a restored queue to a Process |
| Copy: intake (`EnqueueAndNotifyThread`) | `socketQueue`, 9 workers, `messageQueues`, `queueMtxs`, `dataCondition` | receive, acknowledge, register the device's queue, store, notify |
| Copy: forwarding (`getDataFromQueueThread`) | 3 threads, `socketProcessQueue` | wait for a device's data, send it to a copy process |
| Copy: backup (`getMessagesThread`, `ServiceHelper.cpp`) | 3 process sockets | accept one request, ask each process, relay its answer |
| Copy process (`CopyProcess.cpp`) | `messageBackup`, `processID` | store what it is sent, hand everything over when asked |
| Common | request queue, linked queue, hash maps, socket helpers | |

Threads share the maps and queues of their server; servers share nothing but
connections.  Some structures are used with a mutex, the maps mostly without,
flags (`backup`, `stopFlag`, `clientInitiated`) are atomic or plain and often
written outside the mutex their condition variable waits on.

What is hard, and what each component must get right:

- *delivery*: an acknowledgement is late, the copy dies between any two steps,
  the connection is reopened.  A measurement must never be dropped before the
  copy has it, must arrive, and an acknowledgement must not be taken for
  another's.
- *copy intake*: workers race on the registration of a device after they have
  acknowledged.  What was acknowledged must be stored, duplicates only from
  retries, order otherwise kept.
- *backup*: the copy process deletes what it hands over, so the way back must
  lose nothing; signals and measurements share a connection; the flag that
  starts a backup is written by three threads.
- *request queue*: indices wrap, a full queue drops.
- *forwarding, intake, client backup, shutdown*: lost wake-ups, dead sockets,
  pools at their limit, `temporaryQueue` shared by four threads.

`PROJECT.json` lists every hazard with its line and the properties for it.

## Modules

| Module | Models | Built on |
|---|---|---|
| `QueueDelivery` | a handler per device, `QueueDeliveryThread` with `Connector` and `SendMessageTo`, the copy's acceptor and workers, crash and restart of the copy | |
| `ReliableTransfer` | the promise of that path: accept, be read by the copy, release only what is read, oldest first | |
| `MCQueueDelivery` | values and symmetry for TLC | `QueueDelivery` |
| `QueueDeliveryProofs` | theorems about `QueueDelivery` | `QueueDelivery` |
| `QueueDeliveryOrderProofs` | theorems about what the copy's queues hold | `QueueDeliveryProofs`, `SequenceLemmas` |
| `ReqQueue` | the ring buffer of `req_queue.cpp` | `BoundedFifo` as its specification |
| `BoundedFifo` | a bounded first-in first-out queue that forgets what finds it full | |
| `ReqQueueProofs` | theorems about `ReqQueue` | `ReqQueue` |
| `CopyForward` | one device at the copy: workers after the acknowledgement, the forwarding thread, the three hash maps, a copy process that may die | |
| `CopyForwardProofs` | theorems about `CopyForward` | `CopyForward`, `SequenceLemmas` |
| `ClientForward` | the handlers of one Process with `temporaryQueue`, their connections, the original's handlers and the registration of a device, a crash and restart of the original | |
| `MCClientForward` | values for TLC | `ClientForward` |
| `ClientForwardProofs` | theorems about `ClientForward` | `ClientForward`, `SequenceLemmas` |
| `Backup` | console, handlers' reset of the flag, `getMessagesThread` on both servers with its look-up of a mutex, the copy processes | |
| `BackupProofs` | theorems about `Backup` | `Backup`, `SequenceLemmas` |
| `ClientBackup` | purpose 99 at client and Process, the acceptor on port 8500, `handleBackupToClient`, `getMessagesThread` as far as the restored queues and their mutexes go, a Process that dies, the end of the original | |
| `ClientBackupProofs` | theorems about `ClientBackup` | `ClientBackup`, `SequenceLemmas` |
| `SequenceLemmas` | what appending to and removing from a sequence does to its members and indices | |

How they meet: what `ClientForward` appends to a device's `queue` is what
`QueueDelivery` produces there; what a worker of `QueueDelivery` has
acknowledged is what a worker of `CopyForward` starts with; what `CopyForward`
has sent to a copy process is what `Backup` stores there; what `Backup` has
restored is what `ClientBackup` hands out.  Each module keeps of its neighbours
what its own threads can tell: that measurements come, in some order, one at a
time.

### QueueDelivery

One action per critical section or socket call, as the threads interleave
there.  `tpc` is the place of the delivery thread: *scan* (look at `cur`),
*connect*, *send*, *ack* (in `select`), *acked* (about to dequeue).  `wpc[w]` is
a worker's: *wait*, *recv*, *reply* (about to acknowledge), *lookup*
(`contains_key`), *insert* (`insert_queue_to_map`), *enqueue* (`EnqueueToMap`).
`sock` is `deviceSockets`: only element 0 of the array is initialised to
`INVALID_SOCKET`, the others are 0, so the first send for a device fails and the
next attempt connects.

A connection carries measurements one way (`wire`) and acknowledgement bytes
the other (`acks`).  Closing it lets the other side read what is left and then
see the end.  A connection whose request was forgotten by a full `socketQueue`
stays connected and unread.  `Crash` empties everything the copy server keeps
and breaks its connections; an acknowledgement already sent may still be read.

A measurement is its device and its number in the device's order: value, type,
time and purpose decide nothing on this path.  Left out here: the maps of
mutexes and condition variables the worker fills and the consumer of the copy's
queues, both in `CopyForward` (here `cq` only grows, so what was stored stays
visible), shutdown, two handlers of one device.  `insert_queue_to_map` is one
step; that a race can also give the chain two entries for the key, of which the
newer hides the older, is in `CopyForward`, and loses the same measurements.
Freed nodes that are still read are beyond this model.

### CopyForward

One device, because the threads of different devices meet only in the pool of
waiting copy processes: the maps have at least three buckets for the keys 1 to 3,
so that a bucket holds the entries of one key.  `pc` is the place of each thread.
Looking up, inserting and looking up again are the code's three searches; since
entries are never removed, a search that finds one can be moved to the moment of
the last look-up, so `FindMutex` and `FindCondVar` do all three, and only the
linking of a new entry is apart from them.  The queue map needs `HasQueue` and
`ScanQueue` apart, because an insertion that finds the key empties its queue.

The consumer is the only thread that holds a mutex over several steps
(`Locked`).  `TestQueue` and `Block` are apart: with one mutex nothing can
happen between them, with two it can.  A measurement dequeued from an empty
queue is whatever the stack holds.  Sends to a dead process may succeed until
the first one fails.

Under one mutex an operation on the queue is one step.  Under two, a worker's
`enqueue` and the consumer's `dequeue` run through the same head, tail and size,
and can lose a node or leave a size of 1 with no head.  What such a list holds
depends on the order of single loads and stores, so nothing is said of it: an
operation that happens while another thread stands before one of its own under
another mutex or none (`Meddled`) may set `torn`, and from then on `TestQueue`
may answer either way, `SafeDequeue` gives anything, and `got` is not followed
(that a thread could use a node that has been freed, and end the server, is left
out).  The safety properties speak
of the behaviours before it; `Conserved` also says that it takes a second mutex
to get there without a repetition.

### ClientForward

One device, one Process.  A measurement is the handler that received it and its
number there; the several clients a handler serves one after another are one
sequence, and a client that leaves and the next that comes change nothing.
`temporaryQueue` is the Process's, `wire` what `send` has put into a connection,
`opc` the place of the original's handler of each connection.

`TestQueue` and `TakeSaved` are apart because `is_queue_empty` is called without
`messageMutex` and the result of `dequeue` is not looked at: a handler that was
overtaken sends what its stack holds (`missed`).  A failed `send` and the saving
of its measurement are one step, since nobody sees what is between them.  A send
on a connection of a dead server may succeed, and then the measurement is gone;
sooner or later one fails.  `Connect` overwrites `serviceSocket`: a handler that
finds the queue filled again after its flush leaves its old connection open
(`Forgotten`), and the original's handler of it is never free again.

At the original the acceptor and the pool are one: the queue between them is
first in, first out and no handler of a Process closes a connection to a living
server, so the handlers have the `PoolSize` oldest ones (`Served`).  A handler
remembers the device of the first measurement it receives (`oid`) and ignores
those of any other in silence (`IgnoreMessage`): `Foreign` are measurements of
another device, which clients do send (`ClientBackup`).  On a connection that
such a one has come through first, all of the device looked at are lost.

`contains_key`, the search of `insert_queue_to_map` and its linking are three
steps (`ReceiveMessage`, `ScanQueue`, `LinkQueue`): the search empties the queue
another handler has made in between, and a second entry hides the first.  The
map of mutexes is raced on alike (`FindMutex`, `LinkMutex`), and a handler holds
on to the entry of the queue it has found (`oq`).  Every handler comes to its
look-ups after an insertion of its own or another's, so that neither finds
nothing (lines 132-135 never return).  Once the device has two mutexes an
`Enqueue` may lose its node, or the list.

`Init` is the start of the Process, or the moment a later server is up when one
measurement has been saved.  Left out: the message counters, `messageQueue`
(which is filled and never read), and Process and client ending.

What the model shows of the code besides its properties: flushing another
handler's measurement can reorder a client's (`borrowed`); two handlers that
register a new device drop a measurement that one of them has stored; what was
buffered when the server died is lost; a handler whose first measurement was of
another device discards the rest.

### Backup

`cpc`, `opc` and `bpc` are the places of the console, the original's and the
copy's backup thread.  Setting the flag and notifying are two steps, testing the
flag and beginning to wait are two steps: that is where a notification can be
lost.  A wait may end by itself, as `std::condition_variable` allows.
Connecting, reading `currentBackupChoice` and sending are one step: nothing
another thread does in between could tell.  A copy process takes its queue out
and sends it with `queueMutex` held, so its answer is one step; the copy server
reads it message by message.  `feeds` fixes which process receives which
device's measurements: the processes connect to port 9001 in any order.

Before it receives, each time, the original's thread makes a mutex for the
device chosen by then (`InsertMutex`) and looks one up for the device chosen by
then (`FindMutex`).  If another has been chosen in between that has none, the
thread returns -1 with its connection open ("failed"), and no backup is ever
made again.  `RequestAnswered` says that nothing else ends a request, and
`BackupComplete` speaks of the time before.  Other threads that make mutexes for
their choice (`handleBackupToClient`, the console's printer) would only make
this rarer.

After `AckTimeout` the abandoned connection stays open.  `Stuck` is the state of
the copy's thread waiting on one: later acknowledgements then never come, and
giving up on them is not counted in `timeouts`.

The original closes a connection only in `FinishBackup`, after a final signal.
`CleanClose` says that the copy has nothing more to send then, which is why
failing sends to the original are not modelled; the copy process, the copy
server and their connections stay up here.

### ClientBackup

Each Process has one client and one handler, and the number of its device.
`cpc`, `hpc`, `apc`, `spc`, `rpc` and `mpc` are the places of client, handler,
acceptor, `handleBackupToClient`, `getMessagesThread` and main thread.  The
request to the copy and what it answers are in `Backup`; here any measurement of
the device that is restored may come, or none.

`backupCMutex` is held from the predicate to the end of a connection
(`MutexHeld`), except in the wait itself, so that locking, testing and taking a
connection are one step, and the acceptor's step waits for it.  Testing and
beginning to wait are apart in both threads, because `NotifyAll` locks neither
mutex: either can miss it.

Every read of `currentBackupChoice` is a step of its own.  In
`handleBackupToClient` these are the search of `insert_mtx_to_map`
(`TakeConnection`), `get_mtx_for_key` (`FindMutex`: without a mutex the thread
returns -1 and leaves its client waiting, "failed"), `contains_key` (`HasQueue`)
and `get_queue_for_key` (`GetQueue`; if that finds nothing, `free_queue(NULL)`
ends the server, `FreeNull`).  `getMessagesThread` reads it for what it asks for
(`StartRestore`) and then twice before each measurement.  The choice thus
decides which mutex guards which queue, and the two threads, whose insertions
are not locked against each other, can also make two mutexes for one device.  When
a measurement is stored while the other thread is in the same queue with another
mutex (`Meddling`), the queue may lose it and all it holds, or may never be found
empty (`torn`, "lost").

The client receives into the `measurement` it also sends, whatever arrives.  The
handler's end of an answer is the last measurement it received, with its purpose
overwritten (`AnswerEnd`).  `MissEnd` is `recv` returning 0 while the last error
is still `WSAEWOULDBLOCK`: the handler polls for ever.  It may have polled at any
time before, so missing the end is always possible.  The client's local
`stopFlag` is a default-constructed `std::atomic<bool>`, which the compilers of
the project's toolset set to false.  Purposes 0 and 8 are not told apart here,
and the number of measurements announced by `totalBackup` is only printed.

What the model shows of the code besides its properties: a request is served
only if the thread does not wait yet, has just served another, or wakes up by
itself, as the acceptor notifies nobody, and `clientInitiated` is never set; a
connection the full queue forgets is polled for ever; a failed send loops with
`backupCMutex` held; a device chosen at the wrong moment ends a thread or the
server.

### ReqQueue

Every caller holds the queue's mutex, so each operation is one step.  The slots
start with whatever `malloc` returned (`Garbage`).

## Runs

| Run | Question | Bounds |
|---|---|---|
| `QDretry` | late acknowledgements and connections the copy forgets, its queues registered before | 2 devices, 3 workers, request queue of 1 slot, 2 measurements, 3 connections, 2 late |
| `QDcrash` | registration on the way, a crash and restart at any step, refinement of `ReliableTransfer` | 2 devices, 2 workers, 3 slots, 2 measurements, 5 connections, 1 late, 1 crash |
| `QDlive` | every measurement reaches the copy although it dies, and its queue if it does not | 2 devices, 2 workers, 1 measurement, 4 connections, 1 late, 1 crash |
| `QDlost` | counterexample: an acknowledged measurement is lost | 1 device, 1 late |
| `ReqQueueRing` | the ring is a bounded queue | 3 slots, 3 sockets |
| `CFwd` | storing and forwarding while maps are raced on, a process dies, a measurement is repeated | 2 workers, 2 measurements read |
| `CFlost` | counterexample: a device's measurements are never forwarded | 1 worker, 2 measurements |
| `PFwd` | a measurement is stored once and in order, is lost only by the steps named, and is not left behind in `temporaryQueue` | 2 handlers that receive 2 and 1, the latter of another device, pool of 2, 6 connections, 1 crash |
| `BKall` | backups under changing choices, a reset and a late acknowledgement | 2 processes, 2 measurements, 2 choices, 3 connections, 1 reset, 1 late |
| `PBack` | a client's backup ends, loses nothing but by the steps named and leaves nothing behind; the original ends when told to | 2 Processes, queue of 1, 3 restored, of which one before, 2 connections, 2 messages, choices and deaths in all |
| `BKlost` | counterexample: a given-up request empties a copy process | 1 late |
| `BKchoice` | counterexample: a chosen backup never starts | 1 choice, 1 reset |

Measurements are per device; three connections let one device be retried twice.
The late acknowledgement of `BKall` matters to the properties that are claimed
in spite of it (`RestoredInOrder`, `CleanClose`, `NoOldAnswers`);
`BackupComplete` and `RequestAnswered` are about the behaviours without one, as
`NoLossWithoutRetry` is about those of `QDcrash` without a retry or a crash.

Why the bounds are enough.  Two devices let the delivery thread interleave one
device's retry with another's progress, two measurements give each head a
successor that an acknowledgement or a reordering could confuse it with, three
workers give a retried measurement two live predecessors.  One slot makes the
copy forget connections.  The ring wraps twice within nine calls.  In `Backup` a
second process is needed for the skip signal and for the count of those that
answered; a second request shows what the first left behind (a counter that is
not reset, an unread answer, a measurement handed over twice).  In `CFwd` two
measurements are either consecutive ones of one worker, which shows their order,
or one and its repetition at two workers at once, which with the consumer makes
three threads that race on each map.  `PFwd` needs two handlers for a flush that
is overtaken, a handler with two measurements for an order to be lost, a pool of
two so that a forgotten connection takes a handler away, and six connections so
that each handler can connect again after the crash and after a flush.  In
`PBack` two Processes share a queue of one slot, so that a connection is
forgotten.  One device has had a backup and one has not (`Earlier`), so that the
choice can change between one that has a mutex and a queue and one that has
neither; two measurements more give a client another device's backup or a queue
a second element.  Of what comes from without two events in all suffice: a
request and a second one, a change of the choice, or a death, at any moment of
the first.  All the rare ends occur within these bounds: the crash of the server,
the end of either thread for want of a mutex, two mutexes for one device, a
damaged queue, and a thread that spins.

In `PFwd` the second handler's one measurement is of the other device, the first
handler's two are of the device looked at: with the flush of another's
measurement this is enough for a connection to be bound to the wrong device, and
with the connections opened after a crash two of the server's handlers register
the device at once.

A second choice in `BKall` falls between the two reads of the first request.

Deadlock is checked except in `CFwd`, `CFlost`, `PFwd` and `PBack`, where all is
at rest once everything has been forwarded or the server has ended, and in
`QDretry` and `BKall`: there the thread may need a connection beyond `MaxConns`
(a forgotten or stuck connection is retried without end), and stops at the
bound.

Fairness (`FairSpec`): every thread of a server that can take a step does, which
the operating system's scheduler provides, and a crashed copy server is started
again.  Weak fairness per thread is enough: no thread competes for a mutex held
across its whole loop.  Nobody is obliged to produce, to choose a backup, to be
late or to crash, and a wait never has to end by itself.  In `CopyForward`
`EnqueueToMap` is strongly fair: a consumer whose wait ended by itself again and
again could otherwise keep a worker from a mutex that is free in between.  In
`ClientForward` one weak fairness condition for all threads is enough, because
each of them comes to rest when the others do nothing; in `ClientBackup` the
thread that may spin and the one that polls the copy have one of their own, and
the others, which come to rest, share one.

### What the counterexamples show

- `QDlost`: the worker acknowledges before it stores, and registers a new
  device's queue with an unlocked look-up and insert.  If the device's first
  measurement is sent twice, the slower worker's insert empties the queue into
  which the faster one has stored a measurement the original has deleted.
- `CFlost`: a device's worker and its consumer each make a condition variable;
  the map shows the one linked last, the consumer waits on the other for good.
- `BKlost`: `SendMessageTo` returning false is reported as "Failed to send." and
  the connection is left open; the copy carries the request out, and the copy
  process's measurements are gone.
- `BKchoice`: `backup` is reset by any handler that takes a connection, and set
  and notified without the mutex of its condition variable.

## Proofs

`QueueDeliveryProofs` proves, for any number of devices, workers, measurements,
connections, late acknowledgements and crashes:

- `TypeCorrect`;
- `NothingDroppedUnread`: `KeptUntilReceived`;
- `NoStaleAcknowledgement`: `StopAndWait`;
- `DeliveryImplementsTransfer`: the path implements `ReliableTransfer`, which says
  *read by the copy* and not *stored*: the copy acknowledges first (`QDlost`), and
  what it stores is the subject of `NoSilentLoss` and `NoLossWithoutRetry`;
- `NothingLostOnceRegistered`: `NoSilentLoss`, if every device is registered at
  the copy and the copy does not crash (`QDlost` shows that the first is needed
  as soon as one acknowledgement is late; `NoLossWithoutRetry` that it is not
  before that).

The only assumptions are those named in the last theorem.  The argument:
`KeptUntilReceived` is not inductive, because `DequeueAcked` removes whatever is
the head, trusting that an acknowledgement was read.  `IInv` adds that a queue
holds consecutive numbers ending with the last one produced (`OrderedQueue`),
that the thread's copy is still the head while it is sent (`HeadPending`), that
each device has its own connection (`OwnSocket`) which occurs once among
backlog, request queue and workers (`LiveRefs`), that unopened connections are
empty (`FreshConns`), that at most one message or acknowledgement is under way
on it (`StopAndWait`), and that what is acknowledged, on the wire or in a
worker's hands is what it seems (`AckMeansReceived`, `WireKnown`,
`HandReceived`).  Together they say that an acknowledgement read in *ack* is the
one for `msg`, which is the head.

`QueueDeliveryOrderProofs` proves, under the same assumptions, what the copy's
queues hold:

- `CopiedInOrder` (`InOrderWithoutRetry`) and `NothingLostWithoutRetry`
  (`NoLossWithoutRetry`): while no acknowledgement was late and the copy has not
  crashed, each device's measurements are stored once and in order, and what the
  original has dropped is stored or in a worker's hands;
- `TimeoutsPayForDuplicates` (`DuplicatesBounded`): after any lateness and any
  number of crashes, the copy's queues hold at most one duplicate for each late
  acknowledgement.

For the first two `CalmInv` says that a connection is in one place between the
backlog and a worker (`OnePlace`), that it takes a crash to break one
(`CrashesCounted`), and then, while all is calm, that the original has closed
none the copy holds (`HeldOpen`), so that a worker's measurement belongs to the
device whose connection it serves (`ServesDevice`) and two workers never have
the same device's.  Hence a queue is registered once and before its first
measurement (`InsertedOnce`: this is where the unlocked registration is
harmless), and lengths balance (`Balanced`): what the copy has is what the
original has produced and no longer queues, plus the head it is about to drop.

For the third, counting duplicates directly is not inductive: a retry makes its
duplicate long after the acknowledgement was late, and a late acknowledgement may
never cost one.  `CopiesInv` keeps an account instead.  A copy of a measurement
is in a slot of a queue, in a worker's hand or on a line the copy has not
dropped, and a device's head is to be sent again (`Retried`) if it is in such a
place and its acknowledgement is no longer awaited.  There is a set of places and
devices, no larger than the number of late acknowledgements, that has every
device whose head is sent again and one of any two places with the same
measurement (`Paid`).  A late acknowledgement adds its device; the resend
replaces the device by the line it uses; the worker moves it from the line to its
hand and from there to a slot.  A crash empties slots, hands and lines alike.
That a new measurement is nowhere yet follows from `NoneAhead`.

`ReqQueueProofs` proves `RingOK` and that the ring implements `BoundedFifo` for
every capacity, from the arithmetic of an index that wraps at most once.

`CopyForwardProofs` proves, for any number of workers, measurements and
repetitions, `TypeCorrect`, `PointersAreValid` (`NoNullPointer`),
`WakeupsArrive` (`NoMissedWakeup`), `DequeuesSomething` (`NothingInvented`),
`ForwardsInOrder` (`ForwardedInOrder`) and `NothingLostOrDoubled` (`Conserved`).
`IInv` counts the entries of each map, at most one per thread that has linked or
will link one (`Counted`); says which places of a thread go with an entry in the
queue map (`HasPairs`) and with the mutex and condition variable it holds a
pointer to (`Pointers`); and that the consumer begins to wait on an empty queue
if there is one mutex and one condition variable (`BlocksOnEmpty`), from which
`NoMissedWakeup` follows by induction. Without a repetition one worker at a time
has a measurement (`OneWorker`), and as long as none has come to a device
without a queue there is one queue and what the consumer has seen in it is still
there (`Single`).  Until the list is damaged, for which it takes two mutexes
then (`Undamaged`), what the process has got, the consumer holds, is queued and
the worker holds are consecutive numbers (`Served`, `InLine`, `GotInOrder`).
For `Conserved`, `Placed` says that the measurements at the process, with the
consumer, queued, swallowed and with the worker are together all that was read,
that their numbers add up, and that those not yet at the process are in one
place each: a measurement that is forwarded or swallowed can then be told from
the others.

`ClientForwardProofs` proves, for any number of handlers, connections and
crashes and any size of the pool, `TypeCorrect`, `SavedMeasurementsWanted`
(`SavedIsFlushed`), `LossesAreKnown` (`NothingElseLost`), `StoredAtMostOnce`
(`StoredOnce`) and `StoredInOrder` (`InOrder`).  `SavedIsFlushed` is inductive
with the types: a handler leaves the flushing loop only when it sees the queue
empty, and one that saves goes back to it.  For the losses `IInv` adds that a
handler that sends has received something (`DataReceived`), that one that
flushes has a connection (`FlushConnected`), that a handler of the server holds
a measurement, and one of the device looked at, exactly while it registers the
device and stores it (`HoldsData`), that unopened connections have no handler
(`FreshConns`), and that an unregistered device has no queue and only handlers
that are about to register it (`QueueRegistered`).  `LossesAreKnown` names a
handler that ignores a measurement, one that registers the device a second time
and a device with two mutexes among the steps that lose: these are the code's
own losses, and the theorem says that there are no others.

For `StoredOnce` the places are the stored queue, `temporaryQueue`, each
handler's hands, each connection and each of the server's handlers: they hold
received measurements only (`OnlyReceived`), no two hold the same one
(`OnePlace`) and none holds one twice (`NoneTwice`), until a handler flushes an
empty queue (`missed`).  For `InOrder`, a handler holds or has saved only the
last measurement it received (`OnlyNewest`); connections belong to one handler
(`ConnsOwned`), a dead one is empty (`DeadEmpty`), and what a handler received
is under way on its own connection only (`OwnConnection`), in order and behind
what is stored (`WayOrdered`).  A handler that opens another connection must have
left nothing on the way in its old one, which holds unless that one is forgotten
while it is alive.

`BackupProofs` proves, for any number of copy processes, measurements,
connections, choices, resets and late acknowledgements, `TypeCorrect`,
`AnswersBelong` (`NoOldAnswers`), `ClosesAfterAnswer` (`CleanClose`),
`RestoresInOrder` (`RestoredInOrder`) and `NothingLostOnTheWay`
(`BackupComplete`).  `IInv` says that a copy process keeps
measurements of the one device it is fed (`OneDevice`); that an answer ends with
its only signal, which is `SKIP_QUEUE` unless the process has the device
(`AnswerShape`); that nothing has been sent on a connection whose request is
unread (`PendingUnanswered`), and that the final signal is the last message on
one (`ReplyShape`), sent when the process that has the device has been passed
(`FoundPassed`).  `CleanClose` follows: after the final signal the copy reads
only `SKIP_QUEUE`, which it does not relay.  For the order, a measurement goes
through five places - produced, stored, in an answer, readable by the original's
thread, restored - and those in an earlier place are younger (`InOrder`, a chain
of five sets); the answers of two requests cannot be mixed because of
`NoOldAnswers`, and an abandoned connection is not read any more.  With the
order, nothing is lost if nothing disappears: until an acknowledgement is late
the original has one connection open at a time, which it closes after the final
signal, and the five places together have everything produced (`AllThere`).  That
also holds when the thread has returned for want of a mutex, but then what is in
its connection is never read: `BackupComplete` leaves that out.

`ClientBackupProofs` proves, for any number of Processes, connections, choices
and deaths and any capacity, `TypeCorrect`, `AnswersAreOver` (`NoOldAnswers`),
`DeviceIsKept` (`OwnDevice`) and `LossesAreKnown` (`NothingElseLost`).  `IInv`
gives the stages of a request, each with what may be in the client's two
connections (`Protocol`), follows where another device's number may have come
from (`Devices`), and says that while they serve and restore the threads have an
opened connection and a device (`ThreadServes`), and that only measurements
marked as restored are in the queues and on port 8500 (`RestoredOnly`).  With
these `LossesAreKnown` is a matter of each step: whichever device is chosen
between two reads, the queue that is sent is freed only when it is found empty,
unless two threads were in it (`torn`) or the server crashes (`FreeNull`).

The only assumptions are each module's `ConstantsAssumption` and, in
`ClientForward`, `ForeignAssumption` (the measurements of another device are
among those received).

Every invariant and every safety property the passing runs check is proved.
Only model-checked are the liveness properties (`EventuallyReceived`,
`EventuallyCopied`, `RequestAnswered`, `ForwardedUnlessRaced`, `AllDelivered`,
`ServedIsAnswered`, `ServerEnds`): they need the fairness conditions and
`ENABLED`, which the prover does not treat.

## Not modelled

- Shutdown of the copy server, the Process and the copy process: flags,
  notifications and waits like those of the original server, which are in
  `ClientBackup` for the threads it has.  The two hazards there (a consumer that
  is never notified, a blocking accept of three processes) follow from reading
  three lines each.
- The acceptor of the Process for its clients, its message counters and
  `messageQueue`, and the choice of a client's device: state no other thread
  acts on.
- The pool of three consumers over several devices at the copy, and which of the
  waiting copy processes a consumer takes; `CopyForward` has one device.
- The linked list of `Queue.cpp` is a sequence until two threads were in it at
  once, and then anything (`torn`) or lossy (`nmtx > 1` in `ClientForward`); that
  a thread uses a node another has freed is left out.
- A `recv` that returns part of a measurement, which the code takes for a whole
  one.
- Two handlers that register a device in front of the delivery thread (between
  its peek and its dequeue): `QueueDelivery` has one handler per device, and
  `ClientForward`, where several register one, has no delivery thread.
- The printer of the console, which also makes mutexes for the device it prints;
  what a client or a Process sends again of a damaged queue; a choice at the
  console that is seen before the flag `backup` is set, outside `Backup`.
- Purpose 99 at the original's handlers: no Process ever forwards it.
- Clients and Processes that come back after they have died; a crash of the copy
  server during a backup.
- Console output and printing of queues, random test data, Winsock
  initialisation, process creation, and `CPProces.cpp`, which is not compiled.
