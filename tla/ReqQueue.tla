------------------------------ MODULE ReqQueue ------------------------------
(***************************************************************************)
(* The bounded queue of accepted sockets between an acceptor thread and    *)
(* its pool (req_queue.cpp): a ring buffer of capacity slots.  The servers *)
(* call every operation with the queue's mutex held, so each is one step.  *)
(***************************************************************************)
EXTENDS Integers, Sequences

CONSTANTS
  Capacity,  \* slots: 16 in the servers
  Socket,    \* the sockets that may be queued
  Invalid,   \* INVALID_SOCKET
  Garbage    \* what malloc leaves in a slot

ASSUME CapacityAssumption ==
  /\ Capacity \in Nat \ {0}
  /\ Invalid \notin Socket /\ Garbage \notin Socket

VARIABLES
  requests,  \* the slots, numbered from 0
  front,     \* slot of the oldest request
  rear,      \* slot of the newest
  size,      \* requests in the queue
  request    \* the return value of the last dequeue_request

vars == <<requests, front, rear, size, request>>

\* init_req_queue.
Init ==
  /\ requests = [i \in 0..(Capacity - 1) |-> Garbage]
  /\ front = 0 /\ rear = -1 /\ size = 0
  /\ request = Invalid

\* (Each Wrong... operator is a plausible bug in the definition after it; no
\* specification uses it.)
Wrongenqueue_request(req) ==
  /\ rear' = (rear + 1) % Capacity
  /\ requests' = [requests EXCEPT ![rear'] = req]
  /\ size' = size + 1
  /\ UNCHANGED <<front, request>>

\* A request offered to a full queue is forgotten, and its sender not told.
enqueue_request(req) ==
  IF size = Capacity
  THEN UNCHANGED vars
  ELSE /\ rear' = (rear + 1) % Capacity
       /\ requests' = [requests EXCEPT ![rear'] = req]
       /\ size' = size + 1
       /\ UNCHANGED <<front, request>>

Wrongdequeue_request ==
  IF size = 0
  THEN request' = Invalid /\ UNCHANGED <<requests, front, rear, size>>
  ELSE /\ request' = requests[front]
       /\ front' = IF front = Capacity THEN 0 ELSE front + 1
       /\ size' = size - 1
       /\ UNCHANGED <<requests, rear>>

dequeue_request ==
  IF size = 0
  THEN request' = Invalid /\ UNCHANGED <<requests, front, rear, size>>
  ELSE /\ request' = requests[front]
       /\ front' = (front + 1) % Capacity
       /\ size' = size - 1
       /\ UNCHANGED <<requests, rear>>

Next == (\E req \in Socket : enqueue_request(req)) \/ dequeue_request

Spec == Init /\ [][Next]_vars

-----------------------------------------------------------------------------
(* Properties.                                                             *)

\* The indices stay inside the buffer, the counter between empty and full,
\* and what is between front and rear was put there by a caller.
RingOK ==
  /\ requests \in [0..(Capacity - 1) -> Socket \cup {Garbage}]
  /\ front \in 0..(Capacity - 1)
  /\ rear \in -1..(Capacity - 1)
  /\ size \in 0..Capacity
  /\ request \in Socket \cup {Invalid}
  /\ (rear + 1) % Capacity = (front + size) % Capacity
  /\ \A i \in 0..(size - 1) : requests[(front + i) % Capacity] \in Socket

\* What the ring holds, oldest first.
Contents == [i \in 1..size |-> requests[(front + i - 1) % Capacity]]

\* Wherever the indices have wrapped to, the ring is a first-in first-out
\* queue that returns each accepted socket once and forgets those that find it
\* full.
Fifo == INSTANCE BoundedFifo WITH waiting <- Contents, taken <- request
FifoSpec == Fifo!Spec

=============================================================================
