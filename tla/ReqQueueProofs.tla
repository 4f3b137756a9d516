--------------------------- MODULE ReqQueueProofs ---------------------------
(***************************************************************************)
(* The ring buffer is a bounded first-in first-out queue, for every        *)
(* capacity.                                                               *)
(***************************************************************************)
EXTENDS ReqQueue, SequenceTheorems, TLAPS

LEMMA ModuloWrap ==
  ASSUME NEW n \in Nat \ {0}, NEW x \in 0..(2 * n - 1)
  PROVE  x % n = IF x < n THEN x ELSE x - n
  OBVIOUS

LEMMA Wrapped ==
  ASSUME NEW f \in 0..(Capacity - 1), NEW k \in 0..Capacity
  PROVE  (f + k) % Capacity = IF f + k < Capacity THEN f + k ELSE f + k - Capacity
<1>1. Capacity \in Nat \ {0}
  BY CapacityAssumption
<1>2. f + k \in 0..(2 * Capacity - 1)
  BY <1>1
<1> DEFINE x == f + k
<1>3. x \in 0..(2 * Capacity - 1)
  BY <1>2
<1> HIDE DEF x
<1>4. x % Capacity = IF x < Capacity THEN x ELSE x - Capacity
  BY <1>1, <1>3, ModuloWrap
<1> QED
  BY <1>1, <1>4, f \in Int, k \in Int DEF x

\* Slots k and l places behind the oldest request are the same one only if k
\* and l are.
LEMMA Slots ==
  ASSUME NEW f \in 0..(Capacity - 1), NEW k \in 0..(Capacity - 1), NEW l \in 0..(Capacity - 1)
  PROVE  /\ (f + k) % Capacity \in 0..(Capacity - 1)
         /\ k # l => (f + k) % Capacity # (f + l) % Capacity
<1>1. Capacity \in Nat \ {0} /\ f \in Nat /\ k \in 0..Capacity /\ l \in 0..Capacity
  BY CapacityAssumption
<1> DEFINE x == (f + k) % Capacity
           y == (f + l) % Capacity
<1>2. /\ x = IF f + k < Capacity THEN f + k ELSE f + k - Capacity
      /\ y = IF f + l < Capacity THEN f + l ELSE f + l - Capacity
  BY <1>1, Wrapped
<1> HIDE DEF x, y
<1>3. x \in 0..(Capacity - 1)
  BY <1>1, <1>2
<1>4. k # l => x # y
  BY <1>1, <1>2
<1> QED
  BY <1>3, <1>4 DEF x, y

\* Moving the front on by one.
LEMMA NextSlot ==
  ASSUME NEW f \in 0..(Capacity - 1), NEW k \in 0..(Capacity - 1)
  PROVE  /\ (f + 1) % Capacity \in 0..(Capacity - 1)
         /\ (((f + 1) % Capacity) + k) % Capacity = (f + (k + 1)) % Capacity
<1>1. Capacity \in Nat \ {0} /\ k + 1 \in 0..Capacity /\ k \in 0..Capacity /\ 1 \in 0..Capacity
  BY CapacityAssumption
<1> DEFINE g == (f + 1) % Capacity
           x == (g + k) % Capacity
           y == (f + (k + 1)) % Capacity
<1>2. g = IF f + 1 < Capacity THEN f + 1 ELSE f + 1 - Capacity
  BY <1>1, Wrapped
<1>3. y = IF f + (k + 1) < Capacity THEN f + (k + 1) ELSE f + (k + 1) - Capacity
  BY <1>1, Wrapped
<1> HIDE DEF g
<1>4. g \in 0..(Capacity - 1)
  BY <1>1, <1>2
<1>5. x = IF g + k < Capacity THEN g + k ELSE g + k - Capacity
  BY <1>1, <1>4, Wrapped
<1> HIDE DEF x, y
<1>6. x = y
  BY <1>1, <1>2, <1>3, <1>5
<1> QED
  BY <1>4, <1>6 DEF g, x, y

LEMMA InitRing == Init => RingOK
<1> SUFFICES ASSUME Init PROVE RingOK
  OBVIOUS
<1>1. (rear + 1) % Capacity = (front + size) % Capacity
  BY -1 + 1 = 0 + 0 DEF Init
<1> QED
  BY <1>1, CapacityAssumption DEF Init, RingOK

\* What enqueue_request does to a ring that is not full.
LEMMA EnqueueSlots ==
  ASSUME RingOK, NEW s \in Socket, enqueue_request(s), size # Capacity
  PROVE  /\ RingOK'
         /\ front' = front /\ size' = size + 1 /\ request' = request
         /\ requests'[(front + size) % Capacity] = s
         /\ \A i \in 0..(size - 1) :
              requests'[(front + i) % Capacity] = requests[(front + i) % Capacity]
<1> DEFINE r == (front + size) % Capacity
<1>1. Capacity \in Nat \ {0} /\ size \in 0..(Capacity - 1) /\ front \in 0..(Capacity - 1)
  BY CapacityAssumption DEF RingOK
<1>2. r \in 0..(Capacity - 1)
  BY <1>1, Slots
<1>3. /\ front' = front /\ size' = size + 1 /\ request' = request
      /\ rear' = r /\ requests' = [requests EXCEPT ![r] = s]
  BY DEF enqueue_request, RingOK
<1>4. requests'[r] = s
  BY <1>2, <1>3 DEF RingOK
<1>5. \A i \in 0..(size - 1) : (front + i) % Capacity # r
  BY <1>1, Slots
<1>6. \A i \in 0..(size - 1) : requests'[(front + i) % Capacity] = requests[(front + i) % Capacity]
  <2> SUFFICES ASSUME NEW i \in 0..(size - 1)
               PROVE  requests'[(front + i) % Capacity] = requests[(front + i) % Capacity]
    OBVIOUS
  <2> DEFINE x == (front + i) % Capacity
  <2>1. x # r /\ x \in 0..(Capacity - 1)
    <3>1. i \in 0..(Capacity - 1)
      BY <1>1
    <3> QED BY <1>1, <1>5, <3>1, Slots
  <2> HIDE DEF x, r
  <2>2. requests'[x] = requests[x]
    BY <1>3, <2>1 DEF RingOK
  <2> QED BY <2>2 DEF x
<1>7. \A i \in 0..(size' - 1) : requests'[(front' + i) % Capacity] \in Socket
  <2>1. \A i \in 0..(size' - 1) : i \in 0..(size - 1) \/ i = size
    BY <1>1, <1>3
  <2>2. \A i \in 0..(size - 1) : requests'[(front + i) % Capacity] \in Socket
    BY <1>6 DEF RingOK
  <2> QED BY <1>3, <1>4, <2>1, <2>2
<1>8. (rear' + 1) % Capacity = (front' + size') % Capacity
  <2> DEFINE x == (r + 1) % Capacity
             y == (front + (size + 1)) % Capacity
  <2>1. 1 \in 0..Capacity /\ size \in 0..Capacity /\ size + 1 \in 0..Capacity
    BY <1>1
  <2>2. r = IF front + size < Capacity THEN front + size ELSE front + size - Capacity
    BY <1>1, <2>1, Wrapped
  <2>3. y = IF front + (size + 1) < Capacity THEN front + (size + 1) ELSE front + (size + 1) - Capacity
    BY <1>1, <2>1, Wrapped
  <2> HIDE DEF r
  <2>4. x = IF r + 1 < Capacity THEN r + 1 ELSE r + 1 - Capacity
    BY <1>2, <2>1, Wrapped
  <2> HIDE DEF x, y
  <2>5. x = y
    BY <1>1, <1>2, <2>2, <2>3, <2>4
  <2> QED BY <1>3, <2>5 DEF x, y
<1>9. requests' \in [0..(Capacity - 1) -> Socket \cup {Garbage}]
  BY <1>2, <1>3 DEF RingOK
<1>10. rear' \in -1..(Capacity - 1) /\ size' \in 0..Capacity /\ front' \in 0..(Capacity - 1)
       /\ request' \in Socket \cup {Invalid}
  <2> HIDE DEF r
  <2> QED BY <1>1, <1>2, <1>3 DEF RingOK
<1> QED
  BY <1>3, <1>4, <1>6, <1>7, <1>8, <1>9, <1>10 DEF RingOK

\* What dequeue_request does to a ring that is not empty.
LEMMA DequeueSlots ==
  ASSUME RingOK, dequeue_request, size # 0
  PROVE  /\ RingOK'
         /\ requests' = requests /\ size' = size - 1
         /\ request' = requests[(front + 0) % Capacity]
         /\ \A i \in 0..(size' - 1) :
              requests[(front' + i) % Capacity] = requests[(front + (i + 1)) % Capacity]
<1>1. Capacity \in Nat \ {0} /\ size \in 1..Capacity /\ front \in 0..(Capacity - 1)
  BY CapacityAssumption DEF RingOK
<1>2. /\ requests' = requests /\ rear' = rear /\ size' = size - 1
      /\ front' = (front + 1) % Capacity /\ request' = requests[front]
  BY DEF dequeue_request, RingOK
<1>3. (front + 0) % Capacity = front
  <2>1. 0 \in 0..Capacity /\ front + 0 = front /\ front < Capacity
    BY <1>1
  <2> QED BY <1>1, <2>1, Wrapped
<1>4. front' \in 0..(Capacity - 1)
  <2>1. 0 \in 0..(Capacity - 1)
    BY <1>1
  <2> QED BY <1>1, <1>2, <2>1, NextSlot
<1>5. \A i \in 0..(size' - 1) : (front' + i) % Capacity = (front + (i + 1)) % Capacity
  BY <1>1, <1>2, NextSlot
<1>6. \A i \in 0..(size' - 1) : requests'[(front' + i) % Capacity] \in Socket
  <2> SUFFICES ASSUME NEW i \in 0..(size' - 1)
               PROVE  requests'[(front' + i) % Capacity] \in Socket
    OBVIOUS
  <2>1. i + 1 \in 0..(size - 1)
    BY <1>1, <1>2
  <2> DEFINE j == i + 1
  <2>2. requests[(front + j) % Capacity] \in Socket
    BY <2>1 DEF RingOK
  <2> QED BY <1>2, <1>5, <2>2
<1>7. (rear' + 1) % Capacity = (front' + size') % Capacity
  <2>1. (front' + (size - 1)) % Capacity = (front + (size - 1 + 1)) % Capacity
    <3> DEFINE k == size - 1
    <3>1. k \in 0..(Capacity - 1)
      BY <1>1
    <3> HIDE DEF k
    <3>2. (front' + k) % Capacity = (front + (k + 1)) % Capacity
      BY <1>1, <1>2, <3>1, NextSlot
    <3> QED BY <3>2 DEF k
  <2>2. size - 1 + 1 = size
    BY <1>1
  <2> QED BY <1>2, <2>1, <2>2 DEF RingOK
<1>8. request' \in Socket /\ size' \in 0..Capacity
  <2>1. 0 \in 0..(size - 1)
    BY <1>1
  <2>2. requests[(front + 0) % Capacity] \in Socket
    BY <2>1 DEF RingOK
  <2>3. request' \in Socket
    BY <1>2, <1>3, <2>2
  <2> QED BY <1>1, <1>2, <2>3
<1> QED
  BY <1>2, <1>3, <1>4, <1>5, <1>6, <1>7, <1>8 DEF RingOK

LEMMA NextRing == RingOK /\ [Next]_vars => RingOK'
<1> SUFFICES ASSUME RingOK, [Next]_vars PROVE RingOK'
  OBVIOUS
<1>1. CASE UNCHANGED vars
  BY <1>1 DEF vars, RingOK
<1>2. ASSUME NEW s \in Socket, enqueue_request(s) PROVE RingOK'
  BY <1>1, <1>2, EnqueueSlots DEF enqueue_request
<1>3. CASE dequeue_request
  <2>1. CASE size = 0
    BY <1>3, <2>1 DEF dequeue_request, RingOK
  <2> QED BY <1>3, <2>1, DequeueSlots
<1> QED
  BY <1>1, <1>2, <1>3 DEF Next

\* enqueue_request and dequeue_request stay inside the buffer and return only
\* what was put in, whatever the capacity.
THEOREM RingCorrect == Spec => []RingOK
  BY InitRing, NextRing, PTL DEF Spec

-----------------------------------------------------------------------------
(* The ring as a sequence.                                                 *)

LEMMA ContentsType ==
  ASSUME RingOK
  PROVE  Contents \in Seq(Socket) /\ Len(Contents) = size
<1>1. size \in Nat
  BY CapacityAssumption DEF RingOK
<1>2. \A i \in 1..size : requests[(front + i - 1) % Capacity] \in Socket
  <2> SUFFICES ASSUME NEW i \in 1..size PROVE requests[(front + i - 1) % Capacity] \in Socket
    OBVIOUS
  <2>1. i - 1 \in 0..(size - 1) /\ front + (i - 1) = front + i - 1
    BY <1>1, CapacityAssumption DEF RingOK
  <2> QED BY <2>1 DEF RingOK
<1> QED
  BY <1>1, <1>2 DEF Contents

LEMMA FifoInit == Init => Fifo!Init
<1> SUFFICES ASSUME Init PROVE Fifo!Init
  OBVIOUS
<1>1. RingOK /\ size = 0
  BY InitRing DEF Init
<1>2. Contents = <<>>
  BY <1>1, ContentsType, EmptySeq
<1> QED
  BY <1>2 DEF Init, Fifo!Init

LEMMA FifoStep == RingOK /\ [Next]_vars => [Fifo!Next]_Fifo!vars
<1> SUFFICES ASSUME RingOK, [Next]_vars PROVE [Fifo!Next]_Fifo!vars
  OBVIOUS
<1>0. RingOK' /\ Contents \in Seq(Socket) /\ Len(Contents) = size
  BY NextRing, ContentsType
<1>1. CASE UNCHANGED vars
  BY <1>1 DEF vars, Fifo!vars, Contents
<1>2. ASSUME NEW s \in Socket, enqueue_request(s), size # Capacity PROVE Fifo!Offer(s)
  <2>1. Len(Contents) < Capacity /\ size \in Nat /\ front \in Int
    BY <1>0, <1>2, CapacityAssumption DEF RingOK
  <2>2. /\ front' = front /\ size' = size + 1 /\ request' = request
        /\ requests'[(front + size) % Capacity] = s
        /\ \A i \in 0..(size - 1) :
             requests'[(front + i) % Capacity] = requests[(front + i) % Capacity]
    BY <1>2, EnqueueSlots
  <2> DEFINE q == [i \in 1..(size + 1) |-> requests'[(front + i - 1) % Capacity]]
  <2>3. Contents' = q
    BY <2>2 DEF Contents
  <2>4. Append(Contents, s) \in [1..(size + 1) -> Socket]
    BY <1>0, <2>1, AppendProperties, LenProperties
  <2>5. ASSUME NEW i \in 1..(size + 1) PROVE q[i] = Append(Contents, s)[i]
    <3>1. CASE i = size + 1
      <4>1. front + i - 1 = front + size
        BY <2>1, <3>1
      <4> QED BY <1>0, <2>2, <3>1, <4>1, AppendProperties
    <3>2. CASE i \in 1..size
      <4>1. i - 1 \in 0..(size - 1) /\ front + i - 1 = front + (i - 1)
        BY <2>1, <3>2
      <4>2. q[i] = requests[(front + i - 1) % Capacity]
        BY <2>2, <4>1
      <4>3. Append(Contents, s)[i] = Contents[i]
        BY <1>0, <3>2, AppendProperties
      <4> QED BY <3>2, <4>2, <4>3 DEF Contents
    <3>3. i = size + 1 \/ i \in 1..size
      BY <2>1
    <3> HIDE DEF q
    <3> QED BY <3>1, <3>2, <3>3
  <2>6. Contents' = Append(Contents, s)
    BY <2>3, <2>4, <2>5
  <2> QED BY <2>1, <2>2, <2>6 DEF Fifo!Offer
<1>3. ASSUME NEW s \in Socket, enqueue_request(s), size = Capacity PROVE UNCHANGED vars
  BY <1>3 DEF enqueue_request
<1>4. ASSUME dequeue_request, size = 0 PROVE Fifo!Take
  <2>1. Contents = <<>>
    BY <1>0, <1>4, EmptySeq
  <2>2. Contents' = Contents /\ request' = Invalid
    BY <1>4 DEF dequeue_request, Contents
  <2> QED BY <2>1, <2>2 DEF Fifo!Take
<1>5. ASSUME dequeue_request, size # 0 PROVE Fifo!Take
  <2>1. /\ requests' = requests /\ size' = size - 1
        /\ request' = requests[(front + 0) % Capacity]
        /\ \A i \in 0..(size' - 1) :
             requests[(front' + i) % Capacity] = requests[(front + (i + 1)) % Capacity]
    BY <1>5, DequeueSlots
  <2>2. size \in Nat \ {0} /\ front \in Nat /\ front' \in Nat
    BY <1>0, <1>5, CapacityAssumption DEF RingOK
  <2>3. Contents # <<>> /\ Head(Contents) = requests[(front + 0) % Capacity]
    <3>1. front + 1 - 1 = front + 0 /\ 1 \in 1..size
      BY <2>2
    <3>2. Contents[1] = requests[(front + 0) % Capacity]
      BY <3>1 DEF Contents
    <3> QED BY <1>0, <2>2, <3>2, EmptySeq
  <2>4. /\ Tail(Contents) \in Seq(Socket) /\ Len(Tail(Contents)) = size - 1
        /\ \A i \in 1..(size - 1) : Tail(Contents)[i] = Contents[i + 1]
    BY <1>0, <2>3, HeadTailProperties
  <2>5. ASSUME NEW i \in 1..(size - 1) PROVE Contents'[i] = Tail(Contents)[i]
    <3>1. /\ i - 1 \in 0..(size' - 1) /\ front' + i - 1 = front' + (i - 1) /\ i \in 1..size'
          /\ front + (i - 1 + 1) = front + (i + 1) - 1 /\ i + 1 \in 1..size
      BY <2>1, <2>2
    <3>2. Contents'[i] = requests'[(front' + i - 1) % Capacity]
      BY <3>1 DEF Contents
    <3>3. requests[(front' + (i - 1)) % Capacity] = requests[(front + (i - 1 + 1)) % Capacity]
      BY <2>1, <3>1
    <3>4. Contents[i + 1] = requests[(front + (i + 1) - 1) % Capacity]
      BY <3>1 DEF Contents
    <3> QED BY <2>1, <2>4, <3>1, <3>2, <3>3, <3>4
  <2>6. DOMAIN (Contents') = 1..(size - 1) /\ Contents' = [i \in 1..(size - 1) |-> Contents'[i]]
    BY <2>1 DEF Contents
  <2>7. Tail(Contents) = [i \in 1..(size - 1) |-> Tail(Contents)[i]]
    BY <2>2, <2>4, LenProperties
  <2>8. Contents' = Tail(Contents)
    BY <2>5, <2>6, <2>7
  <2> QED BY <2>1, <2>3, <2>8 DEF Fifo!Take
<1> QED
  BY <1>1, <1>2, <1>3, <1>4, <1>5 DEF Next, Fifo!Next

\* The ring buffer implements the bounded first-in first-out queue.
THEOREM RingIsFifo == Spec => FifoSpec
<1>1. RingOK /\ [Next]_vars => [Fifo!Next]_Fifo!vars
  BY FifoStep
<1> QED
  BY <1>1, FifoInit, RingCorrect, PTL DEF Spec, FifoSpec, Fifo!Spec

=============================================================================
