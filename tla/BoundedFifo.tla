---------------------------- MODULE BoundedFifo ----------------------------
(***************************************************************************)
(* What the users of a request queue rely on: requests come out in the     *)
(* order they went in, and one offered to a full queue is forgotten.       *)
(***************************************************************************)
EXTENDS Integers, Sequences

CONSTANTS Capacity, Socket, Invalid

VARIABLES
  waiting,   \* the requests in the queue, oldest first
  taken      \* what the last take returned

vars == <<waiting, taken>>

Init == waiting = <<>> /\ taken = Invalid

Offer(s) ==
  /\ Len(waiting) < Capacity
  /\ waiting' = Append(waiting, s)
  /\ UNCHANGED taken

Take ==
  IF waiting = <<>>
  THEN taken' = Invalid /\ UNCHANGED waiting
  ELSE taken' = Head(waiting) /\ waiting' = Tail(waiting)

Next == (\E s \in Socket : Offer(s)) \/ Take

Spec == Init /\ [][Next]_vars

=============================================================================
