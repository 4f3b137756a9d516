-------------------------- MODULE ReliableTransfer --------------------------
(***************************************************************************)
(* What the replication path promises, whatever threads, connections and   *)
(* acknowledgements carry it out: a measurement the original has accepted  *)
(* is kept there until the copy has read it, and each device's             *)
(* measurements are released oldest first.  It does not promise that the   *)
(* copy stores what it has read: it acknowledges before it does.           *)
(***************************************************************************)
EXTENDS Naturals

CONSTANT Device

VARIABLES
  accepted,  \* number of measurements accepted so far, per device
  kept,      \* those the original still holds
  received   \* those the copy has read

vars == <<accepted, kept, received>>

Init ==
  /\ accepted = [d \in Device |-> 0]
  /\ kept = [d \in Device |-> {}]
  /\ received = [d \in Device |-> {}]

Accept(d) ==
  /\ accepted' = [accepted EXCEPT ![d] = @ + 1]
  /\ kept' = [kept EXCEPT ![d] = @ \cup {accepted[d] + 1}]
  /\ UNCHANGED received

Receive(d, n) ==
  /\ n \in kept[d]
  /\ received' = [received EXCEPT ![d] = @ \cup {n}]
  /\ UNCHANGED <<accepted, kept>>

\* Only what the copy has read is released, and nothing older than it is kept.
Release(d, n) ==
  /\ n \in kept[d] \cap received[d]
  /\ \A k \in kept[d] : n <= k
  /\ kept' = [kept EXCEPT ![d] = @ \ {n}]
  /\ UNCHANGED <<accepted, received>>

Next ==
  \E d \in Device :
    \/ Accept(d)
    \/ \E n \in kept[d] : Receive(d, n) \/ Release(d, n)

Spec == Init /\ [][Next]_vars

=============================================================================
