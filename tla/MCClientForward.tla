-------------------------- MODULE MCClientForward --------------------------
(* Values for TLC.                                                         *)
EXTENDS ClientForward, TLC

CONSTANTS h1, h2

\* One handler receives two measurements, whose order can be looked at, the
\* other gets in its way with one.
TwoAndOne == h1 :> 2 @@ h2 :> 1

\* The other one's is of another device.
OfAnother == {<<h2, 1>>}

=============================================================================
