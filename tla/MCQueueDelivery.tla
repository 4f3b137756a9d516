-------------------------- MODULE MCQueueDelivery --------------------------
(***************************************************************************)
(* Instances of QueueDelivery for TLC.                                     *)
(***************************************************************************)
EXTENDS QueueDelivery

AllDevices == Device
NoDevices == {}

\* The workers of the pool are interchangeable.
WorkerSymmetry == Permutations(Workers)

=============================================================================
