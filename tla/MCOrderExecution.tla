-------------------------- MODULE MCOrderExecution --------------------------
(* Small instances of OrderExecution for TLC. *)
EXTENDS OrderExecution, TLC

\* The profile of the instance: two hours with different shares of the order.
MCVolumeBy == <<1, 4>>

\* Sound for the safety properties; not used where liveness is checked.
Interchangeable == Permutations(Callers) \cup Permutations(Orders)
=============================================================================
