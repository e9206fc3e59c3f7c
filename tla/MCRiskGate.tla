---------------------------- MODULE MCRiskGate ----------------------------
(* Small instances of RiskGate for TLC. *)
EXTENDS RiskGate, TLC

\* Calls and symbols are interchangeable: sound for the invariants and action
\* properties, not used where liveness is checked.
Interchangeable == Permutations(Calls) \cup Permutations(Symbols)
===========================================================================
