---------------------------- MODULE MCPortfolio ----------------------------
(* Small instances of Portfolio for TLC. *)
EXTENDS Portfolio, TLC

\* Symbols are interchangeable: only invariants and action properties are
\* checked.
Interchangeable == Permutations(Symbols)
=============================================================================
