--------------------------- MODULE IndicatorCache ---------------------------
(***************************************************************************)
(* The cache of IndicatorService in indicator_engine/service.py: a dict in *)
(* the order of first insertion, from which the oldest keys are evicted.   *)
(* A key computed again keeps its place, so it is not an LRU cache.        *)
(***************************************************************************)
EXTENDS Naturals, SequencesExt, Lists

CONSTANTS
    Pairs,     \* (symbol, timeframe)
    Names,     \* number of indicators, computed in a fixed order
    MaxCache,  \* max_cache_size
    Evicted    \* keys evicted at a time

VARIABLES
    cache,     \* the keys of _cache, in order
    failed     \* for the properties only: a computation has failed

vars == <<cache, failed>>

ConstantsOK ==
    /\ Names \in Nat \ {0} /\ MaxCache \in Nat /\ Evicted \in Nat
    /\ Names <= Evicted /\ Evicted + Names <= MaxCache + 1

Init == cache = <<>> /\ failed = FALSE

Keys == Pairs \X (1..Names)
KeysOf(p) == [n \in 1..Names |-> <<p, n>>]

\* The dict after the first n indicators of the pair have been assigned.
Inserted(p, n) == cache \o Kept(SubSeq(KeysOf(p), 1, n), Keys \ Range(cache))

\* Mutant of AfterEviction: the newest keys go.
AfterEvictionOfNewest(keys) ==
    IF Len(keys) > MaxCache THEN SubSeq(keys, 1, Len(keys) - Evicted) ELSE keys

AfterEviction(keys) ==
    IF Len(keys) > MaxCache THEN SubSeq(keys, Evicted + 1, Len(keys)) ELSE keys

\* compute_all with rows enough.
ComputeAll(p) ==
    /\ cache' = AfterEviction(Inserted(p, Names))
    /\ UNCHANGED failed

\* It raises after n indicators: they stay, and nothing is evicted.
ComputeSome(p, n) ==
    /\ cache' = Inserted(p, n)
    /\ failed' = TRUE

Invalidate(p) ==
    /\ cache' = Kept(cache, Keys \ Range(KeysOf(p)))
    /\ UNCHANGED failed

Next ==
    \E p \in Pairs :
        \/ ComputeAll(p) \/ Invalidate(p)
        \/ \E n \in 0..(Names - 1) : ComputeSome(p, n)

Spec == Init /\ [][Next]_vars
-----------------------------------------------------------------------------
(* Properties.                                                               *)

\* No key twice, and never more than fit, unless a failure has left keys
\* behind without an eviction (indicator_engine/service.py:390-399).
TypeOK ==
    /\ cache \in Seq(Keys)
    /\ IsInjective(cache)
    /\ failed \in BOOLEAN
    /\ ~failed => Len(cache) <= MaxCache

\* An indicator that a computation puts into the cache is still there when
\* compute_all returns, whatever it evicts.  One that was there before may
\* not be: it is evicted in the place it first had, though just recomputed
\* (indicator_engine/service.py:390-394).
FreshIndicatorsSurvive ==
    [][\A p \in Pairs : ComputeAll(p) =>
          \A n \in 1..Names : ~Contains(cache, <<p, n>>) => Contains(cache', <<p, n>>)]_vars

=============================================================================
