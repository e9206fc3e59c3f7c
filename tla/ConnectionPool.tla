--------------------------- MODULE ConnectionPool ---------------------------
(***************************************************************************)
(* The lazily created pool of infrastructure/repositories/                 *)
(* db_repositories.py: a check, an await and an assignment, without a lock.*)
(***************************************************************************)
EXTENDS Naturals, FiniteSets

CONSTANTS
    Callers,  \* calls of get_pool or close under way at a time
    MaxPools  \* bound: pools created

VARIABLES
    pool,       \* _pool: {} or the number of one
    doing,      \* what each caller awaits
    opened,     \* pools created so far
    open,       \* those with connections
    \* for the properties only
    overlapped  \* a call has begun its await before another ended the same one

vars == <<pool, doing, opened, open, overlapped>>

ConstantsOK == MaxPools \in Nat

Awaiting(what) == {c \in Callers : doing[c] = what}

Init ==
    /\ pool = {}
    /\ doing = [c \in Callers |-> "nothing"]
    /\ opened = 0 /\ open = {}
    /\ overlapped = FALSE

\* Mutant of NeedsPool: every call creates one.
NeedsPoolAlways == TRUE

\* With a pool, get_pool returns it at once.
NeedsPool == pool = {}

GetPool(c) ==
    /\ doing[c] = "nothing"
    /\ NeedsPool
    /\ doing' = [doing EXCEPT ![c] = "creating"]
    /\ overlapped' = (overlapped \/ Awaiting("creating") # {})
    /\ UNCHANGED <<pool, opened, open>>

\* create_pool has returned: the pool is the current one now.
Created(c) ==
    /\ doing[c] = "creating"
    /\ opened < MaxPools
    /\ opened' = opened + 1
    /\ open' = open \cup {opened'}
    /\ pool' = {opened'}
    /\ doing' = [doing EXCEPT ![c] = "nothing"]
    /\ UNCHANGED overlapped

CreationFails(c) ==
    /\ doing[c] = "creating"
    /\ doing' = [doing EXCEPT ![c] = "nothing"]
    /\ UNCHANGED <<pool, opened, open, overlapped>>

\* close awaits the closing of the pool that is current.
Close(c) ==
    /\ doing[c] = "nothing" /\ pool # {}
    /\ doing' = [doing EXCEPT ![c] = "closing"]
    /\ open' = open \ pool
    /\ overlapped' = (overlapped \/ Awaiting("closing") # {})
    /\ UNCHANGED <<pool, opened>>

\* Whatever is current now is forgotten.
Closed(c) ==
    /\ doing[c] = "closing"
    /\ pool' = {}
    /\ doing' = [doing EXCEPT ![c] = "nothing"]
    /\ UNCHANGED <<opened, open, overlapped>>

\* The closing raises: the pool, without connections, remains the current one.
CloseFails(c) ==
    /\ doing[c] = "closing"
    /\ doing' = [doing EXCEPT ![c] = "nothing"]
    /\ UNCHANGED <<pool, opened, open, overlapped>>

Next ==
    \E c \in Callers :
        GetPool(c) \/ Created(c) \/ CreationFails(c) \/ Close(c) \/ Closed(c) \/ CloseFails(c)

Spec == Init /\ [][Next]_vars
-----------------------------------------------------------------------------
(* Properties.                                                               *)

TypeOK ==
    /\ pool \in {{}} \cup {{n} : n \in 1..opened}
    /\ doing \in [Callers -> {"nothing", "creating", "closing"}]
    /\ opened \in 0..MaxPools
    /\ open \subseteq 1..opened
    /\ overlapped \in BOOLEAN

\* Every open pool is the current one, and nobody has lost its connections, as
\* long as no two calls have created or closed at a time; two first calls at
\* a time leave one pool open that nothing closes any more
\* (infrastructure/repositories/db_repositories.py:31-40, 54-56).
NoLeakWithoutOverlap == ~overlapped => open \subseteq pool

=============================================================================
