------------------------ MODULE AtMostOnceDelivery ------------------------
(***************************************************************************)
(* What the event bus promises its handlers, whatever fails: an entry is   *)
(* given to the handlers of one process, once, and each process gets its   *)
(* entries in the order of their publication.  An entry may never be given *)
(* to anyone.                                                              *)
(***************************************************************************)
EXTENDS Naturals

CONSTANTS Processes, MaxEntries

VARIABLES
    accepted,   \* number of entries published so far
    runs,       \* how often the handlers have been run on each entry
    seen        \* the last entry each process has run its handlers on

vars == <<accepted, runs, seen>>

Entries == 1..MaxEntries

Init ==
    /\ accepted = 0
    /\ runs = [e \in Entries |-> 0]
    /\ seen = [p \in Processes |-> 0]

Accept ==
    /\ accepted < MaxEntries
    /\ accepted' = accepted + 1
    /\ UNCHANGED <<runs, seen>>

Deliver(p, e) ==
    /\ e <= accepted
    /\ runs[e] = 0
    /\ seen[p] < e
    /\ runs' = [runs EXCEPT ![e] = 1]
    /\ seen' = [seen EXCEPT ![p] = e]
    /\ UNCHANGED accepted

Next == Accept \/ \E p \in Processes, e \in Entries : Deliver(p, e)

Spec == Init /\ [][Next]_vars

=============================================================================
