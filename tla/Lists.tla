-------------------------------- MODULE Lists --------------------------------
(***************************************************************************)
(* The list comprehension [x for x in seq if x in keep], which the         *)
(* services take listeners and keys out of their lists with.  It is        *)
(* SelectSeq with a set for a test, as a recursive function on the lengths *)
(* of the parts of seq, which can be reasoned about.                       *)
(***************************************************************************)
EXTENDS Naturals, Sequences

Kept(seq, keep) ==
    LET first[n \in 0..Len(seq)] ==
            IF n = 0 THEN <<>>
            ELSE IF seq[n] \in keep THEN Append(first[n - 1], seq[n]) ELSE first[n - 1]
    IN  first[Len(seq)]

=============================================================================
