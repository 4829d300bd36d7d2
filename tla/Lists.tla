------------------------------- MODULE Lists --------------------------------
(***************************************************************************)
(* The loop "for each element, append it when it is kept" with which the   *)
(* code filters a list (the references of a collection, the nodes of a     *)
(* subscription), as a function of the number of elements looked at.       *)
(***************************************************************************)
EXTENDS Integers, Sequences

\* The elements of s that are in the set keep, in their order.
FilterSeq(s, keep) ==
    LET kept[i \in 0..Len(s)] ==
            IF i = 0 THEN <<>>
            ELSE IF s[i] \in keep THEN Append(kept[i - 1], s[i]) ELSE kept[i - 1]
    IN  kept[Len(s)]
=============================================================================
