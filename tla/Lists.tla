------------------------------- MODULE Lists --------------------------------
(***************************************************************************)
(* The list comprehensions of globex-agent.                                *)
(***************************************************************************)
EXTENDS Naturals, Sequences

\* The elements of a list that belong to S, in their order.
Filtered(list, S) ==
    LET first[n \in 0 .. Len(list)] ==
            IF n = 0 THEN << >>
            ELSE IF list[n] \in S THEN Append(first[n - 1], list[n]) ELSE first[n - 1]
    IN  first[Len(list)]
=============================================================================
