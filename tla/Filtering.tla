------------------------------ MODULE Filtering ------------------------------
(***************************************************************************)
(* What the page's scripts do with filter(), and with loops that push the  *)
(* items of an array that pass a test: those left, in their order.         *)
(***************************************************************************)
EXTENDS Naturals, Sequences

\* The items of s that are in S.
Only(s, S) ==
    LET upTo[k \in 0..Len(s)] ==
            IF k = 0 THEN <<>>
            ELSE IF s[k] \in S THEN Append(upTo[k - 1], s[k]) ELSE upTo[k - 1]
    IN  upTo[Len(s)]

=============================================================================
