------------------------------ MODULE RowLists -------------------------------
(***************************************************************************)
(* Rows in an order: what a WHERE clause or a comprehension keeps of them, *)
(* and what a LIMIT or a slice leaves.                                     *)
(***************************************************************************)
EXTENDS Integers, Sequences, SequencesExt

\* The rows of s that are in R, in their order.
Kept(s, R) ==
    LET To[i \in 0 .. Len(s)] ==
            IF i = 0 THEN <<>>
            ELSE IF s[i] \in R THEN Append(To[i - 1], s[i]) ELSE To[i - 1]
    IN  To[Len(s)]

\* At most n of them.
First(s, n) == SubSeq(s, 1, IF n < Len(s) THEN n ELSE Len(s))
=============================================================================
