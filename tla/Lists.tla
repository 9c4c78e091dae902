---------------------------------- MODULE Lists ----------------------------------
(***************************************************************************)
(* The members of a list that belong to a set.  This is SelectSeq with a   *)
(* set for its test, by a function that a proof can unfold.                *)
(***************************************************************************)
EXTENDS Integers, Sequences

Sublist(s, S) ==
  LET upTo[i \in 0 .. Len(s)] ==
        IF i = 0 THEN <<>>
        ELSE IF s[i] \in S THEN Append(upTo[i - 1], s[i]) ELSE upTo[i - 1]
  IN  upTo[Len(s)]
=============================================================================
