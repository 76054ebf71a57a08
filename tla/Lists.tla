-------------------------------- MODULE Lists --------------------------------
(***************************************************************************)
(* Array.filter and Map.delete of the code on sequences.  SelectSeq would  *)
(* do, but takes the condition as an operator, about which no lemma can be *)
(* proved once for all; here the condition is a set.                       *)
(***************************************************************************)
EXTENDS Naturals, Sequences

\* The elements of s that are in S, in their order.
Filter(s, S) ==
  LET kept[i \in 0..Len(s)] ==
        IF i = 0 THEN <<>>
        ELSE IF s[i] \in S THEN Append(kept[i - 1], s[i]) ELSE kept[i - 1]
  IN kept[Len(s)]
=============================================================================
