--------------------------------- MODULE Retain ---------------------------------
(***************************************************************************)
(* The elements of a sequence that are in a set, in their order: what       *)
(* Vec::retain and Iterator::filter leave of it.  SelectSeq with the set    *)
(* for the predicate, as a function that can be reasoned about.             *)
(***************************************************************************)
EXTENDS Naturals, Sequences

Retain(s, S) ==
  LET kept[n \in 0 .. Len(s)] ==
        IF n = 0 THEN <<>>
        ELSE IF s[n] \in S THEN Append(kept[n - 1], s[n]) ELSE kept[n - 1]
  IN  kept[Len(s)]
=============================================================================
