------------------------------ MODULE Subsequences ------------------------------
(* Parts of a sequence, given by sets of its positions: the entries at some      *)
(* positions, and the pieces that begin at some positions.                       *)
EXTENDS Naturals, Sequences, FiniteSets

(* The members of a finite set of numbers, the smallest first.                   *)
InOrder(S) ==
  [n \in 1 .. Cardinality(S) |-> CHOOSE k \in S : Cardinality({j \in S : j <= k}) = n]

(* The entries at the positions in S.                                            *)
Chosen(items, S) == [n \in 1 .. Cardinality(S) |-> items[InOrder(S)[n]]]

(* The n-th piece begins at the n-th position of S and ends before the next one. *)
Pieces(items, S) ==
  LET at == InOrder(S)
  IN  [n \in 1 .. Cardinality(S) |->
        SubSeq(items, at[n], IF n = Cardinality(S) THEN Len(items) ELSE at[n + 1] - 1)]
=============================================================================
