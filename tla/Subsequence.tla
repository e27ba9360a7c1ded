---------------------------- MODULE Subsequence ----------------------------
(***************************************************************************)
(* What is left of a sequence when only some of its positions are kept,    *)
(* in their order.                                                         *)
(***************************************************************************)
EXTENDS Naturals, FiniteSets, Sequences

\* The numbers of a finite set, from the least on.
Ascending(S) ==
  CHOOSE f \in [1 .. Cardinality(S) -> S] : \A i, j \in 1 .. Cardinality(S) : i < j => f[i] < f[j]

\* The elements of s at the positions S.
At(s, S) == [n \in 1 .. Cardinality(S) |-> s[Ascending(S)[n]]]

=============================================================================
