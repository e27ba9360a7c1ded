----------------------------- MODULE MCJobQueue -----------------------------
(* Instances of JobQueue for TLC. *)
EXTENDS JobQueue, TLC

CONSTANTS t1, t2, n1, n2, s1, s2, c1, c2

\* One task that may be retried, one that may not.
Budget == [t \in Task |-> IF t = t1 THEN 2 ELSE 1]

Symmetry == Permutations(Storage) \union Permutations(Claim)

=============================================================================
