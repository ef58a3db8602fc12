----------------------------- MODULE MCDatabase -----------------------------
(* Model-checking instance of Database. *)
EXTENDS Database, TLC

CONSTANTS p1, p2, k1, k2, k3

\* A short and a long value, so that one written over the other leaves a mixture.
MCValues == {<<1>>, <<2, 2>>}
Symmetry == Permutations({p1, p2}) \cup Permutations({k1, k2, k3})
=============================================================================
