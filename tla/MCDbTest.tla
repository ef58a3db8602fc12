------------------------------ MODULE MCDbTest ------------------------------
(* Model-checking instance of DbTest. *)
EXTENDS DbTest

CONSTANTS t1, t2, n1, n2, n3, n4, v1, v2
=============================================================================
