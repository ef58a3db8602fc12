----------------------------- MODULE MCDbServer -----------------------------
(* Model-checking instance of DbServer. *)
EXTENDS DbServer

CONSTANTS w1, w2, cl1, cl2
=============================================================================
