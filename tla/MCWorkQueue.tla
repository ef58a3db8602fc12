---------------------------- MODULE MCWorkQueue ----------------------------
(* Model-checking instance of WorkQueue: model values for its threads and   *)
(* heap cells.                                                              *)
EXTENDS WorkQueue

CONSTANTS l1, w1, w2, m1, c1, c2
=============================================================================
