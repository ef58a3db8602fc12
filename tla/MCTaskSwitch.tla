---------------------------- MODULE MCTaskSwitch ----------------------------
(* Model-checking instance of TaskSwitch. *)
EXTENDS TaskSwitch

CONSTANT MaxLength

Count(w, op, n) == Len(SelectSeq(SubSeq(w, 1, n), LAMBDA x : x = op))

\* Up to MaxLength statements whose calls and returns match, then uexit.
MCPrograms ==
  {Append(w, "uexit") : w \in {v \in SeqOf({"print", "call", "return", "yield"}, MaxLength) :
     \A n \in 1..Len(v) : Count(v, "return", n) <= Count(v, "call", n)}}
=============================================================================
