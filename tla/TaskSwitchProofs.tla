-------------------------- MODULE TaskSwitchProofs --------------------------
(* Proofs about TaskSwitch: for any programs that fit their stacks, the two *)
(* processes are coroutines.                                                *)
EXTENDS TaskSwitch, TLAPS, FiniteSetTheorems, SequenceTheorems

(* The places in part-3.c are not those of a process, nor one another.      *)
LEMMA Addresses == Done # InYield /\ \A p \in Procs : At(p, 1) # InYield
BY DEF At, Done, InYield, Procs

(* The words of the first frame of a process.                               *)
LEMMA FirstFrame ==
  ASSUME NEW p
  PROVE /\ Len(NewStack(p)) = 13
        /\ NewStack(p)[4] = At(p, 1) /\ NewStack(p)[5] = Word("top")
        /\ \A i \in 6..12 : NewStack(p)[i] = Zero
        /\ NewStack(p)[13] = Flag
<1>1. \A i \in 6..12 : i = 6 \/ i = 7 \/ i = 8 \/ i = 9 \/ i = 10 \/ i = 11 \/ i = 12
  OBVIOUS
<1>2. NewStack(p)[6] = Zero /\ NewStack(p)[7] = Zero /\ NewStack(p)[8] = Zero /\ NewStack(p)[9] = Zero
      /\ NewStack(p)[10] = Zero /\ NewStack(p)[11] = Zero /\ NewStack(p)[12] = Zero
  BY DEF NewStack
<1>3. \A i \in 6..12 : NewStack(p)[i] = Zero
  BY <1>1, <1>2
<1> QED BY <1>3 DEF NewStack
----------------------------------------------------------------------------
(* Depths. *)

(* Before its first statement a process is in no function of its own.       *)
LEMMA DepthFirst == ASSUME NEW w PROVE Depth(w, 1) = 0
<1>1. 1..(1 - 1) = {}
  OBVIOUS
<1>2. {j \in 1..(1 - 1) : w[j] = "call"} = {} /\ {j \in 1..(1 - 1) : w[j] = "return"} = {}
  BY <1>1
<1> QED BY <1>2, FS_EmptySet DEF Depth

Counted(w, op, n) == {j \in 1..(n - 1) : w[j] = op}

(* The statements op before the next place are those before this one, and   *)
(* perhaps the one at it.                                                   *)
LEMMA CountNext ==
  ASSUME NEW w, NEW i \in Nat \ {0}, NEW op
  PROVE /\ Cardinality(Counted(w, op, i)) \in Nat
        /\ w[i] = op => Cardinality(Counted(w, op, i + 1)) = Cardinality(Counted(w, op, i)) + 1
        /\ w[i] # op => Cardinality(Counted(w, op, i + 1)) = Cardinality(Counted(w, op, i))
<1>1. Counted(w, op, i + 1) = IF w[i] = op THEN Counted(w, op, i) \cup {i} ELSE Counted(w, op, i)
  <2>1. \A j : j \in 1..(i + 1 - 1) <=> j \in 1..(i - 1) \/ j = i
    OBVIOUS
  <2> QED BY <2>1 DEF Counted
<1>2. IsFiniteSet(Counted(w, op, i))
  <2>1. IsFiniteSet(1..(i - 1))
    BY FS_Interval
  <2> QED BY <2>1, FS_Subset DEF Counted
<1>3. i \notin Counted(w, op, i)
  BY DEF Counted
<1>4. Cardinality(Counted(w, op, i)) \in Nat
  BY <1>2, FS_CardinalityType
<1>5. Cardinality(Counted(w, op, i) \cup {i}) = Cardinality(Counted(w, op, i)) + 1
  BY <1>2, <1>3, FS_AddElement
<1> QED BY <1>1, <1>4, <1>5

(* One statement takes a process in, out, or leaves it where it was.         *)
LEMMA DepthNext ==
  ASSUME NEW w, NEW i \in Nat \ {0}
  PROVE /\ w[i] = "call" => Depth(w, i + 1) = Depth(w, i) + 1
        /\ w[i] = "return" => Depth(w, i + 1) = Depth(w, i) - 1
        /\ w[i] \notin {"call", "return"} => Depth(w, i + 1) = Depth(w, i)
<1>1. /\ Cardinality(Counted(w, "call", i)) \in Nat
      /\ w[i] = "call" => Cardinality(Counted(w, "call", i + 1)) = Cardinality(Counted(w, "call", i)) + 1
      /\ w[i] # "call" => Cardinality(Counted(w, "call", i + 1)) = Cardinality(Counted(w, "call", i))
  BY CountNext
<1>2. /\ Cardinality(Counted(w, "return", i)) \in Nat
      /\ w[i] = "return" => Cardinality(Counted(w, "return", i + 1)) = Cardinality(Counted(w, "return", i)) + 1
      /\ w[i] # "return" => Cardinality(Counted(w, "return", i + 1)) = Cardinality(Counted(w, "return", i))
  BY CountNext
<1>3. \A n : Depth(w, n) = Cardinality(Counted(w, "call", n)) - Cardinality(Counted(w, "return", n))
  BY DEF Depth, Counted
<1> QED BY <1>1, <1>2, <1>3

(* Every place in a program lies low enough on its stack for a switch, and  *)
(* a statement other than uexit is followed by another one.                 *)
LEMMA Fits ==
  ASSUME NEW w \in Programs
  PROVE /\ Len(w) \in Nat \ {0}
        /\ \A i \in 1..Len(w) : Depth(w, i) \in Nat /\ Depth(w, i) + 14 <= Words
        /\ \A i \in 1..Len(w) : w[i] # "uexit" => i + 1 \in 1..Len(w)
<1>1. w \in Seq(Statements) /\ Len(w) > 0 /\ w[Len(w)] = "uexit"
  BY TaskAssumption DEF TaskAssumption
<1>2. Len(w) \in Nat
  BY <1>1
<1>3. Words \in Nat
  BY TaskAssumption DEF TaskAssumption
<1>4. \A i \in 1..Len(w) : Depth(w, i) \in 0..(Words - 14)
  <2>1. Words - GuardWords - SwitchWords = Words - 14
    BY <1>3 DEF GuardWords, SwitchWords
  <2> QED BY <2>1, TaskAssumption DEF TaskAssumption
<1> QED BY <1>1, <1>2, <1>4, <1>3
----------------------------------------------------------------------------
(* The stacks. *)

(* Memory m is an array of Words words for every stack.                     *)
Shaped(m) == m = [k \in Stacks |-> [i \in 1..Words |-> m[k][i]]]

\* The n words ws fit above depth d of stack k, and lie there afterwards.
HasRoom(m, k, d, ws, n) ==
  /\ Shaped(m) /\ k \in Stacks /\ d \in Nat /\ n \in Nat
  /\ Len(ws) = n /\ d + n <= Words
OnTop(m, after, k, d, ws, n) ==
  /\ Shaped(after)
  /\ \A l \in Stacks : l # k => after[l] = m[l]
  /\ \A i \in 1..d : after[k][i] = m[k][i]
  /\ \A j \in 1..n : after[k][d + j] = ws[j]

(* A push leaves what lies below the stack pointer, and the other stacks.   *)
LEMMA PushedAre ==
  ASSUME NEW m, NEW k, NEW d, NEW ws, NEW n, HasRoom(m, k, d, ws, n)
  PROVE OnTop(m, Pushed(m, [stack |-> k, depth |-> d], ws), k, d, ws, n)
<1> USE DEF HasRoom
<1> DEFINE p == [stack |-> k, depth |-> d]
           after == Pushed(m, p, ws)
           row == [i \in 1..Words |-> IF i - d \in 1..n THEN ws[i - d] ELSE m[k][i]]
<1>1. after = [m EXCEPT ![k] = row]
  BY DEF Pushed
<1>2. DOMAIN m = Stacks
  BY DEF Shaped
<1>3. after[k] = row /\ \A l \in Stacks : l # k => after[l] = m[l]
  BY <1>1, <1>2
<1>4. after = [l \in Stacks |-> after[l]]
  BY <1>1, <1>2
<1>5. \A l \in Stacks : after[l] = [i \in 1..Words |-> after[l][i]]
  <2>1. \A l \in Stacks : m[l] = [i \in 1..Words |-> m[l][i]]
    BY DEF Shaped
  <2>2. row = [i \in 1..Words |-> row[i]]
    OBVIOUS
  <2> HIDE DEF row, after
  <2> QED BY <2>1, <2>2, <1>3
<1>6. Shaped(after)
  <2> HIDE DEF after
  <2>1. [l \in Stacks |-> after[l]] = [l \in Stacks |-> [i \in 1..Words |-> after[l][i]]]
    BY <1>5
  <2> QED BY <1>4, <2>1 DEF Shaped
<1> Words \in Nat
  BY TaskAssumption DEF TaskAssumption
<1>7. \A i \in 1..d : row[i] = m[k][i]
  <2>1. \A i \in 1..d : i \in 1..Words /\ i - d \notin 1..n
    OBVIOUS
  <2> QED BY <2>1
<1>8. \A j \in 1..n : row[d + j] = ws[j]
  <2>1. \A j \in 1..n : d + j \in 1..Words /\ (d + j) - d = j
    OBVIOUS
  <2> QED BY <2>1
<1> HIDE DEF after, row
<1>9. \A i \in 1..d : after[k][i] = m[k][i]
  BY <1>3, <1>7
<1>10. \A j \in 1..n : after[k][d + j] = ws[j]
  BY <1>3, <1>8
<1> QED BY <1>3, <1>6, <1>9, <1>10 DEF after, OnTop

(* A frame is what lies between the guard words and the stack pointer.      *)
LEMMA FrameKept ==
  ASSUME NEW a, NEW b, NEW d \in Nat, \A i \in 1..(d + 3) : a[i] = b[i]
  PROVE SubSeq(a, GuardWords + 1, d + 3) = SubSeq(b, GuardWords + 1, d + 3)
<1> DEFINE S == {a[i] : i \in 4..(d + 3)}
           u == SubSeq(a, 4, d + 3)
           v == SubSeq(b, 4, d + 3)
<1>1. \A i \in 4..(d + 3) : a[i] \in S /\ b[i] \in S /\ a[i] = b[i]
  OBVIOUS
<1> HIDE DEF S
<1>2. u \in Seq(S) /\ Len(u) = (IF 4 <= d + 3 THEN d + 3 - 4 + 1 ELSE 0)
      /\ \A i \in 1..(d + 3 - 4 + 1) : u[i] = a[4 + i - 1]
  BY <1>1, SubSeqProperties
<1>3. v \in Seq(S) /\ Len(v) = (IF 4 <= d + 3 THEN d + 3 - 4 + 1 ELSE 0)
      /\ \A i \in 1..(d + 3 - 4 + 1) : v[i] = b[4 + i - 1]
  BY <1>1, SubSeqProperties
<1> HIDE DEF u, v
<1>4. Len(u) = d /\ Len(v) = d /\ \A i \in 1..d : u[i] = v[i]
  <2>1. \A i \in 1..d : i \in 1..(d + 3 - 4 + 1) /\ 4 + i - 1 \in 4..(d + 3)
    OBVIOUS
  <2> QED BY <2>1, <1>1, <1>2, <1>3
<1>5. u = v
  BY <1>2, <1>3, <1>4, SeqEqual
<1>6. GuardWords + 1 = 4
  BY DEF GuardWords
<1> QED BY <1>5, <1>6 DEF u, v
----------------------------------------------------------------------------
(* switch_to. *)

(* The callee-saved registers.                                              *)
LEMMA TheRegisters ==
  /\ ToSet(Saved) = {"rbp", "rbx", "r12", "r13", "r14", "r15"}
  /\ ToSet(Saved) \subseteq Registers
<1>1. ToSet(Saved) = {"rbp", "rbx", "r12", "r13", "r14", "r15"}
  <2>1. DOMAIN Saved = 1..6
    BY DEF Saved
  <2>2. \A i \in 1..6 : i = 1 \/ i = 2 \/ i = 3 \/ i = 4 \/ i = 5 \/ i = 6
    OBVIOUS
  <2> QED BY <2>1, <2>2 DEF ToSet, Saved
<1> QED BY <1>1 DEF Registers

(* The words are popped in the order in which they lie below the flag.      *)
LEMMA PlaceOf ==
  ASSUME NEW r, NEW k \in 1..9, PopOrder[k] = r, \A i \in 1..9 : PopOrder[i] = r => i = k
  PROVE Below(r) = k - 1
<1>1. Len(PopOrder) = 9
  BY DEF PopOrder
<1>2. {i \in 1..Len(PopOrder) : PopOrder[i] = r} = {k}
  BY <1>1
<1>3. SelectInSeq(PopOrder, LAMBDA x : x = r) = Min({k})
  BY <1>2 DEF SelectInSeq
<1>4. Min({k}) = k
  BY DEF Min
<1> QED BY <1>3, <1>4 DEF Below

(* Offset, which reads a saved context, is the order of the pops.           *)
LEMMA RegisterPlaces == \A r \in ToSet(Saved) : Below(r) = Offset[r] /\ Offset[r] \in 1..8
<1>1. PopOrder[2] = "r15" /\ PopOrder[3] = "r14" /\ PopOrder[4] = "r13" /\ PopOrder[5] = "r12"
      /\ PopOrder[6] = "rbx" /\ PopOrder[9] = "rbp" /\ PopOrder[1] = "flag" /\ PopOrder[7] = "rdi"
      /\ PopOrder[8] = "rsi"
  BY DEF PopOrder
<1>2. \A i \in 1..9 : i = 1 \/ i = 2 \/ i = 3 \/ i = 4 \/ i = 5 \/ i = 6 \/ i = 7 \/ i = 8 \/ i = 9
  OBVIOUS
<1>3. \A i \in 1..9 : /\ (PopOrder[i] = "r15" => i = 2) /\ (PopOrder[i] = "r14" => i = 3)
                      /\ (PopOrder[i] = "r13" => i = 4) /\ (PopOrder[i] = "r12" => i = 5)
                      /\ (PopOrder[i] = "rbx" => i = 6) /\ (PopOrder[i] = "rbp" => i = 9)
  BY <1>1, <1>2
<1>4. /\ Below("r15") = 2 - 1 /\ Below("r14") = 3 - 1 /\ Below("r13") = 4 - 1
      /\ Below("r12") = 5 - 1 /\ Below("rbx") = 6 - 1 /\ Below("rbp") = 9 - 1
  BY <1>1, <1>3, PlaceOf
<1>5. /\ Offset["r15"] = 1 /\ Offset["r14"] = 2 /\ Offset["r13"] = 3 /\ Offset["r12"] = 4
      /\ Offset["rbx"] = 5 /\ Offset["rbp"] = 8
  BY DEF Offset
<1> QED BY <1>4, <1>5, TheRegisters

(* switch_to from stack p to a stack pointer that was saved: what it leaves *)
(* on p, and what the processor takes from q.                               *)
Lies(k, d) == [stack |-> k, depth |-> d]
Returns(p) == {Done, InYield, InUexit} \cup {At(p, i) : i \in Nat}

Departs(p, q, d, t, ret, n) ==
  /\ Shaped(mem) /\ p \in Stacks /\ q \in Stacks /\ p # q
  /\ d \in Nat /\ rsp = Lies(p, d) /\ d + n + 9 <= Words
  /\ n \in Nat /\ Len(ret) = n /\ ret \in Seq(Returns(p))
  /\ t \in Nat /\ 9 < t /\ t <= Words /\ mem[q][t] = Flag

Arrives(p, q, d, t, ret, n, loc) ==
  /\ OnTop(mem, mem', p, d, ret, n)
  /\ \A r \in ToSet(Saved) : mem'[p][d + n + 9 - Offset[r]] = reg[r]
  /\ mem'[p][d + n + 9] = Flag
  /\ s' = [s EXCEPT ![loc] = Lies(p, d + n + 9)]
  /\ \A r \in ToSet(Saved) : reg'[r] = mem[q][t - Offset[r]]
  /\ IF mem[q][t - 9] = InYield
       THEN rsp' = Lies(q, t - 11) /\ pc' = mem[q][t - 10]
       ELSE rsp' = Lies(q, t - 10) /\ pc' = mem[q][t - 9]

LEMMA Switched ==
  ASSUME NEW p, NEW q, NEW d, NEW t, NEW ret, NEW n, NEW loc,
         Departs(p, q, d, t, ret, n), SwitchTo(ret, loc, Lies(q, t))
  PROVE Arrives(p, q, d, t, ret, n, loc)
<1> USE DEF Departs
<1> DEFINE new == Lies(q, t)
           fr == SwitchFrame(ret, loc, new)
           after == Pushed(mem, rsp, fr)
           word == [i \in 0..10 |-> after[new.stack][new.depth - i]]
           deeper == IF word[9] = InYield THEN 11 ELSE 10
<1>1. new.stack = q /\ new.depth = t /\ rsp.stack = p /\ rsp.depth = d
  BY DEF Lies
<1>2. FlagOnTop(new)
  BY <1>1 DEF FlagOnTop
<1>3. /\ mem' = after
      /\ s' = [s EXCEPT ![loc] = Above(rsp, Len(ret) + 9)]
      /\ reg' = [r \in Registers |-> word[Below(r)]]
      /\ rsp' = Above(new, -deeper)
      /\ pc' = word[deeper - 1]
  BY <1>2, Zenon DEF SwitchTo
<1> DEFINE tail == <<reg["rbp"], new, [location |-> loc], reg["rbx"],
                     reg["r12"], reg["r13"], reg["r14"], reg["r15"], Flag>>
<1>4. /\ Len(fr) = n + 9
      /\ \A i \in 1..n : fr[i] = ret[i]
      /\ \A i \in 1..9 : fr[n + i] = tail[i]
  <2> DEFINE S == Returns(p)
             T == S \cup {tail[i] : i \in 1..9}
  <2>1. fr = ret \o tail
    BY DEF SwitchFrame
  <2>2. Len(tail) = 9 /\ tail \in Seq({tail[i] : i \in 1..9})
    OBVIOUS
  <2>3. ret \in Seq(S)
    OBVIOUS
  <2> HIDE DEF tail, fr, S
  <2>4. tail \in Seq(T) /\ ret \in Seq(T)
    BY <2>2, <2>3
  <2> HIDE DEF T
  <2>5. /\ Len(ret \o tail) = Len(ret) + Len(tail)
        /\ \A i \in 1..(Len(ret) + Len(tail)) :
             (ret \o tail)[i] = IF i <= Len(ret) THEN ret[i] ELSE tail[i - Len(ret)]
    BY <2>4, ConcatProperties
  <2>6. \A i \in 1..9 : n + i \in 1..(n + 9) /\ ~(n + i <= n) /\ (n + i) - n = i
    OBVIOUS
  <2>7. \A i \in 1..n : i \in 1..(n + 9) /\ i <= n
    OBVIOUS
  <2> HIDE DEF fr
  <2>8. Len(ret) = n /\ n \in Nat
    OBVIOUS
  <2>9. Len(fr) = n + 9 /\ \A i \in 1..(n + 9) : fr[i] = IF i <= n THEN ret[i] ELSE tail[i - n]
    BY <2>1, <2>2, <2>5, <2>8
  <2> QED BY <2>6, <2>7, <2>9
<1>5. /\ Shaped(after)
      /\ \A l \in Stacks : l # p => after[l] = mem[l]
      /\ \A i \in 1..d : after[p][i] = mem[p][i]
      /\ \A j \in 1..(n + 9) : after[p][d + j] = fr[j]
  <2> HIDE DEF fr
  <2>1. rsp = [stack |-> p, depth |-> d] /\ n + 9 \in Nat /\ d + (n + 9) <= Words
    BY DEF Lies
  <2>2. /\ Shaped(Pushed(mem, [stack |-> p, depth |-> d], fr))
        /\ \A l \in Stacks : l # p => Pushed(mem, [stack |-> p, depth |-> d], fr)[l] = mem[l]
        /\ \A i \in 1..d : Pushed(mem, [stack |-> p, depth |-> d], fr)[p][i] = mem[p][i]
        /\ \A j \in 1..(n + 9) : Pushed(mem, [stack |-> p, depth |-> d], fr)[p][d + j] = fr[j]
    <3>1. HasRoom(mem, p, d, fr, n + 9)
      BY <2>1, <1>4 DEF HasRoom
    <3>2. OnTop(mem, Pushed(mem, [stack |-> p, depth |-> d], fr), p, d, fr, n + 9)
      BY <3>1, PushedAre, Zenon
    <3> QED BY <3>2 DEF OnTop
  <2> QED BY <2>1, <2>2, Zenon
<1>6. \A i \in 0..10 : word[i] = mem[q][t - i]
  <2> HIDE DEF after
  <2>1. \A i \in 0..10 : word[i] = after[new.stack][new.depth - i]
    OBVIOUS
  <2> HIDE DEF word
  <2>2. after[q] = mem[q]
    BY <1>5
  <2> QED BY <2>1, <2>2, <1>1
<1>7. /\ Shaped(mem')
      /\ \A k \in Stacks : k # p => mem'[k] = mem[k]
      /\ \A i \in 1..d : mem'[p][i] = mem[p][i]
      /\ \A j \in 1..(n + 9) : mem'[p][d + j] = fr[j]
  <2> HIDE DEF after
  <2> QED BY <1>3, <1>5, Zenon
<1> Words \in Nat
  BY TaskAssumption DEF TaskAssumption
<1>8. /\ \A i \in 1..n : mem'[p][d + i] = ret[i]
      /\ \A i \in 1..9 : mem'[p][d + n + i] = tail[i]
  <2> HIDE DEF fr, tail
  <2>1. \A i \in 1..n : i \in 1..(n + 9)
    OBVIOUS
  <2>2. \A i \in 1..9 : n + i \in 1..(n + 9) /\ d + (n + i) = d + n + i
    OBVIOUS
  <2>3. \A i \in 1..n : mem'[p][d + i] = ret[i]
    BY <2>1, <1>4, <1>7, Zenon
  <2>4. \A i \in 1..9 : mem'[p][d + n + i] = tail[i]
    <3> TAKE i \in 1..9
    <3>1. mem'[p][d + (n + i)] = fr[n + i] /\ fr[n + i] = tail[i]
      BY <2>2, <1>4, <1>7, Zenon
    <3> QED BY <2>2, <3>1
  <2> QED BY <2>3, <2>4
<1>9. mem'[p][d + n + 9] = Flag
  <2>1. tail[9] = Flag
    OBVIOUS
  <2> QED BY <2>1, <1>8
<1>10. \A r \in ToSet(Saved) : mem'[p][d + n + 9 - Offset[r]] = reg[r]
  <2>1. /\ tail[1] = reg["rbp"] /\ tail[4] = reg["rbx"] /\ tail[5] = reg["r12"]
        /\ tail[6] = reg["r13"] /\ tail[7] = reg["r14"] /\ tail[8] = reg["r15"]
    OBVIOUS
  <2>2. /\ 9 - Offset["r15"] = 8 /\ 9 - Offset["r14"] = 7 /\ 9 - Offset["r13"] = 6
        /\ 9 - Offset["r12"] = 5 /\ 9 - Offset["rbx"] = 4 /\ 9 - Offset["rbp"] = 1
    BY DEF Offset
  <2> HIDE DEF tail
  <2>3. \A r \in ToSet(Saved) : 9 - Offset[r] \in 1..9 /\ tail[9 - Offset[r]] = reg[r]
    BY <2>1, <2>2, TheRegisters
  <2>4. \A r \in ToSet(Saved) : d + n + (9 - Offset[r]) = d + n + 9 - Offset[r]
    BY RegisterPlaces
  <2> QED BY <2>3, <2>4, <1>8
<1>11. \A r \in ToSet(Saved) : reg'[r] = mem[q][t - Offset[r]]
  <2> HIDE DEF word
  <2>1. \A r \in ToSet(Saved) : reg'[r] = word[Below(r)]
    BY <1>3, TheRegisters
  <2>2. \A r \in ToSet(Saved) : Below(r) = Offset[r] /\ Offset[r] \in 0..10
    BY RegisterPlaces
  <2> QED BY <2>1, <2>2, <1>6
<1>12. s' = [s EXCEPT ![loc] = Lies(p, d + n + 9)]
  <2>1. Above(rsp, n + 9) = Lies(p, d + n + 9)
    BY DEF Above, Lies
  <2> QED BY <2>1, <1>3
<1>13. word[9] = mem[q][t - 9] /\ word[10] = mem[q][t - 10]
  <2> HIDE DEF word
  <2> QED BY <1>6
<1>14. CASE mem[q][t - 9] = InYield
  <2>1. deeper = 11
    BY <1>13, <1>14
  <2> HIDE DEF deeper, word
  <2>2. Above(new, -11) = Lies(q, t - 11)
    BY DEF Above, Lies
  <2>3. pc' = mem[q][t - 10] /\ rsp' = Lies(q, t - 11)
    BY <1>3, <1>13, <2>1, <2>2
  <2> HIDE DEF fr, after, new
  <2> QED BY <2>3, <1>7, <1>8, <1>9, <1>10, <1>11, <1>12, <1>14, Zenon DEF Arrives, OnTop
<1>15. CASE mem[q][t - 9] # InYield
  <2>1. deeper = 10
    BY <1>13, <1>15
  <2> HIDE DEF deeper, word
  <2>2. Above(new, -10) = Lies(q, t - 10)
    BY DEF Above, Lies
  <2>3. pc' = mem[q][t - 9] /\ rsp' = Lies(q, t - 10)
    BY <1>3, <1>13, <2>1, <2>2
  <2> HIDE DEF fr, after, new
  <2> QED BY <2>3, <1>7, <1>8, <1>9, <1>10, <1>11, <1>12, <1>15, Zenon DEF Arrives, OnTop
<1> QED BY <1>14, <1>15
----------------------------------------------------------------------------
(* The invariant. *)

FrameDepth(p, i) == GuardWords + Depth(prog[p], i)

\* Process p runs, before its statement i.
Running(p, i) == /\ pc = At(p, i)
                 /\ rsp = Lies(p, FrameDepth(p, i))

\* p was never started, or yielded before statement i.
Fresh(p) == /\ s[p] = Lies(p, Len(NewStack(p)))
            /\ \A i \in 1..Len(NewStack(p)) : mem[p][i] = NewStack(p)[i]

Asleep(p) == \E i \in 1..Len(prog[p]) :
  LET d == FrameDepth(p, i)
  IN /\ s[p] = Lies(p, d + SwitchWords)
     /\ mem[p][d + 1] = At(p, i) /\ mem[p][d + 2] = InYield
     /\ mem[p][d + SwitchWords] = Flag

Waits(p) == Fresh(p) \/ Asleep(p)

\* main waits in switch_to for one of them to end.
MainWaits == /\ s[0] = Lies(0, 10)
             /\ mem[0][1] = Done /\ mem[0][10] = Flag

InMain == \/ pc = Map /\ rsp = Null
          \/ pc = Start /\ rsp = Null /\ \A p \in Procs : Fresh(p)
          \/ pc = Done

InProcess == /\ MainWaits
             /\ \E p \in Procs : /\ \E i \in 1..Len(prog[p]) : Running(p, i)
                                 /\ Waits(Other(p))

Typed == /\ prog \in [Procs -> Programs]
         /\ Shaped(mem)
         /\ DOMAIN s = Stacks

Inv == Typed /\ (InMain \/ InProcess)

(* Where a process is, its stack has room for a switch.                     *)
LEMMA DepthFits ==
  ASSUME Typed, NEW p \in Procs, NEW i \in 1..Len(prog[p])
  PROVE /\ FrameDepth(p, i) \in Nat /\ 3 <= FrameDepth(p, i)
        /\ FrameDepth(p, i) + 11 <= Words
        /\ i \in Nat \ {0} /\ Words \in Nat
        /\ prog[p] \in Programs
<1>1. prog[p] \in Programs
  BY DEF Typed
<1>2. Len(prog[p]) \in Nat /\ Depth(prog[p], i) \in Nat /\ Depth(prog[p], i) + 14 <= Words
  BY <1>1, Fits
<1>3. Words \in Nat
  BY TaskAssumption DEF TaskAssumption
<1> QED BY <1>1, <1>2, <1>3 DEF FrameDepth, GuardWords

(* Where the stack pointer that was saved for a waiting process leads.      *)
Resumes(q, i, t) ==
  /\ s[q] = Lies(q, t) /\ t \in Nat /\ 9 < t /\ t <= Words /\ mem[q][t] = Flag
  /\ \/ mem[q][t - 9] = InYield /\ mem[q][t - 10] = At(q, i) /\ FrameDepth(q, i) = t - 11
     \/ mem[q][t - 9] # InYield /\ mem[q][t - 9] = At(q, i) /\ FrameDepth(q, i) = t - 10

(* The first statement is in no function of the process's own.              *)
LEMMA FirstPlace ==
  ASSUME Typed, NEW p \in Procs
  PROVE 1 \in 1..Len(prog[p]) /\ FrameDepth(p, 1) = 3
<1>1. prog[p] \in Programs
  BY DEF Typed
<1>2. Len(prog[p]) \in Nat \ {0}
  BY <1>1, Fits
<1> QED BY <1>2, DepthFirst DEF FrameDepth, GuardWords

(* setup_stack0's frame leads to the first statement.                       *)
LEMMA FreshResumes ==
  ASSUME Typed, NEW q \in Procs, Fresh(q)
  PROVE Resumes(q, 1, 13)
<1>1. 1 \in 1..Len(prog[q]) /\ FrameDepth(q, 1) = 3
  BY FirstPlace
<1>2. 14 <= Words /\ Words \in Nat
  BY <1>1, DepthFits
<1>3. s[q] = Lies(q, 13) /\ mem[q][4] = At(q, 1) /\ mem[q][13] = Flag
  <2>1. Len(NewStack(q)) = 13 /\ NewStack(q)[4] = At(q, 1) /\ NewStack(q)[13] = Flag
    BY FirstFrame
  <2>2. s[q] = Lies(q, 13) /\ \A j \in 1..13 : mem[q][j] = NewStack(q)[j]
    BY <2>1 DEF Fresh
  <2>3. 4 \in 1..13 /\ 13 \in 1..13
    OBVIOUS
  <2> QED BY <2>1, <2>2, <2>3
<1>4. At(q, 1) # InYield
  BY Addresses
<1>5. 13 - 9 = 4 /\ 13 - 10 = 3
  OBVIOUS
<1> QED BY <1>1, <1>2, <1>3, <1>4, <1>5 DEF Resumes

(* A waiting process has a statement to go on with.                         *)
LEMMA WaitsResumes ==
  ASSUME Typed, NEW q \in Procs, Waits(q)
  PROVE \E i \in 1..Len(prog[q]), t \in Nat : Resumes(q, i, t)
<1>1. CASE Fresh(q)
  BY <1>1, FreshResumes, FirstPlace
<1>2. CASE Asleep(q)
  <2>1. PICK i \in 1..Len(prog[q]) :
          /\ s[q] = Lies(q, FrameDepth(q, i) + SwitchWords)
          /\ mem[q][FrameDepth(q, i) + 1] = At(q, i) /\ mem[q][FrameDepth(q, i) + 2] = InYield
          /\ mem[q][FrameDepth(q, i) + SwitchWords] = Flag
    BY <1>2 DEF Asleep
  <2> DEFINE d == FrameDepth(q, i)
             t == d + 11
  <2>2. d \in Nat /\ 3 <= d /\ d + 11 <= Words /\ Words \in Nat
    BY DepthFits
  <2>3. SwitchWords = 11
    BY DEF SwitchWords
  <2>4. /\ s[q] = Lies(q, t) /\ mem[q][d + 1] = At(q, i) /\ mem[q][d + 2] = InYield
        /\ mem[q][t] = Flag
    BY <2>1, <2>3
  <2> HIDE DEF d
  <2>5. t \in Nat /\ 9 < t /\ t <= Words /\ t - 9 = d + 2 /\ t - 10 = d + 1 /\ d = t - 11
    BY <2>2
  <2> HIDE DEF t
  <2>6. Resumes(q, i, t)
    BY <2>4, <2>5 DEF Resumes, d
  <2> QED BY <2>5, <2>6
<1> QED BY <1>1, <1>2 DEF Waits

(* What is left of a waiting process is what the processor then has.        *)
LEMMA OnStackIs ==
  ASSUME Typed, NEW q \in Procs, NEW i \in 1..Len(prog[q]), NEW t, Resumes(q, i, t)
  PROVE OnStack(q) = [at |-> i, frame |-> Frame(q, FrameDepth(q, i)),
                      regs |-> [r \in ToSet(Saved) |-> mem[q][t - Offset[r]]]]
<1>1. s[q].depth = t
  BY DEF Resumes, Lies
<1>2. At(q, i).at = i
  BY DEF At
<1>3. CASE mem[q][t - 9] = InYield
  <2>1. mem[q][t - 10] = At(q, i) /\ FrameDepth(q, i) = t - 11
    BY <1>3 DEF Resumes
  <2> QED BY <1>1, <1>2, <1>3, <2>1, Zenon DEF OnStack
<1>4. CASE mem[q][t - 9] # InYield
  <2>1. mem[q][t - 9] = At(q, i) /\ FrameDepth(q, i) = t - 10
    BY <1>4 DEF Resumes
  <2> QED BY <1>1, <1>2, <1>4, <2>1, Zenon DEF OnStack
<1> QED BY <1>3, <1>4

(* The processor takes a waiting process up where it was left.              *)
LEMMA TakenUp ==
  ASSUME Typed, NEW p \in Stacks, NEW q \in Procs, p # q,
         NEW i \in 1..Len(prog[q]), NEW t \in Nat, Resumes(q, i, t),
         mem'[q] = mem[q], prog' = prog,
         \A r \in ToSet(Saved) : reg'[r] = mem[q][t - Offset[r]],
         IF mem[q][t - 9] = InYield
           THEN rsp' = Lies(q, t - 11) /\ pc' = mem[q][t - 10]
           ELSE rsp' = Lies(q, t - 10) /\ pc' = mem[q][t - 9]
  PROVE Running(q, i)' /\ OnCpu(q)' = OnStack(q)
<1>1. FrameDepth(q, i)' = FrameDepth(q, i)
  BY DEF FrameDepth
<1>2. rsp' = Lies(q, FrameDepth(q, i)) /\ pc' = At(q, i)
  BY DEF Resumes
<1>3. Running(q, i)'
  BY <1>1, <1>2 DEF Running
<1>4. Frame(q, rsp.depth)' = Frame(q, FrameDepth(q, i))
  BY <1>2 DEF Frame, Lies
<1>5. [r \in ToSet(Saved) |-> reg'[r]] = [r \in ToSet(Saved) |-> mem[q][t - Offset[r]]]
  OBVIOUS
<1>6. pc'.at = i
  BY <1>2 DEF At
<1>7. OnCpu(q)' = [at |-> pc'.at, frame |-> Frame(q, rsp.depth)', regs |-> [r \in ToSet(Saved) |-> reg'[r]]]
  BY DEF OnCpu
<1>8. OnStack(q) = [at |-> i, frame |-> Frame(q, FrameDepth(q, i)),
                    regs |-> [r \in ToSet(Saved) |-> mem[q][t - Offset[r]]]]
  BY OnStackIs
<1> QED BY <1>3, <1>4, <1>5, <1>6, <1>7, <1>8, Zenon

(* A process that nobody touches waits as before.                           *)
LEMMA LeftAlone ==
  ASSUME NEW q, mem'[q] = mem[q], s'[q] = s[q], prog' = prog
  PROVE /\ OnStack(q)' = OnStack(q)
        /\ Waits(q) => Waits(q)'
<1>1. OnStack(q)' = OnStack(q)
  BY Zenon DEF OnStack, Frame
<1>2. Fresh(q) => Fresh(q)'
  BY Zenon DEF Fresh
<1>3. \A i : FrameDepth(q, i)' = FrameDepth(q, i)
  BY Zenon DEF FrameDepth
<1>4. Asleep(q) => Asleep(q)'
  BY <1>3, Zenon DEF Asleep
<1> QED BY <1>1, <1>2, <1>4 DEF Waits

(* While a process does something, it runs and the others wait.             *)
LEMMA Where ==
  ASSUME Inv, NEW p \in Procs, NEW op, Does(p, op)
  PROVE /\ MainWaits /\ Waits(Other(p))
        /\ \E i \in 1..Len(prog[p]) : Running(p, i) /\ prog[p][i] = op
<1>1. pc.code = p /\ prog[p][pc.at] = op
  BY DEF Does
<1>2. Map.code = 0 /\ Start.code = 0 /\ Done.code = 0
  BY DEF Map, Start, Done, At
<1>3. p # 0
  BY DEF Procs
<1>4. InProcess
  BY <1>1, <1>2, <1>3 DEF Inv, InMain
<1>5. PICK q \in Procs : (\E i \in 1..Len(prog[q]) : Running(q, i)) /\ Waits(Other(q))
  BY <1>4 DEF InProcess
<1>6. PICK i \in 1..Len(prog[q]) : Running(q, i)
  BY <1>5
<1>7. pc.code = q /\ pc.at = i
  BY <1>6 DEF Running, At
<1>8. p = q
  BY <1>1, <1>7
<1> QED BY <1>1, <1>4, <1>5, <1>6, <1>7, <1>8 DEF InProcess
----------------------------------------------------------------------------
(* The refinement.  In the terms of Coroutines: *)
Runs == IF pc = Fault THEN -1 ELSE pc.code
Contexts == [p \in Procs |-> Context(p)]

(* What Coroutines sees of each place.                                      *)
LEMMA RunsIn ==
  /\ \A x \in Procs : \A j : Running(x, j) =>
       Runs = x /\ Context(x) = OnCpu(x) /\ Context(Other(x)) = OnStack(Other(x))
  /\ pc = Map => Runs = 0 /\ \A p \in Procs : Context(p) = StartContext(p)
  /\ pc = Start => Runs = 0 /\ \A p \in Procs : Context(p) = OnStack(p)
  /\ pc = Done => Runs = 0 /\ \A p \in Procs : Context(p) = Gone
<1>1. ASSUME NEW p \in Procs, NEW i, Running(p, i)
      PROVE Runs = p /\ Context(p) = OnCpu(p) /\ Context(Other(p)) = OnStack(Other(p))
  <2>1. pc.code = p
    BY <1>1 DEF Running, At
  <2>2. p # 0 /\ Other(p) # p
    BY DEF Procs, Other
  <2>3. pc # Map /\ pc # Done /\ pc # Fault
    BY <2>1, <2>2 DEF Map, Done, Fault, At
  <2> QED BY <2>1, <2>2, <2>3 DEF Runs, Context
<1>2. pc = Map => Runs = 0 /\ \A p \in Procs : Context(p) = StartContext(p)
  <2> SUFFICES ASSUME pc = Map PROVE Runs = 0 /\ \A p \in Procs : Context(p) = StartContext(p)
    OBVIOUS
  <2>1. pc.code = 0 /\ pc # Fault /\ pc # Done
    BY DEF Map, Fault, Done, At
  <2>2. \A p \in Procs : Context(p) = StartContext(p)
    BY <2>1 DEF Context
  <2> QED BY <2>1, <2>2 DEF Runs
<1>3. pc = Start => Runs = 0 /\ \A p \in Procs : Context(p) = OnStack(p)
  <2> SUFFICES ASSUME pc = Start PROVE Runs = 0 /\ \A p \in Procs : Context(p) = OnStack(p)
    OBVIOUS
  <2>1. pc.code = 0 /\ pc # Map /\ pc # Done /\ pc # Fault
    BY DEF Start, Map, Done, Fault, At
  <2> QED BY <2>1 DEF Runs, Context, Procs
<1>4. pc = Done => Runs = 0 /\ \A p \in Procs : Context(p) = Gone
  BY DEF Runs, Map, Context, Fault, Done, At
<1> QED BY <1>1, <1>2, <1>3, <1>4

(* The same after a step.                                                   *)
LEMMA RunsNext ==
  (\A x \in Procs : \A j : Running(x, j) =>
     Runs = x /\ Context(x) = OnCpu(x) /\ Context(Other(x)) = OnStack(Other(x)))'
BY RunsIn, PTL

(* And when main is done.                                                   *)
LEMMA DoneNext == (pc = Done => Runs = 0 /\ \A p \in Procs : Context(p) = Gone)'
BY RunsIn, PTL

(* A process that was never started has the context it starts with.         *)
LEMMA FreshContext == \A p \in Procs : Typed /\ Fresh(p) => OnStack(p) = StartContext(p)
<1> SUFFICES ASSUME NEW p \in Procs, Typed, Fresh(p) PROVE OnStack(p) = StartContext(p)
  OBVIOUS
<1>1. 1 \in 1..Len(prog[p]) /\ FrameDepth(p, 1) = 3
  BY FirstPlace
<1>2. OnStack(p) = [at |-> 1, frame |-> Frame(p, 3),
                    regs |-> [r \in ToSet(Saved) |-> mem[p][13 - Offset[r]]]]
  BY <1>1, FreshResumes, OnStackIs
<1>3. Frame(p, 3) = <<>>
  BY SubSeqEmpty DEF Frame, GuardWords
<1>4. \A r \in ToSet(Saved) : mem[p][13 - Offset[r]] = IF r = "rbp" THEN Word("top") ELSE Zero
  <2>1. /\ Len(NewStack(p)) = 13 /\ NewStack(p)[5] = Word("top") /\ \A i \in 6..12 : NewStack(p)[i] = Zero
    BY FirstFrame
  <2>2. \A j \in 1..13 : mem[p][j] = NewStack(p)[j]
    BY <2>1 DEF Fresh
  <2>3. 13 - Offset["rbp"] = 5
    BY DEF Offset
  <2>4. \A r \in ToSet(Saved) : r # "rbp" => 13 - Offset[r] \in 6..12
    BY TheRegisters DEF Offset
  <2>5. \A i \in 5..12 : i \in 1..13
    OBVIOUS
  <2> QED BY <2>1, <2>2, <2>3, <2>4, <2>5
<1>5. [r \in ToSet(Saved) |-> mem[p][13 - Offset[r]]]
        = [r \in ToSet(Saved) |-> IF r = "rbp" THEN Word("top") ELSE Zero]
  BY <1>4
<1> QED BY <1>2, <1>3, <1>5, Zenon DEF StartContext

(* Both begin alike.                                                        *)
LEMMA InitOK == Init => Inv /\ Co!CoInit
<1> SUFFICES ASSUME Init PROVE Inv /\ Co!CoInit
  OBVIOUS
<1>1. Shaped(mem) /\ DOMAIN s = Stacks
  BY DEF Init, Shaped
<1>2. pc = Map /\ rsp = Null
  BY DEF Init, Null
<1>3. Inv
  BY <1>1, <1>2 DEF Init, Inv, Typed, InMain
<1>4. Runs = 0 /\ \A p \in Procs : Context(p) = StartContext(p)
  BY <1>2, RunsIn
<1> QED BY <1>3, <1>4, Zenon DEF Co!CoInit, Runs

(* setup_stack0 for both processes.                                         *)
LEMMA SetupStep ==
  ASSUME Inv, MainSetup
  PROVE Inv' /\ UNCHANGED <<Runs, Contexts>>
<1>1. Typed /\ pc = Map /\ rsp = Null
  <2>1. ~InProcess
    <3>1. \A p \in Procs : \A i : ~Running(p, i)
      BY DEF MainSetup, Map, Running, At, Procs
    <3> QED BY <3>1 DEF InProcess
  <2>2. pc = Map /\ Map # Start /\ Map # Done
    BY DEF MainSetup, Map, Start, Done, At
  <2> QED BY <2>1, <2>2 DEF Inv, InMain
<1>2. /\ mem' = [k \in Stacks |-> IF k = 0 THEN mem[0]
                                  ELSE Pushed(mem, [stack |-> k, depth |-> 0], NewStack(k))[k]]
      /\ s' = [s EXCEPT ![1] = Lies(1, Len(NewStack(1))), ![2] = Lies(2, Len(NewStack(2)))]
      /\ pc' = Start /\ prog' = prog /\ rsp' = rsp
  BY Zenon DEF MainSetup, Lies
<1>3. Words \in Nat /\ 13 <= Words
  <2>1. 1 \in Procs
    BY DEF Procs
  <2> QED BY <2>1, <1>1, FirstPlace, DepthFits
<1>4. ASSUME NEW k \in Procs
      PROVE LET m == Pushed(mem, [stack |-> k, depth |-> 0], NewStack(k))
            IN Shaped(m) /\ \A j \in 1..13 : m[k][j] = NewStack(k)[j]
  <2> DEFINE m == Pushed(mem, [stack |-> k, depth |-> 0], NewStack(k))
  <2>1. HasRoom(mem, k, 0, NewStack(k), 13)
    BY FirstFrame, <1>1, <1>3 DEF HasRoom, Stacks, Typed
  <2>2. OnTop(mem, m, k, 0, NewStack(k), 13)
    BY <2>1, PushedAre, Zenon
  <2> HIDE DEF m
  <2>3. Shaped(m) /\ \A j \in 1..13 : m[k][0 + j] = NewStack(k)[j]
    BY <2>2 DEF OnTop
  <2>4. \A j \in 1..13 : m[k][j] = NewStack(k)[j]
    BY <2>3
  <2> QED BY <2>3, <2>4 DEF m
<1>5. Shaped(mem')
  <2>1. \A k \in Stacks : mem'[k] = [i \in 1..Words |-> mem'[k][i]]
    <3>1. mem[0] = [i \in 1..Words |-> mem[0][i]]
      BY <1>1 DEF Typed, Shaped, Stacks
    <3>2. ASSUME NEW k \in Procs PROVE mem'[k] = [i \in 1..Words |-> mem'[k][i]]
      <4> DEFINE m == Pushed(mem, [stack |-> k, depth |-> 0], NewStack(k))
      <4>1. Shaped(m) /\ k \in Stacks
        BY <1>4 DEF Stacks
      <4>2. mem'[k] = m[k]
        BY <1>2 DEF Stacks, Procs
      <4> HIDE DEF m
      <4> QED BY <4>1, <4>2 DEF Shaped
    <3> QED BY <3>1, <3>2, <1>2 DEF Stacks
  <2>2. mem' = [k \in Stacks |-> mem'[k]]
    BY <1>2
  <2> QED BY <2>1, <2>2 DEF Shaped
<1>6. DOMAIN s' = Stacks /\ \A k \in Procs : s'[k] = Lies(k, Len(NewStack(k)))
  BY <1>1, <1>2 DEF Typed, Stacks, Procs
<1>7. ASSUME NEW k \in Procs PROVE Fresh(k)'
  <2>1. \A j \in 1..13 : mem'[k][j] = NewStack(k)[j]
    <3>1. mem'[k] = Pushed(mem, [stack |-> k, depth |-> 0], NewStack(k))[k]
      BY <1>2 DEF Stacks, Procs
    <3> QED BY <3>1, <1>4, Zenon
  <2>2. Len(NewStack(k)) = 13
    BY FirstFrame
  <2> QED BY <2>1, <2>2, <1>6 DEF Fresh
<1>8. Typed'
  BY <1>1, <1>2, <1>5, <1>6 DEF Typed
<1>9. Inv'
  BY <1>1, <1>2, <1>7, <1>8 DEF Inv, InMain
<1>10. ASSUME NEW k \in Procs PROVE Context(k) = Context(k)'
  <2>1. Context(k) = StartContext(k)
    BY <1>1, RunsIn
  <2>2. Context(k)' = OnStack(k)'
    BY <1>2 DEF Context, Start, Map, Done, Fault, At, Procs
  <2>3. StartContext(k)' = StartContext(k)
    BY DEF StartContext
  <2>4. (\A p \in Procs : Typed /\ Fresh(p) => OnStack(p) = StartContext(p))'
    BY FreshContext, PTL
  <2> QED BY <2>1, <2>2, <2>3, <2>4, <1>7, <1>8
<1>11. Runs = 0 /\ Runs' = 0
  BY <1>1, <1>2 DEF Runs, Map, Start, Fault, At
<1> QED BY <1>9, <1>10, <1>11 DEF Contexts

(* main starts the first process.                                           *)
LEMMA StartStep ==
  ASSUME Inv, MainStart
  PROVE Inv' /\ Co!Begin
<1>1. Typed /\ pc = Start /\ rsp = Null /\ \A p \in Procs : Fresh(p)
  <2>1. ~InProcess
    <3>1. \A p \in Procs : \A i : ~Running(p, i)
      BY DEF MainStart, Start, Running, At, Procs
    <3> QED BY <3>1 DEF InProcess
  <2>2. pc = Start /\ Map # Start /\ Start # Done
    BY DEF MainStart, Map, Start, Done, At
  <2> QED BY <2>1, <2>2 DEF Inv, InMain
<1>2. 0 \in Stacks /\ 1 \in Stacks /\ 0 # 1 /\ 1 \in Procs /\ 2 \in Procs /\ Other(1) = 2
  BY DEF Stacks, Procs, Other
<1>3. Resumes(1, 1, 13) /\ 1 \in 1..Len(prog[1])
  BY <1>1, <1>2, FreshResumes, FirstPlace
<1>4. /\ 9 < 13 /\ 13 <= Words /\ Words \in Nat /\ mem[1][13] = Flag /\ s[1] = Lies(1, 13)
      /\ rsp = Lies(0, 0) /\ 0 + 1 + 9 <= Words /\ 0 \in Nat /\ 1 \in Nat /\ 13 \in Nat
  <2>1. 13 <= Words /\ mem[1][13] = Flag /\ s[1] = Lies(1, 13)
    BY <1>3 DEF Resumes
  <2>2. Words \in Nat
    BY TaskAssumption DEF TaskAssumption
  <2> QED BY <2>1, <2>2, <1>1 DEF Null, Lies
<1> DEFINE ret == <<Done>>
<1>5. SwitchTo(ret, 0, Lies(1, 13)) /\ prog' = prog
  BY <1>4, Zenon DEF MainStart
<1>6. Len(ret) = 1 /\ ret[1] = Done /\ ret \in Seq(Returns(0))
  BY DEF Returns
<1> HIDE DEF ret
<1>7. Departs(0, 1, 0, 13, ret, 1)
  <2>1. 0 \in Nat /\ 1 \in Nat /\ 13 \in Nat /\ 9 < 13 /\ Shaped(mem)
    BY <1>1 DEF Typed
  <2> QED BY <2>1, <1>2, <1>4, <1>6, Zenon DEF Departs
<1>8. Arrives(0, 1, 0, 13, ret, 1, 0)
  BY <1>5, <1>7, Switched, Zenon
<1>10. /\ Shaped(mem') /\ DOMAIN s' = Stacks /\ mem'[1] = mem[1] /\ mem'[2] = mem[2]
       /\ mem'[0][1] = Done /\ mem'[0][10] = Flag /\ s'[0] = Lies(0, 10) /\ s'[2] = s[2]
  <2>1. DOMAIN s = Stacks
    BY <1>1 DEF Typed
  <2>2. /\ Shaped(mem') /\ \A k \in Stacks : k # 0 => mem'[k] = mem[k]
        /\ \A i \in 1..1 : mem'[0][0 + i] = ret[i]
        /\ mem'[0][0 + 1 + 9] = Flag
        /\ s' = [s EXCEPT ![0] = Lies(0, 0 + 1 + 9)]
    BY <1>8, Zenon DEF Arrives, OnTop
  <2>3. mem'[0][1] = Done /\ mem'[0][10] = Flag
    BY <2>2, <1>6
  <2>4. mem'[1] = mem[1] /\ mem'[2] = mem[2]
    <3>1. 1 \in Stacks /\ 2 \in Stacks /\ 1 # 0 /\ 2 # 0
      BY DEF Stacks, Procs
    <3> QED BY <2>2, <3>1, Zenon
  <2>5. DOMAIN s' = Stacks /\ s'[0] = Lies(0, 10) /\ s'[2] = s[2]
    BY <2>1, <2>2 DEF Stacks
  <2> QED BY <2>2, <2>3, <2>4, <2>5
<1>11. Running(1, 1)' /\ OnCpu(1)' = OnStack(1)
  <2>1. /\ \A r \in ToSet(Saved) : reg'[r] = mem[1][13 - Offset[r]]
        /\ IF mem[1][13 - 9] = InYield
             THEN rsp' = Lies(1, 13 - 11) /\ pc' = mem[1][13 - 10]
             ELSE rsp' = Lies(1, 13 - 10) /\ pc' = mem[1][13 - 9]
    BY <1>8, Zenon DEF Arrives
  <2>2. Typed /\ 0 # 1 /\ prog' = prog
    BY <1>1, <1>5
  <2> QED BY <1>2, <1>3, <1>4, <1>10, <2>1, <2>2, TakenUp, Zenon
<1>12. MainWaits'
  BY <1>10 DEF MainWaits
<1>13. Waits(2)' /\ OnStack(2)' = OnStack(2)
  <2>1. Waits(2)
    BY <1>1, <1>2 DEF Waits
  <2> QED BY <2>1, <1>5, <1>10, LeftAlone
<1>14. Typed'
  <2>1. prog' \in [Procs -> Programs]
    BY <1>1, <1>5 DEF Typed
  <2> QED BY <2>1, <1>10 DEF Typed
<1>15. Inv'
  <2>1. 1 \in 1..Len(prog'[1])
    BY <1>3, <1>5
  <2> QED BY <2>1, <1>2, <1>11, <1>12, <1>13, <1>14 DEF Inv, InProcess
<1>16. Runs' = 1 /\ Context(1)' = OnCpu(1)' /\ Context(2)' = OnStack(2)'
  <2>1. (\A x \in Procs : \A j : Running(x, j) =>
           Runs = x /\ Context(x) = OnCpu(x) /\ Context(Other(x)) = OnStack(Other(x)))'
    BY RunsNext
  <2> QED BY <2>1, <1>2, <1>11
<1>17. Runs = 0 /\ \A p \in Procs : Context(p) = OnStack(p) /\ Context(p) = StartContext(p)
  BY <1>1, RunsIn, FreshContext
<1>18. Contexts' = Contexts /\ Contexts = [p \in Procs |-> StartContext(p)]
  <2>1. \A p \in Procs : Context(p)' = Context(p)
    BY <1>2, <1>11, <1>13, <1>16, <1>17 DEF Procs
  <2> QED BY <2>1, <1>17 DEF Contexts
<1> QED BY <1>15, <1>16, <1>17, <1>18, Zenon DEF Co!Begin, Runs, Contexts

(* A process does something of its own.                                     *)
(* A change of one stack leaves the others.                                 *)
IsRow(row) == row = [i \in 1..Words |-> row[i]]

LEMMA RowChanged ==
  ASSUME NEW m, Shaped(m), NEW k \in Stacks, NEW row, IsRow(row)
  PROVE /\ Shaped([m EXCEPT ![k] = row])
        /\ \A l \in Stacks : l # k => [m EXCEPT ![k] = row][l] = m[l]
<1> DEFINE after == [m EXCEPT ![k] = row]
<1>1. DOMAIN m = Stacks /\ \A l \in Stacks : m[l] = [i \in 1..Words |-> m[l][i]]
  BY DEF Shaped
<1>2. after[k] = row /\ (\A l \in Stacks : l # k => after[l] = m[l]) /\ after = [l \in Stacks |-> after[l]]
  BY <1>1
<1>4. row = [i \in 1..Words |-> row[i]]
  BY DEF IsRow
<1> HIDE DEF after
<1>3. \A l \in Stacks : after[l] = [i \in 1..Words |-> after[l][i]]
  BY <1>1, <1>2, <1>4
<1> QED BY <1>2, <1>3 DEF after, Shaped

(* A process does something of its own.                                     *)
LEMMA WorkStep ==
  ASSUME Inv, NEW p \in Procs, NEW i \in 1..Len(prog[p]), Running(p, i), MainWaits, Waits(Other(p)),
         i + 1 \in 1..Len(prog[p]), Running(p, i + 1)', Shaped(mem'),
         \A k \in Stacks : k # p => mem'[k] = mem[k], s' = s, prog' = prog
  PROVE Inv' /\ Co!Work(p)
<1> DEFINE q == Other(p)
<1>1. q \in Procs /\ q # p /\ q \in Stacks /\ 0 \in Stacks /\ p # 0 /\ Procs = {p, q}
  BY DEF Procs, Other, Stacks
<1>2. Waits(q)' /\ OnStack(q)' = OnStack(q)
  BY <1>1, LeftAlone
<1>3. MainWaits'
  BY <1>1 DEF MainWaits
<1>4. Inv'
  BY <1>2, <1>3 DEF Inv, Typed, InProcess
<1>5. Runs = p /\ Context(p) = OnCpu(p) /\ Context(q) = OnStack(q)
  BY RunsIn
<1>6. Runs' = p /\ Context(p)' = OnCpu(p)' /\ Context(q)' = OnStack(q)'
  <2>1. (\A x \in Procs : \A j : Running(x, j) =>
           Runs = x /\ Context(x) = OnCpu(x) /\ Context(Other(x)) = OnStack(Other(x)))'
    BY RunsNext
  <2> QED BY <2>1
<1>7. OnCpu(p).at = i /\ OnCpu(p)'.at = i + 1
  BY DEF OnCpu, Running, At
<1>8. Contexts'[p].at = Contexts[p].at + 1
  BY <1>5, <1>6, <1>7 DEF Contexts
<1>9. \A r \in Procs \ {p} : Contexts'[r] = Contexts[r]
  BY <1>1, <1>2, <1>5, <1>6 DEF Contexts
<1> QED BY <1>4, <1>5, <1>6, <1>8, <1>9, Zenon DEF Co!Work, Co!OthersKept, Runs, Contexts

(* Where a statement other than uexit leads.                                *)
LEMMA NextPlace ==
  ASSUME Typed, NEW p \in Procs, NEW i \in 1..Len(prog[p]), Running(p, i), prog[p][i] # "uexit"
  PROVE /\ i + 1 \in 1..Len(prog[p]) /\ Next1 = At(p, i + 1)
        /\ prog[p][i] = "call" => FrameDepth(p, i + 1) = FrameDepth(p, i) + 1
        /\ prog[p][i] = "return" => FrameDepth(p, i + 1) = FrameDepth(p, i) - 1
        /\ prog[p][i] \notin {"call", "return"} => FrameDepth(p, i + 1) = FrameDepth(p, i)
<1>1. prog[p] \in Programs /\ i \in Nat \ {0}
  BY DepthFits
<1>2. i + 1 \in 1..Len(prog[p])
  BY <1>1, Fits
<1>3. Next1 = At(p, i + 1)
  BY DEF Running, Next1, At
<1>4. Depth(prog[p], i) \in Nat
  BY <1>1, Fits
<1> QED BY <1>1, <1>2, <1>3, <1>4, DepthNext DEF FrameDepth, GuardWords

(* print, whose frames overwrite what lies above the stack pointer.         *)
LEMMA PrintStep == ASSUME Inv, NEW p \in Procs, DoPrint(p) PROVE Inv' /\ Co!Work(p)
<1>1. Typed /\ MainWaits /\ Waits(Other(p)) /\ p \in Stacks
  BY Where DEF DoPrint, Inv, Stacks
<1>2. PICK i \in 1..Len(prog[p]) : Running(p, i) /\ prog[p][i] = "print"
  BY Where DEF DoPrint
<1>3. i + 1 \in 1..Len(prog[p]) /\ Next1 = At(p, i + 1) /\ FrameDepth(p, i + 1) = FrameDepth(p, i)
  BY <1>1, <1>2, NextPlace
<1>4. prog' = prog /\ s' = s /\ rsp' = rsp /\ pc' = At(p, i + 1)
  BY <1>3, Zenon DEF DoPrint
<1>5. Running(p, i + 1)'
  BY <1>2, <1>3, <1>4 DEF Running, FrameDepth
<1> DEFINE row == [j \in 1..Words |-> IF j > rsp.depth THEN Word("junk") ELSE mem[p][j]]
<1>6. mem' = [mem EXCEPT ![p] = row]
  <2>1. rsp.stack = p
    BY <1>2 DEF Running, Lies
  <2> QED BY <2>1 DEF DoPrint
<1>7. IsRow(row)
  BY DEF IsRow
<1> HIDE DEF row
<1>8. Shaped(mem') /\ \A k \in Stacks : k # p => mem'[k] = mem[k]
  <2>1. Shaped(mem)
    BY <1>1 DEF Typed
  <2>2. /\ Shaped([mem EXCEPT ![p] = row])
        /\ \A l \in Stacks : l # p => [mem EXCEPT ![p] = row][l] = mem[l]
    BY <2>1, <1>1, <1>7, RowChanged
  <2> QED BY <2>2, <1>6
<1> QED BY <1>1, <1>2, <1>3, <1>4, <1>5, <1>8, WorkStep

(* A call inside the process.                                               *)
LEMMA CallStep == ASSUME Inv, NEW p \in Procs, CallOwn(p) PROVE Inv' /\ Co!Work(p)
<1>1. Typed /\ MainWaits /\ Waits(Other(p)) /\ p \in Stacks
  BY Where DEF CallOwn, Inv, Stacks
<1>2. PICK i \in 1..Len(prog[p]) : Running(p, i) /\ prog[p][i] = "call"
  BY Where DEF CallOwn
<1>3. i + 1 \in 1..Len(prog[p]) /\ Next1 = At(p, i + 1) /\ FrameDepth(p, i + 1) = FrameDepth(p, i) + 1
  BY <1>1, <1>2, NextPlace
<1> DEFINE d == FrameDepth(p, i)
           ws == <<Own(p, "frame")>>
<1>4. prog' = prog /\ s' = s /\ rsp' = Lies(p, d + 1) /\ pc' = At(p, i + 1)
  <2>1. rsp' = Above(rsp, 1) /\ pc' = Next1 /\ prog' = prog /\ s' = s
    BY Zenon DEF CallOwn
  <2> QED BY <1>2, <1>3, <2>1 DEF Running, Above, Lies
<1>5. Running(p, i + 1)'
  BY <1>2, <1>3, <1>4 DEF Running, FrameDepth
<1>6. HasRoom(mem, p, d, ws, 1)
  <2>1. d \in Nat /\ d + 1 <= Words /\ Len(ws) = 1
    BY <1>1, DepthFits
  <2> QED BY <2>1, <1>1 DEF HasRoom, Typed
<1> HIDE DEF ws, d
<1>7. OnTop(mem, Pushed(mem, [stack |-> p, depth |-> d], ws), p, d, ws, 1)
  BY <1>6, PushedAre, Zenon
<1>8. /\ Shaped(Pushed(mem, [stack |-> p, depth |-> d], ws))
      /\ \A k \in Stacks : k # p => Pushed(mem, [stack |-> p, depth |-> d], ws)[k] = mem[k]
  BY <1>7, Zenon DEF OnTop
<1>9. mem' = Pushed(mem, [stack |-> p, depth |-> d], ws)
  BY <1>2, Zenon DEF CallOwn, Running, Lies, d, ws
<1> QED BY <1>1, <1>2, <1>3, <1>4, <1>5, <1>8, <1>9, WorkStep

(* A return inside the process.                                             *)
LEMMA ReturnStep == ASSUME Inv, NEW p \in Procs, ReturnOwn(p) PROVE Inv' /\ Co!Work(p)
<1>1. Typed /\ MainWaits /\ Waits(Other(p))
  BY Where DEF ReturnOwn, Inv
<1>2. PICK i \in 1..Len(prog[p]) : Running(p, i) /\ prog[p][i] = "return"
  BY Where DEF ReturnOwn
<1>3. i + 1 \in 1..Len(prog[p]) /\ Next1 = At(p, i + 1) /\ FrameDepth(p, i + 1) = FrameDepth(p, i) - 1
  BY <1>1, <1>2, NextPlace
<1>4. prog' = prog /\ s' = s /\ mem' = mem /\ rsp' = Lies(p, FrameDepth(p, i) - 1) /\ pc' = At(p, i + 1)
  <2>1. rsp' = Above(rsp, -1) /\ pc' = Next1 /\ prog' = prog /\ s' = s /\ mem' = mem
    BY Zenon DEF ReturnOwn
  <2>2. FrameDepth(p, i) \in Nat
    BY <1>1, DepthFits
  <2> QED BY <1>2, <1>3, <2>1, <2>2 DEF Running, Above, Lies
<1>5. Running(p, i + 1)'
  BY <1>2, <1>3, <1>4 DEF Running, FrameDepth
<1> QED BY <1>1, <1>2, <1>3, <1>4, <1>5, WorkStep DEF Typed

(* A process yields to the other.                                           *)
LEMMA YieldStep == ASSUME Inv, NEW p \in Procs, DoYield(p) PROVE Inv' /\ Co!Yield(p)
<1> DEFINE q == Other(p)
<1>1. Typed /\ MainWaits /\ Waits(q)
  BY Where DEF DoYield, Inv
<1>2. PICK i \in 1..Len(prog[p]) : Running(p, i) /\ prog[p][i] = "yield"
  BY Where DEF DoYield
<1>3. i + 1 \in 1..Len(prog[p]) /\ Next1 = At(p, i + 1) /\ FrameDepth(p, i + 1) = FrameDepth(p, i)
  BY <1>1, <1>2, NextPlace
<1>4. /\ p \in Stacks /\ q \in Stacks /\ q \in Procs /\ p # q /\ 0 \in Stacks /\ p # 0 /\ q # 0
      /\ Procs = {p, q}
  BY DEF Procs, Other, Stacks
<1>5. PICK j \in 1..Len(prog[q]), t \in Nat : Resumes(q, j, t)
  BY <1>1, <1>4, WaitsResumes
<1> DEFINE d == FrameDepth(p, i)
           n == 2
           ret == <<At(p, i + 1), InYield>>
<1>6. /\ d \in Nat /\ n \in Nat /\ d + n + 9 <= Words /\ n = 2
      /\ d + n + 9 = d + 11 /\ 3 <= d /\ Words \in Nat /\ i + 1 \in Nat
  BY <1>1, DepthFits
<1>7. Len(ret) = n /\ ret[1] = At(p, i + 1) /\ ret[2] = InYield /\ ret \in Seq(Returns(p))
  BY <1>6 DEF Returns
<1>8. SwitchTo(ret, p, s[q]) /\ prog' = prog
  BY <1>3, Zenon DEF DoYield
<1> HIDE DEF q, d, n, ret
<1>9. 9 < t /\ t <= Words /\ rsp = Lies(p, d) /\ mem[q][t] = Flag /\ s[q] = Lies(q, t)
  BY <1>2, <1>5 DEF Running, Resumes, d
<1>10. Shaped(mem) /\ SwitchTo(ret, p, Lies(q, t))
  BY <1>1, <1>8, <1>9 DEF Typed
<1>11. /\ Shaped(mem')
       /\ \A k \in Stacks : k # p => mem'[k] = mem[k]
       /\ \A l \in 1..d : mem'[p][l] = mem[p][l]
       /\ \A l \in 1..n : mem'[p][d + l] = ret[l]
       /\ \A r \in ToSet(Saved) : mem'[p][d + n + 9 - Offset[r]] = reg[r]
       /\ mem'[p][d + n + 9] = Flag
       /\ s' = [s EXCEPT ![p] = Lies(p, d + n + 9)]
       /\ \A r \in ToSet(Saved) : reg'[r] = mem[q][t - Offset[r]]
       /\ IF mem[q][t - 9] = InYield
            THEN rsp' = Lies(q, t - 11) /\ pc' = mem[q][t - 10]
            ELSE rsp' = Lies(q, t - 10) /\ pc' = mem[q][t - 9]
  <2>1. Departs(p, q, d, t, ret, n)
    BY <1>4, <1>6, <1>7, <1>9, <1>10, Zenon DEF Departs
  <2>2. Arrives(p, q, d, t, ret, n, p)
    BY <2>1, <1>10, Switched, Zenon
  <2> QED BY <2>2 DEF Arrives, OnTop
<1>12. Running(q, j)' /\ OnCpu(q)' = OnStack(q)
  BY <1>1, <1>4, <1>5, <1>8, <1>11, TakenUp
<1>13. /\ mem'[p][d + 1] = At(p, i + 1) /\ mem'[p][d + 2] = InYield /\ mem'[p][d + 11] = Flag
       /\ s'[p] = Lies(p, d + 11) /\ s'[0] = s[0] /\ mem'[0] = mem[0] /\ DOMAIN s' = Stacks
  <2>1. mem'[p][d + 1] = ret[1] /\ mem'[p][d + 2] = ret[2]
    BY <1>6, <1>11
  <2>2. s'[p] = Lies(p, d + n + 9) /\ s'[0] = s[0] /\ DOMAIN s' = Stacks
    BY <1>1, <1>4, <1>11 DEF Typed
  <2>3. mem'[p][d + n + 9] = Flag /\ mem'[0] = mem[0]
    BY <1>4, <1>11, Zenon
  <2> QED BY <2>1, <2>2, <2>3, <1>6, <1>7
<1>14. Waits(p)'
  <2>1. FrameDepth(p, i + 1)' = d
    BY <1>3, <1>8 DEF FrameDepth, d
  <2>2. i + 1 \in 1..Len(prog'[p])
    BY <1>3, <1>8
  <2> QED BY <1>13, <2>1, <2>2 DEF Waits, Asleep, SwitchWords
<1>15. MainWaits'
  BY <1>1, <1>13 DEF MainWaits
<1>16. Inv'
  <2>1. Typed'
    BY <1>1, <1>8, <1>11, <1>13 DEF Typed
  <2>2. j \in 1..Len(prog'[q]) /\ Other(q) = p
    BY <1>5, <1>8 DEF q, Other, Procs
  <2> QED BY <2>1, <2>2, <1>4, <1>12, <1>14, <1>15 DEF Inv, InProcess
<1>17. Runs = p /\ Context(p) = OnCpu(p) /\ Context(q) = OnStack(q)
  BY <1>2, RunsIn DEF q
<1>18. Runs' = q /\ Context(q)' = OnCpu(q)' /\ Context(p)' = OnStack(p)'
  <2>1. Other(q) = p
    BY DEF q, Other, Procs
  <2> QED BY <2>1, <1>4, <1>12, RunsNext
<1>19. OnCpu(p) = [at |-> i, frame |-> Frame(p, d), regs |-> [r \in ToSet(Saved) |-> reg[r]]]
  BY <1>2 DEF OnCpu, Running, At, Lies, d
<1>20. OnStack(p)' = [at |-> i + 1, frame |-> Frame(p, d), regs |-> [r \in ToSet(Saved) |-> reg[r]]]
  <2>1. s'[p].depth = d + 11
    BY <1>13 DEF Lies
  <2>2. (d + 11) - 9 = d + 2 /\ (d + 11) - 10 = d + 1 /\ (d + 11) - 11 = d
    BY <1>6
  <2>3. At(p, i + 1).at = i + 1
    BY DEF At
  <2>4. [r \in ToSet(Saved) |-> mem'[p][(d + 11) - Offset[r]]] = [r \in ToSet(Saved) |-> reg[r]]
    <3>1. \A r \in ToSet(Saved) : (d + 11) - Offset[r] = d + n + 9 - Offset[r]
      <4>1. \A x \in Nat : (d + 11) - x = d + n + 9 - x
        BY <1>6
      <4>2. \A r \in ToSet(Saved) : Offset[r] \in Nat
        BY RegisterPlaces
      <4> QED BY <4>1, <4>2, Zenon
    <3> QED BY <3>1, <1>11
  <2>5. SubSeq(mem'[p], GuardWords + 1, d) = SubSeq(mem[p], GuardWords + 1, d)
    <3> DEFINE e == d - 3
    <3>1. e \in Nat /\ d = e + 3
      BY <1>6
    <3> HIDE DEF e
    <3>2. \A l \in 1..(e + 3) : mem'[p][l] = mem[p][l]
      BY <3>1, <1>11
    <3> QED BY <3>1, <3>2, FrameKept
  <2>6. Frame(p, d) = SubSeq(mem[p], GuardWords + 1, d)
    BY DEF Frame
  <2>7. mem'[p][s'[p].depth - 9] = InYield /\ mem'[p][s'[p].depth - 10] = At(p, i + 1) /\ s'[p].depth - 11 = d
    BY <1>13, <2>1, <2>2
  <2>8. OnStack(p)' = [at |-> mem'[p][s'[p].depth - 10].at,
                       frame |-> SubSeq(mem'[p], GuardWords + 1, s'[p].depth - 11),
                       regs |-> [r \in ToSet(Saved) |-> mem'[p][s'[p].depth - Offset[r]]]]
    BY <2>7, Zenon DEF OnStack, Frame
  <2> QED BY <2>1, <2>3, <2>4, <2>5, <2>6, <2>7, <2>8, Zenon
<1>21. Context(p)' = [Context(p) EXCEPT !.at = @ + 1]
  BY <1>17, <1>18, <1>19, <1>20
<1>22. Contexts' = [Contexts EXCEPT ![p].at = @ + 1]
  BY <1>4, <1>12, <1>17, <1>18, <1>21 DEF Contexts
<1> QED BY <1>4, <1>16, <1>17, <1>18, <1>22, Zenon DEF Co!Yield, Runs, Contexts

(* A process ends, and main goes on.                                        *)
LEMMA ExitStep == ASSUME Inv, NEW p \in Procs, DoUexit(p) PROVE Inv' /\ Co!Exit(p)
<1>1. Typed /\ MainWaits
  BY Where DEF DoUexit, Inv
<1>2. PICK i \in 1..Len(prog[p]) : Running(p, i) /\ prog[p][i] = "uexit"
  BY Where DEF DoUexit
<1> DEFINE d == FrameDepth(p, i)
           n == 2
           q == 0
           t == 10
           ret == <<Next1, InUexit>>
<1>3. /\ p \in Stacks /\ q \in Stacks /\ p # q /\ t \in Nat /\ 9 < t /\ t <= Words
      /\ d \in Nat /\ n \in Nat /\ d + n + 9 <= Words
      /\ q = 0 /\ t = 10 /\ 1 \in Stacks
  BY <1>1, DepthFits DEF Stacks, Procs
<1>4. Len(ret) = n /\ ret \in Seq(Returns(p))
  <2>1. Next1 = At(p, i + 1) /\ i + 1 \in Nat
    BY <1>2 DEF Running, Next1, At
  <2> QED BY <2>1 DEF Returns
<1>5. SwitchTo(ret, 1, s[q]) /\ prog' = prog
  BY Zenon DEF DoUexit
<1>6. rsp = Lies(p, d)
  BY <1>2 DEF Running
<1> HIDE DEF d, n, q, t, ret
<1>7. Shaped(mem) /\ mem[q][t] = Flag /\ SwitchTo(ret, 1, Lies(q, t))
  BY <1>1, <1>3, <1>5 DEF Typed, MainWaits
<1>8. /\ Shaped(mem')
      /\ \A k \in Stacks : k # p => mem'[k] = mem[k]
      /\ \A l \in 1..d : mem'[p][l] = mem[p][l]
      /\ \A l \in 1..n : mem'[p][d + l] = ret[l]
      /\ \A r \in ToSet(Saved) : mem'[p][d + n + 9 - Offset[r]] = reg[r]
      /\ mem'[p][d + n + 9] = Flag
      /\ s' = [s EXCEPT ![1] = Lies(p, d + n + 9)]
      /\ \A r \in ToSet(Saved) : reg'[r] = mem[q][t - Offset[r]]
      /\ IF mem[q][t - 9] = InYield
           THEN rsp' = Lies(q, t - 11) /\ pc' = mem[q][t - 10]
           ELSE rsp' = Lies(q, t - 10) /\ pc' = mem[q][t - 9]
  <2>1. Departs(p, q, d, t, ret, n)
    BY <1>3, <1>4, <1>6, <1>7, Zenon DEF Departs
  <2>2. Arrives(p, q, d, t, ret, n, 1)
    BY <2>1, <1>7, Switched, Zenon
  <2> QED BY <2>2 DEF Arrives, OnTop
<1>9. pc' = Done
  <2>1. mem[q][t - 9] = Done /\ Done # InYield
    BY <1>1, <1>3, Addresses DEF MainWaits
  <2> QED BY <2>1, <1>8
<1>10. Inv'
  BY <1>1, <1>5, <1>8, <1>9 DEF Inv, Typed, InMain
<1>11. Runs = p
  BY <1>2, RunsIn
<1>12. Runs' = 0 /\ \A x \in Procs : Context(x)' = Gone
  <2>1. (pc = Done => Runs = 0 /\ \A x \in Procs : Context(x) = Gone)'
    BY DoneNext
  <2> QED BY <2>1, <1>9 DEF Gone
<1>13. Contexts' = [x \in Procs |-> Gone]
  BY <1>12 DEF Contexts
<1> QED BY <1>10, <1>11, <1>12, <1>13, Zenon DEF Co!Exit, Runs, Contexts
----------------------------------------------------------------------------
(* ImplementsCoroutines: whatever the two programs do between two yields    *)
(* and however deep in their own calls they yield, each is resumed where it *)
(* left off, with the registers and the frames it had, and the end of       *)
(* either leads back to main (part-3.c and switch.S, for any programs whose *)
(* returns answer their calls and that fit their stacks).                   *)
THEOREM CoroutinesImplemented == Spec => ImplementsCoroutines
<1>1. Init => Inv /\ Co!CoInit
  BY InitOK
<1>2. Inv /\ [Next]_vars => Inv' /\ [Co!CoNext]_(Co!coVars)
  <2> SUFFICES ASSUME Inv, [Next]_vars PROVE Inv' /\ [Co!CoNext]_(Co!coVars)
    OBVIOUS
  <2> USE DEF Co!CoNext
  <2>1. CASE MainSetup
    <3>1. Inv' /\ UNCHANGED <<Runs, Contexts>>
      BY <2>1, SetupStep
    <3> QED BY <3>1, Zenon DEF Co!coVars, Runs, Contexts
  <2>2. CASE MainStart
    BY <2>2, StartStep
  <2>3. CASE UNCHANGED <<prog, mem, rsp, reg, pc, s>>
    <3>1. Inv'
      BY <2>3 DEF Inv, Typed, InMain, InProcess, MainWaits, Running, Waits, Fresh, Asleep, FrameDepth
    <3>2. Runs' = Runs /\ \A p \in Procs : Context(p)' = Context(p)
      BY <2>3, Zenon DEF Runs, Context, OnCpu, OnStack, Frame, StartContext
    <3>3. UNCHANGED <<Runs, Contexts>>
      BY <3>2 DEF Contexts
    <3> QED BY <3>1, <3>3, Zenon DEF Co!coVars, Runs, Contexts
  <2>4. CASE MainFails \/ MainDone \/ UNCHANGED vars
    BY <2>3, <2>4 DEF MainFails, MainDone, vars, cpu
  <2>5. ASSUME NEW p \in Procs, Process(p) PROVE Inv' /\ [Co!CoNext]_(Co!coVars)
    BY <2>5, PrintStep, CallStep, ReturnStep, YieldStep, ExitStep DEF Process
  <2> QED BY <2>1, <2>2, <2>4, <2>5 DEF Next, Main
<1> QED BY <1>1, <1>2, PTL DEF Spec, ImplementsCoroutines, Co!CoSpec
=============================================================================
