----------------------------- MODULE TaskSwitch -----------------------------
(* The task switcher of project1: main and two processes, each on a stack   *)
(* of its own, that pass the processor on with switch_to.  Memory holds     *)
(* words, a stack pointer is the number of words on a stack, and what lies  *)
(* above it stays in memory until something overwrites it.                  *)
EXTENDS Integers, Sequences, FiniteSets, SequencesExt

CONSTANTS Programs,   \* what a process may do: sequences of "print", "call",
                      \* "return", "yield" and "uexit", the last one "uexit"
          Words       \* words of a stack

Statements == {"print", "call", "return", "yield", "uexit"}

\* How deep in its own functions a process is before its statement i.
Depth(w, i) == Cardinality({j \in 1..(i - 1) : w[j] = "call"})
                 - Cardinality({j \in 1..(i - 1) : w[j] = "return"})

GuardWords == 3        \* below the first frame of a process
SwitchWords == 11      \* the most that a switch pushes: see SwitchFrame

\* A process's returns answer its calls, its stack holds its deepest call and
\* a switch from there, and it ends with uexit.
TaskAssumption ==
  /\ Words \in Nat
  /\ \A w \in Programs :
       /\ w \in Seq(Statements) /\ Len(w) > 0 /\ w[Len(w)] = "uexit"
       /\ \A i \in 1..Len(w) : Depth(w, i) \in 0..(Words - GuardWords - SwitchWords)
ASSUME TaskAssumption

Procs == {1, 2}
Stacks == {0} \cup Procs       \* main's and the processes'
Saved == <<"rbp", "rbx", "r12", "r13", "r14", "r15">>   \* callee-saved registers
Args == <<"rsi", "rdi">>
Registers == ToSet(Saved) \cup ToSet(Args)

\* Words that are not code addresses or stack pointers.
Word(w) == [word |-> w]
Zero == Word("0")
Flag == Word("0xA5A5A5A5A5A5A5A5")     \* "valid stack flag"
Guard == Word("0x3A3A3A3A3A3A3A3A")    \* "guard zone"

VARIABLES
  prog,    \* the two programs
  mem,     \* the words of the stacks, from the bottom
  rsp,     \* stack pointer: [stack, depth]
  reg,     \* registers
  pc,      \* next statement: [code, at], code a process or 0 for main
  s,       \* the global pointers s1, s2 (s[1], s[2]) and s (s[0])
  status   \* "running", or the status given to exit

vars == <<prog, mem, rsp, reg, pc, s, status>>
cpu == <<mem, rsp, reg, pc>>

\* Code addresses: a process's statement i, or a place in part-3.c.
At(c, i) == [code |-> c, at |-> i]
Map == At(0, 1)
Start == At(0, 2)
Done == At(0, 3)
Fault == At(0, 4)              \* a null dereference or a wild return
InYield == At(0, 5)            \* in do_yield12 or do_yield21
InUexit == At(0, 6)

Null == [stack |-> 0, depth |-> 0]

Init == /\ prog \in [Procs -> Programs]
        /\ mem = [k \in Stacks |-> [i \in 1..Words |-> Zero]]
        /\ rsp = [stack |-> 0, depth |-> 0]
        /\ reg = [r \in Registers |-> Zero]
        /\ pc = Map
        /\ s = [i \in Stacks |-> Null]
        /\ status = "running"

\* Memory m with the words ws pushed at stack pointer p.
Pushed(m, p, ws) ==
  [m EXCEPT ![p.stack] = [i \in 1..Words |->
     IF i - p.depth \in 1..Len(ws) THEN ws[i - p.depth] ELSE @[i]]]
Above(p, n) == [p EXCEPT !.depth = @ + n]
----------------------------------------------------------------------------
(* switch_to(&s[loc], new), called from code that continues at ret: pushes  *)
(* the return address, %rbp, the arguments, the other callee-saved          *)
(* registers and the flag, saves the stack pointer, moves to the new stack  *)
(* and pops in the opposite order.                                          *)

\* Mutant: %r12 and %rbx are popped in the order they were pushed.
WrongPopOrder == <<"flag", "r15", "r14", "r13", "rbx", "r12", "rdi", "rsi", "rbp">>
PopOrder == <<"flag", "r15", "r14", "r13", "r12", "rbx", "rdi", "rsi", "rbp">>

\* How far below the flag register r's word lies.
Below(r) == SelectInSeq(PopOrder, LAMBDA x : x = r) - 1

SwitchFrame(ret, loc, new) ==
  ret \o <<reg["rbp"], new, [location |-> loc], reg["rbx"], reg["r12"], reg["r13"], reg["r14"], reg["r15"], Flag>>

FlagOnTop(p) == p.depth > 0 /\ mem[p.stack][p.depth] = Flag

\* ret is the return address of the call into part-3.c, if the process made
\* one, and switch_to's own.  The return pops the latter, and do_yield the former;
\* what the compiler adds to do_yield's own frame is left out.
SwitchTo(ret, loc, new) ==
  IF ~FlagOnTop(new)
    THEN pc' = Fault /\ UNCHANGED <<mem, rsp, reg, s>>
    ELSE LET m == Pushed(mem, rsp, SwitchFrame(ret, loc, new))
             word == [i \in 0..10 |-> m[new.stack][new.depth - i]]
             deeper == IF word[9] = InYield THEN 11 ELSE 10
         IN /\ mem' = m
            /\ s' = [s EXCEPT ![loc] = Above(rsp, Len(ret) + 9)]
            /\ reg' = [r \in Registers |-> word[Below(r)]]
            /\ rsp' = Above(new, -deeper)
            /\ pc' = word[deeper - 1]
----------------------------------------------------------------------------
(* main *)

\* setup_stack0: guard words, and a frame of switch_to that returns to func.
\* Mutant: the flag that marks a valid stack is left out.
NewStackNoFlag(p) == <<Guard, Guard, Guard, At(p, 1), Word("top"), Zero, Zero, Zero, Zero, Zero, Zero, Zero>>
NewStack(p) == <<Guard, Guard, Guard, At(p, 1), Word("top"), Zero, Zero, Zero, Zero, Zero, Zero, Zero, Flag>>

\* mmap of the stacks, exec_file for both programs, setup_stack0 for both.
MainSetup ==
  /\ pc = Map /\ status = "running"
  /\ mem' = [k \in Stacks |-> IF k = 0 THEN mem[0]
                              ELSE Pushed(mem, [stack |-> k, depth |-> 0], NewStack(k))[k]]
  /\ s' = [s EXCEPT ![1] = [stack |-> 1, depth |-> Len(NewStack(1))],
                    ![2] = [stack |-> 2, depth |-> Len(NewStack(2))]]
  /\ pc' = Start
  /\ UNCHANGED <<prog, rsp, reg, status>>

\* A stack or a segment cannot be mapped, or a program not be opened.
MainFails ==
  /\ pc = Map /\ status = "running"
  /\ status' = "exit_1"
  /\ UNCHANGED <<prog, cpu, s>>

MainStart ==
  /\ pc = Start
  /\ SwitchTo(<<Done>>, 0, s[1])
  /\ UNCHANGED <<prog, status>>

MainDone ==
  /\ pc = Done /\ status = "running"
  /\ status' = "exit_0"
  /\ UNCHANGED <<prog, cpu, s>>
----------------------------------------------------------------------------
(* A process *)

Does(p, op) == pc.code = p /\ prog[p][pc.at] = op
Next1 == [pc EXCEPT !.at = @ + 1]
\* Values that name their process, statement and register.
Own(p, r) == [process |-> p, at |-> pc.at, name |-> r]
NewRegs(p) == [r \in Registers |-> Own(p, r)]

\* print: its own frames overwrite what lies above the stack pointer.
DoPrint(p) ==
  /\ Does(p, "print")
  /\ mem' = [mem EXCEPT ![rsp.stack] = [i \in 1..Words |-> IF i > rsp.depth THEN Word("junk") ELSE @[i]]]
  /\ reg' = NewRegs(p)
  /\ pc' = Next1
  /\ UNCHANGED <<prog, rsp, s, status>>

\* The process enters and leaves a function of its own, with one word of frame.
CallOwn(p) ==
  /\ Does(p, "call")
  /\ mem' = Pushed(mem, rsp, <<Own(p, "frame")>>)
  /\ rsp' = Above(rsp, 1)
  /\ reg' = NewRegs(p)
  /\ pc' = Next1
  /\ UNCHANGED <<prog, s, status>>

ReturnOwn(p) ==
  /\ Does(p, "return")
  /\ rsp' = Above(rsp, -1)
  /\ pc' = Next1
  /\ UNCHANGED <<prog, mem, reg, s, status>>

\* do_yield12, do_yield21
Other(p) == 3 - p

DoYield(p) ==
  /\ Does(p, "yield")
  /\ SwitchTo(<<Next1, InYield>>, p, s[Other(p)])
  /\ UNCHANGED <<prog, status>>

\* do_uexit: whichever process calls it, its stack pointer goes to s1.
DoUexit(p) ==
  /\ Does(p, "uexit")
  /\ SwitchTo(<<Next1, InUexit>>, 1, s[0])
  /\ UNCHANGED <<prog, status>>

Process(p) == DoPrint(p) \/ CallOwn(p) \/ ReturnOwn(p) \/ DoYield(p) \/ DoUexit(p)
Main == MainSetup \/ MainFails \/ MainStart \/ MainDone

Next == Main \/ \E p \in Procs : Process(p)
Spec == Init /\ [][Next]_vars

\* There is one thread of execution, and it goes on.
FairSpec == Spec /\ WF_vars(Next)
----------------------------------------------------------------------------
(* The contexts a process has, read from the processor while it runs and    *)
(* from its stack, at fixed offsets below s1 or s2, while it is suspended.  *)

StartContext(p) == [at |-> 1, frame |-> <<>>,
                    regs |-> [r \in ToSet(Saved) |-> IF r = "rbp" THEN Word("top") ELSE Zero]]

Frame(p, depth) == SubSeq(mem[p], GuardWords + 1, depth)

OnCpu(p) == [at |-> pc.at, frame |-> Frame(p, rsp.depth),
             regs |-> [r \in ToSet(Saved) |-> reg[r]]]

\* Distance of each register's word from the flag, in switch.S.
Offset == [r15 |-> 1, r14 |-> 2, r13 |-> 3, r12 |-> 4, rbx |-> 5, rbp |-> 8]

OnStack(p) ==
  LET top == s[p].depth
      yielded == mem[p][top - 9] = InYield
  IN [at |-> mem[p][IF yielded THEN top - 10 ELSE top - 9].at,
      frame |-> Frame(p, IF yielded THEN top - 11 ELSE top - 10),
      regs |-> [r \in ToSet(Saved) |-> mem[p][top - Offset[r]]]]

Gone == [at |-> 0]

Context(p) == CASE pc = Map -> StartContext(p)
                [] pc \in {Done, Fault} -> Gone
                [] OTHER -> IF pc.code = p THEN OnCpu(p) ELSE OnStack(p)

Co == INSTANCE Coroutines WITH
        First <- 1, Gone <- Gone,
        Start <- [p \in Procs |-> StartContext(p)],
        running <- IF pc = Fault THEN -1 ELSE pc.code,
        ctx <- [p \in Procs |-> Context(p)]

(* Every process, whatever it does between two yields and however deep in   *)
(* its own calls it yields, is resumed where it left off, with the          *)
(* registers and the frames it had, and the end of either one leads back to *)
(* main and never into a process again.  (setup_stack2's layout, the        *)
(* pushes and pops of switch_to and the pointers s, s1 and s2 agree.)       *)
ImplementsCoroutines == Co!CoSpec

(* The program ends: main prints "done" after some process called uexit, or *)
(* could not be set up.                                                     *)
MainFinishes == <>(status # "running")
=============================================================================
