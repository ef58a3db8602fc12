----------------------------- MODULE Coroutines -----------------------------
(* What the task switcher of project1/part-3.c promises its two processes:  *)
(* one runs at a time, yields to the other, and finds its own context just  *)
(* as it left it.  When one of them ends both are given up and main goes on.*)
(* TaskSwitch is checked against this.                                      *)
EXTENDS Integers

CONSTANTS Procs,       \* the processes
          First,       \* the one main starts
          Start,       \* the context a process starts in: [at, regs, frame]
          Gone         \* no context any more

VARIABLES running,     \* 0 for main, or a process
          ctx          \* each process's position, registers and stack frames

coVars == <<running, ctx>>

CoInit == /\ running = 0
          /\ ctx = [p \in Procs |-> Start[p]]

Begin == /\ running = 0
         /\ ctx = [p \in Procs |-> Start[p]]
         /\ running' = First
         /\ UNCHANGED ctx

OthersKept(p) == \A q \in Procs \ {p} : ctx'[q] = ctx[q]

\* p computes: its registers, its stack and the next statement are its own.
Work(p) == /\ running = p
           /\ OthersKept(p)
           /\ ctx'[p].at = ctx[p].at + 1
           /\ UNCHANGED running

Yield(p) == /\ running = p
            /\ \E q \in Procs \ {p} : running' = q
            /\ ctx' = [ctx EXCEPT ![p].at = @ + 1]

Exit(p) == /\ running = p
           /\ running' = 0
           /\ ctx' = [q \in Procs |-> Gone]

CoNext == Begin \/ \E p \in Procs : Work(p) \/ Yield(p) \/ Exit(p)
CoSpec == CoInit /\ [][CoNext]_coVars
=============================================================================
