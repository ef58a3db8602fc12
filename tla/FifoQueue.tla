----------------------------- MODULE FifoQueue -----------------------------
(* What project2/queue.c promises its callers: one first-in first-out queue *)
(* of connections.  A consumer is told -1 only once the queue has been      *)
(* closed and nothing is left in it.  WorkQueue is shown to implement this. *)
EXTENDS Integers, Sequences

CONSTANTS Fds,        \* descriptors of accepted connections
          Consumers,  \* threads that call dequeue_work
          NULL        \* "holds no descriptor"

VARIABLES queue,   \* descriptors queued, oldest first
          closed,  \* has queue_shutdown been called?
          got      \* what each consumer's last dequeue_work returned

fifoVars == <<queue, closed, got>>

FifoInit == /\ queue = <<>>
            /\ closed = FALSE
            /\ got = [c \in Consumers |-> NULL]

Put(f) == /\ queue' = Append(queue, f)
          /\ UNCHANGED <<closed, got>>

Take(c) == /\ queue # <<>>
           /\ got' = [got EXCEPT ![c] = Head(queue)]
           /\ queue' = Tail(queue)
           /\ UNCHANGED closed

Stop(c) == /\ closed
           /\ queue = <<>>
           /\ got' = [got EXCEPT ![c] = -1]
           /\ UNCHANGED <<queue, closed>>

Done(c) == /\ got[c] \in Fds
           /\ got' = [got EXCEPT ![c] = NULL]
           /\ UNCHANGED <<queue, closed>>

Close == /\ closed' = TRUE
         /\ UNCHANGED <<queue, got>>

Discard == /\ closed
           /\ queue # <<>>
           /\ queue' = Tail(queue)
           /\ UNCHANGED <<closed, got>>

FifoNext == \/ \E f \in Fds : Put(f)
            \/ \E c \in Consumers : Take(c) \/ Stop(c) \/ Done(c)
            \/ Close
            \/ Discard

FifoSpec == FifoInit /\ [][FifoNext]_fifoVars
=============================================================================
