----------------------------- MODULE WorkQueue -----------------------------
(* The work queue of project2/queue.c: a singly linked list of heap cells   *)
(* guarded by queue_mutex, with one condition variable, called by the       *)
(* listener (enqueue_work), the workers (dequeue_work) and the threads that *)
(* end the server (queue_shutdown, then queue_cleanup).                     *)
(*                                                                          *)
(* A critical section is one atomic action, except queue_cleanup's, which   *)
(* is one action per loop iteration: a controller at "cleanup" is the       *)
(* holder of queue_mutex, and MutexFree guards every other section.         *)
EXTENDS Integers, Sequences, FiniteSets

CONSTANTS Producers,    \* threads running the listener's loop
          Consumers,    \* threads running the worker's loop
          Controllers,  \* threads that shut the queue down (main, a 'Q' worker)
          Cells,        \* addresses malloc can return
          Fds,          \* descriptors accept can return
          NULL

ASSUME ConstantsAssumption ==
  /\ NULL \notin Cells
  /\ NULL \notin Fds \cup {-1}
  /\ Fds \subseteq Nat
  /\ Producers \cap Consumers = {}
  /\ Producers \cap Controllers = {}
  /\ Consumers \cap Controllers = {}
  /\ IsFiniteSet(Consumers)

VARIABLES
  queue_head, queue_tail,   \* ends of the list, NULL when empty
  queued_requests,          \* the counter queue_length returns
  shutdown_flag,
  next, sock_fd,            \* the fields of every heap cell
  allocated,                \* cells malloc has handed out and free not taken back
  pc,                       \* where each thread is
  item,                     \* enqueue_work's local cell, per producer
  fd,                       \* the caller's local descriptor, per thread
  open,                     \* descriptors open in the process
  order,                    \* history: the cells linked and not yet unlinked, in order
  misclosed                 \* history: has a worker's second close of a descriptor
                            \* ended a connection accepted in between?

vars == <<queue_head, queue_tail, queued_requests, shutdown_flag, next, sock_fd,
          allocated, pc, item, fd, open, order, misclosed>>
list == <<queue_head, queue_tail, queued_requests, shutdown_flag, next, sock_fd, order>>

Threads == Producers \cup Consumers \cup Controllers
Waiters == {c \in Consumers : pc[c] = "wait"}     \* blocked in pthread_cond_wait
Woken   == {c \in Consumers : pc[c] = "woken"}    \* signalled, on the way back to the mutex
MutexFree == \A m \in Controllers : pc[m] # "cleanup"

Init == /\ queue_head = NULL /\ queue_tail = NULL
        /\ queued_requests = 0
        /\ shutdown_flag = FALSE
        /\ next = [i \in Cells |-> NULL] /\ sock_fd = [i \in Cells |-> NULL]
        /\ allocated = {}
        /\ pc = [t \in Threads |-> "loop"]
        /\ item = [p \in Producers |-> NULL]
        /\ fd = [t \in Producers \cup Consumers |-> NULL]
        /\ open = {}
        /\ order = <<>>
        /\ misclosed = FALSE
----------------------------------------------------------------------------
(* The listener's loop around enqueue_work. *)

ListenerLoop(p) ==
  /\ pc[p] = "loop"
  /\ pc' = [pc EXCEPT ![p] = IF shutdown_flag THEN "exit" ELSE "accept"]
  /\ UNCHANGED <<list, allocated, item, fd, open, misclosed>>

Accept(p) ==
  /\ pc[p] = "accept"
  /\ \E f \in Fds \ open : fd' = [fd EXCEPT ![p] = f] /\ open' = open \cup {f}
  /\ pc' = [pc EXCEPT ![p] = "enqueue"]
  /\ UNCHANGED <<list, allocated, item, misclosed>>

\* EMFILE, or the listening socket was closed: perror and round the loop again.
AcceptFails(p) ==
  /\ pc[p] = "accept"
  /\ pc' = [pc EXCEPT ![p] = "loop"]
  /\ UNCHANGED <<list, allocated, item, fd, open, misclosed>>

\* Mutant: the refused connection is not closed.
RefuseLeaks(p) == UNCHANGED open
RefuseConnection(p) == open' = open \ {fd[p]}

EnqueueMallocFails(p) ==
  /\ pc[p] = "enqueue"
  /\ RefuseConnection(p)
  /\ fd' = [fd EXCEPT ![p] = NULL]
  /\ pc' = [pc EXCEPT ![p] = "loop"]
  /\ UNCHANGED <<list, allocated, item, misclosed>>

NextNull(i) == next' = [next EXCEPT ![i] = NULL]

EnqueueMalloc(p) ==
  /\ pc[p] = "enqueue"
  /\ \E i \in Cells \ allocated :
       /\ allocated' = allocated \cup {i}
       /\ item' = [item EXCEPT ![p] = i]
       /\ sock_fd' = [sock_fd EXCEPT ![i] = fd[p]]
       /\ NextNull(i)
  /\ pc' = [pc EXCEPT ![p] = "link"]
  /\ UNCHANGED <<queue_head, queue_tail, queued_requests, shutdown_flag, fd, open, order, misclosed>>

\* Mutants: signal only the first enqueue into an empty list; never signal.
SignalOnlyIfEmpty(p) ==
  IF Waiters = {} \/ queue_tail # NULL THEN pc' = [pc EXCEPT ![p] = "loop"]
  ELSE \E w \in Waiters : pc' = [pc EXCEPT ![p] = "loop", ![w] = "woken"]
NoSignal(p) == pc' = [pc EXCEPT ![p] = "loop"]

\* pthread_cond_signal wakes one waiter if there is one; p then leaves enqueue_work.
SignalAndReturn(p) ==
  IF Waiters = {} THEN pc' = [pc EXCEPT ![p] = "loop"]
  ELSE \E w \in Waiters : pc' = [pc EXCEPT ![p] = "loop", ![w] = "woken"]

\* Mutant: queued_requests++ forgotten.
CountUpForgotten == UNCHANGED queued_requests
CountUp == queued_requests' = queued_requests + 1

EnqueueLink(p) ==
  /\ pc[p] = "link"
  /\ MutexFree
  /\ IF queue_tail = NULL
       THEN queue_head' = item[p] /\ UNCHANGED next
       ELSE next' = [next EXCEPT ![queue_tail] = item[p]] /\ UNCHANGED queue_head
  /\ queue_tail' = item[p]
  /\ CountUp
  /\ order' = Append(order, item[p])
  /\ SignalAndReturn(p)
  /\ item' = [item EXCEPT ![p] = NULL]
  /\ fd' = [fd EXCEPT ![p] = NULL]
  /\ UNCHANGED <<shutdown_flag, sock_fd, allocated, open, misclosed>>
----------------------------------------------------------------------------
(* The worker's loop around dequeue_work. *)

InDequeue(c) == pc[c] \in {"loop", "woken"} /\ MutexFree

DequeueWait(c) ==
  /\ InDequeue(c)
  /\ queue_head = NULL
  /\ ~shutdown_flag
  /\ pc' = [pc EXCEPT ![c] = "wait"]
  /\ UNCHANGED <<list, allocated, item, fd, open, misclosed>>

\* POSIX lets pthread_cond_wait return without a signal.
SpuriousWakeup(c) ==
  /\ pc[c] = "wait"
  /\ pc' = [pc EXCEPT ![c] = "woken"]
  /\ UNCHANGED <<list, allocated, item, fd, open, misclosed>>

\* Mutant: a shutdown ends dequeue_work without draining the list.
ShutdownSeen == shutdown_flag
ShutdownAndDrained == shutdown_flag /\ queue_head = NULL

DequeueShutdown(c) ==
  /\ InDequeue(c)
  /\ ShutdownAndDrained
  /\ fd' = [fd EXCEPT ![c] = -1]
  /\ pc' = [pc EXCEPT ![c] = "exit"]
  /\ UNCHANGED <<list, allocated, item, open, misclosed>>

\* Mutant: the cell is unlinked and not freed.
UnlinkLeaks ==
  /\ queue_head' = next[queue_head]
  /\ order' = Tail(order)
  /\ UNCHANGED <<shutdown_flag, next, sock_fd, item, allocated>>

\* Unlinking the head cell and freeing it, as dequeue_work and queue_cleanup do.
UnlinkHead ==
  /\ queue_head' = next[queue_head]
  /\ allocated' = allocated \ {queue_head}
  /\ order' = Tail(order)
  /\ UNCHANGED <<shutdown_flag, next, sock_fd, item>>

\* Mutant: queue_tail keeps the cell that was just freed.
TailDangles == UNCHANGED queue_tail
TailAfterTake == queue_tail' = IF next[queue_head] = NULL THEN NULL ELSE queue_tail

\* Mutant: queued_requests-- forgotten.
CountDownForgotten == UNCHANGED queued_requests
CountDown == queued_requests' = queued_requests - 1

DequeueTake(c) ==
  /\ InDequeue(c)
  /\ queue_head # NULL
  /\ UnlinkHead
  /\ TailAfterTake
  /\ CountDown
  /\ fd' = [fd EXCEPT ![c] = sock_fd[queue_head]]
  /\ pc' = [pc EXCEPT ![c] = "serve"]
  /\ UNCHANGED <<open, misclosed>>

\* handle_work cannot read a request: it closes the connection itself and returns.
ReadFails(c) ==
  /\ pc[c] = "serve"
  /\ open' = open \ {fd[c]}
  /\ pc' = [pc EXCEPT ![c] = "failed"]
  /\ UNCHANGED <<list, allocated, item, fd, misclosed>>

\* The close in worker_thread's loop, of whatever the number now stands for.
CloseConnection(c) ==
  /\ pc[c] \in {"serve", "failed"}
  /\ open' = open \ {fd[c]}
  /\ misclosed' = (misclosed \/ (pc[c] = "failed" /\ fd[c] \in open))
  /\ fd' = [fd EXCEPT ![c] = NULL]
  /\ pc' = [pc EXCEPT ![c] = "loop"]
  /\ UNCHANGED <<list, allocated, item>>

Serve(c) == ReadFails(c) \/ CloseConnection(c)
----------------------------------------------------------------------------
(* Ending the server. *)

\* Mutant: the flag is set and nobody is woken.
NoBroadcast(m) == pc' = [pc EXCEPT ![m] = "shut"]
Broadcast(m) ==
  pc' = [t \in Threads |-> IF t = m THEN "shut" ELSE IF t \in Waiters THEN "woken" ELSE pc[t]]

QueueShutdown(m) ==
  /\ pc[m] = "loop"
  /\ MutexFree
  /\ shutdown_flag' = TRUE
  /\ Broadcast(m)
  /\ UNCHANGED <<queue_head, queue_tail, queued_requests, next, sock_fd, allocated, item, fd, open, order, misclosed>>

CleanupLock(m) ==
  /\ pc[m] = "shut"
  /\ MutexFree
  /\ pc' = [pc EXCEPT ![m] = "cleanup"]
  /\ UNCHANGED <<list, allocated, item, fd, open, misclosed>>

CleanupStep(m) ==
  /\ pc[m] = "cleanup"
  /\ queue_head # NULL
  /\ UnlinkHead
  /\ open' = open \ {sock_fd[queue_head]}
  /\ UNCHANGED <<queue_tail, queued_requests, pc, fd, misclosed>>

CleanupUnlock(m) ==
  /\ pc[m] = "cleanup"
  /\ queue_head = NULL
  /\ queue_tail' = NULL
  /\ pc' = [pc EXCEPT ![m] = "exit"]
  /\ UNCHANGED <<queue_head, queued_requests, shutdown_flag, next, sock_fd, allocated, item, fd, open, order, misclosed>>

Producer(p) == \/ ListenerLoop(p) \/ Accept(p) \/ AcceptFails(p)
               \/ EnqueueMallocFails(p) \/ EnqueueMalloc(p) \/ EnqueueLink(p)
Dequeue(c) == DequeueWait(c) \/ DequeueShutdown(c) \/ DequeueTake(c)
Consumer(c) == Dequeue(c) \/ SpuriousWakeup(c) \/ Serve(c)
Controller(m) == QueueShutdown(m) \/ CleanupLock(m) \/ CleanupStep(m) \/ CleanupUnlock(m)

Next == \/ \E p \in Producers : Producer(p)
        \/ \E c \in Consumers : Consumer(c)
        \/ \E m \in Controllers : Controller(m)
        \/ (\A t \in Threads : pc[t] = "exit") /\ UNCHANGED vars   \* all joined

Spec == Init /\ [][Next]_vars

(* A thread that can run does, queue_mutex is never held for ever, and the  *)
(* requests a worker serves end.  Nothing makes connections arrive.         *)
FairSpec == /\ Spec
            /\ \A c \in Consumers : WF_vars(Dequeue(c)) /\ WF_vars(Serve(c))
            /\ \A m \in Controllers : WF_vars(CleanupLock(m) \/ CleanupStep(m) \/ CleanupUnlock(m))
----------------------------------------------------------------------------
Locations == {"loop", "accept", "enqueue", "link", "wait", "woken", "serve",
              "failed", "shut", "cleanup", "exit"}

TypeOK ==
  /\ queue_head \in Cells \cup {NULL} /\ queue_tail \in Cells \cup {NULL}
  /\ queued_requests \in Nat
  /\ shutdown_flag \in BOOLEAN
  /\ next \in [Cells -> Cells \cup {NULL}]
  /\ sock_fd \in [Cells -> Fds \cup {NULL}]
  /\ allocated \subseteq Cells
  /\ pc \in [Threads -> Locations]
  /\ item \in [Producers -> Cells \cup {NULL}]
  /\ fd \in [Producers \cup Consumers -> Fds \cup {NULL, -1}]
  /\ open \subseteq Fds
  /\ order \in Seq(Cells)
  /\ misclosed \in BOOLEAN

(* The linked list holds exactly the linked cells, in the order they were   *)
(* linked: queue_head is the oldest, next leads from each to the one after  *)
(* it and ends in NULL, and whenever the mutex is free queue_tail is the    *)
(* last cell or NULL.  (enqueue_work, dequeue_work and queue_cleanup.)      *)
ListWellFormed ==
  LET n == Len(order) IN
  /\ queue_head = IF n = 0 THEN NULL ELSE order[1]
  /\ \A i \in 1..n : next[order[i]] = IF i = n THEN NULL ELSE order[i + 1]
  /\ (n # 0 \/ MutexFree) => queue_tail = IF n = 0 THEN NULL ELSE order[n]

\* Producers between malloc and linking.
Linking == {p \in Producers : pc[p] = "link"}

(* Memory safety: a cell is linked or in the hand of one producer exactly   *)
(* when it is allocated, never twice; no linked cell has been freed, and    *)
(* no unlinked one leaks (malloc at 30, free at 65 and 83).                 *)
CellsOwnedOnce ==
  /\ allocated = {order[i] : i \in 1..Len(order)} \cup {item[p] : p \in Linking}
  /\ \A i, j \in 1..Len(order) : order[i] = order[j] => i = j
  /\ \A p, q \in Linking : item[p] = item[q] => p = q
  /\ \A p \in Linking, i \in 1..Len(order) : item[p] # order[i]

(* The calling protocol the list relies on: a producer about to link owns   *)
(* an initialised cell (36-37) of the connection it accepted, a serving     *)
(* worker owns a connection, one controller at a time is inside             *)
(* queue_cleanup, and cleanup only ever follows queue_shutdown.             *)
ThreadProtocol ==
  /\ \A p \in Producers :
       /\ pc[p] \in {"loop", "accept", "enqueue", "link", "exit"}
       /\ pc[p] \in {"enqueue", "link"} => fd[p] \in Fds
       /\ pc[p] = "link" => /\ item[p] \in Cells
                            /\ sock_fd[item[p]] = fd[p]
                            /\ next[item[p]] = NULL
  /\ \A c \in Consumers :
       /\ pc[c] \in {"loop", "wait", "woken", "serve", "failed", "exit"}
       /\ pc[c] \in {"serve", "failed"} => fd[c] \in Fds
  /\ \A m \in Controllers :
       /\ pc[m] \in {"loop", "shut", "cleanup", "exit"}
       /\ pc[m] # "loop" => shutdown_flag
       /\ \A n \in Controllers : pc[m] = "cleanup" /\ pc[n] = "cleanup" => m = n
  /\ \A i \in 1..Len(order) : sock_fd[order[i]] \in Fds

\* Threads whose local variable holds a connection nobody else should touch.
Holders == {t \in Producers \cup Consumers : pc[t] \in {"enqueue", "link", "serve"}}
Held == {fd[t] : t \in Holders} \cup {sock_fd[order[i]] : i \in 1..Len(order)}

(* Every open connection has an owner - the listener, a list cell or a      *)
(* worker - that will close it: none leaks.  It has one owner only, and no  *)
(* owner a closed descriptor, so that nothing is served twice or closed by  *)
(* queue_cleanup while it is served, as long as no second close has hit a   *)
(* connection accepted in between: after a failed read handle_work closes   *)
(* the number (dbserver.c:88), accept may hand it out again, and the        *)
(* worker's loop closes it once more (73).                                  *)
ConnectionOwnedOnce ==
  /\ open \subseteq Held
  /\ ~misclosed =>
       /\ Held \subseteq open
       /\ \A t, u \in Holders : fd[t] = fd[u] => t = u
       /\ \A i, j \in 1..Len(order) : sock_fd[order[i]] = sock_fd[order[j]] => i = j
       /\ \A t \in Holders, i \in 1..Len(order) : fd[t] # sock_fd[order[i]]

(* No lost wakeup: while a worker sleeps in pthread_cond_wait, every queued *)
(* connection has a signalled worker of its own on the way to the mutex;    *)
(* and nobody sleeps once the queue is shut down.  (One signal per enqueue, *)
(* and a busy worker may take the connection a woken one was called for.)   *)
NoLostWakeup ==
  Waiters # {} => Len(order) <= Cardinality(Woken) /\ ~shutdown_flag

(* queue_length is the number of queued connections until the queue is shut *)
(* down, and never less than it afterwards.                                 *)
CounterExact ==
  /\ queued_requests >= Len(order)
  /\ ~shutdown_flag => queued_requests = Len(order)

(* The pointer structure implements the first-in first-out queue.           *)
Fifo == INSTANCE FifoQueue WITH
          queue <- [i \in 1..Len(order) |-> sock_fd[order[i]]],
          closed <- shutdown_flag,
          got <- [c \in Consumers |-> fd[c]]
ImplementsFifo == Fifo!FifoSpec

(* A linked connection is eventually taken by a worker or closed, unless    *)
(* every worker has already left.                                           *)
LinkedIsTaken ==
  \A i \in Cells :
    (\E k \in 1..Len(order) : order[k] = i)
      ~> \/ ~\E k \in 1..Len(order) : order[k] = i
         \/ \A c \in Consumers : pc[c] = "exit"

(* After queue_shutdown every worker's dequeue_work eventually returns -1,  *)
(* so that main's pthread_join of the workers returns.                      *)
ShutdownStopsWorkers ==
  shutdown_flag ~> \A c \in Consumers : pc[c] = "exit"
=============================================================================
