------------------------------ MODULE DbServer ------------------------------
(* The server of project2/dbserver.c: the listener, the workers and main    *)
(* around the work queue, in one process with one descriptor table.  The    *)
(* queue is FifoQueue, which WorkQueue implements; a database call is any   *)
(* of the two answers Database can give.  Clients connect, send one request *)
(* each and wait; accept and the clients are modelled from their use.       *)
EXTENDS Integers, Sequences, FiniteSets

CONSTANTS Clients,
          Kinds,     \* what clients send: "R", "W", "D", "Q", an invalid operation
                     \* "bad", or "hangup": they disconnect without a request
          Consumers, \* worker threads
          Fds,       \* descriptor numbers available, the listening socket's included
          Listen,    \* the number socket() gave the listening socket
          NULL

ASSUME ServerAssumption ==
  /\ Kinds \subseteq {"R", "W", "D", "Q", "bad", "hangup"}
  /\ Fds \subseteq Nat /\ Listen \in Fds
  /\ NULL \notin Clients \cup Fds \cup {-1} /\ NULL \notin {"listen", "K", "X"}
  /\ "listen" \notin Clients

VARIABLES
  shutdown_flag,      \* dbserver.c's flag; queue.c has its own, closed
  queue, closed, got, \* the work queue, and each worker's fd
  fds,                \* the process's descriptor table
  backlog,            \* connections waiting for accept
  kind, reply,        \* per client: what it sends, and the answer it received
  listener, lfd,      \* the listener's position and its local fd
  worker, conn, ans,  \* each worker's position, the client it read from, its answer
  main,               \* main's position
  stat,               \* the request counters
  misclosed           \* history: has a worker's second close of a number ended
                      \* a connection accepted since the first one?

vars == <<shutdown_flag, queue, closed, got, fds, backlog, kind, reply, listener, lfd,
          worker, conn, ans, main, stat, misclosed>>
clients == <<backlog, kind, reply>>
workers == <<worker, conn, ans, stat, misclosed>>
Fifo == INSTANCE FifoQueue
fifo == <<queue, closed, got>>

Running == main # "exited"
Closed(f) == [fds EXCEPT ![f] = NULL]    \* EBADF, and no change, if f is not open
LowestFree == CHOOSE f \in Fds : fds[f] = NULL /\ \A g \in Fds : fds[g] = NULL => f <= g

Init == /\ shutdown_flag = FALSE
        /\ Fifo!FifoInit
        /\ fds = [f \in Fds |-> IF f = Listen THEN "listen" ELSE NULL]
        /\ backlog = <<>>
        /\ kind \in [Clients -> Kinds]
        /\ reply = [c \in Clients |-> "none"]
        /\ listener = "loop" /\ lfd = NULL
        /\ worker = [w \in Consumers |-> "dequeue"]
        /\ conn = [w \in Consumers |-> NULL]
        /\ ans = [w \in Consumers |-> NULL]
        /\ main = "loop"
        /\ stat = [s \in {"R", "W", "D", "failed"} |-> 0]
        /\ misclosed = FALSE

\* The listening socket lives while its number is open or accept is blocked in it.
Listening == fds[Listen] = "listen" \/ listener = "blocked"

Connect(c) ==
  /\ Running
  /\ reply[c] = "none"
  /\ reply' = [reply EXCEPT ![c] = IF Listening THEN "waiting" ELSE "refused"]
  /\ backlog' = IF Listening THEN Append(backlog, c) ELSE backlog
  /\ UNCHANGED <<shutdown_flag, fifo, fds, kind, listener, lfd, workers, main>>
----------------------------------------------------------------------------
(* listener_thread *)

ListenerLoop ==
  /\ Running /\ listener = "loop"
  /\ listener' = IF shutdown_flag THEN "leave" ELSE "accept"
  /\ UNCHANGED <<shutdown_flag, fifo, fds, clients, lfd, workers, main>>

\* accept(listener_sock_fd): EBADF if main has closed it, otherwise it blocks.
AcceptCall ==
  /\ Running /\ listener = "accept"
  /\ listener' = IF fds[Listen] = "listen" THEN "blocked" ELSE "loop"
  /\ UNCHANGED <<shutdown_flag, fifo, fds, clients, lfd, workers, main>>

\* Mutant: the listener queues what accept returned without looking at it.
AcceptUnchecked == listener' = "enqueue" /\ lfd' = -1 /\ UNCHANGED <<fds, backlog>>
AcceptFailed == listener' = "loop" /\ UNCHANGED <<fds, lfd, backlog>>     \* EMFILE

\* A close of the listening socket does not wake a thread blocked in accept.
AcceptReturn ==
  /\ Running /\ listener = "blocked" /\ backlog # <<>>
  /\ IF \A f \in Fds : fds[f] # NULL
       THEN AcceptFailed
       ELSE /\ lfd' = LowestFree
            /\ fds' = [fds EXCEPT ![LowestFree] = Head(backlog)]
            /\ backlog' = Tail(backlog)
            /\ listener' = "enqueue"
  /\ UNCHANGED <<shutdown_flag, fifo, kind, reply, workers, main>>

Enqueue ==
  /\ Running /\ listener = "enqueue"
  /\ Fifo!Put(lfd)
  /\ lfd' = NULL
  /\ listener' = "loop"
  /\ UNCHANGED <<shutdown_flag, fds, clients, workers, main>>

\* The number main may have closed before, and accept may have handed out again.
ListenerLeave ==
  /\ Running /\ listener = "leave"
  /\ fds' = Closed(Listen)
  /\ listener' = "exit"
  /\ UNCHANGED <<shutdown_flag, fifo, clients, lfd, workers, main>>
----------------------------------------------------------------------------
(* worker_thread and handle_work *)

Dequeue(w) ==
  /\ Running /\ worker[w] = "dequeue"
  /\ \/ Fifo!Take(w) /\ worker' = [worker EXCEPT ![w] = "read"]
     \/ Fifo!Stop(w) /\ worker' = [worker EXCEPT ![w] = "exit"]
  /\ UNCHANGED <<shutdown_flag, fds, clients, listener, lfd, conn, ans, main, stat, misclosed>>

\* The client hung up, or the descriptor is no longer open: handle_work closes
\* it, and worker_thread will close the number again, whatever it stands for then.
ReadFails(w) ==
  /\ Running /\ worker[w] = "read"
  /\ \/ fds[got[w]] = NULL
     \/ fds[got[w]] \in Clients /\ kind[fds[got[w]]] = "hangup"
  /\ fds' = Closed(got[w])
  /\ worker' = [worker EXCEPT ![w] = "count_failed"]
  /\ UNCHANGED <<shutdown_flag, fifo, clients, listener, lfd, conn, ans, main, stat, misclosed>>

CountFailed(w) ==
  /\ Running /\ worker[w] = "count_failed"
  /\ stat' = [stat EXCEPT !["failed"] = @ + 1]
  /\ worker' = [worker EXCEPT ![w] = "close"]
  /\ UNCHANGED <<shutdown_flag, fifo, fds, clients, listener, lfd, conn, ans, main, misclosed>>

\* Mutant: the connection is closed as soon as the request has been read.
CloseAfterRead(w) == fds' = Closed(got[w])
KeepOpen(w) == UNCHANGED fds

\* The request is read and executed; an invalid operation is always refused.
ReadRequest(w) ==
  /\ Running /\ worker[w] = "read"
  /\ fds[got[w]] \in Clients
  /\ LET c == fds[got[w]] IN
     /\ kind[c] \in {"R", "W", "D", "bad"}
     /\ conn' = [conn EXCEPT ![w] = c]
     /\ \E a \in IF kind[c] = "bad" THEN {"X"} ELSE {"K", "X"} : ans' = [ans EXCEPT ![w] = a]
  /\ KeepOpen(w)
  /\ worker' = [worker EXCEPT ![w] = "respond"]
  /\ UNCHANGED <<shutdown_flag, fifo, clients, listener, lfd, main, stat, misclosed>>

\* Mutant: a failed operation returns before the response is written.
SendOnlySuccess(w) ==
  reply' = IF fds[got[w]] \in Clients /\ ans[w] = "K" THEN [reply EXCEPT ![fds[got[w]]] = ans[w]] ELSE reply
\* write goes to whatever connection the number now stands for.
Send(w) ==
  reply' = IF fds[got[w]] \in Clients THEN [reply EXCEPT ![fds[got[w]]] = ans[w]] ELSE reply

Respond(w) ==
  /\ Running /\ worker[w] = "respond"
  /\ Send(w)
  /\ worker' = [worker EXCEPT ![w] = "count"]
  /\ UNCHANGED <<shutdown_flag, fifo, fds, backlog, kind, listener, lfd, conn, ans, main, stat, misclosed>>

Count(w) ==
  /\ Running /\ worker[w] = "count"
  /\ stat' = [s \in DOMAIN stat |->
                IF s = kind[conn[w]] \/ (s = "failed" /\ ans[w] = "X") THEN stat[s] + 1 ELSE stat[s]]
  /\ worker' = [worker EXCEPT ![w] = "close"]
  /\ UNCHANGED <<shutdown_flag, fifo, fds, clients, listener, lfd, conn, ans, main, misclosed>>

\* handle_work has closed the connection, for want of a request.
HasClosed(w) == worker[w] = "count_failed" \/ (worker[w] = "close" /\ conn[w] = NULL)

\* Mutant: worker_thread leaves the connection open.
NoClose(w) == UNCHANGED fds
WorkerCloses(w) == fds' = Closed(got[w])

CloseConnection(w) ==
  /\ Running /\ worker[w] = "close"
  /\ WorkerCloses(w)
  /\ Fifo!Done(w)
  /\ worker' = [worker EXCEPT ![w] = "dequeue"]
  /\ conn' = [conn EXCEPT ![w] = NULL]
  /\ ans' = [ans EXCEPT ![w] = NULL]
  /\ misclosed' = (misclosed \/ (HasClosed(w) /\ fds[got[w]] # NULL))
  /\ UNCHANGED <<shutdown_flag, clients, listener, lfd, main, stat>>

\* queue_cleanup: every queued connection is closed under the queue's mutex.
DiscardQueue ==
  /\ fds' = [f \in Fds |-> IF \E i \in 1..Len(queue) : queue[i] = f THEN NULL ELSE fds[f]]
  /\ queue' = <<>>
  /\ UNCHANGED <<closed, got>>

\* Mutant: the worker returns instead of ending the process.
WorkerReturns(w) == worker' = [worker EXCEPT ![w] = "exit"] /\ UNCHANGED main
ExitProcess(w) == main' = "exited" /\ UNCHANGED worker

\* 'Q': flag, close, queue_shutdown, queue_cleanup, exit(0).
QuitRequest(w) ==
  /\ Running
  /\ \/ /\ worker[w] = "read" /\ fds[got[w]] \in Clients /\ kind[fds[got[w]]] = "Q"
        /\ shutdown_flag' = TRUE
        /\ fds' = Closed(got[w])
        /\ worker' = [worker EXCEPT ![w] = "q_shutdown"]
        /\ UNCHANGED <<fifo, main>>
     \/ /\ worker[w] = "q_shutdown" /\ Fifo!Close
        /\ worker' = [worker EXCEPT ![w] = "q_cleanup"]
        /\ UNCHANGED <<shutdown_flag, fds, main>>
     \/ /\ worker[w] = "q_cleanup" /\ DiscardQueue
        /\ worker' = [worker EXCEPT ![w] = "q_exit"]
        /\ UNCHANGED <<shutdown_flag, main>>
     \/ /\ worker[w] = "q_exit" /\ ExitProcess(w)
        /\ UNCHANGED <<shutdown_flag, fifo, fds>>
  /\ UNCHANGED <<clients, listener, lfd, conn, ans, stat, misclosed>>
----------------------------------------------------------------------------
(* main *)

\* "quit": flag, close of the listening socket, queue_shutdown, queue_cleanup, the joins.
MainQuit ==
  /\ \/ /\ main = "loop" /\ shutdown_flag' = TRUE
        /\ main' = "close_listener" /\ UNCHANGED <<fifo, fds>>
     \/ /\ main = "close_listener" /\ fds' = Closed(Listen)
        /\ main' = "shutdown" /\ UNCHANGED <<shutdown_flag, fifo>>
     \/ /\ main = "shutdown" /\ Fifo!Close
        /\ main' = "cleanup" /\ UNCHANGED <<shutdown_flag, fds>>
     \/ /\ main = "cleanup" /\ DiscardQueue
        /\ main' = "join" /\ UNCHANGED shutdown_flag
  /\ UNCHANGED <<clients, listener, lfd, workers>>

\* The loop ends at end of input, or because a 'Q' worker has set the flag.
MainInputEnds ==
  /\ main = "loop"
  /\ main' = "join"
  /\ UNCHANGED <<shutdown_flag, fifo, fds, clients, listener, lfd, workers>>

MainJoin ==
  /\ main = "join"
  /\ listener = "exit" /\ \A w \in Consumers : worker[w] = "exit"
  /\ main' = "exited"
  /\ UNCHANGED <<shutdown_flag, fifo, fds, clients, listener, lfd, workers>>

Listener == ListenerLoop \/ AcceptCall \/ AcceptReturn \/ Enqueue \/ ListenerLeave
Worker(w) == \/ Dequeue(w) \/ ReadFails(w) \/ CountFailed(w) \/ ReadRequest(w) \/ Respond(w)
             \/ Count(w) \/ CloseConnection(w) \/ QuitRequest(w)
Main == MainQuit \/ MainInputEnds \/ MainJoin

Next == \/ \E c \in Clients : Connect(c)
        \/ Listener
        \/ \E w \in Consumers : Worker(w)
        \/ Main

Spec == Init /\ [][Next]_vars

(* Threads that can run do.  Nothing makes clients connect, and nothing     *)
(* makes the operator type "quit" or end the input; once typed, main goes   *)
(* through the steps of its branch.                                         *)
FairSpec == /\ Spec
            /\ WF_vars(Listener)
            /\ \A w \in Consumers : WF_vars(Worker(w))
            /\ WF_vars(main # "loop" /\ Main)
----------------------------------------------------------------------------
TypeOK ==
  /\ listener \in {"loop", "accept", "blocked", "enqueue", "leave", "exit"}
  /\ worker \in [Consumers -> {"dequeue", "read", "count_failed", "respond", "count", "close",
                              "q_shutdown", "q_cleanup", "q_exit", "exit"}]
  /\ main \in {"loop", "close_listener", "shutdown", "cleanup", "join", "exited"}
  /\ shutdown_flag \in BOOLEAN /\ closed \in BOOLEAN
  /\ queue \in Seq(Fds)
  /\ got \in [Consumers -> Fds \cup {NULL, -1}]
  /\ fds \in [Fds -> Clients \cup {"listen", NULL}]
  /\ backlog \in Seq(Clients)
  /\ kind \in [Clients -> Kinds]
  /\ reply \in [Clients -> {"none", "waiting", "refused", "K", "X"}]
  /\ lfd \in Fds \cup {NULL}
  /\ conn \in [Consumers -> Clients \cup {NULL}]
  /\ ans \in [Consumers -> {"K", "X", NULL}]
  /\ stat \in [{"R", "W", "D", "failed"} -> Nat]
  /\ misclosed \in BOOLEAN

\* Workers in the middle of a request, which have not closed their connection.
Busy == {w \in Consumers : got[w] \in Fds /\ ~HasClosed(w)}

(* Every open connection is in exactly one place: the listener's hand, one  *)
(* queue entry, or one worker, from accept to the first close, with         *)
(* descriptor numbers reused by accept.  It holds until a shutdown, and     *)
(* only as long as no second close (dbserver.c:73 after :88) has hit a      *)
(* number that accept had reused: it then closes somebody's connection, and *)
(* the number can be handed out to a second holder.                         *)
ConnectionOwnedOnce ==
  ~shutdown_flag /\ ~misclosed =>
    \A f \in Fds : fds[f] \in Clients =>
      Cardinality({w \in Busy : got[w] = f}) + Cardinality({i \in 1..Len(queue) : queue[i] = f})
        + (IF lfd = f THEN 1 ELSE 0) = 1

(* A worker's answer reaches the client whose request it executed, or       *)
(* nobody: the number it holds does not come to stand for another           *)
(* connection, also during a shutdown.  After a second close of a reused    *)
(* number it can.                                                           *)
AnswerToRequester ==
  ~misclosed => \A w \in Consumers : worker[w] = "respond" => fds[got[w]] \in {conn[w], NULL}

(* "Perform the operation, then write a header back [...] Finally close the *)
(* connection": until the server shuts down, the connection of a client     *)
(* that sent a request is not closed before the request was answered.  The  *)
(* code does not keep this, see AnsweredBeforeClose.                        *)
RequestsAnswered ==
  ~shutdown_flag =>
    \A c \in Clients :
      reply[c] = "waiting" /\ kind[c] \notin {"hangup", "Q"}
        => \/ \E f \in Fds : fds[f] = c
           \/ \E i \in 1..Len(backlog) : backlog[i] = c

(* RequestsAnswered, as long as no second close (dbserver.c:73 after :88)   *)
(* has hit a number that accept had reused, whoever hangs up.               *)
AnsweredBeforeClose == ~misclosed => RequestsAnswered

(* Every client that connects with a request is eventually answered, until  *)
(* a shutdown or a second close that ends another connection; clients that  *)
(* hang up and an accept that fails for want of descriptors do not starve   *)
(* it.                                                                      *)
ClientsAnswered ==
  \A c \in Clients :
    (reply[c] = "waiting" /\ kind[c] \notin {"hangup", "Q"})
      ~> (reply[c] # "waiting" \/ shutdown_flag \/ misclosed)

(* No descriptor leaks: an accepted connection is eventually closed, also   *)
(* when its client disconnected, until a shutdown.                          *)
ConnectionsClosed ==
  \A c \in Clients : (\E f \in Fds : fds[f] = c) ~> (shutdown_flag \/ ~\E f \in Fds : fds[f] = c)

(* A 'Q' request that a worker reads ends the process. *)
QuitRequestExits ==
  (\E w \in Consumers : worker[w] = "q_shutdown") ~> main = "exited"

(* "The quit command should close the listener socket and call exit(0)":    *)
(* once "quit" has been read the process ends.                              *)
QuitCommandExits == main = "close_listener" ~> main = "exited"
=============================================================================
