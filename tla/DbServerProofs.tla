--------------------------- MODULE DbServerProofs ---------------------------
(* Proofs about DbServer, for any number of clients, workers and            *)
(* descriptors.  A client that disconnects without a request has its        *)
(* connection closed twice, and accept may reuse the number in between: the *)
(* invariant holds until such a second close ends another connection, which *)
(* the history variable misclosed records.                                  *)
EXTENDS DbServer, TLAPS, FiniteSetTheorems, SequenceTheorems, WellFoundedInduction

\* Workers with a descriptor, and those that hold an accepted connection: the
\* others have closed it for want of a request.
Serving == {"read", "count_failed", "respond", "count", "close"}
Holding(w) == worker[w] \in {"read", "respond", "count"} \/ (worker[w] = "close" /\ conn[w] # NULL)
Places == 1..Len(queue)
\* Descriptor f is in somebody's hand.
Held(f) == \/ lfd = f
           \/ \E i \in Places : queue[i] = f
           \/ \E w \in Consumers : Holding(w) /\ got[w] = f

(* What dequeue_work returned to a worker, at each of its positions. *)
GotKept(w) ==
  /\ worker[w] = "dequeue" => got[w] = NULL
  /\ worker[w] \in Serving => got[w] \in Fds
  /\ worker[w] = "exit" => got[w] = -1
  /\ worker[w] \in {"q_shutdown", "q_cleanup", "q_exit", "exit"} => shutdown_flag

(* A worker past its read holds the connection whose request it read, or    *)
(* one closed under it at shutdown, and before closing has answered it.     *)
ConnKept(w) ==
  /\ worker[w] \in {"dequeue", "read", "count_failed"} => conn[w] = NULL
  /\ worker[w] \in {"respond", "count"} => conn[w] # NULL
  /\ worker[w] = "respond" => ans[w] \in {"K", "X"}
  /\ worker[w] \in {"respond", "count", "close"} /\ conn[w] # NULL => fds[got[w]] \in {conn[w], NULL}
  /\ worker[w] \in {"count", "close"} /\ conn[w] # NULL /\ ~shutdown_flag => reply[conn[w]] \in {"K", "X"}

Flags ==
  /\ closed => shutdown_flag
  /\ listener \in {"leave", "exit"} => shutdown_flag
  /\ main \in {"close_listener", "shutdown", "cleanup"} => shutdown_flag
  /\ lfd # NULL <=> listener = "enqueue"

(* No descriptor is in two hands. *)
OneHand ==
  /\ \A i, j \in Places : queue[i] = queue[j] => i = j
  /\ \A v, w \in Consumers : Holding(v) /\ Holding(w) /\ got[v] = got[w] => v = w
  /\ \A i \in Places, w \in Consumers : Holding(w) => got[w] # queue[i]
  /\ \A i \in Places : queue[i] # lfd
  /\ \A w \in Consumers : Holding(w) => got[w] # lfd

(* A descriptor in somebody's hand is an open connection, unless the        *)
(* listener has closed it on leaving, after which nothing reuses it.        *)
HeldOpen == \A f \in Fds : Held(f) => fds[f] \in Clients \/ (fds[f] = NULL /\ listener = "exit")
\* Until a shutdown no connection is forgotten.
OpenHeld == ~shutdown_flag => \A f \in Fds : fds[f] \in Clients => Held(f)

(* The listening socket keeps its number until main or the listener gives   *)
(* it up.                                                                   *)
ListenKept ==
  /\ \A f \in Fds : fds[f] = "listen" => f = Listen
  /\ \/ fds[Listen] = "listen"
     \/ listener = "exit"
     \/ main \notin {"loop", "close_listener"}

Inv == /\ TypeOK
       /\ \A w \in Consumers : GotKept(w) /\ ConnKept(w)
       /\ Flags /\ OneHand /\ HeldOpen /\ OpenHeld /\ ListenKept
       /\ RequestsAnswered

-----------------------------------------------------------------------------
(* The constants. *)
LEMMA ConstantFacts ==
  /\ Fds \subseteq Nat /\ Listen \in Fds
  /\ NULL \notin Clients /\ NULL \notin Fds /\ NULL # -1
  /\ NULL # "listen" /\ NULL # "K" /\ NULL # "X" /\ "listen" \notin Clients
<1>1. /\ Fds \subseteq Nat /\ Listen \in Fds
      /\ NULL \notin Clients \cup Fds \cup {-1} /\ NULL \notin {"listen", "K", "X"}
      /\ "listen" \notin Clients
  BY ServerAssumption, Zenon
<1> QED BY <1>1, Zenon

(* The type invariant, with the two sequences apart from everything else.   *)
Types ==
  /\ listener \in {"loop", "accept", "blocked", "enqueue", "leave", "exit"}
  /\ worker \in [Consumers -> {"dequeue", "read", "count_failed", "respond", "count", "close",
                              "q_shutdown", "q_cleanup", "q_exit", "exit"}]
  /\ main \in {"loop", "close_listener", "shutdown", "cleanup", "join", "exited"}
  /\ shutdown_flag \in BOOLEAN /\ closed \in BOOLEAN
  /\ got \in [Consumers -> Fds \cup {NULL, -1}]
  /\ fds \in [Fds -> Clients \cup {"listen", NULL}]
  /\ kind \in [Clients -> Kinds]
  /\ reply \in [Clients -> {"none", "waiting", "refused", "K", "X"}]
  /\ lfd \in Fds \cup {NULL}
  /\ conn \in [Consumers -> Clients \cup {NULL}]
  /\ ans \in [Consumers -> {"K", "X", NULL}]
Counters == stat \in [{"R", "W", "D", "failed"} -> Nat] /\ misclosed \in BOOLEAN
Queues == queue \in Seq(Fds) /\ backlog \in Seq(Clients)

(* The parts are the type invariant. *)
LEMMA TypeSplit == TypeOK <=> Types /\ Counters /\ Queues
BY Zenon DEF TypeOK, Types, Counters, Queues

(* A non-empty set of natural numbers has a smallest element. *)
LEMMA Smallest ==
  ASSUME NEW S \in SUBSET Nat, S # {}
  PROVE  \E n \in S : \A m \in S : n <= m
<1> DEFINE R == OpToRel(<, Nat)
<1>1. IsWellFoundedOn(R, Nat)
  BY NatLessThanWellFounded
<1>2. \A m, n \in Nat : m < n => <<m, n>> \in R
  BY DEF OpToRel
<1> HIDE DEF R
<1>3. PICK n \in S : \A m \in S : ~(<<m, n>> \in R)
  BY <1>1, WFMin
<1>4. ASSUME NEW m \in S PROVE n <= m
  <2>1. n \in Nat /\ m \in Nat
    OBVIOUS
  <2>2. ~(m < n)
    BY <1>2, <1>3, <2>1
  <2> QED BY <2>1, <2>2
<1> QED BY <1>4

(* accept returns a number that was free. *)
LEMMA LowestFreeFound ==
  ASSUME NEW f \in Fds, fds[f] = NULL
  PROVE  LowestFree \in Fds /\ fds[LowestFree] = NULL
<1> DEFINE S == {g \in Fds : fds[g] = NULL}
<1>1. S \in SUBSET Nat /\ S # {}
  BY ConstantFacts
<1>2. PICK n \in S : \A m \in S : n <= m
  BY <1>1, Smallest
<1>3. n \in Fds /\ fds[n] = NULL /\ \A g \in Fds : fds[g] = NULL => n <= g
  BY <1>2
<1> QED BY <1>3, Zenon DEF LowestFree

(* The worker keeps what it knows while others step, unless its connection  *)
(* is given to another client.                                              *)
LEMMA OtherWorker ==
  ASSUME Inv, NEW w \in Consumers,
         worker'[w] = worker[w], got'[w] = got[w], conn'[w] = conn[w], ans'[w] = ans[w],
         shutdown_flag => shutdown_flag',
         Holding(w) => fds'[got[w]] \in {fds[got[w]], NULL},
         \A c \in Clients : reply[c] \in {"K", "X"} => reply'[c] \in {"K", "X"}
  PROVE  GotKept(w)' /\ ConnKept(w)'
<1>1. GotKept(w) /\ ConnKept(w) /\ conn[w] \in Clients \cup {NULL}
  BY TypeSplit DEF Inv, Types
<1>2. GotKept(w)'
  BY <1>1 DEF GotKept, Holding, Serving
<1>3. ConnKept(w)'
  BY <1>1 DEF ConnKept, Holding, Serving
<1> QED BY <1>2, <1>3

(* Steps that move and close no descriptor. *)
LEMMA SameHands ==
  ASSUME Inv, queue' = queue, lfd' = lfd, fds' = fds,
         \A w \in Consumers : (Holding(w)' <=> Holding(w)) /\ (Holding(w) => got'[w] = got[w]),
         listener = "exit" => listener' = "exit",
         shutdown_flag => shutdown_flag',
         main \notin {"loop", "close_listener"} => main' \notin {"loop", "close_listener"}
  PROVE  OneHand' /\ HeldOpen' /\ OpenHeld' /\ ListenKept'
<1>1. Places' = Places
  BY DEF Places
<1>2. OneHand'
  BY <1>1 DEF Inv, OneHand
<1>3. \A f \in Fds : Held(f)' <=> Held(f)
  BY <1>1 DEF Held
<1> QED BY <1>2, <1>3 DEF Inv, HeldOpen, OpenHeld, ListenKept

(* A worker closes the connection it holds and lets go of it. *)
LEMMA HandCloses ==
  ASSUME Inv, NEW w \in Consumers, Holding(w), ~Holding(w)', fds' = Closed(got[w]),
         queue' = queue, lfd' = lfd, listener' = listener, main' = main,
         \A v \in Consumers : v # w => worker'[v] = worker[v] /\ got'[v] = got[v] /\ conn'[v] = conn[v],
         shutdown_flag => shutdown_flag'
  PROVE  OneHand' /\ HeldOpen' /\ OpenHeld' /\ ListenKept'
<1>1. Places' = Places
  BY DEF Places
<1>2. OneHand'
  BY <1>1 DEF Inv, OneHand, Holding
<1>3. got[w] \in Fds /\ fds \in [Fds -> Clients \cup {"listen", NULL}]
  BY TypeSplit DEF Inv, Types, GotKept, Holding, Serving
<1>4. Held(got[w]) /\ fds[got[w]] # "listen"
  BY <1>3, ConstantFacts DEF Held, Inv, HeldOpen
<1>5. fds'[got[w]] = NULL /\ \A f \in Fds : f # got[w] => fds'[f] = fds[f]
  BY <1>3 DEF Closed
<1>6. \A f \in Fds : Held(f)' => Held(f) /\ f # got[w]
  BY <1>1 DEF Held, Inv, OneHand, Holding
<1>7. \A f \in Fds : Held(f) /\ f # got[w] => Held(f)'
  BY <1>1 DEF Held, Holding
<1>8. HeldOpen' /\ OpenHeld'
  BY <1>3, <1>5, <1>6, <1>7, ConstantFacts DEF Inv, HeldOpen, OpenHeld
<1>9. ListenKept'
  BY <1>4, <1>5, ConstantFacts DEF Inv, ListenKept
<1> QED BY <1>2, <1>8, <1>9

(* Nothing is queued in an empty queue. *)
LEMMA EmptyQueue == \A s : s = <<>> => 1..Len(s) = {}
OBVIOUS

(* queue_cleanup closes what the queue holds. *)
LEMMA QueueCloses ==
  ASSUME Inv, DiscardQueue, shutdown_flag, shutdown_flag', lfd' = lfd, listener' = listener,
         \A w \in Consumers : (Holding(w)' <=> Holding(w)) /\ (Holding(w) => got'[w] = got[w]),
         main \notin {"loop", "close_listener"} => main' \notin {"loop", "close_listener"}
  PROVE  /\ OneHand' /\ HeldOpen' /\ OpenHeld' /\ ListenKept'
         /\ \A w \in Consumers : Holding(w) => fds'[got[w]] = fds[got[w]]
<1>1. Places' = {}
  <2>1. queue' = <<>>
    BY DEF DiscardQueue
  <2>2. 1..Len(queue') = {}
    BY <2>1, EmptyQueue, Zenon
  <2> QED BY <2>2, Zenon DEF Places
<1>2. OneHand'
  BY <1>1 DEF Inv, OneHand
<1>3. \A f \in Fds : fds'[f] = IF \E i \in Places : queue[i] = f THEN NULL ELSE fds[f]
  BY DEF DiscardQueue, Places
<1>4. \A f \in Fds : Held(f)' => Held(f) /\ ~\E i \in Places : queue[i] = f
  BY <1>1 DEF Held, Inv, OneHand
<1>5. HeldOpen'
  BY <1>3, <1>4 DEF Inv, HeldOpen
<1>6. \A f \in Fds : (\E i \in Places : queue[i] = f) => fds[f] # "listen"
  BY ConstantFacts DEF Inv, HeldOpen, Held
<1>7. ListenKept'
  BY <1>3, <1>6, ConstantFacts DEF Inv, ListenKept
<1>8. \A w \in Consumers : Holding(w) => fds'[got[w]] = fds[got[w]]
  <2>1. \A w \in Consumers : Holding(w) => got[w] \in Fds /\ \A i \in Places : queue[i] # got[w]
    BY DEF Inv, OneHand, GotKept, Holding, Serving
  <2> QED BY <1>3, <2>1
<1> QED BY <1>2, <1>5, <1>7, <1>8 DEF OpenHeld

(* The number of the listening socket is closed, once the listener leaves   *)
(* or main has read "quit".                                                 *)
LEMMA ListenCloses ==
  ASSUME Inv, fds' = Closed(Listen), shutdown_flag, shutdown_flag', queue' = queue, lfd' = lfd,
         worker' = worker, got' = got, conn' = conn,
         \/ listener' = "exit" /\ main' = main
         \/ listener' = listener /\ main = "close_listener" /\ main' = "shutdown"
  PROVE  OneHand' /\ HeldOpen' /\ OpenHeld' /\ ListenKept'
<1>1. Places' = Places /\ \A w \in Consumers : Holding(w)' <=> Holding(w)
  BY DEF Places, Holding
<1>2. OneHand'
  BY <1>1 DEF Inv, OneHand
<1>3. \A f \in Fds : Held(f)' <=> Held(f)
  BY <1>1 DEF Held
<1>4. /\ fds'[Listen] = NULL /\ \A f \in Fds : f # Listen => fds'[f] = fds[f]
  BY TypeSplit, ConstantFacts DEF Inv, Types, Closed
<1>5. listener' # "exit" => ~Held(Listen)
  BY ConstantFacts DEF Inv, HeldOpen, ListenKept
<1>6. HeldOpen'
  BY <1>3, <1>4, <1>5 DEF Inv, HeldOpen
<1>7. ListenKept'
  BY <1>4, ConstantFacts DEF Inv, ListenKept
<1> QED BY <1>2, <1>6, <1>7 DEF OpenHeld

(* Whoever waits for an answer keeps a connection or a place in the backlog.*)
LEMMA WaitingKept ==
  ASSUME Inv, kind' = kind, shutdown_flag => shutdown_flag',
         ~shutdown_flag' => \A c \in Clients :
           reply'[c] = "waiting" /\ kind[c] \notin {"hangup", "Q"} =>
             \/ \E i \in 1..Len(backlog') : backlog'[i] = c
             \/ /\ reply[c] = "waiting"
                /\ \A f \in Fds : fds[f] = c => fds'[f] = c
                /\ \A i \in 1..Len(backlog) : backlog[i] = c =>
                     \/ \E f \in Fds : fds'[f] = c
                     \/ \E j \in 1..Len(backlog') : backlog'[j] = c
  PROVE  RequestsAnswered'
BY DEF Inv, RequestsAnswered

-----------------------------------------------------------------------------
(* The invariant holds at the start. *)
LEMMA InvInit == Init => Inv
<1> SUFFICES ASSUME Init PROVE Inv
  OBVIOUS
<1>1. queue = <<>> /\ closed = FALSE /\ got = [w \in Consumers |-> NULL] /\ backlog = <<>>
  BY Zenon DEF Init, Fifo!FifoInit
<1>2. Places = {} /\ 1..Len(backlog) = {}
  BY <1>1, EmptyQueue, Zenon DEF Places
<1>3. Types /\ Counters
  BY <1>1, ConstantFacts DEF Init, Types, Counters
<1>4. Queues
  BY <1>1 DEF Queues
<1>5. \A w \in Consumers : worker[w] = "dequeue" /\ ~Holding(w)
  BY DEF Init, Holding, Serving
<1>6. \A w \in Consumers : GotKept(w) /\ ConnKept(w)
  BY <1>1, <1>5 DEF Init, GotKept, ConnKept, Holding, Serving
<1>7. Flags /\ lfd = NULL
  BY <1>1 DEF Init, Flags
<1>8. \A f \in Fds : ~Held(f)
  BY <1>2, <1>5, <1>7, ConstantFacts DEF Held
<1>9. OneHand
  BY <1>2, <1>5 DEF OneHand
<1>10. HeldOpen /\ OpenHeld /\ ListenKept
  BY <1>8, ConstantFacts DEF Init, HeldOpen, OpenHeld, ListenKept
<1>11. RequestsAnswered
  BY DEF Init, RequestsAnswered
<1> QED BY <1>3, <1>4, <1>6, <1>7, <1>9, <1>10, <1>11, TypeSplit DEF Inv

(* Clients connect. *)
LEMMA ConnectKeepsInv ==
  ASSUME Inv, NEW c \in Clients, Connect(c)
  PROVE  Inv'
<1>1. /\ reply[c] = "none" /\ reply' \in {[reply EXCEPT ![c] = "waiting"], [reply EXCEPT ![c] = "refused"]}
      /\ \/ reply' = [reply EXCEPT ![c] = "refused"] /\ backlog' = backlog
         \/ backlog' = Append(backlog, c)
      /\ shutdown_flag' = shutdown_flag /\ queue' = queue /\ closed' = closed /\ got' = got
      /\ fds' = fds /\ kind' = kind /\ listener' = listener /\ lfd' = lfd /\ worker' = worker
      /\ conn' = conn /\ ans' = ans /\ stat' = stat /\ misclosed' = misclosed /\ main' = main
  BY DEF Connect, fifo, workers
<1>t. Types /\ Counters /\ Queues
  BY TypeSplit DEF Inv
<1>2. Types' /\ Counters'
  BY <1>t, <1>1 DEF Types, Counters
<1>3. /\ Queues'
      /\ \A d \in Clients : (\E i \in 1..Len(backlog) : backlog[i] = d) =>
                              \E j \in 1..Len(backlog') : backlog'[j] = d
      /\ reply'[c] = "waiting" => \E j \in 1..Len(backlog') : backlog'[j] = c
  <2>1. CASE backlog' = Append(backlog, c)
    <3>1. /\ Len(backlog) \in Nat /\ Append(backlog, c) \in Seq(Clients)
          /\ Len(Append(backlog, c)) = Len(backlog) + 1
          /\ \A i \in 1..Len(backlog) : Append(backlog, c)[i] = backlog[i]
          /\ Append(backlog, c)[Len(backlog) + 1] = c
      BY <1>t, AppendProperties DEF Queues
    <3> QED BY <1>t, <1>1, <2>1, <3>1 DEF Queues
  <2>2. CASE reply' = [reply EXCEPT ![c] = "refused"] /\ backlog' = backlog
    <3>1. reply'[c] # "waiting"
      BY <1>t, <2>2 DEF Types
    <3> QED BY <1>t, <1>1, <2>2, <3>1 DEF Queues
  <2> QED BY <1>1, <2>1, <2>2
<1>4. \A d \in Clients : d # c => reply'[d] = reply[d]
  BY <1>t, <1>1 DEF Types
<1>5. \A w \in Consumers : GotKept(w)' /\ ConnKept(w)'
  BY <1>1, <1>4, OtherWorker
<1>6. Flags'
  BY <1>1 DEF Inv, Flags
<1>7. OneHand' /\ HeldOpen' /\ OpenHeld' /\ ListenKept'
  BY <1>1, SameHands DEF Holding
<1>8. RequestsAnswered'
  BY <1>1, <1>3, <1>4, WaitingKept
<1> QED BY <1>2, <1>3, <1>5, <1>6, <1>7, <1>8, TypeSplit, Zenon DEF Inv, TypeOK, Types, Counters, Queues

(* The listener. *)
LEMMA ListenerKeepsInv ==
  ASSUME Inv, Listener
  PROVE  Inv'
<1>c. /\ Fds \subseteq Nat /\ Listen \in Fds /\ NULL \notin Clients /\ NULL \notin Fds
      /\ "listen" \notin Clients /\ NULL # "listen"
  BY ConstantFacts
<1>t. Types /\ Counters /\ Queues
  BY TypeSplit DEF Inv
<1>p. ASSUME Types', Counters', Queues', \A w \in Consumers : GotKept(w)' /\ ConnKept(w)', Flags',
             OneHand' /\ HeldOpen' /\ OpenHeld' /\ ListenKept', RequestsAnswered'
      PROVE  Inv'
  BY <1>p, Zenon DEF Inv, TypeOK, Types, Counters, Queues
<1>1. ASSUME ListenerLoop \/ AcceptCall \/ (AcceptReturn /\ AcceptFailed) PROVE Inv'
  <2>1. /\ \/ listener = "loop" /\ listener' \in {"leave", "accept"} /\ (listener' = "leave" => shutdown_flag)
           \/ listener = "accept" /\ listener' \in {"blocked", "loop"}
           \/ listener = "blocked" /\ listener' = "loop"
        /\ shutdown_flag' = shutdown_flag /\ queue' = queue /\ closed' = closed /\ got' = got
        /\ fds' = fds /\ backlog' = backlog /\ kind' = kind /\ reply' = reply /\ lfd' = lfd
        /\ worker' = worker /\ conn' = conn /\ ans' = ans /\ stat' = stat /\ misclosed' = misclosed /\ main' = main
    BY <1>1 DEF ListenerLoop, AcceptCall, AcceptReturn, AcceptFailed, fifo, clients, workers
  <2>2. Types' /\ Counters' /\ Queues'
    BY <1>t, <2>1 DEF Types, Counters, Queues
  <2>3. \A w \in Consumers : GotKept(w)' /\ ConnKept(w)'
    BY <2>1, OtherWorker
  <2>4. Flags'
    BY <2>1 DEF Inv, Flags
  <2>5. OneHand' /\ HeldOpen' /\ OpenHeld' /\ ListenKept'
    BY <2>1, SameHands DEF Holding
  <2>6. RequestsAnswered'
    BY <2>1, WaitingKept
  <2> QED BY <1>p, <2>2, <2>3, <2>4, <2>5, <2>6
<1>2. ASSUME AcceptReturn, ~AcceptFailed PROVE Inv'
  <2>1. /\ listener = "blocked" /\ backlog # <<>> /\ ~\A f \in Fds : fds[f] # NULL
        /\ lfd' = LowestFree /\ fds' = [fds EXCEPT ![LowestFree] = Head(backlog)]
        /\ backlog' = Tail(backlog) /\ listener' = "enqueue"
        /\ shutdown_flag' = shutdown_flag /\ queue' = queue /\ closed' = closed /\ got' = got
        /\ kind' = kind /\ reply' = reply
        /\ worker' = worker /\ conn' = conn /\ ans' = ans /\ stat' = stat /\ misclosed' = misclosed /\ main' = main
    BY <1>2 DEF AcceptReturn, fifo, workers
  <2>2. PICK f \in Fds : f = LowestFree /\ fds[f] = NULL
    BY <2>1, LowestFreeFound
  <2>3. /\ Head(backlog) \in Clients /\ Tail(backlog) \in Seq(Clients)
        /\ \A i \in 1..Len(backlog) : \/ backlog[i] = Head(backlog)
                                      \/ \E j \in 1..Len(Tail(backlog)) : Tail(backlog)[j] = backlog[i]
    <3>1. /\ Head(backlog) \in Clients /\ Tail(backlog) \in Seq(Clients) /\ Len(backlog) \in Nat
          /\ Head(backlog) = backlog[1] /\ Len(Tail(backlog)) = Len(backlog) - 1
          /\ \A i \in 1..Len(Tail(backlog)) : Tail(backlog)[i] = backlog[i + 1]
      BY <1>t, <2>1, HeadTailProperties DEF Queues
    <3>2. \A i \in 1..Len(backlog) : i = 1 \/ (i - 1 \in 1..Len(Tail(backlog)) /\ (i - 1) + 1 = i)
      BY <3>1
    <3> QED BY <3>1, <3>2
  <2>4. fds'[f] = Head(backlog) /\ \A g \in Fds : g # f => fds'[g] = fds[g]
    BY <1>t, <2>1, <2>2 DEF Types
  <2>5. ~Held(f) /\ lfd = NULL /\ lfd' = f /\ f # NULL
    BY <1>c, <2>1, <2>2 DEF Inv, Flags, HeldOpen
  <2>6. Types' /\ Counters' /\ Queues'
    <3>1. fds' \in [Fds -> Clients \cup {"listen", NULL}]
      BY <1>t, <2>1, <2>2, <2>3 DEF Types
    <3>2. lfd' \in Fds \cup {NULL}
      BY <2>5
    <3> QED BY <1>t, <2>1, <2>3, <3>1, <3>2 DEF Types, Counters, Queues
  <2>7. \A w \in Consumers : GotKept(w)' /\ ConnKept(w)'
    <3> SUFFICES ASSUME NEW w \in Consumers PROVE GotKept(w)' /\ ConnKept(w)'
      OBVIOUS
    <3>1. Holding(w) => got[w] \in Fds /\ got[w] # f
      BY <2>5 DEF Held, Inv, GotKept, Holding, Serving
    <3> QED BY <2>1, <2>4, <3>1, OtherWorker
  <2>8. Flags'
    BY <1>c, <2>1, <2>5 DEF Inv, Flags
  <2>9. Places' = Places /\ \A w \in Consumers : Holding(w)' <=> Holding(w)
    BY <2>1 DEF Places, Holding
  <2>10. OneHand'
    BY <2>1, <2>5, <2>9 DEF Inv, OneHand, Held
  <2>11. \A g \in Fds : Held(g)' <=> Held(g) \/ g = f
    BY <1>c, <2>1, <2>5, <2>9 DEF Held
  <2>12. HeldOpen' /\ OpenHeld' /\ ListenKept'
    BY <1>c, <2>1, <2>2, <2>3, <2>4, <2>11 DEF Inv, HeldOpen, OpenHeld, ListenKept
  <2>13. RequestsAnswered'
    <3>1. \A c \in Clients : \A g \in Fds : fds[g] = c => fds'[g] = c
      BY <1>c, <2>2, <2>4
    <3>2. \A c \in Clients : \A i \in 1..Len(backlog) : backlog[i] = c =>
            \/ \E g \in Fds : fds'[g] = c
            \/ \E j \in 1..Len(backlog') : backlog'[j] = c
      BY <2>1, <2>2, <2>3, <2>4
    <3> QED BY <2>1, <3>1, <3>2, WaitingKept
  <2> QED BY <1>p, <2>6, <2>7, <2>8, <2>10, <2>12, <2>13
<1>3. ASSUME Enqueue PROVE Inv'
  <2>1. /\ listener = "enqueue" /\ listener' = "loop" /\ queue' = Append(queue, lfd) /\ lfd' = NULL
        /\ shutdown_flag' = shutdown_flag /\ closed' = closed /\ got' = got
        /\ fds' = fds /\ backlog' = backlog /\ kind' = kind /\ reply' = reply
        /\ worker' = worker /\ conn' = conn /\ ans' = ans /\ stat' = stat /\ misclosed' = misclosed /\ main' = main
    BY <1>3 DEF Enqueue, Fifo!Put, clients, workers
  <2>2. lfd \in Fds
    BY <1>t, <2>1 DEF Inv, Flags, Types
  <2>3. /\ Len(queue) \in Nat /\ queue' \in Seq(Fds) /\ Len(queue') = Len(queue) + 1
        /\ \A i \in 1..Len(queue) : queue'[i] = queue[i]
        /\ queue'[Len(queue) + 1] = lfd
    BY <1>t, <2>1, <2>2, AppendProperties DEF Queues
  <2>4. /\ Places' = Places \cup {Len(queue) + 1} /\ Len(queue) + 1 \notin Places
        /\ \A w \in Consumers : Holding(w)' <=> Holding(w)
    BY <2>1, <2>3 DEF Places, Holding
  <2>5. /\ \A i \in Places : queue'[i] = queue[i]
        /\ \A i \in Places' : i \notin Places => queue'[i] = lfd
        /\ \E i \in Places' : i \notin Places
    BY <2>3, <2>4 DEF Places
  <2>6. Types' /\ Counters' /\ Queues'
    BY <1>t, <2>1, <2>3 DEF Types, Counters, Queues
  <2>7. \A w \in Consumers : GotKept(w)' /\ ConnKept(w)'
    BY <2>1, OtherWorker
  <2>8. Flags'
    BY <2>1 DEF Inv, Flags
  <2>9. OneHand'
    <3>1. \A i, j \in Places' : queue'[i] = queue'[j] => i = j
      BY <2>4, <2>5 DEF Inv, OneHand
    <3>2. ASSUME NEW i \in Places', NEW w \in Consumers, Holding(w)' PROVE got'[w] # queue'[i]
      <4>1. Holding(w) /\ got'[w] = got[w]
        BY <2>1, <2>4, <3>2
      <4>2. got[w] # lfd /\ \A j \in Places : got[w] # queue[j]
        BY <4>1 DEF Inv, OneHand
      <4> QED BY <2>5, <4>1, <4>2
    <3>3. \A i \in Places' : queue'[i] # NULL
      BY <1>c, <2>2, <2>4, <2>5, <1>t, <2>3 DEF Queues, Places
    <3>4. \A w \in Consumers : Holding(w)' => got'[w] # NULL
      <4>1. \A w \in Consumers : Holding(w) => got[w] \in Fds
        BY DEF Inv, GotKept, Holding, Serving
      <4> QED BY <1>c, <2>1, <2>4, <4>1
    <3>5. \A v, w \in Consumers : Holding(v)' /\ Holding(w)' /\ got'[v] = got'[w] => v = w
      BY <2>1, <2>4 DEF Inv, OneHand
    <3> QED BY <2>1, <3>1, <3>2, <3>3, <3>4, <3>5 DEF OneHand
  <2>10. \A g \in Fds : Held(g)' <=> Held(g)
    BY <1>c, <2>1, <2>2, <2>4, <2>5 DEF Held
  <2>11. HeldOpen' /\ OpenHeld' /\ ListenKept'
    BY <2>1, <2>10 DEF Inv, HeldOpen, OpenHeld, ListenKept
  <2>12. RequestsAnswered'
    BY <2>1, WaitingKept
  <2> QED BY <1>p, <2>6, <2>7, <2>8, <2>9, <2>11, <2>12
<1>4. ASSUME ListenerLeave PROVE Inv'
  <2>1. /\ listener = "leave" /\ listener' = "exit" /\ fds' = Closed(Listen)
        /\ shutdown_flag' = shutdown_flag /\ queue' = queue /\ closed' = closed /\ got' = got
        /\ backlog' = backlog /\ kind' = kind /\ reply' = reply /\ lfd' = lfd
        /\ worker' = worker /\ conn' = conn /\ ans' = ans /\ stat' = stat /\ misclosed' = misclosed /\ main' = main
    BY <1>4 DEF ListenerLeave, fifo, clients, workers
  <2>2. shutdown_flag /\ shutdown_flag'
    BY <2>1 DEF Inv, Flags
  <2>3. \A f \in Fds : fds'[f] \in {fds[f], NULL}
    BY <1>t, <1>c, <2>1 DEF Types, Closed
  <2>4. Types' /\ Counters' /\ Queues'
    BY <1>t, <1>c, <2>1 DEF Types, Counters, Queues, Closed
  <2>5. \A w \in Consumers : GotKept(w)' /\ ConnKept(w)'
    <3>1. \A w \in Consumers : Holding(w) => got[w] \in Fds
      BY DEF Inv, GotKept, Holding, Serving
    <3> QED BY <2>1, <2>3, <3>1, OtherWorker
  <2>6. Flags'
    BY <2>1, <2>2 DEF Inv, Flags
  <2>7. OneHand' /\ HeldOpen' /\ OpenHeld' /\ ListenKept'
    BY <2>1, <2>2, ListenCloses
  <2>8. RequestsAnswered'
    BY <2>2 DEF RequestsAnswered
  <2> QED BY <1>p, <2>4, <2>5, <2>6, <2>7, <2>8
<1> QED BY <1>1, <1>2, <1>3, <1>4 DEF Listener

(* misclosed is a flag. *)
LEMMA MisclosedTyped ==
  ASSUME misclosed \in BOOLEAN, NEW w \in Consumers, Worker(w)
  PROVE  misclosed' \in BOOLEAN
<1>1. misclosed' = misclosed \/ misclosed' = (misclosed \/ (HasClosed(w) /\ fds[got[w]] # NULL))
  BY Zenon DEF Worker, Dequeue, ReadFails, CountFailed, ReadRequest, Respond, Count, CloseConnection,
               QuitRequest
<1>2. (misclosed \/ (HasClosed(w) /\ fds[got[w]] # NULL)) \in BOOLEAN
  BY Zenon
<1> QED BY <1>1, <1>2, Zenon

(* The workers, unless a second close ends another connection. *)
LEMMA WorkerKeepsInv ==
  ASSUME Inv, ~misclosed', NEW w \in Consumers, Worker(w)
  PROVE  Inv'
<1>c. /\ Fds \subseteq Nat /\ Listen \in Fds /\ NULL \notin Clients /\ NULL \notin Fds
      /\ "listen" \notin Clients /\ NULL # "listen" /\ NULL # "K" /\ NULL # "X" /\ NULL # -1
  BY ConstantFacts
<1>t. Types /\ Counters /\ Queues
  BY TypeSplit DEF Inv
<1>w. GotKept(w) /\ ConnKept(w) /\ got[w] \in Fds \cup {NULL, -1} /\ conn[w] \in Clients \cup {NULL}
  BY <1>t DEF Inv, Types
<1>p. ASSUME Types', Counters', Queues', \A v \in Consumers : GotKept(v)' /\ ConnKept(v)', Flags',
             OneHand' /\ HeldOpen' /\ OpenHeld' /\ ListenKept', RequestsAnswered'
      PROVE  Inv'
  BY <1>p, Zenon DEF Inv, TypeOK, Types, Counters, Queues
<1>h. Holding(w) => /\ got[w] \in Fds /\ Held(got[w])
                    /\ fds[got[w]] \in Clients \/ (fds[got[w]] = NULL /\ shutdown_flag)
  <2>1. Holding(w) => got[w] \in Fds /\ Held(got[w])
    BY <1>w DEF GotKept, Held, Holding, Serving
  <2> QED BY <2>1 DEF Inv, HeldOpen, Flags
<1>m. misclosed' \in BOOLEAN
  BY <1>t, MisclosedTyped DEF Counters
<1>1. ASSUME Dequeue(w), ~Fifo!Take(w) PROVE Inv'
  <2>1. /\ worker[w] = "dequeue" /\ worker' = [worker EXCEPT ![w] = "exit"]
        /\ closed /\ got' = [got EXCEPT ![w] = -1]
        /\ shutdown_flag' = shutdown_flag /\ queue' = queue /\ closed' = closed /\ fds' = fds
        /\ backlog' = backlog /\ kind' = kind
        /\ reply' = reply /\ listener' = listener /\ lfd' = lfd /\ conn' = conn /\ ans' = ans
        /\ main' = main /\ stat' = stat /\ misclosed' = misclosed
    BY <1>1, <1>h, <1>w
       DEF Dequeue, Fifo!Take, Fifo!Stop, Fifo!Done, Fifo!Close, fifo, clients, workers, Closed
  <2>2. Types' /\ Counters' /\ Queues'
    <3>1. Counters'
      BY <1>t, <2>1 DEF Counters
    <3>2. Types' /\ Queues'
      BY <1>t, <1>c, <1>h, <2>1 DEF Types, Queues
    <3> QED BY <3>1, <3>2
  <2>3. /\ \A v \in Consumers : v # w =>
             worker'[v] = worker[v] /\ got'[v] = got[v] /\ conn'[v] = conn[v] /\ ans'[v] = ans[v]
        /\ \A c \in Clients : reply[c] \in {"K", "X"} => reply'[c] \in {"K", "X"}
    BY <1>t, <2>1 DEF Types
  <2>4. \A v \in Consumers : v # w => GotKept(v)' /\ ConnKept(v)'
    BY <2>1, <2>3, OtherWorker
  <2>5. GotKept(w)' /\ ConnKept(w)'
    BY <1>t, <1>c, <1>w, <1>h, <2>1 DEF Types, Inv, Flags, GotKept, ConnKept, Holding, Serving
  <2>6. Flags'
    BY <2>1 DEF Inv, Flags
  <2>7. \A v \in Consumers : (Holding(v)' <=> Holding(v)) /\ (Holding(v) => got'[v] = got[v])
    BY <1>t, <2>1 DEF Types, Holding, Serving
  <2>8. OneHand' /\ HeldOpen' /\ OpenHeld' /\ ListenKept'
    BY <2>1, <2>7, SameHands
  <2>9. RequestsAnswered'
    BY <1>t, <2>1, WaitingKept DEF Types
  <2> QED BY <1>p, <2>2, <2>4, <2>5, <2>6, <2>8, <2>9
<1>2. ASSUME ReadFails(w) PROVE Inv'
  <2>1. /\ worker[w] = "read" /\ worker' = [worker EXCEPT ![w] = "count_failed"]
        /\ fds[got[w]] = NULL \/ (fds[got[w]] \in Clients /\ kind[fds[got[w]]] = "hangup")
        /\ fds' = Closed(got[w])
        /\ shutdown_flag' = shutdown_flag /\ queue' = queue /\ closed' = closed /\ got' = got
        /\ backlog' = backlog /\ kind' = kind
        /\ reply' = reply /\ listener' = listener /\ lfd' = lfd /\ conn' = conn /\ ans' = ans
        /\ main' = main /\ stat' = stat /\ misclosed' = misclosed
    BY <1>2 DEF ReadFails, fifo, clients
  <2>2. Holding(w) /\ ~Holding(w)' /\ got[w] \in Fds
    BY <1>t, <1>h, <2>1 DEF Types, Holding
  <2>3. \A v \in Consumers : v # w =>
          worker'[v] = worker[v] /\ got'[v] = got[v] /\ conn'[v] = conn[v] /\ ans'[v] = ans[v]
    BY <1>t, <2>1 DEF Types
  <2>4. /\ fds' = [fds EXCEPT ![got[w]] = NULL]
        /\ fds'[got[w]] = NULL /\ \A f \in Fds : f # got[w] => fds'[f] = fds[f]
    BY <1>t, <2>1, <2>2 DEF Types, Closed
  <2>5. Types' /\ Counters' /\ Queues'
    <3>1. Counters' /\ Queues'
      BY <1>t, <2>1 DEF Counters, Queues
    <3>2. /\ worker' \in [Consumers -> {"dequeue", "read", "count_failed", "respond", "count", "close",
                                        "q_shutdown", "q_cleanup", "q_exit", "exit"}]
          /\ fds' \in [Fds -> Clients \cup {"listen", NULL}]
      BY <1>t, <2>1, <2>4 DEF Types
    <3> QED BY <1>t, <2>1, <3>1, <3>2, Zenon DEF Types
  <2>6. \A v \in Consumers : GotKept(v)' /\ ConnKept(v)'
    <3>1. GotKept(w)' /\ ConnKept(w)'
      BY <1>t, <1>w, <2>1, <2>2 DEF Types, GotKept, ConnKept, Holding, Serving
    <3>2. \A v \in Consumers : Holding(v) => got[v] \in Fds /\ fds'[got[v]] \in {fds[got[v]], NULL}
      BY <2>4 DEF Inv, GotKept, Holding, Serving
    <3> QED BY <2>1, <2>3, <3>1, <3>2, OtherWorker
  <2>7. Flags'
    BY <2>1 DEF Inv, Flags
  <2>8. OneHand' /\ HeldOpen' /\ OpenHeld' /\ ListenKept'
    BY <2>1, <2>2, <2>3, HandCloses
  <2>9. RequestsAnswered'
    <3>1. \A c \in Clients : kind[c] # "hangup" => \A f \in Fds : fds[f] = c => fds'[f] = c
      BY <1>c, <2>1, <2>4
    <3> QED BY <2>1, <3>1, WaitingKept
  <2> QED BY <1>p, <2>5, <2>6, <2>7, <2>8, <2>9
<1>3. ASSUME CountFailed(w) PROVE Inv'
  <2>1. /\ worker[w] = "count_failed" /\ worker' = [worker EXCEPT ![w] = "close"]
        /\ stat' = [stat EXCEPT !["failed"] = stat["failed"] + 1] /\ misclosed' = misclosed
        /\ shutdown_flag' = shutdown_flag /\ queue' = queue /\ closed' = closed /\ got' = got
        /\ fds' = fds /\ backlog' = backlog
        /\ kind' = kind /\ reply' = reply /\ listener' = listener /\ lfd' = lfd /\ conn' = conn
        /\ ans' = ans /\ main' = main
    BY <1>3, <1>h, <1>w
       DEF CountFailed, Fifo!Take, Fifo!Stop, Fifo!Done, Fifo!Close, fifo, clients, workers, Closed
  <2>2. Types' /\ Counters' /\ Queues'
    <3>1. Counters'
      <4>1. stat["failed"] \in Nat /\ stat["failed"] + 1 \in Nat
        BY <1>t DEF Counters
      <4> QED BY <4>1, <1>t, <2>1 DEF Counters
    <3>2. Types' /\ Queues'
      BY <1>t, <1>c, <1>h, <2>1 DEF Types, Queues
    <3> QED BY <3>1, <3>2
  <2>3. /\ \A v \in Consumers : v # w =>
             worker'[v] = worker[v] /\ got'[v] = got[v] /\ conn'[v] = conn[v] /\ ans'[v] = ans[v]
        /\ \A c \in Clients : reply[c] \in {"K", "X"} => reply'[c] \in {"K", "X"}
    BY <1>t, <2>1 DEF Types
  <2>4. \A v \in Consumers : v # w => GotKept(v)' /\ ConnKept(v)'
    BY <2>1, <2>3, OtherWorker
  <2>5. GotKept(w)' /\ ConnKept(w)'
    BY <1>t, <1>c, <1>w, <1>h, <2>1 DEF Types, GotKept, ConnKept, Holding, Serving
  <2>6. Flags'
    BY <2>1 DEF Inv, Flags
  <2>7. \A v \in Consumers : (Holding(v)' <=> Holding(v)) /\ (Holding(v) => got'[v] = got[v])
    <3>1. Holding(w)' <=> Holding(w)
      BY <1>t, <1>w, <2>1 DEF Types, ConnKept, Holding
    <3> QED BY <2>1, <2>3, <3>1 DEF Holding
  <2>8. OneHand' /\ HeldOpen' /\ OpenHeld' /\ ListenKept'
    BY <2>1, <2>7, SameHands
  <2>9. RequestsAnswered'
    BY <1>t, <2>1, WaitingKept DEF Types
  <2> QED BY <1>p, <2>2, <2>4, <2>5, <2>6, <2>8, <2>9
<1>4. ASSUME ReadRequest(w) PROVE Inv'
  <2>1. /\ worker[w] = "read" /\ worker' = [worker EXCEPT ![w] = "respond"]
        /\ fds[got[w]] \in Clients /\ conn' = [conn EXCEPT ![w] = fds[got[w]]]
        /\ ans' \in {[ans EXCEPT ![w] = "K"], [ans EXCEPT ![w] = "X"]}
        /\ shutdown_flag' = shutdown_flag /\ queue' = queue /\ closed' = closed /\ got' = got
        /\ fds' = fds /\ backlog' = backlog
        /\ kind' = kind /\ reply' = reply /\ listener' = listener /\ lfd' = lfd /\ main' = main
        /\ stat' = stat /\ misclosed' = misclosed
    BY <1>4, <1>h, <1>w
       DEF ReadRequest, Fifo!Take, Fifo!Stop, Fifo!Done, Fifo!Close, fifo, clients, workers, Closed,
           KeepOpen
  <2>2. Types' /\ Counters' /\ Queues'
    <3>1. Counters'
      BY <1>t, <2>1 DEF Counters
    <3>2. Types' /\ Queues'
      BY <1>t, <1>c, <1>h, <2>1 DEF Types, Queues
    <3> QED BY <3>1, <3>2
  <2>3. /\ \A v \in Consumers : v # w =>
             worker'[v] = worker[v] /\ got'[v] = got[v] /\ conn'[v] = conn[v] /\ ans'[v] = ans[v]
        /\ \A c \in Clients : reply[c] \in {"K", "X"} => reply'[c] \in {"K", "X"}
    BY <1>t, <2>1 DEF Types
  <2>4. \A v \in Consumers : v # w => GotKept(v)' /\ ConnKept(v)'
    BY <2>1, <2>3, OtherWorker
  <2>5. GotKept(w)' /\ ConnKept(w)'
    BY <1>t, <1>c, <1>w, <1>h, <2>1 DEF Types, GotKept, ConnKept, Holding, Serving
  <2>6. Flags'
    BY <2>1 DEF Inv, Flags
  <2>7. \A v \in Consumers : (Holding(v)' <=> Holding(v)) /\ (Holding(v) => got'[v] = got[v])
    BY <1>t, <2>1 DEF Types, Holding, Serving
  <2>8. OneHand' /\ HeldOpen' /\ OpenHeld' /\ ListenKept'
    BY <2>1, <2>7, SameHands
  <2>9. RequestsAnswered'
    BY <1>t, <2>1, WaitingKept DEF Types
  <2> QED BY <1>p, <2>2, <2>4, <2>5, <2>6, <2>8, <2>9
<1>5. ASSUME Respond(w) PROVE Inv'
  <2>1. /\ worker[w] = "respond" /\ worker' = [worker EXCEPT ![w] = "count"]
        /\ reply' = (IF fds[got[w]] \in Clients THEN [reply EXCEPT ![fds[got[w]]] = ans[w]] ELSE reply)
        /\ shutdown_flag' = shutdown_flag /\ queue' = queue /\ closed' = closed /\ got' = got
        /\ fds' = fds /\ backlog' = backlog
        /\ kind' = kind /\ listener' = listener /\ lfd' = lfd /\ conn' = conn /\ ans' = ans
        /\ main' = main /\ stat' = stat /\ misclosed' = misclosed
    BY <1>5, <1>h, <1>w
       DEF Respond, Fifo!Take, Fifo!Stop, Fifo!Done, Fifo!Close, fifo, clients, workers, Closed, Send
  <2>a. ans[w] \in {"K", "X"} /\ fds[got[w]] \in {conn[w], NULL} /\ conn[w] \in Clients
    BY <1>w, <2>1 DEF ConnKept
  <2>b. \A c \in Clients : reply'[c] = reply[c] \/ reply'[c] = ans[w]
    BY <1>t, <2>1 DEF Types
  <2>c. ~shutdown_flag => reply'[conn[w]] \in {"K", "X"}
    BY <1>t, <1>c, <1>h, <2>1, <2>a DEF Types, Holding, Serving
  <2>2. Types' /\ Counters' /\ Queues'
    <3>1. Counters'
      BY <1>t, <2>1 DEF Counters
    <3>2. Types' /\ Queues'
      BY <1>t, <1>c, <1>h, <2>1, <2>a, <2>b DEF Types, Queues
    <3> QED BY <3>1, <3>2
  <2>3. /\ \A v \in Consumers : v # w =>
             worker'[v] = worker[v] /\ got'[v] = got[v] /\ conn'[v] = conn[v] /\ ans'[v] = ans[v]
        /\ \A c \in Clients : reply[c] \in {"K", "X"} => reply'[c] \in {"K", "X"}
    BY <1>t, <2>1, <2>a, <2>b DEF Types
  <2>4. \A v \in Consumers : v # w => GotKept(v)' /\ ConnKept(v)'
    BY <2>1, <2>3, OtherWorker
  <2>5. GotKept(w)' /\ ConnKept(w)'
    BY <1>t, <1>c, <1>w, <1>h, <2>1, <2>a, <2>c DEF Types, GotKept, ConnKept, Holding, Serving
  <2>6. Flags'
    BY <2>1 DEF Inv, Flags
  <2>7. \A v \in Consumers : (Holding(v)' <=> Holding(v)) /\ (Holding(v) => got'[v] = got[v])
    BY <1>t, <2>1 DEF Types, Holding, Serving
  <2>8. OneHand' /\ HeldOpen' /\ OpenHeld' /\ ListenKept'
    BY <2>1, <2>7, SameHands
  <2>9. RequestsAnswered'
    BY <1>t, <2>1, <2>a, <2>b, WaitingKept DEF Types
  <2> QED BY <1>p, <2>2, <2>4, <2>5, <2>6, <2>8, <2>9
<1>6. ASSUME Count(w) PROVE Inv'
  <2>1. /\ worker[w] = "count" /\ worker' = [worker EXCEPT ![w] = "close"]
        /\ misclosed' = misclosed
        /\ stat' = [x \in DOMAIN stat |->
                      IF x = kind[conn[w]] \/ (x = "failed" /\ ans[w] = "X") THEN stat[x] + 1 ELSE stat[x]]
        /\ shutdown_flag' = shutdown_flag /\ queue' = queue /\ closed' = closed /\ got' = got
        /\ fds' = fds /\ backlog' = backlog
        /\ kind' = kind /\ reply' = reply /\ listener' = listener /\ lfd' = lfd /\ conn' = conn
        /\ ans' = ans /\ main' = main
    BY <1>6, <1>h, <1>w
       DEF Count, Fifo!Take, Fifo!Stop, Fifo!Done, Fifo!Close, fifo, clients, workers, Closed
  <2>2. Types' /\ Counters' /\ Queues'
    <3>1. Counters'
      BY <1>t, <2>1 DEF Counters
    <3>2. Types' /\ Queues'
      BY <1>t, <1>c, <1>h, <2>1 DEF Types, Queues
    <3> QED BY <3>1, <3>2
  <2>3. /\ \A v \in Consumers : v # w =>
             worker'[v] = worker[v] /\ got'[v] = got[v] /\ conn'[v] = conn[v] /\ ans'[v] = ans[v]
        /\ \A c \in Clients : reply[c] \in {"K", "X"} => reply'[c] \in {"K", "X"}
    BY <1>t, <2>1 DEF Types
  <2>4. \A v \in Consumers : v # w => GotKept(v)' /\ ConnKept(v)'
    BY <2>1, <2>3, OtherWorker
  <2>5. GotKept(w)' /\ ConnKept(w)'
    BY <1>t, <1>c, <1>w, <1>h, <2>1 DEF Types, GotKept, ConnKept, Holding, Serving
  <2>6. Flags'
    BY <2>1 DEF Inv, Flags
  <2>7. \A v \in Consumers : (Holding(v)' <=> Holding(v)) /\ (Holding(v) => got'[v] = got[v])
    <3>1. Holding(w)' <=> Holding(w)
      BY <1>t, <1>w, <2>1 DEF Types, ConnKept, Holding
    <3> QED BY <2>1, <2>3, <3>1 DEF Holding
  <2>8. OneHand' /\ HeldOpen' /\ OpenHeld' /\ ListenKept'
    BY <2>1, <2>7, SameHands
  <2>9. RequestsAnswered'
    BY <1>t, <2>1, WaitingKept DEF Types
  <2> QED BY <1>p, <2>2, <2>4, <2>5, <2>6, <2>8, <2>9
<1>7. ASSUME QuitRequest(w), worker[w] \in {"q_shutdown", "q_exit"} PROVE Inv'
  <2>1. /\ \/ worker[w] = "q_shutdown" /\ worker' = [worker EXCEPT ![w] = "q_cleanup"] /\ main' = main
           \/ worker[w] = "q_exit" /\ worker' = worker /\ main' = "exited"
        /\ closed' \in {closed, TRUE}
        /\ shutdown_flag' = shutdown_flag /\ queue' = queue /\ got' = got /\ fds' = fds
        /\ backlog' = backlog /\ kind' = kind
        /\ reply' = reply /\ listener' = listener /\ lfd' = lfd /\ conn' = conn /\ ans' = ans
        /\ stat' = stat /\ misclosed' = misclosed
    BY <1>7, <1>h, <1>w
       DEF QuitRequest, Fifo!Take, Fifo!Stop, Fifo!Done, Fifo!Close, fifo, clients, workers, Closed,
           ExitProcess
  <2>a. shutdown_flag
    BY <1>w, <2>1 DEF GotKept
  <2>2. Types' /\ Counters' /\ Queues'
    <3>1. Counters'
      BY <1>t, <2>1 DEF Counters
    <3>2. Types' /\ Queues'
      BY <1>t, <1>c, <1>h, <2>1, ZenonT(60) DEF Types, Queues
    <3> QED BY <3>1, <3>2
  <2>3. /\ \A v \in Consumers : v # w =>
             worker'[v] = worker[v] /\ got'[v] = got[v] /\ conn'[v] = conn[v] /\ ans'[v] = ans[v]
        /\ \A c \in Clients : reply[c] \in {"K", "X"} => reply'[c] \in {"K", "X"}
    BY <1>t, <2>1 DEF Types
  <2>4. \A v \in Consumers : v # w => GotKept(v)' /\ ConnKept(v)'
    BY <2>1, <2>3, OtherWorker
  <2>5. GotKept(w)' /\ ConnKept(w)'
    BY <1>t, <1>c, <1>w, <1>h, <2>1 DEF Types, GotKept, ConnKept, Holding, Serving
  <2>6. Flags'
    BY <2>1, <2>a DEF Inv, Flags
  <2>7. \A v \in Consumers : (Holding(v)' <=> Holding(v)) /\ (Holding(v) => got'[v] = got[v])
    BY <1>t, <2>1 DEF Types, Holding, Serving
  <2>8. OneHand' /\ HeldOpen' /\ OpenHeld' /\ ListenKept'
    BY <2>1, <2>7, SameHands
  <2>9. RequestsAnswered'
    BY <1>t, <2>1, WaitingKept DEF Types
  <2> QED BY <1>p, <2>2, <2>4, <2>5, <2>6, <2>8, <2>9
<1>8. ASSUME Fifo!Take(w), Dequeue(w) PROVE Inv'
  <2>1. /\ worker[w] = "dequeue" /\ worker' = [worker EXCEPT ![w] = "read"]
        /\ queue # <<>> /\ got' = [got EXCEPT ![w] = Head(queue)] /\ queue' = Tail(queue)
        /\ shutdown_flag' = shutdown_flag /\ closed' = closed /\ fds' = fds /\ backlog' = backlog
        /\ kind' = kind /\ reply' = reply
        /\ listener' = listener /\ lfd' = lfd /\ conn' = conn /\ ans' = ans /\ main' = main
        /\ stat' = stat /\ misclosed' = misclosed
    <3>1. worker' \in {[worker EXCEPT ![w] = "read"], [worker EXCEPT ![w] = "exit"]}
          /\ (Fifo!Stop(w) \/ worker' = [worker EXCEPT ![w] = "read"])
      BY <1>8 DEF Dequeue
    <3>2. ~Fifo!Stop(w)
      BY <1>8 DEF Fifo!Stop, Fifo!Take
    <3> QED BY <1>8, <3>1, <3>2 DEF Dequeue, Fifo!Take, clients
  <2>2. /\ Head(queue) \in Fds /\ Head(queue) = queue[1] /\ 1 \in Places
        /\ queue' \in Seq(Fds) /\ Places' = 1..(Len(queue) - 1) /\ Len(queue) \in Nat
        /\ \A i \in Places' : queue'[i] = queue[i + 1] /\ i + 1 \in Places /\ i + 1 # 1
    <3>1. /\ Head(queue) \in Fds /\ Tail(queue) \in Seq(Fds) /\ Len(queue) \in Nat /\ Len(queue) > 0
          /\ Head(queue) = queue[1] /\ Len(Tail(queue)) = Len(queue) - 1
          /\ \A i \in 1..Len(Tail(queue)) : Tail(queue)[i] = queue[i + 1]
      BY <1>t, <2>1, HeadTailProperties DEF Queues
    <3> QED BY <2>1, <3>1 DEF Places
  <2>3. \A i \in Places : i # 1 => i - 1 \in Places' /\ queue'[i - 1] = queue[i]
    <3>1. \A i \in Places : i # 1 => i - 1 \in Places' /\ (i - 1) + 1 = i
      BY <2>2 DEF Places
    <3> QED BY <2>2, <3>1
  <2>4. Types' /\ Counters' /\ Queues'
    BY <1>t, <2>1, <2>2 DEF Types, Counters, Queues
  <2>5. \A v \in Consumers : v # w =>
          worker'[v] = worker[v] /\ got'[v] = got[v] /\ conn'[v] = conn[v] /\ ans'[v] = ans[v]
    BY <1>t, <2>1 DEF Types
  <2>6. worker'[w] = "read" /\ got'[w] = queue[1] /\ Holding(w)' /\ ~Holding(w)
    BY <1>t, <2>1, <2>2 DEF Types, Holding, Serving
  <2>7. \A v \in Consumers : GotKept(v)' /\ ConnKept(v)'
    <3>1. GotKept(w)' /\ ConnKept(w)'
      BY <1>w, <2>1, <2>2, <2>6 DEF GotKept, ConnKept
    <3> QED BY <2>1, <2>5, <3>1, OtherWorker
  <2>8. Flags'
    BY <2>1 DEF Inv, Flags
  <2>9. \A v \in Consumers : v # w => (Holding(v)' <=> Holding(v))
    BY <2>5 DEF Holding
  <2>10. OneHand'
    <3>1. \A i, j \in Places' : queue'[i] = queue'[j] => i = j
      <4>1. \A i, j \in Places' : i + 1 = j + 1 => i = j
        BY <2>2
      <4> QED BY <2>2, <4>1 DEF Inv, OneHand
    <3>2. ASSUME NEW u \in Consumers, NEW v \in Consumers, Holding(u)', Holding(v)', got'[u] = got'[v]
          PROVE  u = v
      BY <2>2, <2>5, <2>6, <2>9, <3>2 DEF Inv, OneHand
    <3>3. ASSUME NEW i \in Places', NEW v \in Consumers, Holding(v)' PROVE got'[v] # queue'[i]
      BY <2>2, <2>5, <2>6, <2>9, <3>3 DEF Inv, OneHand
    <3>4. \A i \in Places' : queue'[i] # lfd'
      BY <2>1, <2>2 DEF Inv, OneHand
    <3>5. \A v \in Consumers : Holding(v)' => got'[v] # lfd'
      BY <2>1, <2>2, <2>5, <2>6, <2>9 DEF Inv, OneHand
    <3> QED BY <3>1, <3>2, <3>3, <3>4, <3>5 DEF OneHand
  <2>11. \A f \in Fds : Held(f)' <=> Held(f)
    <3>1. ASSUME NEW f \in Fds, Held(f) PROVE Held(f)'
      <4>1. CASE lfd = f
        BY <2>1, <4>1 DEF Held
      <4>2. CASE \E i \in Places : queue[i] = f
        BY <2>3, <2>6, <4>2 DEF Held
      <4>3. CASE \E v \in Consumers : Holding(v) /\ got[v] = f
        BY <2>5, <2>6, <2>9, <4>3 DEF Held
      <4> QED BY <3>1, <4>1, <4>2, <4>3 DEF Held
    <3>2. ASSUME NEW f \in Fds, Held(f)' PROVE Held(f)
      <4>1. CASE lfd' = f
        BY <2>1, <4>1 DEF Held
      <4>2. CASE \E i \in Places' : queue'[i] = f
        BY <2>2, <4>2 DEF Held
      <4>3. CASE \E v \in Consumers : Holding(v)' /\ got'[v] = f
        BY <2>2, <2>5, <2>6, <2>9, <4>3 DEF Held
      <4> QED BY <3>2, <4>1, <4>2, <4>3 DEF Held
    <3> QED BY <3>1, <3>2
  <2>12. HeldOpen' /\ OpenHeld' /\ ListenKept'
    BY <2>1, <2>11 DEF Inv, HeldOpen, OpenHeld, ListenKept
  <2>13. RequestsAnswered'
    BY <2>1, WaitingKept
  <2> QED BY <1>p, <2>4, <2>7, <2>8, <2>10, <2>12, <2>13
<1>9. ASSUME \/ CloseConnection(w) /\ conn[w] # NULL
             \/ QuitRequest(w) /\ worker[w] = "read"
      PROVE  Inv'
  <2>1. /\ fds' = Closed(got[w])
        /\ \/ /\ worker[w] = "close" /\ worker' = [worker EXCEPT ![w] = "dequeue"]
              /\ got' = [got EXCEPT ![w] = NULL] /\ conn' = [conn EXCEPT ![w] = NULL]
              /\ ans' = [ans EXCEPT ![w] = NULL] /\ shutdown_flag' = shutdown_flag
              /\ conn[w] # NULL
           \/ /\ worker[w] = "read" /\ worker' = [worker EXCEPT ![w] = "q_shutdown"]
              /\ got' = got /\ conn' = conn /\ ans' = ans /\ shutdown_flag' = TRUE
        /\ queue' = queue /\ closed' = closed /\ backlog' = backlog /\ kind' = kind
        /\ reply' = reply /\ listener' = listener /\ lfd' = lfd /\ main' = main /\ stat' = stat
    BY <1>9 DEF CloseConnection, QuitRequest, WorkerCloses, Fifo!Done, fifo, clients
  <2>a. shutdown_flag' \in BOOLEAN /\ (shutdown_flag => shutdown_flag')
    BY <1>t, <2>1 DEF Types
  <2>b. worker[w] = "read" => shutdown_flag'
    BY <2>1
  <2>2. Holding(w) /\ ~Holding(w)' /\ got[w] \in Fds
    BY <1>t, <1>h, <2>1 DEF Types, Holding, Serving
  <2>3. \A v \in Consumers : v # w =>
          worker'[v] = worker[v] /\ got'[v] = got[v] /\ conn'[v] = conn[v] /\ ans'[v] = ans[v]
    BY <1>t, <2>1 DEF Types
  <2>4. /\ fds' = [fds EXCEPT ![got[w]] = NULL]
        /\ fds'[got[w]] = NULL /\ \A f \in Fds : f # got[w] => fds'[f] = fds[f]
    BY <1>t, <2>1, <2>2 DEF Types, Closed
  <2>5. Types' /\ Counters' /\ Queues'
    <3>1. Counters'
      BY <1>t, <1>m, <2>1 DEF Counters
    <3> QED BY <1>t, <1>c, <2>1, <2>a, <2>4, <3>1, ZenonT(60) DEF Types, Queues
  <2>6. \A v \in Consumers : GotKept(v)' /\ ConnKept(v)'
    <3>1. GotKept(w)' /\ ConnKept(w)'
      BY <1>t, <1>w, <2>1, <2>a, <2>b, <2>2 DEF Types, GotKept, ConnKept, Holding, Serving
    <3>2. \A v \in Consumers : Holding(v) => got[v] \in Fds /\ fds'[got[v]] \in {fds[got[v]], NULL}
      BY <2>4 DEF Inv, GotKept, Holding, Serving
    <3> QED BY <2>1, <2>a, <2>3, <3>1, <3>2, OtherWorker
  <2>7. Flags'
    BY <2>1, <2>a DEF Inv, Flags
  <2>8. OneHand' /\ HeldOpen' /\ OpenHeld' /\ ListenKept'
    BY <2>1, <2>a, <2>2, <2>3, HandCloses
  <2>9. RequestsAnswered'
    <3> SUFFICES ASSUME ~shutdown_flag' PROVE RequestsAnswered'
      BY DEF RequestsAnswered
    <3>1. ~shutdown_flag /\ worker[w] = "close"
      BY <2>1, <2>a, <2>b
    <3>2. fds[got[w]] \in Clients => reply[fds[got[w]]] # "waiting"
      BY <1>c, <1>w, <2>1, <3>1 DEF ConnKept
    <3> QED BY <2>1, <2>a, <2>2, <2>4, <3>2, WaitingKept
  <2> QED BY <1>p, <2>5, <2>6, <2>7, <2>8, <2>9
<1>12. ASSUME CloseConnection(w), conn[w] = NULL PROVE Inv'
  <2>1. /\ worker[w] = "close" /\ worker' = [worker EXCEPT ![w] = "dequeue"]
        /\ fds' = Closed(got[w]) /\ fds[got[w]] = NULL
        /\ got' = [got EXCEPT ![w] = NULL] /\ conn' = [conn EXCEPT ![w] = NULL]
        /\ ans' = [ans EXCEPT ![w] = NULL] /\ shutdown_flag' = shutdown_flag
        /\ queue' = queue /\ closed' = closed /\ backlog' = backlog /\ kind' = kind
        /\ reply' = reply /\ listener' = listener /\ lfd' = lfd /\ main' = main /\ stat' = stat
    BY <1>12 DEF CloseConnection, HasClosed, WorkerCloses, Fifo!Done, clients
  <2>a. fds' = fds
    BY <1>t, <1>w, <2>1 DEF Types, Closed, GotKept, Serving
  <2>2. Types' /\ Counters' /\ Queues'
    <3>1. Counters'
      BY <1>t, <1>m, <2>1 DEF Counters
    <3> QED BY <1>t, <1>c, <2>1, <2>a, <3>1, ZenonT(60) DEF Types, Queues
  <2>3. \A v \in Consumers : v # w =>
          worker'[v] = worker[v] /\ got'[v] = got[v] /\ conn'[v] = conn[v] /\ ans'[v] = ans[v]
    BY <1>t, <2>1 DEF Types
  <2>4. \A v \in Consumers : v # w => GotKept(v)' /\ ConnKept(v)'
    BY <2>1, <2>3, <2>a, OtherWorker
  <2>5. GotKept(w)' /\ ConnKept(w)'
    BY <1>t, <2>1 DEF Types, GotKept, ConnKept, Holding, Serving
  <2>6. Flags'
    BY <2>1 DEF Inv, Flags
  <2>7. \A v \in Consumers : (Holding(v)' <=> Holding(v)) /\ (Holding(v) => got'[v] = got[v])
    <3>1. ~Holding(w) /\ ~Holding(w)'
      BY <1>12, <1>t, <2>1 DEF Types, Holding
    <3> QED BY <2>3, <3>1 DEF Holding
  <2>8. OneHand' /\ HeldOpen' /\ OpenHeld' /\ ListenKept'
    BY <2>1, <2>7, <2>a, SameHands
  <2>9. RequestsAnswered'
    BY <2>1, <2>a, WaitingKept
  <2> QED BY <1>p, <2>2, <2>4, <2>5, <2>6, <2>8, <2>9
<1>10. ASSUME QuitRequest(w), worker[w] = "q_cleanup" PROVE Inv'
  <2>1. /\ DiscardQueue /\ worker' = [worker EXCEPT ![w] = "q_exit"]
        /\ shutdown_flag' = shutdown_flag /\ closed' = closed /\ got' = got /\ backlog' = backlog
        /\ kind' = kind /\ reply' = reply
        /\ listener' = listener /\ lfd' = lfd /\ conn' = conn /\ ans' = ans /\ main' = main
        /\ stat' = stat /\ misclosed' = misclosed
    BY <1>10 DEF QuitRequest, DiscardQueue, clients
  <2>2. shutdown_flag /\ shutdown_flag'
    BY <1>10, <1>w, <2>1 DEF GotKept
  <2>3. \A v \in Consumers : v # w => worker'[v] = worker[v]
    BY <1>t, <2>1 DEF Types
  <2>4. \A v \in Consumers : (Holding(v)' <=> Holding(v)) /\ (Holding(v) => got'[v] = got[v])
    BY <1>10, <1>t, <2>1 DEF Types, Holding, Serving
  <2>5. /\ OneHand' /\ HeldOpen' /\ OpenHeld' /\ ListenKept'
        /\ \A v \in Consumers : Holding(v) => fds'[got[v]] = fds[got[v]]
    BY <2>1, <2>2, <2>4, QueueCloses
  <2>6. Types' /\ Counters' /\ Queues'
    <3>1. queue' \in Seq(Fds)
      <4>1. queue' = <<>>
        BY <2>1 DEF DiscardQueue
      <4> QED BY <4>1
    <3>2. fds' \in [Fds -> Clients \cup {"listen", NULL}]
      BY <1>t, <2>1 DEF Types, DiscardQueue
    <3>3. closed' = closed /\ got' = got
      BY <2>1 DEF DiscardQueue
    <3> QED BY <1>t, <2>1, <3>1, <3>2, <3>3 DEF Types, Counters, Queues
  <2>7. \A v \in Consumers : GotKept(v)' /\ ConnKept(v)'
    <3>1. GotKept(w)' /\ ConnKept(w)'
      BY <1>10, <1>t, <1>w, <2>1, <2>2 DEF Types, GotKept, ConnKept, Holding, Serving
    <3> QED BY <2>1, <2>2, <2>3, <2>5, <3>1, OtherWorker
  <2>8. Flags'
    BY <2>1 DEF Inv, Flags
  <2>9. RequestsAnswered'
    BY <2>2 DEF RequestsAnswered
  <2> QED BY <1>p, <2>5, <2>6, <2>7, <2>8, <2>9
<1>11. QuitRequest(w) => worker[w] \in {"read", "q_shutdown", "q_cleanup", "q_exit"}
  BY DEF QuitRequest
<1> QED BY <1>1, <1>2, <1>3, <1>4, <1>5, <1>6, <1>7, <1>8, <1>9, <1>10, <1>11, <1>12 DEF Worker

(* main. *)
LEMMA MainKeepsInv ==
  ASSUME Inv, Main
  PROVE  Inv'
<1>c. Listen \in Fds /\ NULL \notin Clients /\ NULL \notin Fds /\ "listen" \notin Clients /\ NULL # "listen"
  BY ConstantFacts
<1>t. Types /\ Counters /\ Queues
  BY TypeSplit DEF Inv
<1>p. ASSUME Types', Counters', Queues', \A v \in Consumers : GotKept(v)' /\ ConnKept(v)', Flags',
             OneHand' /\ HeldOpen' /\ OpenHeld' /\ ListenKept', RequestsAnswered'
      PROVE  Inv'
  BY <1>p, Zenon DEF Inv, TypeOK, Types, Counters, Queues
<1>1. ASSUME \/ MainQuit /\ main \in {"loop", "shutdown"}
             \/ MainInputEnds \/ MainJoin
      PROVE  Inv'
  <2>1. /\ \/ main = "loop" /\ main' = "close_listener" /\ shutdown_flag' = TRUE /\ closed' = closed
           \/ main = "shutdown" /\ main' = "cleanup" /\ shutdown_flag' = shutdown_flag /\ closed' = TRUE
           \/ /\ main \in {"loop", "join"} /\ main' \in {"join", "exited"}
              /\ shutdown_flag' = shutdown_flag /\ closed' = closed
        /\ queue' = queue /\ got' = got /\ fds' = fds /\ backlog' = backlog /\ kind' = kind
        /\ reply' = reply
        /\ listener' = listener /\ lfd' = lfd /\ worker' = worker /\ conn' = conn /\ ans' = ans
        /\ stat' = stat /\ misclosed' = misclosed
    BY <1>1 DEF MainQuit, MainInputEnds, MainJoin, Fifo!Close, fifo, clients, workers
  <2>a. shutdown_flag' \in BOOLEAN /\ (shutdown_flag => shutdown_flag')
    BY <1>t, <2>1 DEF Types
  <2>2. Types' /\ Counters' /\ Queues'
    BY <1>t, <2>1 DEF Types, Counters, Queues
  <2>3. \A v \in Consumers : GotKept(v)' /\ ConnKept(v)'
    BY <2>1, <2>a, OtherWorker
  <2>4. Flags'
    <3>1. closed' => shutdown_flag'
      BY <2>1, <2>a DEF Inv, Flags
    <3>2. main' \in {"close_listener", "shutdown", "cleanup"} => shutdown_flag'
      BY <2>1, <2>a DEF Inv, Flags
    <3> QED BY <2>1, <2>a, <3>1, <3>2 DEF Inv, Flags
  <2>5. OneHand' /\ HeldOpen' /\ OpenHeld' /\ ListenKept'
    BY <2>1, <2>a, SameHands DEF Holding
  <2>6. RequestsAnswered'
    BY <2>1, <2>a, WaitingKept
  <2> QED BY <1>p, <2>2, <2>3, <2>4, <2>5, <2>6
<1>2. ASSUME MainQuit, main = "close_listener" PROVE Inv'
  <2>1. /\ fds' = Closed(Listen) /\ main' = "shutdown"
        /\ shutdown_flag' = shutdown_flag /\ queue' = queue /\ closed' = closed /\ got' = got
        /\ backlog' = backlog /\ kind' = kind
        /\ reply' = reply /\ listener' = listener /\ lfd' = lfd /\ worker' = worker /\ conn' = conn
        /\ ans' = ans /\ stat' = stat /\ misclosed' = misclosed
    BY <1>2 DEF MainQuit, fifo, clients, workers
  <2>2. shutdown_flag /\ shutdown_flag'
    BY <1>2, <2>1 DEF Inv, Flags
  <2>3. \A f \in Fds : fds'[f] \in {fds[f], NULL}
    BY <1>t, <1>c, <2>1 DEF Types, Closed
  <2>4. Types' /\ Counters' /\ Queues'
    BY <1>t, <1>c, <2>1 DEF Types, Counters, Queues, Closed
  <2>5. \A w \in Consumers : GotKept(w)' /\ ConnKept(w)'
    <3>1. \A w \in Consumers : Holding(w) => got[w] \in Fds
      BY DEF Inv, GotKept, Holding, Serving
    <3> QED BY <2>1, <2>3, <3>1, OtherWorker
  <2>6. Flags'
    BY <2>1, <2>2 DEF Inv, Flags
  <2>7. OneHand' /\ HeldOpen' /\ OpenHeld' /\ ListenKept'
    BY <1>2, <2>1, <2>2, ListenCloses
  <2>8. RequestsAnswered'
    BY <2>2 DEF RequestsAnswered
  <2> QED BY <1>p, <2>4, <2>5, <2>6, <2>7, <2>8
<1>3. ASSUME MainQuit, main = "cleanup" PROVE Inv'
  <2>1. /\ DiscardQueue /\ main' = "join"
        /\ shutdown_flag' = shutdown_flag /\ closed' = closed /\ got' = got /\ backlog' = backlog
        /\ kind' = kind /\ reply' = reply
        /\ listener' = listener /\ lfd' = lfd /\ worker' = worker /\ conn' = conn /\ ans' = ans
        /\ stat' = stat /\ misclosed' = misclosed
    BY <1>3 DEF MainQuit, DiscardQueue, clients, workers
  <2>2. shutdown_flag /\ shutdown_flag'
    BY <1>3, <2>1 DEF Inv, Flags
  <2>3. \A v \in Consumers : (Holding(v)' <=> Holding(v)) /\ (Holding(v) => got'[v] = got[v])
    BY <2>1 DEF Holding
  <2>4. /\ OneHand' /\ HeldOpen' /\ OpenHeld' /\ ListenKept'
        /\ \A v \in Consumers : Holding(v) => fds'[got[v]] = fds[got[v]]
    BY <2>1, <2>2, <2>3, QueueCloses
  <2>5. Types' /\ Counters' /\ Queues'
    <3>1. queue' \in Seq(Fds)
      <4>1. queue' = <<>>
        BY <2>1 DEF DiscardQueue
      <4> QED BY <4>1
    <3>2. fds' \in [Fds -> Clients \cup {"listen", NULL}]
      BY <1>t, <2>1 DEF Types, DiscardQueue
    <3>3. closed' = closed /\ got' = got
      BY <2>1 DEF DiscardQueue
    <3> QED BY <1>t, <2>1, <3>1, <3>2, <3>3 DEF Types, Counters, Queues
  <2>6. \A v \in Consumers : GotKept(v)' /\ ConnKept(v)'
    BY <2>1, <2>2, <2>4, OtherWorker
  <2>7. Flags'
    BY <2>1 DEF Inv, Flags
  <2>8. RequestsAnswered'
    BY <2>2 DEF RequestsAnswered
  <2> QED BY <1>p, <2>4, <2>5, <2>6, <2>7, <2>8
<1>4. MainQuit => main \in {"loop", "close_listener", "shutdown", "cleanup"}
  BY DEF MainQuit
<1> QED BY <1>1, <1>2, <1>3, <1>4 DEF Main

(* The invariant is inductive as long as nothing was misclosed. *)
LEMMA InvNext == Inv /\ [Next]_vars /\ ~misclosed' => Inv'
<1> SUFFICES ASSUME Inv, [Next]_vars, ~misclosed' PROVE Inv'
  OBVIOUS
<1>1. CASE Next
  BY <1>1, ConnectKeepsInv, ListenerKeepsInv, WorkerKeepsInv, MainKeepsInv DEF Next
<1>2. CASE UNCHANGED vars
  <2>1. /\ shutdown_flag' = shutdown_flag /\ queue' = queue /\ closed' = closed /\ got' = got
        /\ fds' = fds /\ backlog' = backlog /\ kind' = kind /\ reply' = reply
        /\ listener' = listener /\ lfd' = lfd /\ worker' = worker /\ conn' = conn
        /\ ans' = ans /\ stat' = stat /\ misclosed' = misclosed /\ main' = main
    BY <1>2 DEF vars
  <2>2. TypeOK' /\ Flags'
    BY <2>1, Zenon DEF Inv, TypeOK, Flags
  <2>3. \A w \in Consumers : GotKept(w)' /\ ConnKept(w)'
    BY <2>1, OtherWorker
  <2>4. OneHand' /\ HeldOpen' /\ OpenHeld' /\ ListenKept'
    BY <2>1, SameHands DEF Holding
  <2>5. RequestsAnswered'
    BY <2>1, WaitingKept
  <2> QED BY <2>2, <2>3, <2>4, <2>5 DEF Inv
<1> QED BY <1>1, <1>2

(* What was misclosed stays so. *)
LEMMA MisclosedStays == [Next]_vars /\ misclosed => misclosed'
<1> SUFFICES ASSUME [Next]_vars, misclosed PROVE misclosed'
  OBVIOUS
<1>1. ASSUME NEW w \in Consumers, Worker(w) PROVE misclosed'
  BY <1>1 DEF Worker, Dequeue, ReadFails, CountFailed, ReadRequest, Respond, Count, CloseConnection,
              QuitRequest
<1>2. ASSUME (\E c \in Clients : Connect(c)) \/ Listener \/ Main PROVE misclosed'
  BY <1>2 DEF Connect, Listener, ListenerLoop, AcceptCall, AcceptReturn, Enqueue, ListenerLeave,
              Main, MainQuit, MainInputEnds, MainJoin, workers
<1>3. CASE UNCHANGED vars
  BY <1>3 DEF vars
<1> QED BY <1>1, <1>2, <1>3 DEF Next

(* It holds until a second close ends another connection. *)
LEMMA InvAlways == Spec => [](~misclosed => Inv)
<1>1. (~misclosed => Inv) /\ [Next]_vars => (~misclosed => Inv)'
  BY InvNext, MisclosedStays
<1> QED BY <1>1, InvInit, PTL DEF Spec

-----------------------------------------------------------------------------
(* Until a shutdown an open connection is in exactly one hand: the          *)
(* listener's, the queue's or one worker's.                                 *)
LEMMA ExactlyOneHand ==
  ASSUME Inv, ~shutdown_flag, NEW f \in Fds, fds[f] \in Clients
  PROVE  Cardinality({w \in Busy : got[w] = f}) + Cardinality({i \in 1..Len(queue) : queue[i] = f})
           + (IF lfd = f THEN 1 ELSE 0) = 1
<1> DEFINE W == {w \in Busy : got[w] = f}
           Q == {i \in 1..Len(queue) : queue[i] = f}
<1>1. \A w \in Consumers : got[w] \in Fds /\ ~HasClosed(w) <=> Holding(w)
  <2>1. NULL \notin Fds /\ Fds \subseteq Nat
    BY ConstantFacts
  <2>2. -1 \notin Fds
    BY <2>1
  <2>3. \A w \in Consumers : \/ Holding(w) \/ HasClosed(w)
                               \/ worker[w] \in {"dequeue", "q_shutdown", "q_cleanup", "q_exit", "exit"}
    BY TypeSplit DEF Inv, Types, Holding, HasClosed
  <2>4. \A w \in Consumers : Holding(w) => got[w] \in Fds /\ ~HasClosed(w)
    BY DEF Inv, GotKept, Holding, HasClosed, Serving
  <2> QED BY <2>1, <2>2, <2>3, <2>4 DEF Inv, GotKept
<1>2. \A w : w \in W <=> w \in Consumers /\ Holding(w) /\ got[w] = f
  BY <1>1 DEF Busy
<1>3. \A i : i \in Q <=> i \in Places /\ queue[i] = f
  BY DEF Places
<1>4. Held(f)
  BY DEF Inv, OpenHeld
<1> HIDE DEF W, Q
<1>5. CASE lfd = f
  <2>1. W = {} /\ Q = {}
    BY <1>2, <1>3, <1>5 DEF Inv, OneHand
  <2>2. Cardinality(W) = 0 /\ Cardinality(Q) = 0
    BY <2>1, FS_EmptySet
  <2> QED BY <1>5, <2>2 DEF W, Q
<1>6. CASE lfd # f /\ \E i \in Places : queue[i] = f
  <2>1. PICK i \in Places : queue[i] = f
    BY <1>6
  <2>2. Q = {i} /\ W = {}
    BY <1>2, <1>3, <2>1 DEF Inv, OneHand
  <2>3. Cardinality(Q) = 1 /\ Cardinality(W) = 0
    BY <2>2, FS_EmptySet, FS_Singleton
  <2> QED BY <1>6, <2>3 DEF W, Q
<1>7. CASE lfd # f /\ \E w \in Consumers : Holding(w) /\ got[w] = f
  <2>1. PICK w \in Consumers : Holding(w) /\ got[w] = f
    BY <1>7
  <2>2. W = {w} /\ Q = {}
    BY <1>2, <1>3, <2>1 DEF Inv, OneHand
  <2>3. Cardinality(W) = 1 /\ Cardinality(Q) = 0
    BY <2>2, FS_EmptySet, FS_Singleton
  <2> QED BY <1>7, <2>3 DEF W, Q
<1> QED BY <1>4, <1>5, <1>6, <1>7 DEF Held

(* ConnectionOwnedOnce: from accept to the first close, across the          *)
(* listener, the queue and the workers, and with numbers reused, no         *)
(* connection is handled twice or forgotten, as long as no second close of  *)
(* handle_work's caller has ended another connection.                       *)
THEOREM ConnectionsSafe == Spec => []ConnectionOwnedOnce
<1>1. (~misclosed => Inv) => ConnectionOwnedOnce
  BY ExactlyOneHand DEF ConnectionOwnedOnce
<1> QED BY <1>1, InvAlways, PTL

(* AnswerToRequester: handle_work writes its answer to the client whose     *)
(* request it executed, or to nobody, also while the server shuts down, as  *)
(* long as no second close has ended another connection.                    *)
THEOREM AnswersRouted == Spec => []AnswerToRequester
<1>1. (~misclosed => Inv) => AnswerToRequester
  BY DEF Inv, ConnKept, AnswerToRequester
<1> QED BY <1>1, InvAlways, PTL

(* AnsweredBeforeClose: whoever hangs up, until a shutdown or a second      *)
(* close that ends another connection, no client's connection is closed     *)
(* before its request was answered.                                         *)
THEOREM NobodyDropped == Spec => []AnsweredBeforeClose
<1>1. (~misclosed => Inv) => AnsweredBeforeClose
  BY DEF Inv, AnsweredBeforeClose
<1> QED BY <1>1, InvAlways, PTL

-----------------------------------------------------------------------------
(* The types hold also after a second close has ended another connection:   *)
(* only descriptors are enqueued and only answers are sent.                 *)
TypeInv == /\ TypeOK
           /\ listener = "enqueue" => lfd \in Fds
           /\ \A w \in Consumers : worker[w] = "respond" => ans[w] \in {"K", "X"}

(* Steps of the listener, of main and of the clients keep the types. *)
LEMMA TypesOfOthers ==
  ASSUME TypeInv, (\E c \in Clients : Connect(c)) \/ Listener \/ Main
  PROVE  TypeInv'
<1>t. Types /\ Counters /\ Queues
  BY TypeSplit DEF TypeInv
<1>p. ASSUME Types', Counters', Queues', listener' = "enqueue" => lfd' \in Fds,
             \A w \in Consumers : worker'[w] = "respond" => ans'[w] \in {"K", "X"}
      PROVE  TypeInv'
  BY <1>p, Zenon DEF TypeInv, TypeOK, Types, Counters, Queues
<1>1. ASSUME NEW c \in Clients, Connect(c) PROVE TypeInv'
  <2>1. /\ backlog' = backlog \/ backlog' = Append(backlog, c)
        /\ reply' \in {[reply EXCEPT ![c] = "waiting"], [reply EXCEPT ![c] = "refused"]}
        /\ shutdown_flag' = shutdown_flag /\ queue' = queue /\ closed' = closed /\ got' = got
        /\ fds' = fds /\ kind' = kind
        /\ listener' = listener /\ lfd' = lfd /\ worker' = worker /\ conn' = conn /\ ans' = ans
        /\ main' = main /\ stat' = stat /\ misclosed' = misclosed
    BY <1>1 DEF Connect, fifo, workers
  <2>2. Queues'
    <3>1. Append(backlog, c) \in Seq(Clients)
      BY <1>t, AppendProperties DEF Queues
    <3> QED BY <1>t, <2>1, <3>1 DEF Queues
  <2>3. Types' /\ Counters'
    BY <1>t, <2>1 DEF Types, Counters
  <2> QED BY <1>p, <2>1, <2>2, <2>3 DEF TypeInv
<1>2. ASSUME ListenerLoop \/ AcceptCall \/ ListenerLeave PROVE TypeInv'
  <2>1. /\ listener' \in {"leave", "accept", "blocked", "loop", "exit"}
        /\ fds' = fds \/ fds' = Closed(Listen)
        /\ shutdown_flag' = shutdown_flag /\ queue' = queue /\ closed' = closed /\ got' = got
        /\ backlog' = backlog /\ kind' = kind
        /\ reply' = reply /\ lfd' = lfd /\ worker' = worker /\ conn' = conn /\ ans' = ans
        /\ main' = main /\ stat' = stat /\ misclosed' = misclosed
    BY <1>2 DEF ListenerLoop, AcceptCall, ListenerLeave, fifo, clients, workers
  <2>2. Types' /\ Counters' /\ Queues'
    BY <1>t, <2>1 DEF Types, Counters, Queues, Closed
  <2> QED BY <1>p, <2>1, <2>2 DEF TypeInv
<1>3. ASSUME AcceptReturn PROVE TypeInv'
  <2>1. /\ listener = "blocked" /\ backlog # <<>>
        /\ \/ listener' = "loop" /\ fds' = fds /\ lfd' = lfd /\ backlog' = backlog
           \/ /\ ~\A f \in Fds : fds[f] # NULL
              /\ lfd' = LowestFree /\ fds' = [fds EXCEPT ![LowestFree] = Head(backlog)]
              /\ backlog' = Tail(backlog) /\ listener' = "enqueue"
        /\ shutdown_flag' = shutdown_flag /\ queue' = queue /\ closed' = closed /\ got' = got
        /\ kind' = kind
        /\ reply' = reply /\ worker' = worker /\ conn' = conn /\ ans' = ans /\ main' = main
        /\ stat' = stat /\ misclosed' = misclosed
    BY <1>3 DEF AcceptReturn, AcceptFailed, fifo, workers
  <2>2. Head(backlog) \in Clients /\ Tail(backlog) \in Seq(Clients)
    BY <1>t, <2>1, HeadTailProperties DEF Queues
  <2>3. listener' = "enqueue" => lfd' \in Fds
    BY <2>1, LowestFreeFound
  <2>4. Types' /\ Counters' /\ Queues'
    BY <1>t, <2>1, <2>2, <2>3 DEF Types, Counters, Queues
  <2> QED BY <1>p, <2>1, <2>3, <2>4 DEF TypeInv
<1>4. ASSUME Enqueue PROVE TypeInv'
  <2>1. /\ listener = "enqueue" /\ listener' = "loop" /\ queue' = Append(queue, lfd) /\ lfd' = NULL
        /\ shutdown_flag' = shutdown_flag /\ closed' = closed /\ got' = got /\ fds' = fds
        /\ backlog' = backlog /\ kind' = kind
        /\ reply' = reply /\ worker' = worker /\ conn' = conn /\ ans' = ans /\ main' = main
        /\ stat' = stat /\ misclosed' = misclosed
    BY <1>4 DEF Enqueue, Fifo!Put, clients, workers
  <2>2. Append(queue, lfd) \in Seq(Fds)
    BY <1>t, <2>1, AppendProperties DEF TypeInv, Queues
  <2>3. Types' /\ Counters' /\ Queues'
    BY <1>t, <2>1, <2>2 DEF Types, Counters, Queues
  <2> QED BY <1>p, <2>1, <2>3 DEF TypeInv
<1>5. ASSUME Main PROVE TypeInv'
  <2>1. /\ main' \in {"close_listener", "shutdown", "cleanup", "join", "exited"}
        /\ shutdown_flag' = shutdown_flag \/ shutdown_flag' = TRUE
        /\ closed' = closed \/ closed' = TRUE
        /\ fds' = fds \/ fds' = Closed(Listen) \/ DiscardQueue
        /\ queue' = queue \/ queue' = <<>>
        /\ got' = got /\ backlog' = backlog /\ kind' = kind /\ reply' = reply /\ listener' = listener
        /\ lfd' = lfd /\ worker' = worker /\ conn' = conn /\ ans' = ans /\ stat' = stat /\ misclosed' = misclosed
    BY <1>5 DEF Main, MainQuit, MainInputEnds, MainJoin, DiscardQueue, Fifo!Close, fifo, clients,
           workers
  <2>2. queue' \in Seq(Fds)
    <3>1. <<>> \in Seq(Fds)
      OBVIOUS
    <3> QED BY <1>t, <2>1, <3>1 DEF Queues
  <2>3. fds' \in [Fds -> Clients \cup {"listen", NULL}]
    BY <1>t, <2>1 DEF Types, Closed, DiscardQueue
  <2>4. Types' /\ Counters' /\ Queues'
    <3>1. Counters' /\ Queues'
      BY <1>t, <2>1, <2>2 DEF Counters, Queues
    <3>2. shutdown_flag' \in BOOLEAN /\ closed' \in BOOLEAN
      BY <1>t, <2>1, Zenon DEF Types
    <3>3. main' \in {"loop", "close_listener", "shutdown", "cleanup", "join", "exited"}
      BY <2>1
    <3> QED BY <1>t, <2>1, <2>3, <3>1, <3>2, <3>3, Zenon DEF Types
  <2> QED BY <1>p, <2>1, <2>4 DEF TypeInv
<1> QED BY <1>1, <1>2, <1>3, <1>4, <1>5 DEF Listener

(* So do the workers' steps. *)
LEMMA TypesOfWorker ==
  ASSUME TypeInv, NEW w \in Consumers, Worker(w)
  PROVE  TypeInv'
<1>t. Types /\ Counters /\ Queues
  BY TypeSplit DEF TypeInv
<1>p. ASSUME Types', Counters', Queues', listener' = listener, lfd' = lfd,
             \A v \in Consumers : worker'[v] = "respond" => ans'[v] \in {"K", "X"}
      PROVE  TypeInv'
  BY <1>p, Zenon DEF TypeInv, TypeOK, Types, Counters, Queues
<1>m. misclosed' \in BOOLEAN
  BY <1>t, MisclosedTyped DEF Counters
<1>1. ASSUME Dequeue(w) PROVE TypeInv'
  <2>1. /\ \/ /\ queue # <<>> /\ got' = [got EXCEPT ![w] = Head(queue)] /\ queue' = Tail(queue)
              /\ worker' = [worker EXCEPT ![w] = "read"]
           \/ /\ got' = [got EXCEPT ![w] = -1] /\ queue' = queue
              /\ worker' = [worker EXCEPT ![w] = "exit"]
        /\ shutdown_flag' = shutdown_flag /\ closed' = closed /\ fds' = fds /\ backlog' = backlog
        /\ kind' = kind /\ reply' = reply
        /\ listener' = listener /\ lfd' = lfd /\ conn' = conn /\ ans' = ans /\ main' = main
        /\ stat' = stat /\ misclosed' = misclosed
    BY <1>1 DEF Dequeue, Fifo!Take, Fifo!Stop, clients
  <2>2. queue # <<>> => Head(queue) \in Fds /\ Tail(queue) \in Seq(Fds)
    BY <1>t, HeadTailProperties DEF Queues
  <2>3. Types' /\ Counters' /\ Queues'
    BY <1>t, <2>1, <2>2, ZenonT(60) DEF Types, Counters, Queues
  <2>4. \A v \in Consumers : worker'[v] = "respond" => worker[v] = "respond"
    BY <1>t, <2>1 DEF Types
  <2> QED BY <1>p, <2>1, <2>3, <2>4 DEF TypeInv
<1>2. ASSUME ReadFails(w) \/ CloseConnection(w) \/ QuitRequest(w) PROVE TypeInv'
  <2>1. /\ fds' = fds \/ fds' = Closed(got[w]) \/ DiscardQueue
        /\ queue' = queue \/ queue' = <<>>
        /\ worker' = worker \/ \E l \in {"count_failed", "dequeue", "q_shutdown", "q_cleanup", "q_exit"} :
                                 worker' = [worker EXCEPT ![w] = l]
        /\ main' = main \/ main' = "exited"
        /\ shutdown_flag' = shutdown_flag \/ shutdown_flag' = TRUE
        /\ closed' = closed \/ closed' = TRUE
        /\ got' = got \/ got' = [got EXCEPT ![w] = NULL]
        /\ conn' = conn \/ conn' = [conn EXCEPT ![w] = NULL]
        /\ ans' = ans \/ (ans' = [ans EXCEPT ![w] = NULL] /\ worker' = [worker EXCEPT ![w] = "dequeue"])
        /\ listener' = listener /\ lfd' = lfd /\ backlog' = backlog /\ kind' = kind
        /\ reply' = reply /\ stat' = stat
    BY <1>2 DEF ReadFails, CloseConnection, QuitRequest, WorkerCloses, ExitProcess, DiscardQueue,
                Fifo!Done, Fifo!Close, fifo, clients
  <2>2. queue' \in Seq(Fds)
    <3>1. <<>> \in Seq(Fds)
      OBVIOUS
    <3> QED BY <1>t, <2>1, <3>1 DEF Queues
  <2>3. fds' \in [Fds -> Clients \cup {"listen", NULL}]
    BY <1>t, <2>1 DEF Types, Closed, DiscardQueue
  <2>4. worker' \in [Consumers -> {"dequeue", "read", "count_failed", "respond", "count", "close",
                                  "q_shutdown", "q_cleanup", "q_exit", "exit"}]
    BY <1>t, <2>1 DEF Types
  <2>5. /\ shutdown_flag' \in BOOLEAN /\ closed' \in BOOLEAN /\ got' \in [Consumers -> Fds \cup {NULL, -1}]
        /\ conn' \in [Consumers -> Clients \cup {NULL}] /\ ans' \in [Consumers -> {"K", "X", NULL}]
    BY <1>t, <2>1 DEF Types
  <2>6. Types' /\ Counters' /\ Queues'
    <3>1. Counters'
      BY <1>t, <1>m, <2>1 DEF Counters
    <3> QED BY <1>t, <2>1, <2>2, <2>3, <2>4, <2>5, <3>1 DEF Types, Queues
  <2>7. \A v \in Consumers : worker'[v] = "respond" => worker[v] = "respond" /\ ans'[v] = ans[v]
    BY <1>t, <2>1 DEF Types
  <2> QED BY <1>p, <2>1, <2>6, <2>7 DEF TypeInv
<1>3. ASSUME CountFailed(w) \/ Count(w) PROVE TypeInv'
  <2>1. /\ worker' = [worker EXCEPT ![w] = "close"]
        /\ misclosed' = misclosed
        /\ \E T : stat' = [x \in DOMAIN stat |-> IF x \in T THEN stat[x] + 1 ELSE stat[x]]
        /\ shutdown_flag' = shutdown_flag /\ queue' = queue /\ closed' = closed /\ got' = got
        /\ fds' = fds /\ backlog' = backlog
        /\ kind' = kind /\ reply' = reply /\ listener' = listener /\ lfd' = lfd /\ conn' = conn
        /\ ans' = ans /\ main' = main
    <3>1. CASE CountFailed(w)
      <4>1. stat' = [x \in DOMAIN stat |-> IF x \in {"failed"} THEN stat[x] + 1 ELSE stat[x]]
        BY <1>t, <3>1 DEF CountFailed, Counters
      <4> QED BY <3>1, <4>1 DEF CountFailed, fifo, clients
    <3>2. CASE Count(w)
      <4> DEFINE T == {x \in DOMAIN stat : x = kind[conn[w]] \/ (x = "failed" /\ ans[w] = "X")}
      <4>1. stat' = [x \in DOMAIN stat |-> IF x \in T THEN stat[x] + 1 ELSE stat[x]]
        BY <3>2 DEF Count
      <4> QED BY <3>2, <4>1 DEF Count, fifo, clients
    <3> QED BY <1>3, <3>1, <3>2
  <2>2. Counters'
    BY <1>t, <2>1 DEF Counters
  <2>3. Types' /\ Queues'
    BY <1>t, <2>1 DEF Types, Queues
  <2>4. \A v \in Consumers : worker'[v] = "respond" => worker[v] = "respond"
    BY <1>t, <2>1 DEF Types
  <2> QED BY <1>p, <2>1, <2>2, <2>3, <2>4 DEF TypeInv
<1>4. ASSUME ReadRequest(w) PROVE TypeInv'
  <2>1. /\ worker' = [worker EXCEPT ![w] = "respond"]
        /\ fds[got[w]] \in Clients /\ conn' = [conn EXCEPT ![w] = fds[got[w]]]
        /\ ans' \in {[ans EXCEPT ![w] = "K"], [ans EXCEPT ![w] = "X"]}
        /\ shutdown_flag' = shutdown_flag /\ queue' = queue /\ closed' = closed /\ got' = got
        /\ fds' = fds /\ backlog' = backlog
        /\ kind' = kind /\ reply' = reply /\ listener' = listener /\ lfd' = lfd /\ main' = main
        /\ stat' = stat /\ misclosed' = misclosed
    BY <1>4 DEF ReadRequest, KeepOpen, fifo, clients
  <2>2. Types' /\ Counters' /\ Queues'
    BY <1>t, <2>1 DEF Types, Counters, Queues
  <2>3. \A v \in Consumers : worker'[v] = "respond" => ans'[v] \in {"K", "X"}
    BY <1>t, <2>1 DEF Types, TypeInv
  <2> QED BY <1>p, <2>1, <2>2, <2>3
<1>5. ASSUME Respond(w) PROVE TypeInv'
  <2>1. /\ worker[w] = "respond" /\ worker' = [worker EXCEPT ![w] = "count"]
        /\ reply' = (IF fds[got[w]] \in Clients THEN [reply EXCEPT ![fds[got[w]]] = ans[w]] ELSE reply)
        /\ shutdown_flag' = shutdown_flag /\ queue' = queue /\ closed' = closed /\ got' = got
        /\ fds' = fds /\ backlog' = backlog
        /\ kind' = kind /\ listener' = listener /\ lfd' = lfd /\ conn' = conn /\ ans' = ans
        /\ main' = main /\ stat' = stat /\ misclosed' = misclosed
    BY <1>5 DEF Respond, Send, fifo, clients
  <2>2. ans[w] \in {"K", "X"}
    BY <2>1 DEF TypeInv
  <2>3. Types' /\ Counters' /\ Queues'
    BY <1>t, <2>1, <2>2 DEF Types, Counters, Queues
  <2>4. \A v \in Consumers : worker'[v] = "respond" => worker[v] = "respond"
    BY <1>t, <2>1 DEF Types
  <2> QED BY <1>p, <2>1, <2>3, <2>4 DEF TypeInv
<1> QED BY <1>1, <1>2, <1>3, <1>4, <1>5 DEF Worker

(* TypeOK, for every mix of requests and clients that hang up: the queue    *)
(* holds descriptors only, clients get answers only, counters count.        *)
THEOREM TypeCorrect == Spec => []TypeOK
<1>1. Init => TypeInv
  BY InvInit DEF Inv, TypeInv, Init
<1>2. TypeInv /\ [Next]_vars => TypeInv'
  <2> SUFFICES ASSUME TypeInv, [Next]_vars PROVE TypeInv'
    OBVIOUS
  <2>1. CASE Next
    BY <2>1, TypesOfOthers, TypesOfWorker DEF Next
  <2>2. CASE UNCHANGED vars
    BY <2>2, Zenon DEF vars, TypeInv, TypeOK
  <2> QED BY <2>1, <2>2
<1>3. TypeInv => TypeOK
  BY DEF TypeInv
<1> QED BY <1>1, <1>2, <1>3, PTL DEF Spec
=============================================================================
