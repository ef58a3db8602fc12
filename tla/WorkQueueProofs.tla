-------------------------- MODULE WorkQueueProofs --------------------------
(* Proofs about WorkQueue, for every set of threads, heap cells and         *)
(* descriptors.                                                             *)
EXTENDS WorkQueue, TLAPS, FiniteSetTheorems, SequenceTheorems

(* The inductive invariant: each part needs the others.  The list is well   *)
(* formed only because cells are owned once (a linked cell is not written   *)
(* by a producer), the counter is natural only because it is at least the   *)
(* length, and descriptors stay unique only because cells do.               *)
Inv == /\ TypeOK
       /\ ThreadProtocol
       /\ ListWellFormed
       /\ CellsOwnedOnce
       /\ ConnectionOwnedOnce
       /\ CounterExact

(* queue_init's empty queue satisfies the inductive invariant. *)
LEMMA InvInit == Init => Inv
<1> SUFFICES ASSUME Init PROVE Inv
  OBVIOUS
<1> USE ConstantsAssumption DEF Init
<1>0. Len(order) = 0
  OBVIOUS
<1>1. TypeOK
  <2>1. pc \in [Threads -> Locations]
    BY DEF Locations
  <2>2. next \in [Cells -> Cells \cup {NULL}] /\ sock_fd \in [Cells -> Fds \cup {NULL}]
    OBVIOUS
  <2>3. item \in [Producers -> Cells \cup {NULL}] /\ fd \in [Producers \cup Consumers -> Fds \cup {NULL, -1}]
    OBVIOUS
  <2>4. order \in Seq(Cells)
    BY EmptySeq
  <2>5. shutdown_flag \in BOOLEAN
    OBVIOUS
  <2> QED BY <2>1, <2>2, <2>3, <2>4, <2>5 DEF TypeOK
<1>2. ThreadProtocol
  BY <1>0 DEF ThreadProtocol, Threads
<1>3. ListWellFormed
  BY <1>0 DEF ListWellFormed
<1>4. CellsOwnedOnce
  BY <1>0 DEF CellsOwnedOnce, Linking, Threads
<1>5. ConnectionOwnedOnce
  BY <1>0 DEF ConnectionOwnedOnce, Held, Holders, Threads
<1>6. CounterExact
  BY <1>0 DEF CounterExact
<1> QED
  BY <1>1, <1>2, <1>3, <1>4, <1>5, <1>6 DEF Inv

(* What unlinking the head cell does: the list loses its first cell and is  *)
(* otherwise unchanged, and so are the sets of cells and connections in it. *)
LEMMA UnlinkFacts ==
  ASSUME Inv, queue_head # NULL, UnlinkHead
  PROVE  /\ Len(order) \in Nat \ {0} /\ queue_head = order[1] /\ order[1] \in Cells
         /\ order' \in Seq(Cells) /\ Len(order') = Len(order) - 1
         /\ \A i \in 1..Len(order') : order'[i] = order[i + 1]
         /\ queue_head' = IF Len(order') = 0 THEN NULL ELSE order'[1]
         /\ \A i \in 1..Len(order') :
              next'[order'[i]] = IF i = Len(order') THEN NULL ELSE order'[i + 1]
         /\ {order'[i] : i \in 1..Len(order')} = {order[i] : i \in 1..Len(order)} \ {order[1]}
         /\ \A q \in Linking : item[q] # order[1]
         /\ {sock_fd[order[i]] : i \in 1..Len(order)}
              = {sock_fd[order'[i]] : i \in 1..Len(order')} \cup {sock_fd[order[1]]}
<1>1. Len(order) # 0 /\ queue_head = order[1]
  BY DEF Inv, ListWellFormed
<1>2. order \in Seq(Cells) /\ order # <<>> /\ Len(order) \in Nat /\ order[1] \in Cells
  BY <1>1 DEF Inv, TypeOK
<1>3. /\ order' \in Seq(Cells) /\ Len(order') = Len(order) - 1
      /\ \A i \in 1..Len(order') : order'[i] = order[i + 1]
  BY <1>1, <1>2, HeadTailProperties DEF UnlinkHead
<1>4. \A i \in 1..Len(order) : next[order[i]] = IF i = Len(order) THEN NULL ELSE order[i + 1]
  BY DEF Inv, ListWellFormed
<1>a. next' = next /\ queue_head' = next[queue_head]
  BY DEF UnlinkHead
<1>5. \A i \in 1..Len(order') :
        next'[order'[i]] = IF i = Len(order') THEN NULL ELSE order'[i + 1]
  <2> TAKE i \in 1..Len(order')
  <2>1. i + 1 \in 1..Len(order) /\ (i + 1 = Len(order) <=> i = Len(order'))
    BY <1>2, <1>3
  <2>2. i # Len(order') => i + 1 \in 1..Len(order')
    BY <1>2, <1>3
  <2> QED BY <1>3, <1>4, <1>a, <2>1, <2>2
<1>6. queue_head' = IF Len(order') = 0 THEN NULL ELSE order'[1]
  <2>1. next[order[1]] = IF Len(order) = 1 THEN NULL ELSE order[2]
    BY <1>1, <1>2, <1>4
  <2> QED BY <1>1, <1>2, <1>3, <1>a, <2>1
<1>7. \A i \in 1..Len(order) : i = 1 \/ (i - 1 \in 1..Len(order') /\ order'[i - 1] = order[i])
  BY <1>2, <1>3
<1>8. {order'[i] : i \in 1..Len(order')} = {order[i] : i \in 1..Len(order)} \ {order[1]}
  <2>1. \A i, j \in 1..Len(order) : order[i] = order[j] => i = j
    BY DEF Inv, CellsOwnedOnce
  <2>2. \A i \in 1..Len(order') : i + 1 \in 1..Len(order) /\ 1 \in 1..Len(order) /\ i + 1 # 1
    BY <1>1, <1>2, <1>3
  <2> QED BY <1>3, <1>7, <2>1, <2>2
<1>9. {sock_fd[order[i]] : i \in 1..Len(order)}
        = {sock_fd[order'[i]] : i \in 1..Len(order')} \cup {sock_fd[order[1]]}
  <2>1. 1 \in 1..Len(order) /\ \A i \in 1..Len(order') : i + 1 \in 1..Len(order)
    BY <1>1, <1>2, <1>3
  <2> QED BY <1>3, <1>7, <2>1
<1>10. \A q \in Linking : item[q] # order[1]
  BY <1>1, <1>2 DEF Inv, CellsOwnedOnce
<1> QED
  BY <1>1, <1>2, <1>3, <1>5, <1>6, <1>8, <1>9, <1>10

(* Every critical section, and every step of a caller between two of them,  *)
(* preserves the inductive invariant.                                       *)
LEMMA InvNext == Inv /\ [Next]_vars => Inv'
<1> SUFFICES ASSUME Inv, [Next]_vars PROVE Inv'
  OBVIOUS
<1> USE ConstantsAssumption
<1>1. ASSUME NEW p \in Producers, ListenerLoop(p) PROVE Inv'
  <2>1. TypeOK'
    BY <1>1 DEF ListenerLoop, list, Inv, TypeOK, Locations, ThreadProtocol, CounterExact, Threads
  <2>2. ThreadProtocol'
    BY <1>1, <2>1 DEF ListenerLoop, list, Inv, TypeOK, Locations, ThreadProtocol, CellsOwnedOnce, Linking, Threads
  <2>3. ListWellFormed'
    BY <1>1, <2>1 DEF ListenerLoop, list, Inv, TypeOK, Locations, ThreadProtocol, ListWellFormed, CellsOwnedOnce, Linking, Threads, MutexFree
  <2>4. CellsOwnedOnce'
    BY <1>1, <2>1 DEF ListenerLoop, list, Inv, TypeOK, Locations, ThreadProtocol, CellsOwnedOnce, Linking, Threads
  <2>5. ConnectionOwnedOnce'
    <3>1. Holders' = Holders
      BY <1>1 DEF ListenerLoop, Holders, Inv, TypeOK, Locations, ThreadProtocol, Threads
    <3> QED BY <1>1, <3>1 DEF ListenerLoop, list, Inv, ConnectionOwnedOnce, Held
  <2>6. CounterExact'
    BY <1>1 DEF ListenerLoop, list, Inv, TypeOK, Locations, CounterExact
  <2> QED BY <2>1, <2>2, <2>3, <2>4, <2>5, <2>6 DEF Inv
<1>2. ASSUME NEW p \in Producers, Accept(p) PROVE Inv'
  <2>1. TypeOK'
    BY <1>2 DEF Accept, list, Inv, TypeOK, Locations, ThreadProtocol, CounterExact, Threads
  <2>2. ThreadProtocol'
    BY <1>2, <2>1 DEF Accept, list, Inv, TypeOK, Locations, ThreadProtocol, CellsOwnedOnce, Linking, Threads
  <2>3. ListWellFormed'
    BY <1>2, <2>1 DEF Accept, list, Inv, TypeOK, Locations, ThreadProtocol, ListWellFormed, CellsOwnedOnce, Linking, Threads, MutexFree
  <2>4. CellsOwnedOnce'
    BY <1>2, <2>1 DEF Accept, list, Inv, TypeOK, Locations, ThreadProtocol, CellsOwnedOnce, Linking, Threads
  <2>5. ConnectionOwnedOnce'
    BY <1>2, <2>1 DEF Accept, list, Inv, TypeOK, Locations, ThreadProtocol, CellsOwnedOnce, ConnectionOwnedOnce, Held, Linking, Holders, Threads
  <2>6. CounterExact'
    BY <1>2 DEF Accept, list, Inv, TypeOK, Locations, CounterExact
  <2> QED BY <2>1, <2>2, <2>3, <2>4, <2>5, <2>6 DEF Inv
<1>3. ASSUME NEW p \in Producers, AcceptFails(p) PROVE Inv'
  <2>1. TypeOK'
    BY <1>3 DEF AcceptFails, list, Inv, TypeOK, Locations, ThreadProtocol, CounterExact, Threads
  <2>2. ThreadProtocol'
    BY <1>3, <2>1 DEF AcceptFails, list, Inv, TypeOK, Locations, ThreadProtocol, CellsOwnedOnce, Linking, Threads
  <2>3. ListWellFormed'
    BY <1>3, <2>1 DEF AcceptFails, list, Inv, TypeOK, Locations, ThreadProtocol, ListWellFormed, CellsOwnedOnce, Linking, Threads, MutexFree
  <2>4. CellsOwnedOnce'
    BY <1>3, <2>1 DEF AcceptFails, list, Inv, TypeOK, Locations, ThreadProtocol, CellsOwnedOnce, Linking, Threads
  <2>5. ConnectionOwnedOnce'
    BY <1>3, <2>1 DEF AcceptFails, list, Inv, TypeOK, Locations, ThreadProtocol, CellsOwnedOnce, ConnectionOwnedOnce, Held, Linking, Holders, Threads
  <2>6. CounterExact'
    BY <1>3 DEF AcceptFails, list, Inv, TypeOK, Locations, CounterExact
  <2> QED BY <2>1, <2>2, <2>3, <2>4, <2>5, <2>6 DEF Inv
<1>4. ASSUME NEW p \in Producers, EnqueueMallocFails(p) PROVE Inv'
  <2>1. TypeOK'
    BY <1>4 DEF EnqueueMallocFails, RefuseConnection, list, Inv, TypeOK, Locations, ThreadProtocol, CounterExact, Threads
  <2>2. ThreadProtocol'
    BY <1>4, <2>1 DEF EnqueueMallocFails, RefuseConnection, list, Inv, TypeOK, Locations, ThreadProtocol, CellsOwnedOnce, Linking, Threads
  <2>3. ListWellFormed'
    BY <1>4, <2>1 DEF EnqueueMallocFails, RefuseConnection, list, Inv, TypeOK, Locations, ThreadProtocol, ListWellFormed, CellsOwnedOnce, Linking, Threads, MutexFree
  <2>4. CellsOwnedOnce'
    BY <1>4, <2>1 DEF EnqueueMallocFails, RefuseConnection, list, Inv, TypeOK, Locations, ThreadProtocol, CellsOwnedOnce, Linking, Threads
  <2>5. ConnectionOwnedOnce'
    BY <1>4, <2>1 DEF EnqueueMallocFails, RefuseConnection, list, Inv, TypeOK, Locations, ThreadProtocol, CellsOwnedOnce, ConnectionOwnedOnce, Held, Linking, Holders, Threads
  <2>6. CounterExact'
    BY <1>4 DEF EnqueueMallocFails, RefuseConnection, list, Inv, TypeOK, Locations, CounterExact
  <2> QED BY <2>1, <2>2, <2>3, <2>4, <2>5, <2>6 DEF Inv
<1>5. ASSUME NEW p \in Producers, EnqueueMalloc(p) PROVE Inv'
  <2>1. TypeOK'
    BY <1>5 DEF EnqueueMalloc, NextNull, Inv, TypeOK, Locations, ThreadProtocol, CounterExact, Threads
  <2>2. ThreadProtocol'
    BY <1>5, <2>1 DEF EnqueueMalloc, NextNull, Inv, TypeOK, Locations, ThreadProtocol, CellsOwnedOnce, Linking, Threads
  <2>3. ListWellFormed'
    BY <1>5, <2>1 DEF EnqueueMalloc, NextNull, Inv, TypeOK, Locations, ThreadProtocol, ListWellFormed, CellsOwnedOnce, Linking, Threads, MutexFree
  <2>4. CellsOwnedOnce'
    BY <1>5, <2>1 DEF EnqueueMalloc, NextNull, Inv, TypeOK, Locations, ThreadProtocol, CellsOwnedOnce, Linking, Threads
  <2>5. ConnectionOwnedOnce'
    <3>1. Holders' = Holders
      BY <1>5 DEF EnqueueMalloc, Holders, Inv, TypeOK, Locations, ThreadProtocol, Threads
    <3>2. \A i \in 1..Len(order) : sock_fd'[order[i]] = sock_fd[order[i]]
      BY <1>5 DEF EnqueueMalloc, Inv, TypeOK, Locations, CellsOwnedOnce
    <3> QED BY <1>5, <3>1, <3>2 DEF EnqueueMalloc, Inv, ConnectionOwnedOnce, Held
  <2>6. CounterExact'
    BY <1>5 DEF EnqueueMalloc, NextNull, Inv, TypeOK, Locations, CounterExact
  <2> QED BY <2>1, <2>2, <2>3, <2>4, <2>5, <2>6 DEF Inv
<1>6. ASSUME NEW p \in Producers, EnqueueLink(p) PROVE Inv'
  <2> USE <1>6 DEF EnqueueLink
  <2>1. /\ pc[p] = "link" /\ pc'[p] = "loop"
        /\ \A t \in Threads \ {p} :
             pc'[t] = pc[t] \/ (t \in Consumers /\ pc[t] = "wait" /\ pc'[t] = "woken")
        /\ pc' \in [Threads -> Locations]
    <3>1. /\ pc[p] = "link" /\ SignalAndReturn(p) /\ p \in Threads
          /\ pc \in [Threads -> Locations]
      BY DEF Inv, TypeOK, Threads
    <3>2. {"loop", "woken"} \subseteq Locations
      BY DEF Locations
    <3> HIDE <1>6
    <3>3. CASE Waiters = {}
      <4>1. pc' = [pc EXCEPT ![p] = "loop"]
        BY <3>1, <3>3 DEF SignalAndReturn
      <4> QED BY <3>1, <3>2, <4>1
    <3>4. CASE Waiters # {}
      <4>1. PICK w \in Waiters : pc' = [pc EXCEPT ![p] = "loop", ![w] = "woken"]
        BY <3>1, <3>4 DEF SignalAndReturn
      <4>2. w \in Consumers /\ pc[w] = "wait" /\ w \in Threads /\ w # p
        BY <3>1 DEF Waiters, Threads
      <4> QED BY <3>1, <3>2, <4>1, <4>2
    <3> QED BY <3>3, <3>4
  <2>2. /\ Linking' = Linking \ {p} /\ p \in Linking
        /\ Holders' = Holders \ {p} /\ p \in Holders
        /\ \A m \in Controllers : pc'[m] = pc[m]
    BY <2>1 DEF Linking, Holders, Threads
  <2>3. /\ item[p] \in Cells /\ fd[p] \in Fds
        /\ sock_fd[item[p]] = fd[p] /\ next[item[p]] = NULL
        /\ \A i \in 1..Len(order) : order[i] # item[p]
    BY <2>2 DEF Inv, ThreadProtocol, CellsOwnedOnce, Linking
  <2>4. /\ order' \in Seq(Cells)
        /\ Len(order) \in Nat /\ Len(order') = Len(order) + 1
        /\ \A i \in 1..Len(order) : order'[i] = order[i] /\ order[i] \in Cells
        /\ order'[Len(order) + 1] = item[p]
    BY <2>3, AppendProperties DEF Inv, TypeOK, Locations
  <2>5. \A q \in Producers \ {p} : item'[q] = item[q] /\ fd'[q] = fd[q]
    BY DEF Inv, TypeOK, Locations
  <2>6. \A c \in Consumers : fd'[c] = fd[c]
    BY DEF Inv, TypeOK, Locations
  <2>11. TypeOK'
    <3>1. queue_head' \in Cells \cup {NULL} /\ queue_tail' \in Cells
      BY <2>3 DEF Inv, TypeOK
    <3>2. next' \in [Cells -> Cells \cup {NULL}]
      BY <2>3 DEF Inv, TypeOK
    <3>3. queued_requests' \in Nat
      BY DEF CountUp, Inv, TypeOK
    <3>4. /\ item' \in [Producers -> Cells \cup {NULL}]
          /\ fd' \in [Producers \cup Consumers -> Fds \cup {NULL, -1}]
      BY DEF Inv, TypeOK
    <3> QED BY <2>1, <2>4, <3>1, <3>2, <3>3, <3>4 DEF Inv, TypeOK
  <2>12. ThreadProtocol'
    <3>1. \A q \in Producers :
            /\ pc'[q] \in {"loop", "accept", "enqueue", "link", "exit"}
            /\ pc'[q] \in {"enqueue", "link"} => fd'[q] \in Fds
            /\ pc'[q] = "link" => /\ item'[q] \in Cells
                                  /\ sock_fd'[item'[q]] = fd'[q]
                                  /\ next'[item'[q]] = NULL
      <4> SUFFICES ASSUME NEW q \in Producers \ {p}, pc'[q] = "link"
                   PROVE next'[item[q]] = NULL
        BY <2>1, <2>5 DEF Inv, ThreadProtocol, Threads
      <4>1. q \in Linking /\ next[item[q]] = NULL /\ item[q] \in Cells
        BY <2>1 DEF Inv, ThreadProtocol, Threads, Linking
      <4>2. queue_tail # NULL => \E i \in 1..Len(order) : queue_tail = order[i]
        BY <2>4 DEF Inv, ListWellFormed
      <4> QED BY <4>1, <4>2 DEF Inv, TypeOK, Locations, CellsOwnedOnce
    <3>2. \A i \in 1..Len(order') : sock_fd'[order'[i]] \in Fds
      BY <2>3, <2>4 DEF Inv, ThreadProtocol
    <3>3. \A c \in Consumers :
            /\ pc'[c] \in {"loop", "wait", "woken", "serve", "failed", "exit"}
            /\ pc'[c] \in {"serve", "failed"} => fd'[c] \in Fds
      BY <2>1, <2>6 DEF Inv, ThreadProtocol, Threads
    <3> QED BY <3>1, <3>2, <3>3, <2>2 DEF Inv, ThreadProtocol
  <2>13. ListWellFormed'
    <3>1. MutexFree /\ MutexFree'
      BY <2>2 DEF MutexFree
    <3>2. CASE Len(order) = 0
      BY <3>1, <3>2, <2>3, <2>4 DEF Inv, ListWellFormed
    <3>3. CASE Len(order) # 0
      <4>1. queue_tail = order[Len(order)] /\ queue_tail # NULL /\ queue_tail \in Cells
        BY <3>1, <3>3, <2>4 DEF Inv, ListWellFormed
      <4>2. next' = [next EXCEPT ![queue_tail] = item[p]] /\ queue_head' = queue_head
        BY <4>1
      <4>3. \A i \in 1..Len(order) : next'[order[i]] = IF i = Len(order) THEN item[p] ELSE order[i + 1]
        <5>1. \A i \in 1..Len(order) : next[order[i]] = IF i = Len(order) THEN NULL ELSE order[i + 1]
          BY DEF Inv, ListWellFormed
        <5>2. \A i \in 1..Len(order) : order[i] = queue_tail <=> i = Len(order)
          BY <3>3, <4>1, <2>4 DEF Inv, CellsOwnedOnce
        <5>3. next \in [Cells -> Cells \cup {NULL}]
          BY DEF Inv, TypeOK
        <5> HIDE <1>6
        <5> QED BY <4>1, <4>2, <2>4, <5>1, <5>2, <5>3
      <4>4. next'[item[p]] = NULL
        BY <4>1, <4>2, <2>3, <2>4, <3>3 DEF Inv, TypeOK, Locations
      <4> QED BY <3>3, <4>2, <4>3, <4>4, <2>4 DEF Inv, ListWellFormed
    <3> QED BY <3>2, <3>3
  <2>14. CellsOwnedOnce'
    <3>1. {order'[i] : i \in 1..Len(order')} = {order[i] : i \in 1..Len(order)} \cup {item[p]}
      BY <2>4
    <3>2. {item'[q] : q \in Linking'} \cup {item[p]} = {item[q] : q \in Linking}
      BY <2>2, <2>5 DEF Linking
    <3>3. allocated' = {order'[i] : i \in 1..Len(order')} \cup {item'[q] : q \in Linking'}
      BY <3>1, <3>2 DEF Inv, CellsOwnedOnce
    <3> QED BY <3>3, <2>2, <2>3, <2>4, <2>5 DEF Inv, CellsOwnedOnce, Linking
  <2>15. ConnectionOwnedOnce'
    <3>0. sock_fd' = sock_fd
      OBVIOUS
    <3>1. {sock_fd'[order'[i]] : i \in 1..Len(order')} = {sock_fd[order[i]] : i \in 1..Len(order)} \cup {fd[p]}
      <4>1. /\ \A i \in 1..Len(order') : i \in 1..Len(order) \/ i = Len(order) + 1
            /\ \A i \in 1..Len(order) : i \in 1..Len(order')
            /\ Len(order) + 1 \in 1..Len(order')
        BY <2>4
      <4> HIDE <1>6
      <4> QED BY <2>3, <2>4, <3>0, <4>1
    <3>2. {fd'[t] : t \in Holders'} \cup {fd[p]} = {fd[t] : t \in Holders}
      BY <2>2, <2>5, <2>6 DEF Holders
    <3>3. Held' = Held
      BY <3>1, <3>2 DEF Held
    <3> QED BY <3>3, <2>2, <2>3, <2>4, <2>5, <2>6 DEF Inv, ConnectionOwnedOnce, Holders
  <2>16. CounterExact'
    BY <2>4 DEF Inv, TypeOK, Locations, CounterExact, CountUp
  <2> QED BY <2>11, <2>12, <2>13, <2>14, <2>15, <2>16 DEF Inv
<1>7. ASSUME NEW c \in Consumers, DequeueWait(c) PROVE Inv'
  <2>1. TypeOK'
    BY <1>7 DEF DequeueWait, InDequeue, MutexFree, list, Inv, TypeOK, Locations, ThreadProtocol, CounterExact, Threads
  <2>2. ThreadProtocol'
    BY <1>7, <2>1 DEF DequeueWait, InDequeue, MutexFree, list, Inv, TypeOK, Locations, ThreadProtocol, CellsOwnedOnce, Linking, Threads
  <2>3. ListWellFormed'
    BY <1>7, <2>1 DEF DequeueWait, InDequeue, MutexFree, list, Inv, TypeOK, Locations, ThreadProtocol, ListWellFormed, CellsOwnedOnce, Linking, Threads, MutexFree
  <2>4. CellsOwnedOnce'
    <3>1. Linking' = Linking
      BY <1>7 DEF DequeueWait, InDequeue, Inv, TypeOK, Linking, Threads
    <3> QED BY <1>7, <3>1 DEF DequeueWait, list, Inv, CellsOwnedOnce
  <2>5. ConnectionOwnedOnce'
    BY <1>7, <2>1 DEF DequeueWait, InDequeue, MutexFree, list, Inv, TypeOK, Locations, ThreadProtocol, CellsOwnedOnce, ConnectionOwnedOnce, Held, Linking, Holders, Threads
  <2>6. CounterExact'
    BY <1>7 DEF DequeueWait, InDequeue, MutexFree, list, Inv, TypeOK, Locations, CounterExact
  <2> QED BY <2>1, <2>2, <2>3, <2>4, <2>5, <2>6 DEF Inv
<1>8. ASSUME NEW c \in Consumers, DequeueShutdown(c) PROVE Inv'
  <2>1. TypeOK'
    BY <1>8 DEF DequeueShutdown, InDequeue, MutexFree, ShutdownAndDrained, list, Inv, TypeOK, Locations, ThreadProtocol, CounterExact, Threads
  <2>2. ThreadProtocol'
    BY <1>8, <2>1 DEF DequeueShutdown, InDequeue, MutexFree, ShutdownAndDrained, list, Inv, TypeOK, Locations, ThreadProtocol, CellsOwnedOnce, Linking, Threads
  <2>3. ListWellFormed'
    BY <1>8, <2>1 DEF DequeueShutdown, InDequeue, MutexFree, ShutdownAndDrained, list, Inv, TypeOK, Locations, ThreadProtocol, ListWellFormed, CellsOwnedOnce, Linking, Threads, MutexFree
  <2>4. CellsOwnedOnce'
    <3>1. Linking' = Linking
      BY <1>8 DEF DequeueShutdown, InDequeue, Inv, TypeOK, Linking, Threads
    <3> QED BY <1>8, <3>1 DEF DequeueShutdown, list, Inv, CellsOwnedOnce
  <2>5. ConnectionOwnedOnce'
    <3>1. Holders' = Holders /\ c \notin Holders
      BY <1>8 DEF DequeueShutdown, InDequeue, Inv, TypeOK, Holders, Threads
    <3>2. \A t \in Holders : fd'[t] = fd[t]
      BY <1>8, <3>1 DEF DequeueShutdown, Inv, TypeOK, Holders
    <3> QED BY <1>8, <3>1, <3>2 DEF DequeueShutdown, list, Inv, ConnectionOwnedOnce, Held
  <2>6. CounterExact'
    BY <1>8 DEF DequeueShutdown, InDequeue, MutexFree, ShutdownAndDrained, list, Inv, TypeOK, Locations, CounterExact
  <2> QED BY <2>1, <2>2, <2>3, <2>4, <2>5, <2>6 DEF Inv
<1>9. ASSUME NEW c \in Consumers, DequeueTake(c) PROVE Inv'
  <2> USE <1>9 DEF DequeueTake, InDequeue
  <2>0. UnlinkHead /\ queue_head # NULL
    OBVIOUS
  <2>1. /\ pc[c] \in {"loop", "woken"} /\ pc'[c] = "serve"
        /\ \A t \in Threads \ {c} : pc'[t] = pc[t]
    BY DEF Inv, TypeOK, Locations, Threads
  <2>2. /\ Linking' = Linking
        /\ Holders' = Holders \cup {c} /\ c \notin Holders
        /\ \A m \in Controllers : pc'[m] = pc[m]
    BY <2>1 DEF Linking, Holders, Threads
  <2>3. /\ fd'[c] = sock_fd[queue_head]
        /\ \A t \in (Producers \cup Consumers) \ {c} : fd'[t] = fd[t]
    BY DEF Inv, TypeOK, Locations
  <2>4. /\ Len(order) \in Nat \ {0} /\ queue_head = order[1] /\ order[1] \in Cells
        /\ order' \in Seq(Cells) /\ Len(order') = Len(order) - 1
        /\ \A i \in 1..Len(order') : order'[i] = order[i + 1]
    BY <2>0, UnlinkFacts
  <2>5. /\ {order'[i] : i \in 1..Len(order')} = {order[i] : i \in 1..Len(order)} \ {order[1]}
        /\ \A q \in Linking : item[q] # order[1]
        /\ {sock_fd[order[i]] : i \in 1..Len(order)}
             = {sock_fd[order'[i]] : i \in 1..Len(order')} \cup {sock_fd[order[1]]}
    BY <2>0, UnlinkFacts
  <2>6. /\ queue_head' = IF Len(order') = 0 THEN NULL ELSE order'[1]
        /\ \A i \in 1..Len(order') :
             next'[order'[i]] = IF i = Len(order') THEN NULL ELSE order'[i + 1]
    BY <2>0, UnlinkFacts
  <2>7. UNCHANGED <<shutdown_flag, next, sock_fd, item>> /\ allocated' = allocated \ {queue_head}
    BY <2>0 DEF UnlinkHead
  <2>11. TypeOK'
    BY <2>4, <2>6, <2>7 DEF Inv, TypeOK, Locations, CounterExact, TailAfterTake, CountDown, Threads
  <2>12. ThreadProtocol'
    <3>1. \A i \in 1..Len(order') : sock_fd'[order'[i]] \in Fds
      BY <2>4, <2>7, SMTT(30) DEF Inv, ThreadProtocol
    <3>2. fd'[c] \in Fds
      BY <2>3, <2>4 DEF Inv, ThreadProtocol
    <3> HIDE <1>9 DEF DequeueTake, InDequeue
    <3> QED BY <3>1, <3>2, <2>1, <2>2, <2>3, <2>7 DEF Inv, ThreadProtocol, Threads
  <2>13. ListWellFormed'
    <3>1. next[order[1]] = IF Len(order) = 1 THEN NULL ELSE order[2]
      BY <2>4 DEF Inv, ListWellFormed
    <3>2. queue_tail' = IF Len(order') = 0 THEN NULL ELSE order'[Len(order')]
      BY <3>1, <2>4 DEF Inv, TypeOK, Locations, ListWellFormed, TailAfterTake
    <3> QED BY <3>2, <2>6 DEF ListWellFormed
  <2>14. CellsOwnedOnce'
    <3>1. {item'[q] : q \in Linking'} = {item[q] : q \in Linking} \ {order[1]}
      BY <2>2, <2>5, <2>7
    <3>2. allocated' = ({order[i] : i \in 1..Len(order)} \cup {item[q] : q \in Linking}) \ {order[1]}
      BY <2>4, <2>7 DEF Inv, CellsOwnedOnce
    <3>3. allocated' = {order'[i] : i \in 1..Len(order')} \cup {item'[q] : q \in Linking'}
      BY <3>1, <3>2, <2>5
    <3> QED BY <3>3, <2>2, <2>4, <2>5, <2>7, SMTT(30) DEF Inv, CellsOwnedOnce, Linking
  <2>15. ConnectionOwnedOnce'
    <3>1. {fd'[t] : t \in Holders'} = {fd[t] : t \in Holders} \cup {sock_fd[order[1]]}
      BY <2>2, <2>3, <2>4 DEF Holders
    <3>2. Held' = Held /\ open' = open /\ misclosed' = misclosed
      <4>1. {sock_fd'[order'[i]] : i \in 1..Len(order')} = {sock_fd[order'[i]] : i \in 1..Len(order')}
        BY <2>7
      <4> QED BY <3>1, <4>1, <2>5 DEF Held
    <3> SUFFICES ASSUME ~misclosed
                 PROVE  /\ \A t, u \in Holders' : fd'[t] = fd'[u] => t = u
                        /\ \A i, j \in 1..Len(order') : sock_fd'[order'[i]] = sock_fd'[order'[j]] => i = j
                        /\ \A t \in Holders', i \in 1..Len(order') : fd'[t] # sock_fd'[order'[i]]
      BY <3>2 DEF Inv, ConnectionOwnedOnce
    <3>3. \A t \in Holders : fd[t] # sock_fd[order[1]]
      BY <2>4 DEF Inv, ConnectionOwnedOnce
    <3>4. \A t, u \in Holders' : fd'[t] = fd'[u] => t = u
      BY <3>3, <2>2, <2>3, <2>4 DEF Inv, ConnectionOwnedOnce, Holders
    <3>5. \A i, j \in 1..Len(order') : sock_fd'[order'[i]] = sock_fd'[order'[j]] => i = j
      BY <2>4, <2>7 DEF Inv, ConnectionOwnedOnce
    <3>6. \A t \in Holders', i \in 1..Len(order') : fd'[t] # sock_fd'[order'[i]]
      <4>1. \A i \in 1..Len(order') : sock_fd'[order'[i]] # sock_fd[order[1]]
        BY <2>4, <2>7 DEF Inv, ConnectionOwnedOnce
      <4> QED BY <4>1, <2>2, <2>3, <2>4, <2>7 DEF Inv, ConnectionOwnedOnce, Holders
    <3> QED BY <3>4, <3>5, <3>6
  <2>16. CounterExact'
    BY <2>4, <2>7 DEF Inv, TypeOK, Locations, CounterExact, CountDown
  <2> QED BY <2>11, <2>12, <2>13, <2>14, <2>15, <2>16 DEF Inv
<1>10. ASSUME NEW c \in Consumers, SpuriousWakeup(c) PROVE Inv'
  <2>1. TypeOK'
    BY <1>10 DEF SpuriousWakeup, list, Inv, TypeOK, Locations, ThreadProtocol, CounterExact, Threads
  <2>2. ThreadProtocol'
    BY <1>10, <2>1 DEF SpuriousWakeup, list, Inv, TypeOK, Locations, ThreadProtocol, CellsOwnedOnce, Linking, Threads
  <2>3. ListWellFormed'
    BY <1>10, <2>1 DEF SpuriousWakeup, list, Inv, TypeOK, Locations, ThreadProtocol, ListWellFormed, CellsOwnedOnce, Linking, Threads, MutexFree
  <2>4. CellsOwnedOnce'
    BY <1>10, <2>1 DEF SpuriousWakeup, list, Inv, TypeOK, Locations, ThreadProtocol, CellsOwnedOnce, Linking, Threads
  <2>5. ConnectionOwnedOnce'
    BY <1>10, <2>1 DEF SpuriousWakeup, list, Inv, TypeOK, Locations, ThreadProtocol, CellsOwnedOnce, ConnectionOwnedOnce, Held, Linking, Holders, Threads
  <2>6. CounterExact'
    BY <1>10 DEF SpuriousWakeup, list, Inv, TypeOK, Locations, CounterExact
  <2> QED BY <2>1, <2>2, <2>3, <2>4, <2>5, <2>6 DEF Inv
<1>11. ASSUME NEW c \in Consumers, Serve(c) PROVE Inv'
  <2> USE DEF Serve, ReadFails, CloseConnection
  <2>a. /\ UNCHANGED <<list, allocated, item>> /\ open' = open \ {fd[c]}
        /\ \/ pc[c] = "serve" /\ pc' = [pc EXCEPT ![c] = "failed"] /\ fd' = fd /\ misclosed' = misclosed
           \/ /\ pc[c] \in {"serve", "failed"} /\ pc' = [pc EXCEPT ![c] = "loop"]
              /\ fd' = [fd EXCEPT ![c] = NULL]
              /\ misclosed' = (misclosed \/ (pc[c] = "failed" /\ fd[c] \in open))
    BY <1>11
  <2> HIDE DEF Serve, ReadFails, CloseConnection
  <2>1. TypeOK'
    BY <2>a DEF list, Inv, TypeOK, Locations, ThreadProtocol, CounterExact, Threads
  <2>2. ThreadProtocol'
    BY <2>a, <2>1 DEF list, Inv, TypeOK, Locations, ThreadProtocol, CellsOwnedOnce, Linking, Threads
  <2>3. ListWellFormed'
    BY <2>a, <2>1 DEF list, Inv, TypeOK, Locations, ThreadProtocol, ListWellFormed, CellsOwnedOnce, Linking, Threads, MutexFree
  <2>4. CellsOwnedOnce'
    <3>1. Linking' = Linking
      BY <2>a DEF Inv, TypeOK, Linking, Threads
    <3> QED BY <2>a, <3>1 DEF list, Inv, CellsOwnedOnce
  <2>5. ConnectionOwnedOnce'
    <3>1. /\ Holders' = Holders \ {c} /\ (pc[c] = "serve" <=> c \in Holders)
          /\ \A t \in Holders' : fd'[t] = fd[t]
      BY <2>a DEF Inv, TypeOK, Holders, Threads
    <3>2. order' = order /\ sock_fd' = sock_fd
      BY <2>a DEF list
    <3>3. /\ Held' \subseteq Held
          /\ \A x \in Held : x \in Held' \/ x = fd[c]
      BY <3>1, <3>2 DEF Held
    <3>4. open' \subseteq Held'
      BY <2>a, <3>3 DEF Inv, ConnectionOwnedOnce
    <3>0. ~misclosed' => ~misclosed /\ ~(pc[c] = "failed" /\ fd[c] \in open)
      BY <2>a DEF Inv, ThreadProtocol
    <3> SUFFICES ASSUME ~misclosed' PROVE Held' \subseteq open'
      <4>1. ~misclosed' => /\ \A t, u \in Holders' : fd'[t] = fd'[u] => t = u
                           /\ \A i, j \in 1..Len(order') : sock_fd'[order'[i]] = sock_fd'[order'[j]] => i = j
                           /\ \A t \in Holders', i \in 1..Len(order') : fd'[t] # sock_fd'[order'[i]]
        BY <3>0, <3>1, <3>2 DEF Inv, ConnectionOwnedOnce
      <4> QED BY <3>4, <4>1 DEF ConnectionOwnedOnce
    <3>5. ~misclosed /\ Held \subseteq open
      BY <3>0 DEF Inv, ConnectionOwnedOnce
    <3>6. CASE c \in Holders
      <4>1. \A t \in Holders' : fd[t] # fd[c]
        BY <3>1, <3>5, <3>6 DEF Inv, ConnectionOwnedOnce
      <4>2. \A i \in 1..Len(order) : fd[c] # sock_fd[order[i]]
        BY <3>5, <3>6 DEF Inv, ConnectionOwnedOnce
      <4>3. fd[c] \notin Held'
        BY <3>1, <3>2, <4>1, <4>2 DEF Held
      <4> QED BY <2>a, <3>3, <3>5, <4>3
    <3>7. CASE c \notin Holders
      <4>1. fd[c] \notin open
        BY <2>a, <3>0, <3>1, <3>7
      <4> QED BY <2>a, <3>3, <3>5, <4>1
    <3> QED BY <3>6, <3>7
  <2>6. CounterExact'
    BY <2>a DEF list, Inv, TypeOK, Locations, CounterExact
  <2> QED BY <2>1, <2>2, <2>3, <2>4, <2>5, <2>6 DEF Inv
<1>12. ASSUME NEW m \in Controllers, QueueShutdown(m) PROVE Inv'
  <2>1. TypeOK'
    BY <1>12 DEF QueueShutdown, MutexFree, Broadcast, Waiters, Inv, TypeOK, Locations, ThreadProtocol, CounterExact, Threads
  <2>2. ThreadProtocol'
    BY <1>12, <2>1 DEF QueueShutdown, MutexFree, Broadcast, Waiters, Inv, TypeOK, Locations, ThreadProtocol, CellsOwnedOnce, Linking, Threads
  <2>3. ListWellFormed'
    BY <1>12, <2>1 DEF QueueShutdown, MutexFree, Broadcast, Waiters, Inv, TypeOK, Locations, ThreadProtocol, ListWellFormed, CellsOwnedOnce, Linking, Threads, MutexFree
  <2>4. CellsOwnedOnce'
    <3>1. Linking' = Linking
      BY <1>12 DEF QueueShutdown, Broadcast, Waiters, Linking, Threads
    <3> QED BY <1>12, <3>1 DEF QueueShutdown, Inv, CellsOwnedOnce
  <2>5. ConnectionOwnedOnce'
    <3>1. Holders' = Holders
      BY <1>12 DEF QueueShutdown, Broadcast, Waiters, Holders, Threads
    <3> QED BY <1>12, <3>1 DEF QueueShutdown, Inv, ConnectionOwnedOnce, Held
  <2>6. CounterExact'
    BY <1>12 DEF QueueShutdown, MutexFree, Broadcast, Waiters, Inv, TypeOK, Locations, CounterExact
  <2> QED BY <2>1, <2>2, <2>3, <2>4, <2>5, <2>6 DEF Inv
<1>13. ASSUME NEW m \in Controllers, CleanupLock(m) PROVE Inv'
  <2>1. TypeOK'
    BY <1>13 DEF CleanupLock, MutexFree, list, Inv, TypeOK, Locations, ThreadProtocol, CounterExact, Threads
  <2>2. ThreadProtocol'
    BY <1>13, <2>1 DEF CleanupLock, MutexFree, list, Inv, TypeOK, Locations, ThreadProtocol, CellsOwnedOnce, Linking, Threads
  <2>3. ListWellFormed'
    BY <1>13, <2>1 DEF CleanupLock, MutexFree, list, Inv, TypeOK, Locations, ThreadProtocol, ListWellFormed, CellsOwnedOnce, Linking, Threads, MutexFree
  <2>4. CellsOwnedOnce'
    BY <1>13, <2>1 DEF CleanupLock, MutexFree, list, Inv, TypeOK, Locations, ThreadProtocol, CellsOwnedOnce, Linking, Threads
  <2>5. ConnectionOwnedOnce'
    BY <1>13, <2>1 DEF CleanupLock, MutexFree, list, Inv, TypeOK, Locations, ThreadProtocol, CellsOwnedOnce, ConnectionOwnedOnce, Held, Linking, Holders, Threads
  <2>6. CounterExact'
    BY <1>13 DEF CleanupLock, MutexFree, list, Inv, TypeOK, Locations, CounterExact
  <2> QED BY <2>1, <2>2, <2>3, <2>4, <2>5, <2>6 DEF Inv
<1>14. ASSUME NEW m \in Controllers, CleanupStep(m) PROVE Inv'
  <2> USE <1>14 DEF CleanupStep
  <2>0. UnlinkHead /\ queue_head # NULL
    OBVIOUS
  <2>2. Linking' = Linking /\ Holders' = Holders
    BY DEF Linking, Holders
  <2>4. /\ Len(order) \in Nat \ {0} /\ queue_head = order[1] /\ order[1] \in Cells
        /\ order' \in Seq(Cells) /\ Len(order') = Len(order) - 1
        /\ \A i \in 1..Len(order') : order'[i] = order[i + 1]
    BY <2>0, UnlinkFacts
  <2>5. /\ {order'[i] : i \in 1..Len(order')} = {order[i] : i \in 1..Len(order)} \ {order[1]}
        /\ \A q \in Linking : item[q] # order[1]
        /\ {sock_fd[order[i]] : i \in 1..Len(order)}
             = {sock_fd[order'[i]] : i \in 1..Len(order')} \cup {sock_fd[order[1]]}
    BY <2>0, UnlinkFacts
  <2>6. /\ queue_head' = IF Len(order') = 0 THEN NULL ELSE order'[1]
        /\ \A i \in 1..Len(order') :
             next'[order'[i]] = IF i = Len(order') THEN NULL ELSE order'[i + 1]
    BY <2>0, UnlinkFacts
  <2>7. UNCHANGED <<shutdown_flag, next, sock_fd, item>> /\ allocated' = allocated \ {queue_head}
    BY <2>0 DEF UnlinkHead
  <2>11. TypeOK'
    <3>1. queue_head' \in Cells \cup {NULL}
      BY <2>4, <2>6
    <3> QED BY <3>1, <2>4, <2>7 DEF Inv, TypeOK, Locations
  <2>12. ThreadProtocol'
    BY <2>4, <2>7 DEF Inv, ThreadProtocol
  <2>13. ListWellFormed'
    <3>1. ~MutexFree'
      BY DEF MutexFree
    <3>2. Len(order') # 0 => queue_tail' = order'[Len(order')]
      BY <2>4 DEF Inv, ListWellFormed
    <3> QED BY <3>1, <3>2, <2>6 DEF ListWellFormed
  <2>14. CellsOwnedOnce'
    <3>1. {item'[q] : q \in Linking'} = {item[q] : q \in Linking} \ {order[1]}
      BY <2>2, <2>5, <2>7
    <3>2. allocated' = ({order[i] : i \in 1..Len(order)} \cup {item[q] : q \in Linking}) \ {order[1]}
      BY <2>4, <2>7 DEF Inv, CellsOwnedOnce
    <3>3. allocated' = {order'[i] : i \in 1..Len(order')} \cup {item'[q] : q \in Linking'}
      BY <3>1, <3>2, <2>5
    <3> QED BY <3>3, <2>2, <2>4, <2>5, <2>7, SMTT(30) DEF Inv, CellsOwnedOnce, Linking
  <2>15. ConnectionOwnedOnce'
    <3>1. Held = Held' \cup {sock_fd[order[1]]} /\ misclosed' = misclosed
          /\ open' = open \ {sock_fd[order[1]]}
      <4>1. {sock_fd'[order'[i]] : i \in 1..Len(order')} = {sock_fd[order'[i]] : i \in 1..Len(order')}
        BY <2>7
      <4>2. {fd'[t] : t \in Holders'} = {fd[t] : t \in Holders}
        BY <2>2
      <4> QED BY <4>1, <4>2, <2>4, <2>5 DEF Held
    <3>a. open' \subseteq Held'
      BY <3>1 DEF Inv, ConnectionOwnedOnce
    <3> SUFFICES ASSUME ~misclosed
                 PROVE  /\ Held' \subseteq open'
                        /\ \A t, u \in Holders' : fd'[t] = fd'[u] => t = u
                        /\ \A i, j \in 1..Len(order') : sock_fd'[order'[i]] = sock_fd'[order'[j]] => i = j
                        /\ \A t \in Holders', i \in 1..Len(order') : fd'[t] # sock_fd'[order'[i]]
      BY <3>1, <3>a DEF ConnectionOwnedOnce
    <3>b. \A t \in Holders' : fd'[t] # sock_fd[order[1]]
      BY <2>2, <2>4 DEF Inv, ConnectionOwnedOnce
    <3>c. \A i \in 1..Len(order') : sock_fd'[order'[i]] # sock_fd[order[1]]
      BY <2>4, <2>7 DEF Inv, ConnectionOwnedOnce
    <3>d. Held \subseteq open
      BY DEF Inv, ConnectionOwnedOnce
    <3>e. sock_fd[order[1]] \notin Held'
      <4> HIDE <1>14
      <4> QED BY <3>b, <3>c DEF Held
    <3>f. Held' \subseteq open'
      <4> HIDE <1>14
      <4> QED BY <3>1, <3>d, <3>e
    <3>2. \A t, u \in Holders' : fd'[t] = fd'[u] => t = u
      <4>1. Holders' = Holders /\ fd' = fd
        BY <2>2
      <4>2. \A t, u \in Holders : fd[t] = fd[u] => t = u
        BY DEF Inv, ConnectionOwnedOnce
      <4> HIDE <1>14
      <4> QED BY <4>1, <4>2
    <3>3. /\ 1..Len(order') \in SUBSET (1..Len(order))
          /\ \A i \in 1..Len(order') : i + 1 \in 1..Len(order)
      BY <2>4
    <3>4. \A i, j \in 1..Len(order') :
             sock_fd'[order'[i]] = sock_fd'[order'[j]] => i = j
      <4>1. \A i, j \in 1..Len(order) : sock_fd[order[i]] = sock_fd[order[j]] => i = j
        BY DEF Inv, ConnectionOwnedOnce
      <4> HIDE <1>14
      <4> QED BY <4>1, <2>4, <2>7, <3>3
    <3>5. \A t \in Holders', i \in 1..Len(order') : fd'[t] # sock_fd'[order'[i]]
      <4>1. Holders' = Holders /\ fd' = fd
        BY <2>2
      <4>2. \A t \in Holders, i \in 1..Len(order) : fd[t] # sock_fd[order[i]]
        BY DEF Inv, ConnectionOwnedOnce
      <4> HIDE <1>14
      <4> QED BY <4>1, <4>2, <2>4, <2>7, <3>3
    <3> QED BY <3>2, <3>4, <3>5, <3>f
  <2>16. CounterExact'
    BY <2>4, <2>7 DEF Inv, TypeOK, Locations, ThreadProtocol, CounterExact
  <2> QED BY <2>11, <2>12, <2>13, <2>14, <2>15, <2>16 DEF Inv
<1>15. ASSUME NEW m \in Controllers, CleanupUnlock(m) PROVE Inv'
  <2>1. TypeOK'
    BY <1>15 DEF CleanupUnlock, Inv, TypeOK, Locations, ThreadProtocol, CounterExact, Threads
  <2>2. ThreadProtocol'
    BY <1>15, <2>1 DEF CleanupUnlock, Inv, TypeOK, Locations, ThreadProtocol, CellsOwnedOnce, Linking, Threads
  <2>3. ListWellFormed'
    BY <1>15, <2>1 DEF CleanupUnlock, Inv, TypeOK, Locations, ThreadProtocol, ListWellFormed, CellsOwnedOnce, Linking, Threads, MutexFree
  <2>4. CellsOwnedOnce'
    <3>1. Linking' = Linking
      BY <1>15 DEF CleanupUnlock, Inv, TypeOK, Linking, Threads
    <3> QED BY <1>15, <3>1 DEF CleanupUnlock, Inv, CellsOwnedOnce
  <2>5. ConnectionOwnedOnce'
    BY <1>15, <2>1 DEF CleanupUnlock, Inv, TypeOK, Locations, ThreadProtocol, CellsOwnedOnce, ConnectionOwnedOnce, Held, Linking, Holders, Threads
  <2>6. CounterExact'
    BY <1>15 DEF CleanupUnlock, Inv, TypeOK, Locations, CounterExact
  <2> QED BY <2>1, <2>2, <2>3, <2>4, <2>5, <2>6 DEF Inv
<1>16. ASSUME UNCHANGED vars PROVE Inv'
  BY <1>16 DEF vars, MutexFree, Inv, TypeOK, Locations, ThreadProtocol, ListWellFormed, CellsOwnedOnce, ConnectionOwnedOnce, Held, CounterExact, Linking, Holders, Threads
<1> QED
  BY <1>1, <1>2, <1>3, <1>4, <1>5, <1>6, <1>7, <1>8, <1>9, <1>10, <1>11, <1>12, <1>13, <1>14, <1>15, <1>16 DEF Next, Producer, Consumer, Dequeue, Controller

(* The inductive invariant holds in every reachable state of the queue. *)
LEMMA InvAlways == Spec => []Inv
  BY InvInit, InvNext, PTL DEF Spec

(* Type correctness of the queue and its callers' protocol. *)
THEOREM TypeCorrect == Spec => []TypeOK
  BY InvAlways, PTL DEF Inv

(* enqueue_work, dequeue_work and queue_cleanup keep the linked list exactly *)
(* the cells linked and not yet unlinked, in their order.                    *)
THEOREM ListCorrect == Spec => []ListWellFormed
  BY InvAlways, PTL DEF Inv

(* No cell is used after free, freed twice or leaked. *)
THEOREM MemorySafe == Spec => []CellsOwnedOnce
  BY InvAlways, PTL DEF Inv

(* No open connection is without an owner; and as long as the second close *)
(* after a failed read (dbserver.c:73 after 88) has not ended a connection   *)
(* accepted in between, each has exactly one and none has a closed one.      *)
THEOREM ConnectionsSafe == Spec => []ConnectionOwnedOnce
  BY InvAlways, PTL DEF Inv

(* queue_length is exact until queue_shutdown. *)
THEOREM CounterCorrect == Spec => []CounterExact
  BY InvAlways, PTL DEF Inv
----------------------------------------------------------------------------
(* No lost wakeups. *)

(* The number of signalled workers is a natural number. *)
LEMMA WokenFinite == IsFiniteSet(Woken) /\ Cardinality(Woken) \in Nat
<1>1. Woken \in SUBSET Consumers
  BY DEF Woken
<1> QED
  BY <1>1, ConstantsAssumption, FS_Subset, FS_CardinalityType

(* No step loses a wakeup: enqueue_work signals once per cell it links, and *)
(* a woken worker that leaves dequeue_work takes a cell with it.            *)
LEMMA NoLostWakeupNext == Inv /\ NoLostWakeup /\ [Next]_vars => NoLostWakeup'
<1> SUFFICES ASSUME Inv, NoLostWakeup, [Next]_vars PROVE NoLostWakeup'
  OBVIOUS
<1> USE ConstantsAssumption
<1>0. Len(order) \in Nat /\ pc \in [Threads -> Locations]
  BY DEF Inv, TypeOK
<1>1. ASSUME Waiters' = Waiters, Woken' = Woken, UNCHANGED <<order, shutdown_flag>>
      PROVE NoLostWakeup'
  BY <1>1 DEF NoLostWakeup
<1>2. ASSUME NEW p \in Producers, Producer(p), ~EnqueueLink(p) PROVE NoLostWakeup'
  <2>1. p \notin Consumers /\ UNCHANGED <<order, shutdown_flag>>
        /\ \A c \in Consumers : pc'[c] = pc[c]
    BY <1>2, <1>0 DEF Producer, ListenerLoop, Accept, AcceptFails, EnqueueMallocFails,
                      EnqueueMalloc, list, Threads
  <2> QED BY <2>1, <1>1 DEF Waiters, Woken
<1>3. ASSUME NEW p \in Producers, EnqueueLink(p) PROVE NoLostWakeup'
  <2>1. Len(order') = Len(order) + 1 /\ shutdown_flag' = shutdown_flag
    <3>1. item[p] \in Cells /\ order \in Seq(Cells)
      BY <1>3 DEF EnqueueLink, Inv, TypeOK, ThreadProtocol
    <3> QED BY <3>1, <1>3, AppendProperties DEF EnqueueLink
  <2>2. CASE Waiters = {}
    <3>1. Waiters' = {}
      BY <1>3, <2>2, <1>0 DEF EnqueueLink, SignalAndReturn, Waiters, Threads
    <3> QED BY <3>1 DEF NoLostWakeup
  <2>3. CASE Waiters # {}
    <3>1. PICK w \in Waiters : pc' = [pc EXCEPT ![p] = "loop", ![w] = "woken"]
      BY <1>3, <2>3 DEF EnqueueLink, SignalAndReturn
    <3>2. Woken' = Woken \cup {w} /\ w \notin Woken
      BY <3>1, <1>0 DEF Waiters, Woken, Threads
    <3>3. Cardinality(Woken') = Cardinality(Woken) + 1
      BY <3>2, WokenFinite, FS_AddElement
    <3> QED BY <2>1, <2>3, <3>3, <1>0, WokenFinite DEF NoLostWakeup
  <2> QED BY <2>2, <2>3
<1>4. ASSUME NEW c \in Consumers, DequeueWait(c) PROVE NoLostWakeup'
  <2>1. Len(order) = 0 /\ order' = order /\ ~shutdown_flag'
    BY <1>4 DEF DequeueWait, list, Inv, TypeOK, ListWellFormed
  <2>2. Woken' \in SUBSET Consumers
    BY DEF Woken
  <2>3. Cardinality(Woken') \in Nat
    BY <2>2, FS_Subset, FS_CardinalityType
  <2> QED BY <2>1, <2>3 DEF NoLostWakeup
<1>5. ASSUME NEW c \in Consumers, DequeueShutdown(c) PROVE NoLostWakeup'
  <2>1. Waiters = {}
    BY <1>5 DEF DequeueShutdown, ShutdownAndDrained, NoLostWakeup
  <2>2. Waiters' = {}
    BY <1>5, <2>1, <1>0 DEF DequeueShutdown, Waiters, Threads
  <2> QED BY <2>2 DEF NoLostWakeup
<1>6. ASSUME NEW c \in Consumers, DequeueTake(c) PROVE NoLostWakeup'
  <2>1. Len(order') = Len(order) - 1 /\ shutdown_flag' = shutdown_flag
    <3>1. UnlinkHead /\ queue_head # NULL
      BY <1>6 DEF DequeueTake
    <3> QED BY <3>1, UnlinkFacts DEF UnlinkHead
  <2>2. Woken' = Woken \ {c} /\ Waiters' = Waiters
    BY <1>6, <1>0 DEF DequeueTake, InDequeue, Waiters, Woken, Threads
  <2>3. Cardinality(Woken') = IF c \in Woken THEN Cardinality(Woken) - 1 ELSE Cardinality(Woken)
    BY <2>2, WokenFinite, FS_RemoveElement
  <2> QED BY <2>1, <2>2, <2>3, <1>0, WokenFinite DEF NoLostWakeup
<1>7. ASSUME NEW c \in Consumers, SpuriousWakeup(c) PROVE NoLostWakeup'
  <2>1. Woken' = Woken \cup {c} /\ c \in Waiters /\ UNCHANGED <<order, shutdown_flag>>
    BY <1>7, <1>0 DEF SpuriousWakeup, list, Waiters, Woken, Threads
  <2>2. Cardinality(Woken') = IF c \in Woken THEN Cardinality(Woken) ELSE Cardinality(Woken) + 1
    BY <2>1, WokenFinite, FS_AddElement
  <2> QED BY <2>1, <2>2, <1>0, WokenFinite DEF NoLostWakeup
<1>8. ASSUME NEW c \in Consumers, Serve(c) PROVE NoLostWakeup'
  <2>1. Waiters' = Waiters /\ Woken' = Woken /\ UNCHANGED <<order, shutdown_flag>>
    BY <1>8, <1>0 DEF Serve, ReadFails, CloseConnection, list, Waiters, Woken, Threads
  <2> QED BY <2>1, <1>1
<1>9. ASSUME NEW m \in Controllers, QueueShutdown(m) PROVE NoLostWakeup'
  <2>1. Waiters' = {}
    BY <1>9 DEF QueueShutdown, Broadcast, Waiters, Threads
  <2> QED BY <2>1 DEF NoLostWakeup
<1>10. ASSUME NEW m \in Controllers, CleanupLock(m) \/ CleanupStep(m) \/ CleanupUnlock(m)
       PROVE NoLostWakeup'
  <2>1. shutdown_flag
    BY <1>10 DEF CleanupLock, CleanupStep, CleanupUnlock, Inv, ThreadProtocol
  <2>2. \A c \in Consumers : pc'[c] = pc[c]
    BY <1>10, <1>0 DEF CleanupLock, CleanupStep, CleanupUnlock, Threads
  <2>3. Waiters' = {}
    BY <2>1, <2>2 DEF Waiters, NoLostWakeup
  <2> QED BY <2>3 DEF NoLostWakeup
<1>11. ASSUME UNCHANGED vars PROVE NoLostWakeup'
  BY <1>11, <1>1 DEF vars, Waiters, Woken
<1> QED
  BY <1>2, <1>3, <1>4, <1>5, <1>6, <1>7, <1>8, <1>9, <1>10, <1>11
     DEF Next, Consumer, Dequeue, Controller

(* While a worker sleeps every queued connection has a woken worker of its  *)
(* own, and none sleeps after a shutdown: no signal of enqueue_work or      *)
(* broadcast of queue_shutdown is ever lost.                                *)
THEOREM NoWakeupLost == Spec => []NoLostWakeup
<1>1. Init => NoLostWakeup
  BY DEF Init, NoLostWakeup, Waiters, Threads
<1> QED
  BY <1>1, InvAlways, NoLostWakeupNext, PTL DEF Spec
----------------------------------------------------------------------------
(* The linked list implements the first-in first-out queue. *)

QueueView == [i \in 1..Len(order) |-> sock_fd[order[i]]]

(* The descriptors in the linked list, in list order, form a sequence. *)
LEMMA QueueViewType ==
  ASSUME Inv
  PROVE  /\ QueueView \in Seq(Fds)
         /\ Len(QueueView) = Len(order)
         /\ Len(order) \in Nat
         /\ \A i \in 1..Len(order) : QueueView[i] = sock_fd[order[i]]
<1>1. Len(order) \in Nat
  BY DEF Inv, TypeOK
<1>2. \A i \in 1..Len(order) : sock_fd[order[i]] \in Fds
  BY DEF Inv, ThreadProtocol
<1> QED
  BY <1>1, <1>2 DEF QueueView

(* Every step of the list is a step of the abstract queue or leaves it as it is. *)
LEMMA FifoStep == Inv /\ [Next]_vars => [Fifo!FifoNext]_(Fifo!fifoVars)
<1> SUFFICES ASSUME Inv, [Next]_vars
             PROVE  Fifo!FifoNext \/ UNCHANGED Fifo!fifoVars
  OBVIOUS
<1> DEFINE got == [c \in Consumers |-> fd[c]]
<1> USE ConstantsAssumption
<1>0. fd \in [Producers \cup Consumers -> Fds \cup {NULL, -1}]
  BY DEF Inv, TypeOK
<1>1. ASSUME QueueView' = QueueView, shutdown_flag' = shutdown_flag, got' = got
      PROVE  UNCHANGED Fifo!fifoVars
  BY <1>1 DEF Fifo!fifoVars, QueueView
<1>2. ASSUME NEW p \in Producers, Producer(p), ~EnqueueLink(p), ~EnqueueMalloc(p)
      PROVE  UNCHANGED Fifo!fifoVars
  <2>1. got' = got
    BY <1>0, <1>2 DEF Producer, ListenerLoop, Accept, AcceptFails, EnqueueMallocFails
  <2>2. QueueView' = QueueView /\ shutdown_flag' = shutdown_flag
    BY <1>2 DEF Producer, ListenerLoop, Accept, AcceptFails, EnqueueMallocFails, list, QueueView
  <2> QED BY <1>1, <2>1, <2>2
<1>3. ASSUME NEW p \in Producers, EnqueueMalloc(p) PROVE UNCHANGED Fifo!fifoVars
  <2>1. \A i \in 1..Len(order) : sock_fd'[order[i]] = sock_fd[order[i]]
    BY <1>3 DEF EnqueueMalloc, Inv, TypeOK, CellsOwnedOnce
  <2>2. QueueView' = QueueView /\ shutdown_flag' = shutdown_flag /\ got' = got
    BY <1>3, <2>1 DEF EnqueueMalloc, QueueView
  <2> QED BY <1>1, <2>2
<1>4. ASSUME NEW p \in Producers, EnqueueLink(p) PROVE Fifo!Put(fd[p]) /\ fd[p] \in Fds
  <2>1. /\ item[p] \in Cells /\ order \in Seq(Cells)
        /\ sock_fd[item[p]] = fd[p] /\ fd[p] \in Fds
        /\ order' = Append(order, item[p]) /\ sock_fd' = sock_fd /\ shutdown_flag' = shutdown_flag
    BY <1>4 DEF EnqueueLink, Inv, TypeOK, ThreadProtocol
  <2>2. QueueView' = Append(QueueView, fd[p])
    BY <2>1, QueueViewType, AppendProperties DEF QueueView
  <2>3. got' = got
    BY <1>0, <1>4 DEF EnqueueLink
  <2> QED BY <2>1, <2>2, <2>3 DEF Fifo!Put, QueueView
<1>5. ASSUME NEW c \in Consumers, DequeueTake(c) PROVE Fifo!Take(c)
  <2>1. UnlinkHead /\ queue_head # NULL
    BY <1>5 DEF DequeueTake
  <2>2. /\ Len(order) \in Nat \ {0} /\ queue_head = order[1] /\ Len(order') = Len(order) - 1
        /\ \A i \in 1..Len(order') : order'[i] = order[i + 1]
    BY <2>1, UnlinkFacts
  <2>3. sock_fd' = sock_fd /\ shutdown_flag' = shutdown_flag
    BY <2>1 DEF UnlinkHead
  <2>4. /\ QueueView # <<>> /\ Head(QueueView) = sock_fd[queue_head]
        /\ QueueView' = Tail(QueueView)
    BY <2>2, <2>3, QueueViewType, HeadTailProperties DEF QueueView
  <2>5. got' = [got EXCEPT ![c] = sock_fd[queue_head]]
    BY <1>0, <1>5 DEF DequeueTake
  <2> QED BY <2>3, <2>4, <2>5 DEF Fifo!Take, QueueView
<1>6. ASSUME NEW c \in Consumers, DequeueShutdown(c) PROVE Fifo!Stop(c)
  <2>1. /\ QueueView = <<>> /\ shutdown_flag /\ QueueView' = QueueView
        /\ shutdown_flag' = shutdown_flag
    BY <1>6, QueueViewType DEF DequeueShutdown, ShutdownAndDrained, list, Inv, TypeOK, ListWellFormed, QueueView
  <2>2. got' = [got EXCEPT ![c] = -1]
    BY <1>0, <1>6 DEF DequeueShutdown
  <2> QED BY <2>1, <2>2 DEF Fifo!Stop, QueueView
<1>7. ASSUME NEW c \in Consumers, CloseConnection(c) PROVE Fifo!Done(c)
  <2>1. fd[c] \in Fds /\ QueueView' = QueueView /\ shutdown_flag' = shutdown_flag
    BY <1>7 DEF CloseConnection, list, Inv, ThreadProtocol, QueueView
  <2>2. got' = [got EXCEPT ![c] = NULL]
    BY <1>0, <1>7 DEF CloseConnection
  <2> QED BY <2>1, <2>2 DEF Fifo!Done, QueueView
<1>8. ASSUME NEW c \in Consumers, DequeueWait(c) \/ SpuriousWakeup(c) \/ ReadFails(c)
      PROVE  UNCHANGED Fifo!fifoVars
  BY <1>8 DEF DequeueWait, ReadFails, SpuriousWakeup, list, Fifo!fifoVars
<1>9. ASSUME NEW m \in Controllers, QueueShutdown(m) PROVE Fifo!Close
  BY <1>9 DEF QueueShutdown, Fifo!Close
<1>10. ASSUME NEW m \in Controllers, CleanupStep(m) PROVE Fifo!Discard
  <2>1. UnlinkHead /\ queue_head # NULL /\ shutdown_flag /\ fd' = fd
    BY <1>10 DEF CleanupStep, Inv, ThreadProtocol
  <2>2. /\ Len(order) \in Nat \ {0} /\ Len(order') = Len(order) - 1
        /\ \A i \in 1..Len(order') : order'[i] = order[i + 1]
    BY <2>1, UnlinkFacts
  <2>3. sock_fd' = sock_fd /\ shutdown_flag' = shutdown_flag
    BY <2>1 DEF UnlinkHead
  <2>4. QueueView # <<>> /\ QueueView' = Tail(QueueView)
    BY <2>2, <2>3, QueueViewType, HeadTailProperties DEF QueueView
  <2> QED BY <2>1, <2>3, <2>4 DEF Fifo!Discard, QueueView
<1>11. ASSUME NEW m \in Controllers, CleanupLock(m) \/ CleanupUnlock(m)
       PROVE UNCHANGED Fifo!fifoVars
  BY <1>11 DEF CleanupLock, CleanupUnlock, list, Fifo!fifoVars
<1>12. ASSUME UNCHANGED vars PROVE UNCHANGED Fifo!fifoVars
  BY <1>12 DEF vars, Fifo!fifoVars
<1>13. ASSUME NEW p \in Producers, Producer(p) PROVE Fifo!FifoNext \/ UNCHANGED Fifo!fifoVars
  <2>1. CASE EnqueueLink(p)
    <3>1. Fifo!Put(fd[p]) /\ fd[p] \in Fds
      BY <1>4, <2>1
    <3>2. \E f \in Fds : Fifo!Put(f)
      BY <3>1 DEF Fifo!Put
    <3> QED BY <3>2 DEF Fifo!FifoNext
  <2> QED BY <1>2, <1>3, <1>13, <2>1
<1>14. ASSUME NEW c \in Consumers, Consumer(c) PROVE Fifo!FifoNext \/ UNCHANGED Fifo!fifoVars
  BY <1>5, <1>6, <1>7, <1>8, <1>14 DEF Consumer, Dequeue, Serve, Fifo!FifoNext
<1>15. ASSUME NEW m \in Controllers, Controller(m) PROVE Fifo!FifoNext \/ UNCHANGED Fifo!fifoVars
  BY <1>9, <1>10, <1>11, <1>15 DEF Controller, Fifo!FifoNext
<1> QED
  BY <1>12, <1>13, <1>14, <1>15 DEF Next

(* The mutex-guarded list with its condition variable implements the       *)
(* abstract FIFO queue: connections leave in the order they entered, each  *)
(* to one worker, and -1 is returned only when the queue is shut and empty.*)
THEOREM QueueRefinesFifo == Spec => ImplementsFifo
<1>1. Init => Fifo!FifoInit
  <2> SUFFICES ASSUME Init PROVE Fifo!FifoInit
    OBVIOUS
  <2>1. Len(order) = 0
    BY DEF Init
  <2>2. [i \in 1..Len(order) |-> sock_fd[order[i]]] = <<>>
    BY <2>1
  <2>3. [c \in Consumers |-> fd[c]] = [c \in Consumers |-> NULL]
    BY DEF Init
  <2> QED BY <2>2, <2>3 DEF Init, Fifo!FifoInit
<1> QED
  BY <1>1, InvAlways, FifoStep, PTL DEF Spec, ImplementsFifo, Fifo!FifoSpec
=============================================================================
