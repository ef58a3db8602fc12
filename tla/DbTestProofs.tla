---------------------------- MODULE DbTestProofs ----------------------------
(* Proofs about DbTest, for every number of threads and requests and every  *)
(* size of the table.                                                       *)
EXTENDS DbTest, TLAPS, FiniteSetTheorems

\* t has drawn a new name and not yet entered it in the table.
Fresh(t) == pc[t] \in {"free", "enter"}
\* t is past the copy of a name from or into the table.
Named(t) == pc[t] \in {"send", "sent", "record", "ask", "asked", "release"}
\* t picked an entry some thread had recorded, and looks at it.
Copying(t) == pc[t] \in {"copy_name", "copy_entry"}
Reading(t) == pc[t] \in {"ask", "asked", "release"}
Writing(t) == pc[t] \in {"sent", "record"}

(* A busy entry belongs to one thread. *)
EntryHeld == /\ \A t \in Threads : Holding(t) => e_busy[num[t]] = 1
             /\ \A t, u \in Threads : Holding(t) /\ Holding(u) /\ num[t] = num[u] => t = u

(* "invariant: name == table[num].name, busy=1" (dbtest.c:252), and what    *)
(* makes it say something: names in the table are distinct, and a name just *)
(* drawn is in no entry and no other thread's hands.                        *)
NamesKept ==
  /\ \A t \in Threads : Named(t) => name[t] \in Names /\ e_name[num[t]] = name[t]
  /\ \A i, j \in Entries : e_name[i] = e_name[j] /\ e_name[i] # NULL => i = j
  /\ \A i \in Entries : e_value[i] # NULL => e_name[i] # NULL
  /\ \A t \in Threads : Fresh(t) => name[t] \in Names
  /\ \A t \in Threads, i \in Entries : Fresh(t) => e_name[i] # name[t]
  /\ \A t, u \in Threads : Fresh(t) /\ Fresh(u) /\ name[t] = name[u] => t = u

\* What the threads remember of the data they send or expect, and that a
\* thread in the middle of a request has one to make.
ValuesKept ==
  /\ \A t \in Threads : Writing(t) => value[t] \in Values
  /\ \A t \in Threads : Copying(t) => e_value[num[t]] # NULL
  /\ \A t \in Threads : Reading(t) => e_value[num[t]] # NULL /\ value[t] = e_value[num[t]]
  /\ \A t \in Threads : pc[t] # "op" => left[t] > 0

\* Who waits for the server, and for what.
Calling ==
  /\ \A t \in Threads :
       request[t] # NULL =>
         \/ pc[t] = "sent" /\ request[t] = [op |-> "W", key |-> name[t], val |-> value[t]]
         \/ pc[t] = "asked" /\ request[t] = [op |-> "R", key |-> name[t]]
  /\ request[Main] # NULL => Joined /\ scan < TableSize /\ e_value[scan] # NULL
  /\ \A p \in Clients : answer[p] # NULL => request[p] # NULL

(* The count of objects is never behind the table, and bounded: a thread    *)
(* about to write has seen a count at which writing was still allowed.      *)
UsedEntries == {i \in 0..(TableSize - 1) : ~Unused(i)}
Counted == {t \in Threads : pc[t] = "free"}
Deciding == {t \in Threads : pc[t] = "W"}
CountKept ==
  /\ n_objects = Cardinality(UsedEntries) + Cardinality(Counted)
  /\ n_objects + Cardinality(Deciding) <= Lo + Spread - 2 + Cardinality(Threads)

Inv == /\ TypeOK
       /\ TableNotOverrun
       /\ EntryHeld
       /\ NamesKept
       /\ ValuesKept
       /\ Calling
       /\ CountKept

(* The sets that CountKept counts are finite. *)
LEMMA CountFacts ==
  ASSUME TypeOK
  PROVE  /\ IsFiniteSet(UsedEntries) /\ IsFiniteSet(Counted) /\ IsFiniteSet(Deciding)
         /\ Cardinality(UsedEntries) \in Nat /\ Cardinality(Counted) \in Nat
         /\ Cardinality(Deciding) \in Nat /\ Cardinality(Threads) \in Nat
         /\ Cardinality(Deciding) <= Cardinality(Threads)
         /\ IsFiniteSet(0..(TableSize - 1)) /\ Cardinality(0..(TableSize - 1)) = TableSize
<1>1. IsFiniteSet(Threads) /\ TableSize \in Nat
  BY DbTestAssumption
<1>2. IsFiniteSet(0..(TableSize - 1)) /\ Cardinality(0..(TableSize - 1)) = TableSize
  <2>1. 0 \in Int /\ TableSize - 1 \in Int
    BY <1>1
  <2> QED BY <1>1, <2>1, FS_Interval
<1>3. UsedEntries \subseteq 0..(TableSize - 1) /\ Counted \subseteq Threads /\ Deciding \subseteq Threads
  BY DEF UsedEntries, Counted, Deciding
<1>4. IsFiniteSet(UsedEntries) /\ IsFiniteSet(Counted) /\ IsFiniteSet(Deciding)
  BY <1>1, <1>2, <1>3, FS_Subset
<1>5. Cardinality(Deciding) <= Cardinality(Threads)
  BY <1>1, <1>3, FS_Subset
<1> QED BY <1>1, <1>2, <1>4, <1>5, FS_CardinalityType

(* get_free finds an entry: every used one was counted, the caller has      *)
(* counted one more, and the count does not exceed the table.               *)
LEMMA FreeFound ==
  ASSUME Inv, NEW t \in Threads, pc[t] = "free", NEW n \in Entries, IsFree(n)
  PROVE  n \in 0..(TableSize - 1) /\ Unused(n)
<1> USE DbTestAssumption
<1>1. CASE n # TableSize
  BY <1>1 DEF Entries, IsFree
<1>2. CASE n = TableSize
  <2>1. UsedEntries = 0..(TableSize - 1)
    BY <1>2 DEF IsFree, UsedEntries
  <2>2. Cardinality(UsedEntries) = TableSize
    BY <2>1, CountFacts DEF Inv
  <2>3. Cardinality(Counted) # 0
    <3>1. t \in Counted
      BY DEF Counted
    <3> QED BY <3>1, CountFacts, FS_EmptySet DEF Inv
  <2>4. n_objects + Cardinality(Deciding) <= Lo + Spread - 2 + Cardinality(Threads)
        /\ n_objects = Cardinality(UsedEntries) + Cardinality(Counted)
    BY DEF Inv, CountKept
  <2>5. n_objects + Cardinality(Deciding) <= TableSize
    <3>1. Lo \in Int
      BY DEF Lo
    <3>2. n_objects \in Nat
      BY DEF Inv, TypeOK
    <3> HIDE DEF Lo
    <3> QED BY <2>4, <3>1, <3>2, CountFacts DEF Inv
  <2>6. n_objects \in Nat
    BY DEF Inv, TypeOK
  <2> QED BY <2>2, <2>3, <2>4, <2>5, <2>6, CountFacts DEF Inv
<1> QED BY <1>1, <1>2

(* The empty table satisfies the inductive invariant. *)
LEMMA InvInit == Init => Inv
<1> SUFFICES ASSUME Init PROVE Inv
  OBVIOUS
<1> USE DbTestAssumption DEF Init, KV!KVInit
<1>1. TypeOK
  BY DEF TypeOK, Positions, Entries, Clients
<1>2. TableNotOverrun /\ EntryHeld /\ ValuesKept
  BY DEF TableNotOverrun, EntryHeld, ValuesKept, Holding, Writing, Copying, Reading
<1>3. NamesKept
  BY DEF NamesKept, Named, Fresh
<1>4. Calling
  BY DEF Calling, Clients
<1>5. CountKept
  <2>1. UsedEntries = {} /\ Counted = {} /\ Deciding = {}
    BY DEF UsedEntries, Counted, Deciding, Unused, Entries
  <2>2. Lo - 1 \in Nat /\ Spread - 1 \in Nat /\ Cardinality(Threads) \in Nat
    BY FS_CardinalityType
  <2>3. Cardinality({}) = 0
    BY FS_EmptySet
  <2> HIDE DEF Lo
  <2> QED BY <2>1, <2>2, <2>3 DEF CountKept
<1> QED BY <1>1, <1>2, <1>3, <1>4, <1>5 DEF Inv

(* Every step preserves the inductive invariant. *)
LEMMA InvNext == Inv /\ [Next]_vars => Inv'
<1> SUFFICES ASSUME Inv, [Next]_vars PROVE Inv'
  OBVIOUS
<1> USE DbTestAssumption
<1>0. TypeOK /\ Lo \in Nat \ {0} /\ n_objects \in Nat
  BY DEF Inv, TypeOK
<1> HIDE DEF Lo, Hi
<1>1. ASSUME NEW t \in Threads, GetOp(t) PROVE Inv'
  <2>a. PICK op \in {"R", "W"} :
          /\ pc' = [pc EXCEPT ![t] = op]
          /\ op = "W" => n_objects <= Lo + Spread - 2
    <3>1. CASE Below(n_objects)
      <4>1. n_objects <= Lo + Spread - 2
        BY <1>0, <3>1 DEF Below
      <4> QED BY <1>1, <3>1, <4>1 DEF GetOp, OpsAt, Goto
    <3>2. CASE ~Below(n_objects)
      <4>1. (\E r \in 0..(Spread - 1) : r > n_objects - Lo) => n_objects <= Lo + Spread - 2
        BY <1>0
      <4> QED BY <1>1, <3>2, <4>1 DEF GetOp, OpsAt, Goto
    <3> QED BY <3>1, <3>2
  <2>b. /\ pc[t] = "op" /\ left[t] > 0
        /\ UNCHANGED <<server, table, n_objects, locals, scan, history>>
    BY <1>1 DEF GetOp
  <2>1. TypeOK'
    BY <2>a, <2>b DEF server, table, locals, history, Inv, TypeOK, Positions, Entries, Clients
  <2>2. TableNotOverrun'
    BY <2>a, <2>b DEF server, table, locals, history, Inv, TypeOK, TableNotOverrun, Holding, Entries
  <2>3. EntryHeld'
    BY <2>a, <2>b DEF server, table, locals, history, Inv, TypeOK, EntryHeld, Holding
  <2>4. NamesKept'
    BY <2>a, <2>b DEF server, table, locals, history, Inv, TypeOK, NamesKept, Named, Fresh
  <2>5. ValuesKept'
    BY <2>a, <2>b DEF server, table, locals, history, Inv, TypeOK, ValuesKept, Writing, Copying, Reading
  <2>6. Calling'
    BY <2>a, <2>b DEF server, table, locals, history, Inv, TypeOK, Calling, Clients, Joined
  <2>7. CountKept'
    <3>1. UsedEntries' = UsedEntries
      BY <2>a, <2>b DEF server, table, locals, history, Inv, TypeOK, UsedEntries, Unused, Entries
    <3>2. Counted' = Counted
      BY <2>a, <2>b DEF server, table, locals, history, Inv, TypeOK, Counted
    <3>3. Deciding' = Deciding \/ n_objects <= Lo + Spread - 2
      BY <2>a, <2>b DEF Deciding, Inv, TypeOK
    <3>4. Cardinality(Deciding') \in Nat /\ Cardinality(Deciding') <= Cardinality(Threads)
          /\ Cardinality(Threads) \in Nat
      <4>1. Deciding' \subseteq Threads
        BY DEF Deciding
      <4> QED BY <4>1, FS_Subset, FS_CardinalityType
    <3>5. n_objects' = n_objects
      BY <2>b
    <3> QED BY <1>0, <3>1, <3>2, <3>3, <3>4, <3>5 DEF Inv, CountKept
  <2> QED BY <2>1, <2>2, <2>3, <2>4, <2>5, <2>6, <2>7 DEF Inv
<1>2. ASSUME NEW t \in Threads, Rewrite(t) PROVE Inv'
  <2>a. PICK n \in 0..(TableSize - 1) :
          /\ e_value[n] # NULL /\ e_busy[n] = 0
          /\ e_busy' = [e_busy EXCEPT ![n] = 1]
          /\ num' = [num EXCEPT ![t] = n]
    BY <1>2 DEF Rewrite, PickRandom, Idle
  <2>b. /\ pc[t] = "W" /\ pc' = [pc EXCEPT ![t] = "copy_name"]
        /\ UNCHANGED <<server, e_name, e_value, n_objects, name, value, left, scan, history>>
    BY <1>2 DEF Rewrite, PickRandom, Goto
  <2>c. n \in Entries /\ n < TableSize /\ num'[t] = n
    BY <2>a DEF Entries, Inv, TypeOK
  <2>d. \A u \in Threads : u # t => num'[u] = num[u] /\ pc'[u] = pc[u]
    BY <2>a, <2>b DEF Inv, TypeOK
  <2>e. \A u \in Threads : Holding(u) => num[u] # n /\ e_busy'[num[u]] = 1
    BY <2>a, <2>c DEF Inv, TypeOK, EntryHeld
  <2>f. pc'[t] = "copy_name" /\ e_busy'[n] = 1
    BY <2>a, <2>b, <2>c DEF Inv, TypeOK
  <2>1. TypeOK'
    BY <2>a, <2>b, <2>c DEF server, history, Inv, TypeOK, Positions, Entries, Clients
  <2>2. TableNotOverrun'
    BY <2>a, <2>b, <2>c DEF server, history, Inv, TypeOK, TableNotOverrun, Holding, Entries
  <2>3. EntryHeld'
    <3>1. \A u \in Threads : u # t /\ Holding(u)' => Holding(u) /\ num'[u] = num[u]
      BY <2>d DEF Holding
    <3>2. ASSUME NEW u \in Threads, Holding(u)' PROVE e_busy'[num'[u]] = 1
      BY <2>c, <2>e, <2>f, <3>1, <3>2
    <3>3. ASSUME NEW u \in Threads, NEW w \in Threads, Holding(u)', Holding(w)', num'[u] = num'[w]
          PROVE  u = w
      BY <2>c, <2>e, <3>1, <3>3 DEF Inv, EntryHeld
    <3> QED BY <3>2, <3>3 DEF EntryHeld
  <2>4. NamesKept'
    <3>1. \A u \in Threads : /\ Named(u)' => Named(u) /\ num'[u] = num[u]
                             /\ Fresh(u)' => Fresh(u)
      BY <2>d, <2>f DEF Named, Fresh
    <3>2. UNCHANGED <<e_name, e_value, name>>
      BY <2>b
    <3> QED BY <3>1, <3>2 DEF Inv, NamesKept
  <2>5. ValuesKept'
    BY <2>a, <2>b, <2>c DEF server, history, Inv, TypeOK, ValuesKept, Writing, Copying, Reading
  <2>6. Calling'
    BY <2>a, <2>b, <2>c DEF server, history, Inv, TypeOK, Calling, Clients, Joined
  <2>7. CountKept'
    <3>1. UsedEntries' = UsedEntries
      <4>1. ASSUME NEW i \in 0..(TableSize - 1) PROVE Unused(i)' <=> Unused(i)
        <5>1. i \in Entries
          BY DEF Entries
        <5>2. CASE i = n
          BY <2>a, <2>b, <5>2 DEF Unused
        <5>3. CASE i # n
          BY <2>a, <2>b, <5>1, <5>3 DEF Unused, Inv, TypeOK
        <5> QED BY <5>2, <5>3
      <4> QED BY <4>1 DEF UsedEntries
    <3>2. Counted' = Counted
      BY <2>a, <2>b, <2>c DEF server, history, Inv, TypeOK, Counted
    <3>3. Deciding' = Deciding \ {t} /\ t \in Deciding
      BY <2>a, <2>b, <2>c DEF server, history, Inv, TypeOK, Deciding
    <3>4. n_objects' = n_objects
      BY <2>a, <2>b, <2>c DEF server, history
    <3>5. Cardinality(Deciding') = Cardinality(Deciding) - 1
      BY <1>0, <3>1, <3>2, <3>3, CountFacts, FS_RemoveElement
    <3>6. /\ n_objects = Cardinality(UsedEntries) + Cardinality(Counted)
          /\ n_objects + Cardinality(Deciding) <= Lo + Spread - 2 + Cardinality(Threads)
      BY DEF Inv, CountKept
    <3>7. n_objects' = Cardinality(UsedEntries') + Cardinality(Counted')
      BY <1>0, <3>1, <3>2, <3>3, <3>4, <3>5, <3>6, CountFacts
    <3>8. n_objects' + Cardinality(Deciding') <= Lo + Spread - 2 + Cardinality(Threads)
      BY <1>0, <3>1, <3>2, <3>3, <3>4, <3>5, <3>6, CountFacts
    <3> QED BY <3>7, <3>8 DEF CountKept
  <2> QED BY <2>1, <2>2, <2>3, <2>4, <2>5, <2>6, <2>7 DEF Inv
<1>3. ASSUME NEW t \in Threads, CopyName(t) PROVE Inv'
  <2>a. e_name[num[t]] \in Names
    <3>1. num[t] \in Entries /\ e_name[num[t]] \in Names \cup {NULL}
      BY DEF Inv, TypeOK
    <3>2. e_value[num[t]] # NULL
      BY <1>3 DEF CopyName, Inv, ValuesKept, Copying
    <3> QED BY <3>1, <3>2 DEF Inv, NamesKept
  <2>1. TypeOK'
    BY <1>3, <2>a DEF CopyName, Goto, server, table, locals, history, Inv, TypeOK, Positions, Entries, Clients
  <2>2. TableNotOverrun'
    BY <1>3, <2>a DEF CopyName, Goto, server, table, locals, history, Inv, TypeOK, TableNotOverrun, Holding, Entries
  <2>3. EntryHeld'
    BY <1>3, <2>a DEF CopyName, Goto, server, table, locals, history, Inv, TypeOK, EntryHeld, Holding
  <2>4. NamesKept'
    BY <1>3, <2>a DEF CopyName, Goto, server, table, locals, history, Inv, TypeOK, NamesKept, Named, Fresh
  <2>5. ValuesKept'
    BY <1>3, <2>a DEF CopyName, Goto, server, table, locals, history, Inv, TypeOK, ValuesKept, Writing, Copying, Reading
  <2>6. Calling'
    BY <1>3, <2>a DEF CopyName, Goto, server, table, locals, history, Inv, TypeOK, Calling, Clients, Joined
  <2>7. CountKept'
    <3>1. UsedEntries' = UsedEntries
      BY <1>3, <2>a DEF CopyName, Goto, server, table, locals, history, Inv, TypeOK, UsedEntries, Unused, Entries
    <3>2. Counted' = Counted
      BY <1>3, <2>a DEF CopyName, Goto, server, table, locals, history, Inv, TypeOK, Counted
    <3>3. Deciding' = Deciding
      BY <1>3, <2>a DEF CopyName, Goto, server, table, locals, history, Inv, TypeOK, Deciding
    <3>4. n_objects' = n_objects
      BY <1>3, <2>a DEF CopyName, Goto, server, table, locals, history
    <3>5. /\ n_objects = Cardinality(UsedEntries) + Cardinality(Counted)
          /\ n_objects + Cardinality(Deciding) <= Lo + Spread - 2 + Cardinality(Threads)
      BY DEF Inv, CountKept
    <3>6. n_objects' = Cardinality(UsedEntries') + Cardinality(Counted')
      BY <1>0, <3>1, <3>2, <3>3, <3>4, <3>5, CountFacts
    <3>7. n_objects' + Cardinality(Deciding') <= Lo + Spread - 2 + Cardinality(Threads)
      BY <1>0, <3>1, <3>2, <3>3, <3>4, <3>5, CountFacts
    <3> QED BY <3>6, <3>7 DEF CountKept
  <2> QED BY <2>1, <2>2, <2>3, <2>4, <2>5, <2>6, <2>7 DEF Inv
<1>4. ASSUME NEW t \in Threads, CountNew(t) PROVE Inv'
  <2>a. PICK n \in Names :
          /\ n \notin UsedNames
          /\ name' = [name EXCEPT ![t] = n]
    BY <1>4 DEF CountNew, NewName
  <2>b. /\ pc[t] = "W" /\ pc' = [pc EXCEPT ![t] = "free"]
        /\ UNCHANGED <<server, table, num, value, left, scan, history>>
    BY <1>4 DEF CountNew, Goto
  <2>d. n_objects' = n_objects + 1 /\ n_objects' \in Nat
    BY <1>4, <1>0 DEF CountNew
  <2>c. (\A i \in Entries : e_name[i] # n) /\ (\A u \in Threads : name[u] # n)
    BY <2>a DEF UsedNames
  <2>1. TypeOK'
    BY <2>a, <2>b, <2>c, <2>d DEF server, table, history, Inv, TypeOK, Positions, Entries, Clients
  <2>2. TableNotOverrun'
    BY <2>a, <2>b, <2>c DEF server, table, history, Inv, TypeOK, TableNotOverrun, Holding, Entries
  <2>3. EntryHeld'
    BY <2>a, <2>b, <2>c DEF server, table, history, Inv, TypeOK, EntryHeld, Holding
  <2>4. NamesKept'
    BY <2>a, <2>b, <2>c DEF server, table, history, Inv, TypeOK, NamesKept, Named, Fresh
  <2>5. ValuesKept'
    BY <2>a, <2>b, <2>c DEF server, table, history, Inv, TypeOK, ValuesKept, Writing, Copying, Reading
  <2>6. Calling'
    BY <2>a, <2>b, <2>c DEF server, table, history, Inv, TypeOK, Calling, Clients, Joined
  <2>7. CountKept'
    <3>1. UsedEntries' = UsedEntries
      BY <2>a, <2>b, <2>c DEF server, table, history, Inv, TypeOK, UsedEntries, Unused, Entries
    <3>2. Counted' = Counted \cup {t} /\ t \notin Counted
      BY <2>a, <2>b, <2>c DEF server, table, history, Inv, TypeOK, Counted
    <3>3. Deciding' = Deciding \ {t} /\ t \in Deciding
      BY <2>a, <2>b, <2>c DEF server, table, history, Inv, TypeOK, Deciding
    <3>4. n_objects' = n_objects + 1
      BY <2>d DEF server, table, history
    <3>5. Cardinality(Counted') = Cardinality(Counted) + 1
      BY <1>0, <3>1, <3>2, <3>3, CountFacts, FS_AddElement
    <3>6. Cardinality(Deciding') = Cardinality(Deciding) - 1
      BY <1>0, <3>1, <3>2, <3>3, CountFacts, FS_RemoveElement
    <3>7. /\ n_objects = Cardinality(UsedEntries) + Cardinality(Counted)
          /\ n_objects + Cardinality(Deciding) <= Lo + Spread - 2 + Cardinality(Threads)
      BY DEF Inv, CountKept
    <3>8. n_objects' = Cardinality(UsedEntries') + Cardinality(Counted')
      BY <1>0, <3>1, <3>2, <3>3, <3>4, <3>5, <3>6, <3>7, CountFacts
    <3>9. n_objects' + Cardinality(Deciding') <= Lo + Spread - 2 + Cardinality(Threads)
      BY <1>0, <3>1, <3>2, <3>3, <3>4, <3>5, <3>6, <3>7, CountFacts
    <3> QED BY <3>8, <3>9 DEF CountKept
  <2> QED BY <2>1, <2>2, <2>3, <2>4, <2>5, <2>6, <2>7 DEF Inv
<1>5. ASSUME NEW t \in Threads, GetFree(t) PROVE Inv'
  <2>a. PICK n \in Entries :
          /\ IsFree(n)
          /\ num' = [num EXCEPT ![t] = n]
          /\ e_busy' = [e_busy EXCEPT ![n] = 1]
    BY <1>5 DEF GetFree
  <2>b. /\ pc[t] = "free" /\ pc' = [pc EXCEPT ![t] = "enter"]
        /\ UNCHANGED <<server, e_name, e_value, n_objects, name, value, left, scan, history>>
    BY <1>5 DEF GetFree, Goto
  <2>c. n \in 0..(TableSize - 1) /\ e_value[n] = NULL /\ e_busy[n] = 0
    BY <2>a, <2>b, FreeFound DEF Unused
  <2>1. TypeOK'
    BY <2>a, <2>b, <2>c DEF server, history, Inv, TypeOK, Positions, Entries, Clients
  <2>2. TableNotOverrun'
    BY <2>a, <2>b, <2>c DEF server, history, Inv, TypeOK, TableNotOverrun, Holding, Entries
  <2>3. EntryHeld'
    BY <2>a, <2>b, <2>c DEF server, history, Inv, TypeOK, EntryHeld, Holding
  <2>4. NamesKept'
    BY <2>a, <2>b, <2>c DEF server, history, Inv, TypeOK, NamesKept, Named, Fresh
  <2>5. ValuesKept'
    BY <2>a, <2>b, <2>c DEF server, history, Inv, TypeOK, ValuesKept, Writing, Copying, Reading
  <2>6. Calling'
    BY <2>a, <2>b, <2>c DEF server, history, Inv, TypeOK, Calling, Clients, Joined
  <2>7. CountKept'
    <3>1. UsedEntries' = UsedEntries \cup {n} /\ n \notin UsedEntries
      BY <2>a, <2>b, <2>c DEF server, history, Inv, TypeOK, UsedEntries, Unused, Entries
    <3>2. Counted' = Counted \ {t} /\ t \in Counted
      BY <2>a, <2>b, <2>c DEF server, history, Inv, TypeOK, Counted
    <3>3. Deciding' = Deciding
      BY <2>a, <2>b, <2>c DEF server, history, Inv, TypeOK, Deciding
    <3>4. n_objects' = n_objects
      BY <2>a, <2>b, <2>c DEF server, history
    <3>5. Cardinality(UsedEntries') = Cardinality(UsedEntries) + 1
      BY <1>0, <3>1, <3>2, <3>3, CountFacts, FS_AddElement
    <3>6. Cardinality(Counted') = Cardinality(Counted) - 1
      BY <1>0, <3>1, <3>2, <3>3, CountFacts, FS_RemoveElement
    <3>7. /\ n_objects = Cardinality(UsedEntries) + Cardinality(Counted)
          /\ n_objects + Cardinality(Deciding) <= Lo + Spread - 2 + Cardinality(Threads)
      BY DEF Inv, CountKept
    <3>8. n_objects' = Cardinality(UsedEntries') + Cardinality(Counted')
      BY <1>0, <3>1, <3>2, <3>3, <3>4, <3>5, <3>6, <3>7, CountFacts
    <3>9. n_objects' + Cardinality(Deciding') <= Lo + Spread - 2 + Cardinality(Threads)
      BY <1>0, <3>1, <3>2, <3>3, <3>4, <3>5, <3>6, <3>7, CountFacts
    <3> QED BY <3>8, <3>9 DEF CountKept
  <2> QED BY <2>1, <2>2, <2>3, <2>4, <2>5, <2>6, <2>7 DEF Inv
<1>6. ASSUME NEW t \in Threads, EnterName(t) PROVE Inv'
  <2>1. TypeOK'
    BY <1>6 DEF EnterName, Goto, server, table, locals, history, Inv, TypeOK, Positions, Entries, Clients
  <2>2. TableNotOverrun'
    BY <1>6 DEF EnterName, Goto, server, table, locals, history, Inv, TypeOK, TableNotOverrun, Holding, Entries
  <2>3. EntryHeld'
    BY <1>6 DEF EnterName, Goto, server, table, locals, history, Inv, TypeOK, EntryHeld, Holding
  <2>4. NamesKept'
    BY <1>6 DEF EnterName, Goto, server, table, locals, history, Inv, TypeOK, NamesKept, Named, Fresh, EntryHeld, Holding
  <2>5. ValuesKept'
    BY <1>6 DEF EnterName, Goto, server, table, locals, history, Inv, TypeOK, ValuesKept, Writing, Copying, Reading
  <2>6. Calling'
    BY <1>6 DEF EnterName, Goto, server, table, locals, history, Inv, TypeOK, Calling, Clients, Joined
  <2>7. CountKept'
    <3>1. UsedEntries' = UsedEntries
      BY <1>6 DEF EnterName, Goto, server, table, locals, history, Inv, TypeOK, UsedEntries, Unused, Entries
    <3>2. Counted' = Counted
      BY <1>6 DEF EnterName, Goto, server, table, locals, history, Inv, TypeOK, Counted
    <3>3. Deciding' = Deciding
      BY <1>6 DEF EnterName, Goto, server, table, locals, history, Inv, TypeOK, Deciding
    <3>4. n_objects' = n_objects
      BY <1>6 DEF EnterName, Goto, server, table, locals, history
    <3>5. /\ n_objects = Cardinality(UsedEntries) + Cardinality(Counted)
          /\ n_objects + Cardinality(Deciding) <= Lo + Spread - 2 + Cardinality(Threads)
      BY DEF Inv, CountKept
    <3>6. n_objects' = Cardinality(UsedEntries') + Cardinality(Counted')
      BY <1>0, <3>1, <3>2, <3>3, <3>4, <3>5, CountFacts
    <3>7. n_objects' + Cardinality(Deciding') <= Lo + Spread - 2 + Cardinality(Threads)
      BY <1>0, <3>1, <3>2, <3>3, <3>4, <3>5, CountFacts
    <3> QED BY <3>6, <3>7 DEF CountKept
  <2> QED BY <2>1, <2>2, <2>3, <2>4, <2>5, <2>6, <2>7 DEF Inv
<1>7. ASSUME NEW t \in Threads, SendWrite(t) PROVE Inv'
  <2>a. PICK v \in Values :
          /\ value' = [value EXCEPT ![t] = v]
          /\ request' = [request EXCEPT ![t] = [op |-> "W", key |-> name[t], val |-> v]]
    BY <1>7 DEF SendWrite, KV!Call
  <2>b. /\ pc[t] = "send" /\ pc' = [pc EXCEPT ![t] = "sent"]
        /\ UNCHANGED <<store, answer, table, n_objects, num, name, left, scan, history>>
    BY <1>7 DEF SendWrite, Goto, KV!Call
  <2>c. name[t] \in Names
    BY <2>b DEF Inv, NamesKept, Named
  <2>d. [op |-> "W", key |-> name[t], val |-> v] \in KV!Requests
    BY <2>c DEF KV!Requests
  <2>1. TypeOK'
    BY <2>a, <2>b, <2>c, <2>d DEF table, history, Inv, TypeOK, Positions, Entries, Clients
  <2>2. TableNotOverrun'
    BY <2>a, <2>b, <2>c, <2>d DEF table, history, Inv, TypeOK, TableNotOverrun, Holding, Entries
  <2>3. EntryHeld'
    BY <2>a, <2>b, <2>c, <2>d DEF table, history, Inv, TypeOK, EntryHeld, Holding
  <2>4. NamesKept'
    BY <2>a, <2>b, <2>c, <2>d DEF table, history, Inv, TypeOK, NamesKept, Named, Fresh
  <2>5. ValuesKept'
    BY <2>a, <2>b, <2>c, <2>d DEF table, history, Inv, TypeOK, ValuesKept, Writing, Copying, Reading
  <2>6. Calling'
    BY <2>a, <2>b, <2>c, <2>d DEF table, history, Inv, TypeOK, Calling, Clients, Joined
  <2>7. CountKept'
    <3>1. UsedEntries' = UsedEntries
      BY <2>a, <2>b, <2>c, <2>d DEF table, history, Inv, TypeOK, UsedEntries, Unused, Entries
    <3>2. Counted' = Counted
      BY <2>a, <2>b, <2>c, <2>d DEF table, history, Inv, TypeOK, Counted
    <3>3. Deciding' = Deciding
      BY <2>a, <2>b, <2>c, <2>d DEF table, history, Inv, TypeOK, Deciding
    <3>4. n_objects' = n_objects
      BY <2>a, <2>b, <2>c, <2>d DEF table, history
    <3>5. /\ n_objects = Cardinality(UsedEntries) + Cardinality(Counted)
          /\ n_objects + Cardinality(Deciding) <= Lo + Spread - 2 + Cardinality(Threads)
      BY DEF Inv, CountKept
    <3>6. n_objects' = Cardinality(UsedEntries') + Cardinality(Counted')
      BY <1>0, <3>1, <3>2, <3>3, <3>4, <3>5, CountFacts
    <3>7. n_objects' + Cardinality(Deciding') <= Lo + Spread - 2 + Cardinality(Threads)
      BY <1>0, <3>1, <3>2, <3>3, <3>4, <3>5, CountFacts
    <3> QED BY <3>6, <3>7 DEF CountKept
  <2> QED BY <2>1, <2>2, <2>3, <2>4, <2>5, <2>6, <2>7 DEF Inv
<1>8. ASSUME NEW t \in Threads, ReceiveWrite(t) PROVE Inv'
  <2>a. /\ pc[t] = "sent" /\ pc' = [pc EXCEPT ![t] = "record"]
        /\ request' = [request EXCEPT ![t] = NULL]
        /\ answer' = [answer EXCEPT ![t] = NULL]
        /\ refused' \subseteq refused \cup {name[t]}
        /\ UNCHANGED <<store, table, n_objects, locals, scan, alarmed>>
    BY <1>8 DEF ReceiveWrite, Goto, KV!Return, Refusal
  <2>b. name[t] \in Names
    BY <2>a DEF Inv, NamesKept, Named
  <2>1. TypeOK'
    BY <2>a, <2>b DEF table, locals, Inv, TypeOK, Positions, Entries, Clients
  <2>2. TableNotOverrun'
    BY <2>a, <2>b DEF table, locals, Inv, TypeOK, TableNotOverrun, Holding, Entries
  <2>3. EntryHeld'
    BY <2>a, <2>b DEF table, locals, Inv, TypeOK, EntryHeld, Holding
  <2>4. NamesKept'
    BY <2>a, <2>b DEF table, locals, Inv, TypeOK, NamesKept, Named, Fresh
  <2>5. ValuesKept'
    BY <2>a, <2>b DEF table, locals, Inv, TypeOK, ValuesKept, Writing, Copying, Reading
  <2>6. Calling'
    BY <2>a, <2>b DEF table, locals, Inv, TypeOK, Calling, Clients, Joined
  <2>7. CountKept'
    <3>1. UsedEntries' = UsedEntries
      BY <2>a, <2>b DEF table, locals, Inv, TypeOK, UsedEntries, Unused, Entries
    <3>2. Counted' = Counted
      BY <2>a, <2>b DEF table, locals, Inv, TypeOK, Counted
    <3>3. Deciding' = Deciding
      BY <2>a, <2>b DEF table, locals, Inv, TypeOK, Deciding
    <3>4. n_objects' = n_objects
      BY <2>a, <2>b DEF table, locals
    <3>5. /\ n_objects = Cardinality(UsedEntries) + Cardinality(Counted)
          /\ n_objects + Cardinality(Deciding) <= Lo + Spread - 2 + Cardinality(Threads)
      BY DEF Inv, CountKept
    <3>6. n_objects' = Cardinality(UsedEntries') + Cardinality(Counted')
      BY <1>0, <3>1, <3>2, <3>3, <3>4, <3>5, CountFacts
    <3>7. n_objects' + Cardinality(Deciding') <= Lo + Spread - 2 + Cardinality(Threads)
      BY <1>0, <3>1, <3>2, <3>3, <3>4, <3>5, CountFacts
    <3> QED BY <3>6, <3>7 DEF CountKept
  <2> QED BY <2>1, <2>2, <2>3, <2>4, <2>5, <2>6, <2>7 DEF Inv
<1>9. ASSUME NEW t \in Threads, Record(t) PROVE Inv'
  <2>a. /\ pc[t] = "record" /\ pc' = [pc EXCEPT ![t] = "op"]
        /\ e_name' = [e_name EXCEPT ![num[t]] = name[t]]
        /\ e_value' = [e_value EXCEPT ![num[t]] = value[t]]
        /\ e_busy' = [e_busy EXCEPT ![num[t]] = 0]
        /\ UNCHANGED <<server, n_objects, num, name, value, scan, history>>
    BY <1>9 DEF Record, Recorded, BusyAfter, Goto
  <2>b. name[t] \in Names /\ e_name[num[t]] = name[t] /\ value[t] \in Values /\ value[t] # NULL
    BY <2>a DEF Inv, NamesKept, Named, ValuesKept, Writing
  <2>c. left' = [left EXCEPT ![t] = left[t] - 1] /\ left[t] - 1 \in 0..Rounds
    BY <1>9, <2>a DEF Record, Inv, TypeOK, ValuesKept
  <2>d. e_busy[num[t]] = 1 /\ num[t] \in Entries
    BY <2>a DEF Inv, TypeOK, EntryHeld, Holding
  <2>1. TypeOK'
    BY <2>a, <2>b, <2>c, <2>d DEF server, history, Inv, TypeOK, Positions, Entries, Clients
  <2>2. TableNotOverrun'
    BY <2>a, <2>b, <2>c, <2>d DEF server, history, Inv, TypeOK, TableNotOverrun, Holding, Entries
  <2>3. EntryHeld'
    BY <2>a, <2>b, <2>c, <2>d DEF server, history, Inv, TypeOK, EntryHeld, Holding
  <2>4. NamesKept'
    BY <2>a, <2>b, <2>c, <2>d DEF server, history, Inv, TypeOK, NamesKept, Named, Fresh, Entries
  <2>5. ValuesKept'
    BY <2>a, <2>b, <2>c, <2>d DEF server, history, Inv, TypeOK, ValuesKept, Writing, Copying, Reading, EntryHeld, Holding
  <2>6. Calling'
    BY <2>a, <2>b, <2>c, <2>d DEF server, history, Inv, TypeOK, Calling, Clients, Joined
  <2>7. CountKept'
    <3>1. UsedEntries' = UsedEntries
      BY <2>a, <2>b, <2>c, <2>d DEF server, history, Inv, TypeOK, UsedEntries, Unused, Entries
    <3>2. Counted' = Counted
      BY <2>a, <2>b, <2>c, <2>d DEF server, history, Inv, TypeOK, Counted
    <3>3. Deciding' = Deciding
      BY <2>a, <2>b, <2>c, <2>d DEF server, history, Inv, TypeOK, Deciding
    <3>4. n_objects' = n_objects
      BY <2>a, <2>b, <2>c, <2>d DEF server, history
    <3>5. /\ n_objects = Cardinality(UsedEntries) + Cardinality(Counted)
          /\ n_objects + Cardinality(Deciding) <= Lo + Spread - 2 + Cardinality(Threads)
      BY DEF Inv, CountKept
    <3>6. n_objects' = Cardinality(UsedEntries') + Cardinality(Counted')
      BY <1>0, <3>1, <3>2, <3>3, <3>4, <3>5, CountFacts
    <3>7. n_objects' + Cardinality(Deciding') <= Lo + Spread - 2 + Cardinality(Threads)
      BY <1>0, <3>1, <3>2, <3>3, <3>4, <3>5, CountFacts
    <3> QED BY <3>6, <3>7 DEF CountKept
  <2> QED BY <2>1, <2>2, <2>3, <2>4, <2>5, <2>6, <2>7 DEF Inv
<1>10. ASSUME NEW t \in Threads, PickRead(t) PROVE Inv'
  <2>a. PICK n \in 0..(TableSize - 1) :
          /\ e_value[n] # NULL /\ e_busy[n] = 0
          /\ e_busy' = [e_busy EXCEPT ![n] = 1]
          /\ num' = [num EXCEPT ![t] = n]
    BY <1>10 DEF PickRead, PickRandom, Idle
  <2>b. /\ pc[t] = "R" /\ pc' = [pc EXCEPT ![t] = "copy_entry"]
        /\ UNCHANGED <<server, e_name, e_value, n_objects, name, value, left, scan, history>>
    BY <1>10 DEF PickRead, PickRandom, Goto
  <2>c. n \in Entries /\ n < TableSize /\ num'[t] = n
    BY <2>a DEF Entries, Inv, TypeOK
  <2>d. \A u \in Threads : u # t => num'[u] = num[u] /\ pc'[u] = pc[u]
    BY <2>a, <2>b DEF Inv, TypeOK
  <2>e. \A u \in Threads : Holding(u) => num[u] # n /\ e_busy'[num[u]] = 1
    BY <2>a, <2>c DEF Inv, TypeOK, EntryHeld
  <2>f. pc'[t] = "copy_entry" /\ e_busy'[n] = 1
    BY <2>a, <2>b, <2>c DEF Inv, TypeOK
  <2>1. TypeOK'
    BY <2>a, <2>b, <2>c DEF server, history, Inv, TypeOK, Positions, Entries, Clients
  <2>2. TableNotOverrun'
    BY <2>a, <2>b, <2>c DEF server, history, Inv, TypeOK, TableNotOverrun, Holding, Entries
  <2>3. EntryHeld'
    <3>1. \A u \in Threads : u # t /\ Holding(u)' => Holding(u) /\ num'[u] = num[u]
      BY <2>d DEF Holding
    <3>2. ASSUME NEW u \in Threads, Holding(u)' PROVE e_busy'[num'[u]] = 1
      BY <2>c, <2>e, <2>f, <3>1, <3>2
    <3>3. ASSUME NEW u \in Threads, NEW w \in Threads, Holding(u)', Holding(w)', num'[u] = num'[w]
          PROVE  u = w
      BY <2>c, <2>e, <3>1, <3>3 DEF Inv, EntryHeld
    <3> QED BY <3>2, <3>3 DEF EntryHeld
  <2>4. NamesKept'
    <3>1. \A u \in Threads : /\ Named(u)' => Named(u) /\ num'[u] = num[u]
                             /\ Fresh(u)' => Fresh(u)
      BY <2>d, <2>f DEF Named, Fresh
    <3>2. UNCHANGED <<e_name, e_value, name>>
      BY <2>b
    <3> QED BY <3>1, <3>2 DEF Inv, NamesKept
  <2>5. ValuesKept'
    BY <2>a, <2>b, <2>c DEF server, history, Inv, TypeOK, ValuesKept, Writing, Copying, Reading
  <2>6. Calling'
    BY <2>a, <2>b, <2>c DEF server, history, Inv, TypeOK, Calling, Clients, Joined
  <2>7. CountKept'
    <3>1. UsedEntries' = UsedEntries
      <4>1. ASSUME NEW i \in 0..(TableSize - 1) PROVE Unused(i)' <=> Unused(i)
        <5>1. i \in Entries
          BY DEF Entries
        <5>2. CASE i = n
          BY <2>a, <2>b, <5>2 DEF Unused
        <5>3. CASE i # n
          BY <2>a, <2>b, <5>1, <5>3 DEF Unused, Inv, TypeOK
        <5> QED BY <5>2, <5>3
      <4> QED BY <4>1 DEF UsedEntries
    <3>2. Counted' = Counted
      BY <2>a, <2>b, <2>c DEF server, history, Inv, TypeOK, Counted
    <3>3. Deciding' = Deciding
      BY <2>a, <2>b, <2>c DEF server, history, Inv, TypeOK, Deciding
    <3>4. n_objects' = n_objects
      BY <2>a, <2>b, <2>c DEF server, history
    <3>5. /\ n_objects = Cardinality(UsedEntries) + Cardinality(Counted)
          /\ n_objects + Cardinality(Deciding) <= Lo + Spread - 2 + Cardinality(Threads)
      BY DEF Inv, CountKept
    <3>6. n_objects' = Cardinality(UsedEntries') + Cardinality(Counted')
      BY <1>0, <3>1, <3>2, <3>3, <3>4, <3>5, CountFacts
    <3>7. n_objects' + Cardinality(Deciding') <= Lo + Spread - 2 + Cardinality(Threads)
      BY <1>0, <3>1, <3>2, <3>3, <3>4, <3>5, CountFacts
    <3> QED BY <3>6, <3>7 DEF CountKept
  <2> QED BY <2>1, <2>2, <2>3, <2>4, <2>5, <2>6, <2>7 DEF Inv
<1>11. ASSUME NEW t \in Threads, CopyEntry(t) PROVE Inv'
  <2>a. e_name[num[t]] \in Names
    <3>1. num[t] \in Entries /\ e_name[num[t]] \in Names \cup {NULL}
      BY DEF Inv, TypeOK
    <3>2. e_value[num[t]] # NULL
      BY <1>11 DEF CopyEntry, Inv, ValuesKept, Copying
    <3> QED BY <3>1, <3>2 DEF Inv, NamesKept
  <2>1. TypeOK'
    BY <1>11, <2>a DEF CopyEntry, Goto, server, table, locals, history, Inv, TypeOK, Positions, Entries, Clients
  <2>2. TableNotOverrun'
    BY <1>11, <2>a DEF CopyEntry, Goto, server, table, locals, history, Inv, TypeOK, TableNotOverrun, Holding, Entries
  <2>3. EntryHeld'
    BY <1>11, <2>a DEF CopyEntry, Goto, server, table, locals, history, Inv, TypeOK, EntryHeld, Holding
  <2>4. NamesKept'
    BY <1>11, <2>a DEF CopyEntry, Goto, server, table, locals, history, Inv, TypeOK, NamesKept, Named, Fresh
  <2>5. ValuesKept'
    BY <1>11, <2>a DEF CopyEntry, Goto, server, table, locals, history, Inv, TypeOK, ValuesKept, Writing, Copying, Reading
  <2>6. Calling'
    BY <1>11, <2>a DEF CopyEntry, Goto, server, table, locals, history, Inv, TypeOK, Calling, Clients, Joined
  <2>7. CountKept'
    <3>1. UsedEntries' = UsedEntries
      BY <1>11, <2>a DEF CopyEntry, Goto, server, table, locals, history, Inv, TypeOK, UsedEntries, Unused, Entries
    <3>2. Counted' = Counted
      BY <1>11, <2>a DEF CopyEntry, Goto, server, table, locals, history, Inv, TypeOK, Counted
    <3>3. Deciding' = Deciding
      BY <1>11, <2>a DEF CopyEntry, Goto, server, table, locals, history, Inv, TypeOK, Deciding
    <3>4. n_objects' = n_objects
      BY <1>11, <2>a DEF CopyEntry, Goto, server, table, locals, history
    <3>5. /\ n_objects = Cardinality(UsedEntries) + Cardinality(Counted)
          /\ n_objects + Cardinality(Deciding) <= Lo + Spread - 2 + Cardinality(Threads)
      BY DEF Inv, CountKept
    <3>6. n_objects' = Cardinality(UsedEntries') + Cardinality(Counted')
      BY <1>0, <3>1, <3>2, <3>3, <3>4, <3>5, CountFacts
    <3>7. n_objects' + Cardinality(Deciding') <= Lo + Spread - 2 + Cardinality(Threads)
      BY <1>0, <3>1, <3>2, <3>3, <3>4, <3>5, CountFacts
    <3> QED BY <3>6, <3>7 DEF CountKept
  <2> QED BY <2>1, <2>2, <2>3, <2>4, <2>5, <2>6, <2>7 DEF Inv
<1>12. ASSUME NEW t \in Threads, SendRead(t) PROVE Inv'
  <2>a. /\ pc[t] = "ask" /\ pc' = [pc EXCEPT ![t] = "asked"]
        /\ request' = [request EXCEPT ![t] = [op |-> "R", key |-> name[t]]]
        /\ UNCHANGED <<store, answer, table, n_objects, locals, scan, history>>
    BY <1>12 DEF SendRead, Goto, KV!Call
  <2>b. name[t] \in Names
    BY <2>a DEF Inv, NamesKept, Named
  <2>c. [op |-> "R", key |-> name[t]] \in KV!Requests
    BY <2>b DEF KV!Requests
  <2>1. TypeOK'
    BY <2>a, <2>b, <2>c DEF table, locals, history, Inv, TypeOK, Positions, Entries, Clients
  <2>2. TableNotOverrun'
    BY <2>a, <2>b, <2>c DEF table, locals, history, Inv, TypeOK, TableNotOverrun, Holding, Entries
  <2>3. EntryHeld'
    BY <2>a, <2>b, <2>c DEF table, locals, history, Inv, TypeOK, EntryHeld, Holding
  <2>4. NamesKept'
    BY <2>a, <2>b, <2>c DEF table, locals, history, Inv, TypeOK, NamesKept, Named, Fresh
  <2>5. ValuesKept'
    BY <2>a, <2>b, <2>c DEF table, locals, history, Inv, TypeOK, ValuesKept, Writing, Copying, Reading
  <2>6. Calling'
    BY <2>a, <2>b, <2>c DEF table, locals, history, Inv, TypeOK, Calling, Clients, Joined
  <2>7. CountKept'
    <3>1. UsedEntries' = UsedEntries
      BY <2>a, <2>b, <2>c DEF table, locals, history, Inv, TypeOK, UsedEntries, Unused, Entries
    <3>2. Counted' = Counted
      BY <2>a, <2>b, <2>c DEF table, locals, history, Inv, TypeOK, Counted
    <3>3. Deciding' = Deciding
      BY <2>a, <2>b, <2>c DEF table, locals, history, Inv, TypeOK, Deciding
    <3>4. n_objects' = n_objects
      BY <2>a, <2>b, <2>c DEF table, locals, history
    <3>5. /\ n_objects = Cardinality(UsedEntries) + Cardinality(Counted)
          /\ n_objects + Cardinality(Deciding) <= Lo + Spread - 2 + Cardinality(Threads)
      BY DEF Inv, CountKept
    <3>6. n_objects' = Cardinality(UsedEntries') + Cardinality(Counted')
      BY <1>0, <3>1, <3>2, <3>3, <3>4, <3>5, CountFacts
    <3>7. n_objects' + Cardinality(Deciding') <= Lo + Spread - 2 + Cardinality(Threads)
      BY <1>0, <3>1, <3>2, <3>3, <3>4, <3>5, CountFacts
    <3> QED BY <3>6, <3>7 DEF CountKept
  <2> QED BY <2>1, <2>2, <2>3, <2>4, <2>5, <2>6, <2>7 DEF Inv
<1>13. ASSUME NEW t \in Threads, ReceiveRead(t) PROVE Inv'
  <2>a. /\ pc[t] = "asked" /\ pc' = [pc EXCEPT ![t] = "release"]
        /\ request' = [request EXCEPT ![t] = NULL]
        /\ answer' = [answer EXCEPT ![t] = NULL]
        /\ refused' \subseteq refused \cup {name[t]}
        /\ alarmed' \subseteq alarmed \cup {name[t]}
        /\ UNCHANGED <<store, table, n_objects, locals, scan>>
    BY <1>13 DEF ReceiveRead, Goto, KV!Return, Refusal
  <2>b. name[t] \in Names
    BY <2>a DEF Inv, NamesKept, Named
  <2>1. TypeOK'
    BY <2>a, <2>b DEF table, locals, Inv, TypeOK, Positions, Entries, Clients
  <2>2. TableNotOverrun'
    BY <2>a, <2>b DEF table, locals, Inv, TypeOK, TableNotOverrun, Holding, Entries
  <2>3. EntryHeld'
    BY <2>a, <2>b DEF table, locals, Inv, TypeOK, EntryHeld, Holding
  <2>4. NamesKept'
    BY <2>a, <2>b DEF table, locals, Inv, TypeOK, NamesKept, Named, Fresh
  <2>5. ValuesKept'
    BY <2>a, <2>b DEF table, locals, Inv, TypeOK, ValuesKept, Writing, Copying, Reading
  <2>6. Calling'
    BY <2>a, <2>b DEF table, locals, Inv, TypeOK, Calling, Clients, Joined
  <2>7. CountKept'
    <3>1. UsedEntries' = UsedEntries
      BY <2>a, <2>b DEF table, locals, Inv, TypeOK, UsedEntries, Unused, Entries
    <3>2. Counted' = Counted
      BY <2>a, <2>b DEF table, locals, Inv, TypeOK, Counted
    <3>3. Deciding' = Deciding
      BY <2>a, <2>b DEF table, locals, Inv, TypeOK, Deciding
    <3>4. n_objects' = n_objects
      BY <2>a, <2>b DEF table, locals
    <3>5. /\ n_objects = Cardinality(UsedEntries) + Cardinality(Counted)
          /\ n_objects + Cardinality(Deciding) <= Lo + Spread - 2 + Cardinality(Threads)
      BY DEF Inv, CountKept
    <3>6. n_objects' = Cardinality(UsedEntries') + Cardinality(Counted')
      BY <1>0, <3>1, <3>2, <3>3, <3>4, <3>5, CountFacts
    <3>7. n_objects' + Cardinality(Deciding') <= Lo + Spread - 2 + Cardinality(Threads)
      BY <1>0, <3>1, <3>2, <3>3, <3>4, <3>5, CountFacts
    <3> QED BY <3>6, <3>7 DEF CountKept
  <2> QED BY <2>1, <2>2, <2>3, <2>4, <2>5, <2>6, <2>7 DEF Inv
<1>14. ASSUME NEW t \in Threads, Release(t) PROVE Inv'
  <2>a. /\ pc[t] = "release" /\ pc' = [pc EXCEPT ![t] = "op"]
        /\ e_busy' = [e_busy EXCEPT ![num[t]] = 0]
        /\ UNCHANGED <<server, e_name, e_value, n_objects, num, name, value, scan, history>>
    BY <1>14 DEF Release, Goto
  <2>b. e_value[num[t]] # NULL
    BY <2>a DEF Inv, ValuesKept, Reading
  <2>c. left' = [left EXCEPT ![t] = left[t] - 1] /\ left[t] - 1 \in 0..Rounds
    BY <1>14, <2>a DEF Release, Inv, TypeOK, ValuesKept
  <2>1. TypeOK'
    BY <2>a, <2>b, <2>c DEF server, history, Inv, TypeOK, Positions, Entries, Clients
  <2>2. TableNotOverrun'
    BY <2>a, <2>b, <2>c DEF server, history, Inv, TypeOK, TableNotOverrun, Holding, Entries
  <2>3. EntryHeld'
    BY <2>a, <2>b, <2>c DEF server, history, Inv, TypeOK, EntryHeld, Holding
  <2>4. NamesKept'
    BY <2>a, <2>b, <2>c DEF server, history, Inv, TypeOK, NamesKept, Named, Fresh
  <2>5. ValuesKept'
    BY <2>a, <2>b, <2>c DEF server, history, Inv, TypeOK, ValuesKept, Writing, Copying, Reading
  <2>6. Calling'
    BY <2>a, <2>b, <2>c DEF server, history, Inv, TypeOK, Calling, Clients, Joined
  <2>7. CountKept'
    <3>1. UsedEntries' = UsedEntries
      BY <2>a, <2>b, <2>c DEF server, history, Inv, TypeOK, UsedEntries, Unused, Entries
    <3>2. Counted' = Counted
      BY <2>a, <2>b, <2>c DEF server, history, Inv, TypeOK, Counted
    <3>3. Deciding' = Deciding
      BY <2>a, <2>b, <2>c DEF server, history, Inv, TypeOK, Deciding
    <3>4. n_objects' = n_objects
      BY <2>a, <2>b, <2>c DEF server, history
    <3>5. /\ n_objects = Cardinality(UsedEntries) + Cardinality(Counted)
          /\ n_objects + Cardinality(Deciding) <= Lo + Spread - 2 + Cardinality(Threads)
      BY DEF Inv, CountKept
    <3>6. n_objects' = Cardinality(UsedEntries') + Cardinality(Counted')
      BY <1>0, <3>1, <3>2, <3>3, <3>4, <3>5, CountFacts
    <3>7. n_objects' + Cardinality(Deciding') <= Lo + Spread - 2 + Cardinality(Threads)
      BY <1>0, <3>1, <3>2, <3>3, <3>4, <3>5, CountFacts
    <3> QED BY <3>6, <3>7 DEF CountKept
  <2> QED BY <2>1, <2>2, <2>3, <2>4, <2>5, <2>6, <2>7 DEF Inv
<1>15. ASSUME MainSkip PROVE Inv'
  <2>1. TypeOK'
    BY <1>15 DEF MainSkip, Scanning, Goto, server, table, locals, history, Inv, TypeOK, Entries, Clients, Joined
  <2>2. UNCHANGED <<table, n_objects, pc, locals>>
    BY <1>15 DEF MainSkip
  <2>3. TableNotOverrun' /\ EntryHeld' /\ NamesKept' /\ ValuesKept'
    BY <2>2 DEF table, locals, Inv, TableNotOverrun, EntryHeld, NamesKept, ValuesKept, Holding, Named, Fresh, Writing, Copying, Reading, Entries
  <2>4. Calling'
    BY <1>15, <2>2 DEF MainSkip, Scanning, server, table, locals, Inv, TypeOK, Calling, Joined, Clients
  <2>5. CountKept'
    BY <2>2 DEF table, locals, Inv, CountKept, UsedEntries, Unused, Counted, Deciding
  <2> QED BY <2>1, <2>3, <2>4, <2>5 DEF Inv
<1>16. ASSUME MainDelete PROVE Inv'
  <2>a. scan \in Entries /\ e_value[scan] # NULL
    BY <1>16 DEF MainDelete, Inv, TypeOK
  <2>b. e_name[scan] \in Names
    BY <2>a DEF Inv, TypeOK, NamesKept
  <2>c. [op |-> "D", key |-> e_name[scan]] \in KV!Requests
    BY <2>b DEF KV!Requests
  <2>d. /\ request' = [request EXCEPT ![Main] = [op |-> "D", key |-> e_name[scan]]]
        /\ UNCHANGED <<store, answer, table, n_objects, pc, locals, scan, history>>
    BY <1>16 DEF MainDelete, KV!Call
  <2>1. TypeOK'
    BY <2>c, <2>d DEF table, locals, history, Inv, TypeOK
  <2>2. UNCHANGED <<table, n_objects, pc, locals>>
    BY <1>16 DEF MainDelete
  <2>3. TableNotOverrun' /\ EntryHeld' /\ NamesKept' /\ ValuesKept'
    BY <2>2 DEF table, locals, Inv, TableNotOverrun, EntryHeld, NamesKept, ValuesKept, Holding, Named, Fresh, Writing, Copying, Reading, Entries
  <2>4. Calling'
    BY <1>16, <2>2 DEF MainDelete, Scanning, KV!Call, KV!Requests, server, table, locals, Inv, TypeOK, Calling, Joined, Clients
  <2>5. CountKept'
    BY <2>2 DEF table, locals, Inv, CountKept, UsedEntries, Unused, Counted, Deciding
  <2> QED BY <2>1, <2>3, <2>4, <2>5 DEF Inv
<1>17. ASSUME MainDeleted PROVE Inv'
  <2>a. scan' = scan + 1 /\ scan < TableSize
    BY <1>17 DEF MainDeleted, KV!Return, Inv, Calling, Clients
  <2>b. scan' \in Entries
    BY <2>a DEF Entries, Inv, TypeOK
  <2>1. TypeOK'
    BY <1>17, <2>b DEF MainDeleted, KV!Return, table, locals, history, Inv, TypeOK, Clients
  <2>2. UNCHANGED <<table, n_objects, pc, locals>>
    BY <1>17 DEF MainDeleted
  <2>3. TableNotOverrun' /\ EntryHeld' /\ NamesKept' /\ ValuesKept'
    BY <2>2 DEF table, locals, Inv, TableNotOverrun, EntryHeld, NamesKept, ValuesKept, Holding, Named, Fresh, Writing, Copying, Reading, Entries
  <2>4. Calling'
    BY <1>17, <2>2 DEF MainDeleted, KV!Return, server, table, locals, Inv, TypeOK, Calling, Joined, Clients
  <2>5. CountKept'
    BY <2>2 DEF table, locals, Inv, CountKept, UsedEntries, Unused, Counted, Deciding
  <2> QED BY <2>1, <2>3, <2>4, <2>5 DEF Inv
<1>18. ASSUME NEW p \in Clients, Serve(p) PROVE Inv'
  <2>a. request[p] \in KV!Requests
    BY <1>18 DEF Serve, KV!WriteEffect, KV!ReadEffect, KV!DeleteEffect, KV!Pending, Inv, TypeOK
  <2>b. request[p].op = "W" => request[p].val \in Values
    BY <2>a DEF KV!Requests
  <2>c. request[p].key \in Names
    BY <2>a DEF KV!Requests
  <2>d. PICK v \in Values \cup {NULL}, b \in Values \cup {K, X, NULL} :
          store' = [store EXCEPT ![request[p].key] = v] /\ answer' = [answer EXCEPT ![p] = b]
    <3>1. CASE KV!WriteEffect(p)
      BY <2>b, <3>1 DEF KV!WriteEffect, KV!Pending, KV!Effect
    <3>2. CASE KV!ReadEffect(p)
      BY <2>c, <3>2 DEF KV!ReadEffect, KV!Pending, KV!Effect, Inv, TypeOK
    <3>3. CASE KV!DeleteEffect(p)
      BY <3>3 DEF KV!DeleteEffect, KV!Pending, KV!Effect
    <3> QED BY <1>18, <3>1, <3>2, <3>3 DEF Serve
  <2>e. UNCHANGED <<request, table, n_objects, pc, locals, scan, history>>
    BY <1>18 DEF Serve, KV!WriteEffect, KV!ReadEffect, KV!DeleteEffect, KV!Effect
  <2>1. TypeOK'
    <3>1. store' \in [Names -> Values \cup {NULL}]
      BY <2>d DEF Inv, TypeOK
    <3>2. answer' \in [Clients -> Values \cup {K, X, NULL}]
      BY <2>d DEF Inv, TypeOK
    <3> QED BY <3>1, <3>2, <2>e DEF table, locals, history, Inv, TypeOK
  <2>2. UNCHANGED <<table, n_objects, pc, locals>>
    BY <1>18 DEF Serve
  <2>3. TableNotOverrun' /\ EntryHeld' /\ NamesKept' /\ ValuesKept'
    BY <2>2 DEF table, locals, Inv, TableNotOverrun, EntryHeld, NamesKept, ValuesKept, Holding, Named, Fresh, Writing, Copying, Reading, Entries
  <2>4. Calling'
    BY <1>18, <2>2 DEF Serve, KV!WriteEffect, KV!ReadEffect, KV!DeleteEffect, KV!Effect, KV!Pending, KV!Requests, server, table, locals, Inv, TypeOK, Calling, Joined, Clients
  <2>5. CountKept'
    BY <2>2 DEF table, locals, Inv, CountKept, UsedEntries, Unused, Counted, Deciding
  <2> QED BY <2>1, <2>3, <2>4, <2>5 DEF Inv
<1>19. CASE UNCHANGED vars
  <2>1. UNCHANGED <<server, table, n_objects, pc, locals, scan, history>>
    BY <1>19 DEF vars, server, table, locals, history
  <2>2. TypeOK'
    BY <2>1 DEF server, table, locals, history, Inv, TypeOK
  <2>3. TableNotOverrun' /\ EntryHeld' /\ NamesKept' /\ ValuesKept'
    BY <2>1 DEF table, locals, Inv, TableNotOverrun, EntryHeld, NamesKept, ValuesKept, Holding, Named, Fresh, Writing, Copying, Reading, Entries
  <2>4. Calling'
    BY <2>1 DEF server, table, locals, Inv, Calling, Joined
  <2>5. CountKept'
    BY <2>1 DEF table, locals, Inv, CountKept, UsedEntries, Unused, Counted, Deciding
  <2> QED BY <2>2, <2>3, <2>4, <2>5 DEF Inv
<1> QED
  BY <1>1, <1>2, <1>3, <1>4, <1>5, <1>6, <1>7, <1>8, <1>9, <1>10, <1>11, <1>12, <1>13, <1>14, <1>15, <1>16, <1>17, <1>18, <1>19 DEF Next, Thread, MainLoop, Clients

(* What the server holds is what the table says, unless it refused a call.  *)
Agree(n, v) == n \in refused \/ store[n] = v
IdleAgrees == ~Joined => \A i \in Entries : Idle(i) => Agree(e_name[i], e_value[i])
HeldAgrees ==
  /\ \A t \in Threads : pc[t] = "copy_entry" => Agree(e_name[num[t]], e_value[num[t]])
  /\ \A t \in Threads : Reading(t) \/ pc[t] = "record" => Agree(name[t], value[t])
AnswerAgrees ==
  \A t \in Threads : answer[t] \notin {NULL, X} =>
    /\ pc[t] = "asked" => answer[t] = value[t] \/ name[t] \in refused
    /\ pc[t] = "sent" => Agree(name[t], value[t])

Faithful == IdleAgrees /\ HeldAgrees /\ AnswerAgrees /\ NoFalseAlarm

(* Two calls of one record are one call: a thread's call holds the entry of *)
(* its record, and main calls when no thread does.                          *)
LEMMA InvOneCall == Inv => OneCallPerKey
<1> SUFFICES ASSUME Inv, NEW p \in Clients, NEW q \in Clients,
                    request[p] # NULL, request[q] # NULL, request[p].key = request[q].key
             PROVE  p = q
  BY DEF OneCallPerKey
<1>1. \A t \in Threads : request[t] # NULL =>
        /\ Holding(t) /\ pc[t] # "op"
        /\ request[t].key = e_name[num[t]] /\ e_name[num[t]] \in Names
  <2>1. ASSUME NEW t \in Threads, request[t] # NULL
        PROVE  pc[t] \in {"sent", "asked"} /\ request[t].key = name[t]
    <3>1. \/ pc[t] = "sent" /\ request[t] = [op |-> "W", key |-> name[t], val |-> value[t]]
          \/ pc[t] = "asked" /\ request[t] = [op |-> "R", key |-> name[t]]
      BY <2>1 DEF Inv, Calling
    <3> QED BY <3>1
  <2> QED BY <2>1 DEF Inv, NamesKept, Named, Holding
<1>2. CASE p \in Threads /\ q \in Threads
  <2>1. num[p] \in Entries /\ num[q] \in Entries
    BY <1>2 DEF Inv, TypeOK
  <2>2. e_name[num[p]] = e_name[num[q]] /\ e_name[num[p]] # NULL
    BY <1>1, <1>2, DbTestAssumption
  <2>3. num[p] = num[q]
    BY <2>1, <2>2 DEF Inv, NamesKept
  <2> QED BY <1>1, <1>2, <2>3 DEF Inv, EntryHeld
<1>3. ASSUME request[Main] # NULL, NEW t \in Threads, request[t] # NULL PROVE FALSE
  BY <1>1, <1>3 DEF Inv, Calling, Joined
<1> QED BY <1>2, <1>3 DEF Clients

(* At the start the table is empty and nothing has been answered. *)
LEMMA FaithfulInit == Init => Faithful
BY DEF Init, KV!KVInit, Faithful, IdleAgrees, HeldAgrees, AnswerAgrees, NoFalseAlarm, Idle, Reading, Clients

(* Every step keeps the table in agreement with the server: a call of a     *)
(* record meets no other call of it, and no idle entry is of its name.      *)
LEMMA FaithfulNext == Inv /\ Faithful /\ [Next]_vars => Faithful'
<1> SUFFICES ASSUME Inv, Faithful, [Next]_vars PROVE Faithful'
  OBVIOUS
<1> USE DbTestAssumption
<1>1. ASSUME NEW t \in Threads, GetOp(t) PROVE Faithful'
  <2>a. \A i \in Entries : Idle(i) => Agree(e_name[i], e_value[i])
    BY <1>1 DEF GetOp, Joined, Faithful, IdleAgrees
  <2>b. \A u \in Threads : u # t => /\ pc'[u] = pc[u] /\ num'[u] = num[u]
                                    /\ name'[u] = name[u] /\ value'[u] = value[u]
    BY <1>1 DEF GetOp, Goto, OpsAt, locals, Inv, TypeOK
  <2>c. pc'[t] \in {"R", "W"} /\ UNCHANGED <<server, table, history>>
    BY <1>1 DEF GetOp, Goto, OpsAt, Inv, TypeOK
  <2>1. IdleAgrees'
    BY <1>1, <2>a DEF GetOp, Goto, OpsAt, server, table, locals, history, Inv, TypeOK, Faithful, IdleAgrees, Idle, Agree
  <2>2. HeldAgrees'
    <3>1. UNCHANGED <<store, e_name, e_value, refused>>
      BY <2>c DEF server, table, history
    <3>2. \A u \in Threads : pc'[u] = "copy_entry" => u # t
      BY <2>c
    <3>3. \A u \in Threads : Reading(u)' \/ pc'[u] = "record" => u # t
      BY <2>c DEF Reading
    <3>4. ASSUME NEW u \in Threads, pc'[u] = "copy_entry"
          PROVE  Agree(e_name[num[u]], e_value[num[u]])'
      <4>1. pc[u] = "copy_entry" /\ num'[u] = num[u]
        BY <2>b, <3>2, <3>4
      <4> QED BY <3>1, <4>1 DEF Faithful, HeldAgrees, Agree
    <3>5. ASSUME NEW u \in Threads, Reading(u)' \/ pc'[u] = "record" PROVE Agree(name[u], value[u])'
      <4>1. (Reading(u) \/ pc[u] = "record") /\ name'[u] = name[u] /\ value'[u] = value[u]
        BY <2>b, <3>3, <3>5 DEF Reading
      <4> QED BY <3>1, <4>1 DEF Faithful, HeldAgrees, Agree
    <3> QED BY <3>4, <3>5 DEF HeldAgrees
  <2>3. AnswerAgrees'
    BY <1>1 DEF GetOp, Goto, OpsAt, server, table, locals, history, Inv, TypeOK, Faithful, AnswerAgrees, Agree, Clients
  <2>4. NoFalseAlarm'
    BY <1>1 DEF GetOp, Goto, OpsAt, server, table, locals, history, Inv, TypeOK, Faithful, NoFalseAlarm, AnswerAgrees
  <2> QED BY <2>1, <2>2, <2>3, <2>4 DEF Faithful
<1>2. ASSUME NEW t \in Threads, Rewrite(t) PROVE Faithful'
  <2>a. \A i \in Entries : Idle(i) => Agree(e_name[i], e_value[i])
    BY <1>2 DEF Rewrite, Joined, Faithful, IdleAgrees
  <2>1. IdleAgrees'
    BY <1>2, <2>a DEF Rewrite, PickRandom, Goto, server, table, locals, history, Inv, TypeOK, Faithful, IdleAgrees, Idle, Agree
  <2>2. HeldAgrees'
    BY <1>2, <2>a DEF Rewrite, PickRandom, Goto, server, table, locals, history, Inv, TypeOK, Faithful, HeldAgrees, Idle, Agree, Reading
  <2>3. AnswerAgrees'
    BY <1>2 DEF Rewrite, PickRandom, Goto, server, table, locals, history, Inv, TypeOK, Faithful, AnswerAgrees, Agree, Clients
  <2>4. NoFalseAlarm'
    BY <1>2 DEF Rewrite, PickRandom, Goto, server, table, locals, history, Inv, TypeOK, Faithful, NoFalseAlarm, AnswerAgrees
  <2> QED BY <2>1, <2>2, <2>3, <2>4 DEF Faithful
<1>3. ASSUME NEW t \in Threads, CopyName(t) PROVE Faithful'
  <2>a. \A i \in Entries : Idle(i) => Agree(e_name[i], e_value[i])
    BY <1>3 DEF CopyName, Joined, Faithful, IdleAgrees
  <2>1. IdleAgrees'
    BY <1>3, <2>a DEF CopyName, Goto, server, table, locals, history, Inv, TypeOK, Faithful, IdleAgrees, Idle, Agree
  <2>2. HeldAgrees'
    BY <1>3, <2>a DEF CopyName, Goto, server, table, locals, history, Inv, TypeOK, Faithful, HeldAgrees, Idle, Agree, Reading
  <2>3. AnswerAgrees'
    BY <1>3 DEF CopyName, Goto, server, table, locals, history, Inv, TypeOK, Faithful, AnswerAgrees, Agree, Clients
  <2>4. NoFalseAlarm'
    BY <1>3 DEF CopyName, Goto, server, table, locals, history, Inv, TypeOK, Faithful, NoFalseAlarm, AnswerAgrees
  <2> QED BY <2>1, <2>2, <2>3, <2>4 DEF Faithful
<1>4. ASSUME NEW t \in Threads, CountNew(t) PROVE Faithful'
  <2>a. \A i \in Entries : Idle(i) => Agree(e_name[i], e_value[i])
    BY <1>4 DEF CountNew, Joined, Faithful, IdleAgrees
  <2>1. IdleAgrees'
    BY <1>4, <2>a DEF CountNew, Goto, server, table, locals, history, Inv, TypeOK, Faithful, IdleAgrees, Idle, Agree
  <2>2. HeldAgrees'
    BY <1>4, <2>a DEF CountNew, Goto, server, table, locals, history, Inv, TypeOK, Faithful, HeldAgrees, Idle, Agree, Reading
  <2>3. AnswerAgrees'
    BY <1>4 DEF CountNew, Goto, server, table, locals, history, Inv, TypeOK, Faithful, AnswerAgrees, Agree, Clients
  <2>4. NoFalseAlarm'
    BY <1>4 DEF CountNew, Goto, server, table, locals, history, Inv, TypeOK, Faithful, NoFalseAlarm, AnswerAgrees
  <2> QED BY <2>1, <2>2, <2>3, <2>4 DEF Faithful
<1>5. ASSUME NEW t \in Threads, GetFree(t) PROVE Faithful'
  <2>a. \A i \in Entries : Idle(i) => Agree(e_name[i], e_value[i])
    BY <1>5 DEF GetFree, Joined, Faithful, IdleAgrees
  <2>b. \A u \in Threads : u # t => /\ pc'[u] = pc[u] /\ num'[u] = num[u]
                                    /\ name'[u] = name[u] /\ value'[u] = value[u]
    BY <1>5 DEF GetFree, Goto, locals, Inv, TypeOK
  <2>c. pc'[t] = "enter" /\ UNCHANGED <<server, e_name, e_value, history>>
    BY <1>5 DEF GetFree, Goto, Inv, TypeOK
  <2>1. IdleAgrees'
    BY <1>5, <2>a DEF GetFree, Goto, Unused, IsFree, server, table, locals, history, Inv, TypeOK, Faithful, IdleAgrees, Idle, Agree
  <2>2. HeldAgrees'
    <3>1. UNCHANGED <<store, e_name, e_value, refused>>
      BY <2>c DEF server, history
    <3>2. \A u \in Threads : pc'[u] = "copy_entry" => u # t
      BY <2>c
    <3>3. \A u \in Threads : Reading(u)' \/ pc'[u] = "record" => u # t
      BY <2>c DEF Reading
    <3>4. ASSUME NEW u \in Threads, pc'[u] = "copy_entry"
          PROVE  Agree(e_name[num[u]], e_value[num[u]])'
      <4>1. pc[u] = "copy_entry" /\ num'[u] = num[u]
        BY <2>b, <3>2, <3>4
      <4> QED BY <3>1, <4>1 DEF Faithful, HeldAgrees, Agree
    <3>5. ASSUME NEW u \in Threads, Reading(u)' \/ pc'[u] = "record" PROVE Agree(name[u], value[u])'
      <4>1. (Reading(u) \/ pc[u] = "record") /\ name'[u] = name[u] /\ value'[u] = value[u]
        BY <2>b, <3>3, <3>5 DEF Reading
      <4> QED BY <3>1, <4>1 DEF Faithful, HeldAgrees, Agree
    <3> QED BY <3>4, <3>5 DEF HeldAgrees
  <2>3. AnswerAgrees'
    BY <1>5 DEF GetFree, Goto, Unused, IsFree, server, table, locals, history, Inv, TypeOK, Faithful, AnswerAgrees, Agree, Clients
  <2>4. NoFalseAlarm'
    BY <1>5 DEF GetFree, Goto, Unused, IsFree, server, table, locals, history, Inv, TypeOK, Faithful, NoFalseAlarm, AnswerAgrees
  <2> QED BY <2>1, <2>2, <2>3, <2>4 DEF Faithful
<1>6. ASSUME NEW t \in Threads, EnterName(t) PROVE Faithful'
  <2>a. \A i \in Entries : Idle(i) => Agree(e_name[i], e_value[i])
    BY <1>6 DEF EnterName, Joined, Faithful, IdleAgrees
  <2>b. /\ e_name' = [e_name EXCEPT ![num[t]] = name[t]]
        /\ pc[t] = "enter" /\ pc' = [pc EXCEPT ![t] = "send"]
        /\ UNCHANGED <<server, e_value, e_busy, locals, history>>
    BY <1>6 DEF EnterName, Goto
  <2>c. \A i \in Entries : i # num[t] => e_name'[i] = e_name[i]
    BY <2>b DEF Inv, TypeOK
  <2>d. e_busy[num[t]] = 1 /\ (\A u \in Threads : u # t /\ Holding(u) => num[u] # num[t])
    BY <2>b DEF Inv, EntryHeld, Holding
  <2>e. \A u \in Threads : u # t => pc'[u] = pc[u]
    BY <2>b DEF Inv, TypeOK
  <2>f. pc'[t] = "send"
    BY <2>b DEF Inv, TypeOK
  <2>1. IdleAgrees'
    BY <2>a, <2>b, <2>c, <2>d DEF server, history, IdleAgrees, Idle, Agree
  <2>2. HeldAgrees'
    <3>1. ASSUME NEW u \in Threads, pc'[u] = "copy_entry"
          PROVE  Agree(e_name[num[u]], e_value[num[u]])'
      <4>1. u # t /\ pc[u] = "copy_entry"
        BY <2>e, <2>f, <3>1
      <4>2. num[u] \in Entries /\ num[u] # num[t]
        BY <2>d, <4>1 DEF Holding, Inv, TypeOK
      <4>3. /\ e_name'[num'[u]] = e_name[num[u]] /\ e_value'[num'[u]] = e_value[num[u]]
            /\ store' = store /\ refused' = refused
        BY <2>b, <2>c, <4>2 DEF server, locals, history
      <4> QED BY <4>1, <4>3 DEF Faithful, HeldAgrees, Agree
    <3>2. ASSUME NEW u \in Threads, Reading(u)' \/ pc'[u] = "record" PROVE Agree(name[u], value[u])'
      BY <2>b, <2>e, <2>f, <3>2 DEF server, locals, history, Faithful, HeldAgrees, Reading, Agree
    <3> QED BY <3>1, <3>2 DEF HeldAgrees
  <2>3. AnswerAgrees'
    BY <1>6 DEF EnterName, Goto, server, table, locals, history, Inv, TypeOK, Faithful, AnswerAgrees, Agree, Clients
  <2>4. NoFalseAlarm'
    BY <1>6 DEF EnterName, Goto, server, table, locals, history, Inv, TypeOK, Faithful, NoFalseAlarm, AnswerAgrees
  <2> QED BY <2>1, <2>2, <2>3, <2>4 DEF Faithful
<1>7. ASSUME NEW t \in Threads, SendWrite(t) PROVE Faithful'
  <2>a. \A i \in Entries : Idle(i) => Agree(e_name[i], e_value[i])
    BY <1>7 DEF SendWrite, Joined, Faithful, IdleAgrees
  <2>b. \A u \in Threads : u # t => /\ pc'[u] = pc[u] /\ num'[u] = num[u]
                                    /\ name'[u] = name[u] /\ value'[u] = value[u]
    BY <1>7 DEF SendWrite, Goto, locals, Inv, TypeOK
  <2>c. pc'[t] = "sent" /\ UNCHANGED <<store, answer, table, history>>
    BY <1>7 DEF SendWrite, Goto, KV!Call, Inv, TypeOK
  <2>d. answer[t] = NULL
    BY <1>7 DEF SendWrite, KV!Call, Inv, Calling, Clients
  <2>1. IdleAgrees'
    BY <1>7, <2>a DEF SendWrite, KV!Call, Goto, server, table, locals, history, Inv, TypeOK, Faithful, IdleAgrees, Idle, Agree
  <2>2. HeldAgrees'
    <3>1. UNCHANGED <<store, e_name, e_value, refused>>
      BY <2>c DEF table, history
    <3>2. \A u \in Threads : pc'[u] = "copy_entry" => u # t
      BY <2>c
    <3>3. \A u \in Threads : Reading(u)' \/ pc'[u] = "record" => u # t
      BY <2>c DEF Reading
    <3>4. ASSUME NEW u \in Threads, pc'[u] = "copy_entry"
          PROVE  Agree(e_name[num[u]], e_value[num[u]])'
      <4>1. pc[u] = "copy_entry" /\ num'[u] = num[u]
        BY <2>b, <3>2, <3>4
      <4> QED BY <3>1, <4>1 DEF Faithful, HeldAgrees, Agree
    <3>5. ASSUME NEW u \in Threads, Reading(u)' \/ pc'[u] = "record" PROVE Agree(name[u], value[u])'
      <4>1. (Reading(u) \/ pc[u] = "record") /\ name'[u] = name[u] /\ value'[u] = value[u]
        BY <2>b, <3>3, <3>5 DEF Reading
      <4> QED BY <3>1, <4>1 DEF Faithful, HeldAgrees, Agree
    <3> QED BY <3>4, <3>5 DEF HeldAgrees
  <2>3. AnswerAgrees'
    BY <2>b, <2>c, <2>d DEF history, Faithful, AnswerAgrees, Agree
  <2>4. NoFalseAlarm'
    BY <1>7 DEF SendWrite, KV!Call, Goto, server, table, locals, history, Inv, TypeOK, Faithful, NoFalseAlarm, AnswerAgrees
  <2> QED BY <2>1, <2>2, <2>3, <2>4 DEF Faithful
<1>8. ASSUME NEW t \in Threads, ReceiveWrite(t) PROVE Faithful'
  <2>a. \A i \in Entries : Idle(i) => Agree(e_name[i], e_value[i])
    BY <1>8 DEF ReceiveWrite, Joined, Faithful, IdleAgrees
  <2>b. /\ pc[t] = "sent" /\ pc' = [pc EXCEPT ![t] = "record"] /\ answer[t] # NULL
        /\ refused' = IF answer[t] = X THEN refused \cup {name[t]} ELSE refused
        /\ UNCHANGED <<store, table, locals>>
    BY <1>8 DEF ReceiveWrite, Goto, KV!Return, Refusal
  <2>c. pc'[t] = "record" /\ \A u \in Threads : u # t => pc'[u] = pc[u]
    BY <2>b DEF Inv, TypeOK
  <2>d. refused \subseteq refused' /\ (answer[t] = X => name[t] \in refused')
    BY <2>b
  <2>1. IdleAgrees'
    BY <1>8, <2>a DEF ReceiveWrite, KV!Return, Refusal, Goto, server, table, locals, history, Inv, TypeOK, Faithful, IdleAgrees, Idle, Agree
  <2>2. HeldAgrees'
    <3>1. Agree(name[t], value[t])'
      BY <2>b, <2>d DEF locals, Faithful, AnswerAgrees, Agree
    <3> QED BY <2>b, <2>c, <2>d, <3>1 DEF table, locals, Faithful, HeldAgrees, Reading, Agree
  <2>3. AnswerAgrees'
    BY <1>8 DEF ReceiveWrite, KV!Return, Refusal, Goto, server, table, locals, history, Inv, TypeOK, Faithful, AnswerAgrees, Agree, Clients
  <2>4. NoFalseAlarm'
    BY <1>8 DEF ReceiveWrite, KV!Return, Refusal, Goto, server, table, locals, history, Inv, TypeOK, Faithful, NoFalseAlarm, AnswerAgrees
  <2> QED BY <2>1, <2>2, <2>3, <2>4 DEF Faithful
<1>9. ASSUME NEW t \in Threads, Record(t) PROVE Faithful'
  <2>a. \A i \in Entries : Idle(i) => Agree(e_name[i], e_value[i])
    BY <1>9 DEF Record, Joined, Faithful, IdleAgrees
  <2>b. /\ e_name' = [e_name EXCEPT ![num[t]] = name[t]]
        /\ e_value' = [e_value EXCEPT ![num[t]] = value[t]]
        /\ e_busy' = [e_busy EXCEPT ![num[t]] = 0]
        /\ UNCHANGED <<server, history>>
    BY <1>9 DEF Record, Recorded, BusyAfter
  <2>c. Agree(name[t], value[t])
    BY <1>9 DEF Record, Faithful, HeldAgrees
  <2>1. IdleAgrees'
    <3>1. ASSUME NEW i \in Entries, Idle(i)' PROVE Agree(e_name[i], e_value[i])'
      <4>1. CASE i = num[t]
        BY <2>b, <2>c, <4>1 DEF server, history, Inv, TypeOK, Agree
      <4>2. CASE i # num[t]
        BY <2>a, <2>b, <3>1, <4>2 DEF server, history, Inv, TypeOK, Idle, Agree
      <4> QED BY <4>1, <4>2
    <3> QED BY <3>1 DEF IdleAgrees
  <2>2. HeldAgrees'
    BY <1>9, <2>a DEF Record, Goto, Recorded, BusyAfter, server, table, locals, history, Inv, TypeOK, Faithful, HeldAgrees, Idle, Agree, Reading
  <2>3. AnswerAgrees'
    BY <1>9 DEF Record, Goto, Recorded, BusyAfter, server, table, locals, history, Inv, TypeOK, Faithful, AnswerAgrees, Agree, Clients
  <2>4. NoFalseAlarm'
    BY <1>9 DEF Record, Goto, Recorded, BusyAfter, server, table, locals, history, Inv, TypeOK, Faithful, NoFalseAlarm, AnswerAgrees
  <2> QED BY <2>1, <2>2, <2>3, <2>4 DEF Faithful
<1>10. ASSUME NEW t \in Threads, PickRead(t) PROVE Faithful'
  <2>a. \A i \in Entries : Idle(i) => Agree(e_name[i], e_value[i])
    BY <1>10 DEF PickRead, Joined, Faithful, IdleAgrees
  <2>b. PICK n \in 0..(TableSize - 1) : Idle(n) /\ num' = [num EXCEPT ![t] = n]
    BY <1>10 DEF PickRead, PickRandom
  <2>c. /\ pc' = [pc EXCEPT ![t] = "copy_entry"]
        /\ UNCHANGED <<server, e_name, e_value, name, value, history>>
    BY <1>10 DEF PickRead, PickRandom, Goto
  <2>f. n \in Entries
    BY DEF Entries
  <2>d. pc'[t] = "copy_entry" /\ num'[t] = n
    BY <2>b, <2>c DEF Inv, TypeOK
  <2>e. \A u \in Threads : u # t => pc'[u] = pc[u] /\ num'[u] = num[u]
    BY <2>b, <2>c DEF Inv, TypeOK
  <2>1. IdleAgrees'
    BY <1>10, <2>a DEF PickRead, PickRandom, Goto, server, table, locals, history, Inv, TypeOK, Faithful, IdleAgrees, Idle, Agree
  <2>2. HeldAgrees'
    <3>1. UNCHANGED <<store, e_name, e_value, refused, name, value>> /\ Agree(e_name[n], e_value[n])
      BY <2>a, <2>b, <2>c, <2>f DEF server, history
    <3>2. \A u \in Threads : Reading(u)' \/ pc'[u] = "record" => u # t
      BY <2>d DEF Reading
    <3>3. \A u \in Threads : pc'[u] = "copy_entry" => num'[u] = n \/ u # t
      BY <2>d
    <3> QED BY <2>e, <3>1, <3>2, <3>3 DEF Faithful, HeldAgrees, Reading, Agree
  <2>3. AnswerAgrees'
    BY <1>10 DEF PickRead, PickRandom, Goto, server, table, locals, history, Inv, TypeOK, Faithful, AnswerAgrees, Agree, Clients
  <2>4. NoFalseAlarm'
    BY <1>10 DEF PickRead, PickRandom, Goto, server, table, locals, history, Inv, TypeOK, Faithful, NoFalseAlarm, AnswerAgrees
  <2> QED BY <2>1, <2>2, <2>3, <2>4 DEF Faithful
<1>11. ASSUME NEW t \in Threads, CopyEntry(t) PROVE Faithful'
  <2>a. \A i \in Entries : Idle(i) => Agree(e_name[i], e_value[i])
    BY <1>11 DEF CopyEntry, Joined, Faithful, IdleAgrees
  <2>1. IdleAgrees'
    BY <1>11, <2>a DEF CopyEntry, Goto, server, table, locals, history, Inv, TypeOK, Faithful, IdleAgrees, Idle, Agree
  <2>2. HeldAgrees'
    BY <1>11, <2>a DEF CopyEntry, Goto, server, table, locals, history, Inv, TypeOK, Faithful, HeldAgrees, Idle, Agree, Reading
  <2>3. AnswerAgrees'
    BY <1>11 DEF CopyEntry, Goto, server, table, locals, history, Inv, TypeOK, Faithful, AnswerAgrees, Agree, Clients
  <2>4. NoFalseAlarm'
    BY <1>11 DEF CopyEntry, Goto, server, table, locals, history, Inv, TypeOK, Faithful, NoFalseAlarm, AnswerAgrees
  <2> QED BY <2>1, <2>2, <2>3, <2>4 DEF Faithful
<1>12. ASSUME NEW t \in Threads, SendRead(t) PROVE Faithful'
  <2>a. \A i \in Entries : Idle(i) => Agree(e_name[i], e_value[i])
    BY <1>12 DEF SendRead, Joined, Faithful, IdleAgrees
  <2>b. \A u \in Threads : u # t => /\ pc'[u] = pc[u] /\ num'[u] = num[u]
                                    /\ name'[u] = name[u] /\ value'[u] = value[u]
    BY <1>12 DEF SendRead, Goto, locals, Inv, TypeOK
  <2>c. pc'[t] = "asked" /\ UNCHANGED <<store, answer, table, history>>
    BY <1>12 DEF SendRead, Goto, KV!Call, Inv, TypeOK
  <2>d. answer[t] = NULL
    BY <1>12 DEF SendRead, KV!Call, Inv, Calling, Clients
  <2>1. IdleAgrees'
    BY <1>12, <2>a DEF SendRead, KV!Call, Goto, server, table, locals, history, Inv, TypeOK, Faithful, IdleAgrees, Idle, Agree
  <2>2. HeldAgrees'
    BY <1>12, <2>a DEF SendRead, KV!Call, Goto, server, table, locals, history, Inv, TypeOK, Faithful, HeldAgrees, Idle, Agree, Reading
  <2>3. AnswerAgrees'
    BY <2>b, <2>c, <2>d DEF history, Faithful, AnswerAgrees, Agree
  <2>4. NoFalseAlarm'
    BY <1>12 DEF SendRead, KV!Call, Goto, server, table, locals, history, Inv, TypeOK, Faithful, NoFalseAlarm, AnswerAgrees
  <2> QED BY <2>1, <2>2, <2>3, <2>4 DEF Faithful
<1>13. ASSUME NEW t \in Threads, ReceiveRead(t) PROVE Faithful'
  <2>a. \A i \in Entries : Idle(i) => Agree(e_name[i], e_value[i])
    BY <1>13 DEF ReceiveRead, Joined, Faithful, IdleAgrees
  <2>1. IdleAgrees'
    BY <1>13, <2>a DEF ReceiveRead, KV!Return, Refusal, Goto, server, table, locals, history, Inv, TypeOK, Faithful, IdleAgrees, Idle, Agree
  <2>2. HeldAgrees'
    BY <1>13, <2>a DEF ReceiveRead, KV!Return, Refusal, Goto, server, table, locals, history, Inv, TypeOK, Faithful, HeldAgrees, Idle, Agree, Reading
  <2>3. AnswerAgrees'
    BY <1>13 DEF ReceiveRead, KV!Return, Refusal, Goto, server, table, locals, history, Inv, TypeOK, Faithful, AnswerAgrees, Agree, Clients
  <2>4. NoFalseAlarm'
    BY <1>13 DEF ReceiveRead, KV!Return, Refusal, Goto, server, table, locals, history, Inv, TypeOK, Faithful, NoFalseAlarm, AnswerAgrees
  <2> QED BY <2>1, <2>2, <2>3, <2>4 DEF Faithful
<1>14. ASSUME NEW t \in Threads, Release(t) PROVE Faithful'
  <2>a. \A i \in Entries : Idle(i) => Agree(e_name[i], e_value[i])
    BY <1>14 DEF Release, Joined, Faithful, IdleAgrees
  <2>b. /\ pc[t] = "release" /\ e_busy' = [e_busy EXCEPT ![num[t]] = 0]
        /\ UNCHANGED <<server, e_name, e_value, history>>
    BY <1>14 DEF Release
  <2>c. Agree(e_name[num[t]], e_value[num[t]])
    BY <2>b DEF Faithful, HeldAgrees, Reading, Inv, NamesKept, Named, ValuesKept
  <2>1. IdleAgrees'
    <3>1. ASSUME NEW i \in Entries, Idle(i)', i # num[t] PROVE Idle(i)
      BY <2>b, <3>1 DEF Inv, TypeOK, Idle
    <3> QED BY <2>a, <2>b, <2>c, <3>1 DEF server, history, IdleAgrees, Agree
  <2>2. HeldAgrees'
    BY <1>14, <2>a DEF Release, Goto, server, table, locals, history, Inv, TypeOK, Faithful, HeldAgrees, Idle, Agree, Reading
  <2>3. AnswerAgrees'
    BY <1>14 DEF Release, Goto, server, table, locals, history, Inv, TypeOK, Faithful, AnswerAgrees, Agree, Clients
  <2>4. NoFalseAlarm'
    BY <1>14 DEF Release, Goto, server, table, locals, history, Inv, TypeOK, Faithful, NoFalseAlarm, AnswerAgrees
  <2> QED BY <2>1, <2>2, <2>3, <2>4 DEF Faithful
<1>15. ASSUME MainSkip \/ MainDelete \/ MainDeleted PROVE Faithful'
  <2>1. UNCHANGED <<store, table, pc, locals, history>> /\ (\A t \in Threads : answer'[t] = answer[t])
    BY <1>15 DEF MainSkip, MainDelete, MainDeleted, KV!Call, KV!Return, server, Inv, TypeOK, Clients
  <2> QED BY <2>1 DEF table, locals, history, Faithful, IdleAgrees, HeldAgrees, AnswerAgrees, NoFalseAlarm, Idle, Agree, Reading, Joined
<1>16. ASSUME NEW p \in Clients, Serve(p) PROVE Faithful'
  <2>a. /\ request[p] # NULL /\ answer[p] = NULL /\ request[p].key \in Names
        /\ UNCHANGED <<request, table, n_objects, pc, locals, scan, history>>
    BY <1>16 DEF Serve, KV!WriteEffect, KV!ReadEffect, KV!DeleteEffect, KV!Effect, KV!Pending, KV!Requests, Inv, TypeOK
  <2>b. \A n \in Names : n # request[p].key => store'[n] = store[n]
    BY <1>16 DEF Serve, KV!WriteEffect, KV!ReadEffect, KV!DeleteEffect, KV!Effect, Inv, TypeOK
  <2>c. \A q \in Clients : q # p => answer'[q] = answer[q]
    BY <1>16 DEF Serve, KV!WriteEffect, KV!ReadEffect, KV!DeleteEffect, KV!Effect, Inv, TypeOK
  <2>d. NoFalseAlarm'
    BY <2>a DEF history, Faithful, NoFalseAlarm
  <2>1. CASE p = Main
    <3>1. Joined
      BY <2>a, <2>1 DEF Inv, Calling
    <3> QED BY <2>a, <2>d, <3>1 DEF locals, Faithful, IdleAgrees, HeldAgrees, AnswerAgrees, Reading, Joined
  <2>2. CASE p \in Threads
    <3>a. \/ pc[p] = "sent" /\ request[p] = [op |-> "W", key |-> name[p], val |-> value[p]]
          \/ pc[p] = "asked" /\ request[p] = [op |-> "R", key |-> name[p]]
      BY <2>a, <2>2 DEF Inv, Calling
    <3>b. /\ Holding(p) /\ num[p] \in Entries /\ e_busy[num[p]] = 1
          /\ request[p].key = name[p] /\ e_name[num[p]] = name[p] /\ name[p] \in Names
      BY <2>2, <3>a DEF Inv, TypeOK, EntryHeld, NamesKept, Named, Holding
    <3>c. \A n \in Names : n # name[p] => store'[n] = store[n]
      BY <2>b, <3>b
    <3>d. \A i \in Entries : i # num[p] /\ e_value[i] # NULL => e_name[i] # name[p] /\ e_name[i] \in Names
      BY <3>b DEF Inv, TypeOK, NamesKept
    <3>e. \A u \in Threads : u # p /\ Holding(u) => num[u] # num[p] /\ num[u] \in Entries
      BY <2>2, <3>b DEF Inv, EntryHeld, TypeOK
    <3>f. \A u \in Threads : u # p /\ Named(u) => name[u] # name[p] /\ name[u] \in Names
      BY <3>b, <3>e DEF Inv, NamesKept, Named, Holding
    <3>g. pc[p] = "asked" => store' = store
      BY <1>16, <3>a DEF Serve, KV!WriteEffect, KV!ReadEffect, KV!DeleteEffect, KV!Effect, KV!Pending, Inv, TypeOK
    <3>1. IdleAgrees'
      BY <2>a, <3>b, <3>c, <3>d DEF table, history, Faithful, IdleAgrees, Idle, Agree, Joined, locals
    <3>2. HeldAgrees'
      <4>1. ASSUME NEW u \in Threads, pc[u] = "copy_entry"
            PROVE  Agree(e_name[num[u]], e_value[num[u]])'
        <5>1. u # p /\ Holding(u) /\ e_value[num[u]] # NULL
          BY <3>a, <4>1 DEF Holding, Inv, ValuesKept, Copying
        <5> QED BY <2>a, <3>c, <3>d, <3>e, <4>1, <5>1 DEF table, locals, history, Faithful, HeldAgrees, Agree
      <4>2. ASSUME NEW u \in Threads, Reading(u) \/ pc[u] = "record" PROVE Agree(name[u], value[u])'
        <5>1. CASE u = p
          <6>1. pc[p] = "asked"
            BY <3>a, <4>2, <5>1 DEF Reading
          <6> QED BY <2>a, <3>g, <4>2, <5>1, <6>1 DEF locals, history, Faithful, HeldAgrees, Agree
        <5>2. CASE u # p
          BY <2>a, <3>c, <3>f, <4>2, <5>2 DEF locals, history, Faithful, HeldAgrees, Agree, Named, Reading
        <5> QED BY <5>1, <5>2
      <4> QED BY <2>a, <4>1, <4>2 DEF HeldAgrees, Reading
    <3>3. AnswerAgrees'
      <4>1. ASSUME NEW u \in Threads, u # p, answer'[u] \notin {NULL, X}
            PROVE  /\ pc[u] = "asked" => answer'[u] = value[u] \/ name[u] \in refused
                   /\ pc[u] = "sent" => name[u] \in refused \/ store'[name[u]] = value[u]
        BY <2>c, <3>c, <3>f, <4>1 DEF Faithful, AnswerAgrees, Agree, Named, Clients
      <4>2. CASE pc[p] = "sent"
        <5>1. store'[name[p]] = value[p] \/ answer'[p] = X
          BY <1>16, <3>a, <3>b, <4>2 DEF Serve, KV!WriteEffect, KV!ReadEffect, KV!DeleteEffect, KV!Effect, KV!Pending, Inv, TypeOK
        <5> QED BY <2>a, <4>1, <4>2, <5>1 DEF locals, history, AnswerAgrees, Agree
      <4>3. CASE pc[p] = "asked"
        <5>1. answer'[p] \in {store[name[p]], X}
          BY <1>16, <3>a, <4>3 DEF Serve, KV!WriteEffect, KV!ReadEffect, KV!DeleteEffect, KV!Effect, KV!Pending, Inv, TypeOK
        <5>2. Agree(name[p], value[p])
          BY <2>2, <4>3 DEF Faithful, HeldAgrees, Reading
        <5> QED BY <2>a, <4>1, <4>3, <5>1, <5>2 DEF locals, history, AnswerAgrees, Agree
      <4> QED BY <3>a, <4>2, <4>3
    <3> QED BY <2>d, <3>1, <3>2, <3>3 DEF Faithful
  <2> QED BY <2>1, <2>2 DEF Clients
<1>17. CASE UNCHANGED vars
  BY <1>17 DEF vars, Faithful, IdleAgrees, HeldAgrees, AnswerAgrees, NoFalseAlarm, Idle, Agree, Reading, Joined
<1> QED
  BY <1>1, <1>2, <1>3, <1>4, <1>5, <1>6, <1>7, <1>8, <1>9, <1>10, <1>11, <1>12, <1>13, <1>14, <1>15, <1>16, <1>17 DEF Next, Thread, MainLoop, Clients

(* The inductive invariant holds in every reachable state. *)
THEOREM Invariance == Spec => []Inv
BY InvInit, InvNext, PTL DEF Spec

(* Every variable keeps its type: names, lengths and indices that the       *)
(* threads pass on are never ones read from an unused entry.                *)
THEOREM TypeCorrect == Spec => []TypeOK
<1>1. Inv => TypeOK
  BY DEF Inv
<1> QED BY Invariance, <1>1, PTL

(* However many threads draw operations at once, no thread uses memory      *)
(* after the table (dbtest.c:187-198), provided lo + 98 + nthreads <= 150.  *)
THEOREM TableSafe == Spec => []TableNotOverrun
<1>1. Inv => TableNotOverrun
  BY DEF Inv
<1> QED BY Invariance, <1>1, PTL

(* The busy flags never let two calls of one record reach the server at     *)
(* once, main's deletions included (dbtest.c:171-185, 353-375).             *)
THEOREM OneCall == Spec => []OneCallPerKey
BY Invariance, InvOneCall, PTL

(* A correct server is never accused: "bad_len" and "bad_cksum" come only   *)
(* for a record on which it refused a call (dbtest.c:301-332).              *)
THEOREM AlarmIsReal == Spec => []NoFalseAlarm
<1>1. Faithful => NoFalseAlarm
  BY DEF Faithful
<1> QED BY FaithfulInit, FaithfulNext, Invariance, <1>1, PTL DEF Spec
=============================================================================
