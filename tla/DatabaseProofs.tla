--------------------------- MODULE DatabaseProofs ---------------------------
(* Proofs about Database, for every number of workers, keys, values and     *)
(* slots: first what holds whatever the callers do, then what holds until   *)
(* the first race when they keep to one call per key, as dbtest does, and   *)
(* last what a single writer of new keys at a time adds: no race at all.    *)
EXTENDS Database, TLAPS, FiniteSetTheorems

\* Slot i is a valid record of key k, which is what find_key looks for.
Has(i, k) == status[i] = "VALID" /\ record_name[i] = k

Writing == Working \cup {"free", "busy"}
Reading == {"open", "read"}
Deleting == {"check", "unlink", "invalid"}
\* The calls that have an index of the table in their hands.
Owning == Working \cup Reading \cup Deleting \cup {"busy"}

(* A call has arguments from Call to Return, an answer once it is done, and *)
(* is where a call of its operation can be.                                 *)
CallKept(p) ==
  /\ req[p] = NULL <=> pc[p] = "idle"
  /\ result[p] # NULL <=> pc[p] = "done"
  /\ pc[p] \in Writing => req[p].op = "W"
  /\ pc[p] \in Reading => req[p].op = "R"
  /\ pc[p] \in Deleting => req[p].op = "D"

(* What find_key and free_index have established about the slot they stand  *)
(* at or have returned, in spite of the other workers.                      *)
Scanned(p) ==
  /\ pc[p] \in {"find", "compare"} => \A i \in Slots : i < index[p] => ~Has(i, req[p].key)
  /\ pc[p] = "compare" => /\ index[p] \in Slots
                          /\ record_name[index[p]] = req[p].key => status[index[p]] = "VALID"
  /\ pc[p] = "free" => kv[req[p].key] = NULL
  /\ pc[p] \in Owning => index[p] \in Slots
  /\ pc[p] = "busy" => Has(index[p], req[p].key) \/ kv[req[p].key] = NULL
  /\ pc[p] \in Reading \cup Deleting => Has(index[p], req[p].key)

(* A slot being written is busy and the only one its key has, its file is   *)
(* open as long as it is needed, and what has been written is in place.     *)
SlotKept(p) ==
  /\ pc[p] \in Working => status[index[p]] = "BUSY" /\ \A i \in Slots : ~Has(i, req[p].key)
  /\ fd[p] # NULL <=> pc[p] \in {"write", "read"}
  /\ pc[p] \in {"write", "read"} => fd[p] = file[index[p]]
  /\ pc[p] = "write" => data[file[index[p]]] = <<>>
  /\ pc[p] \in {"name", "named", "valid"} =>
       file[index[p]] # NULL /\ data[file[index[p]]] = req[p].val
  /\ pc[p] = "valid" => record_name[index[p]] = req[p].key
  /\ pc[p] = "fault" => IOFaults
  /\ pc[p] = "invalid" => file[index[p]] = NULL

Local(p) == CallKept(p) /\ Scanned(p) /\ SlotKept(p)
Locals == \A p \in Procs : Local(p)

\* The calls at a slot that is theirs: a write that has found a free slot and
\* not yet marked it shares it with every other call that found it free.
Settled(p) == pc[p] \in Owning /\ (pc[p] = "busy" => Has(index[p], req[p].key))
\* The calls that may go on with their slot without racing another.
Acts(p) == pc[p] \in Owning /\ (pc[p] = "busy" => StillFound(p))

(* "one_call_per_key": calls in flight have different keys.                 *)
OneCall == \A p, q \in Procs : req[p] # NULL /\ req[q] # NULL /\ req[p].key = req[q].key => p = q
(* "one_new_key": at most one of them is a write, not yet answered, of a    *)
(* key the map does not hold; a slot found free for it is free.             *)
AddsKey(p) == req[p] # NULL /\ pc[p] # "done" /\ req[p].op = "W" /\ kv[req[p].key] = NULL
OneNewKey == \A p, q \in Procs : AddsKey(p) /\ AddsKey(q) => p = q
FoundStays == \A p \in Procs : pc[p] = "busy" => StillFound(p)

(* Slots have different files. *)
FilesDistinct == \A i, j \in Slots : file[i] = file[j] /\ file[i] # NULL => i = j

(* Valid slots hold different keys of the map with the map's values, except *)
(* for a file already unlinked; a key of the map is in a valid slot or in   *)
(* the hands of its writer.                                                 *)
RecordsAgree == \A i \in Slots : status[i] = "VALID" =>
  /\ record_name[i] # NULL /\ kv[record_name[i]] # NULL
  /\ file[i] # NULL => data[file[i]] = kv[record_name[i]]
  /\ file[i] = NULL => \E p \in Procs : pc[p] = "invalid" /\ index[p] = i
KeysDistinct == \A i, j \in Slots : \A k \in Keys : Has(i, k) /\ Has(j, k) => i = j
KeysStored == \A k \in Keys : kv[k] # NULL =>
  (\E i \in Slots : Has(i, k)) \/ \E p \in Procs : pc[p] \in Working /\ req[p].key = k

\* TypeOK but for the history variable.
Typed ==
  /\ pc \in [Procs -> Positions]
  /\ status \in [Slots -> {"INVALID", "BUSY", "VALID"}]
  /\ record_name \in [Slots -> Keys \cup {NULL}]
  /\ file \in [Slots -> Inodes \cup {NULL}]
  /\ data \in [Inodes -> Seq(Bytes)]
  /\ result \in [Procs -> Values \cup {K, X, NULL}]
  /\ req \in [Procs -> Requests \cup {NULL}]
  /\ index \in [Procs -> 0..MaxKeys]
  /\ fd \in [Procs -> Inodes \cup {NULL}]
  /\ kv \in [Keys -> Values \cup {NULL}]

\* What holds until the first race, and what "one_new_key" adds to it.
Inv == /\ Typed
       /\ Locals
       /\ OneCall
       /\ FilesDistinct
       /\ RecordsAgree /\ KeysDistinct /\ KeysStored
       /\ SlotExclusive
       /\ BusyHasWriter
NewInv == Inv /\ OneNewKey /\ FoundStays /\ raced = FALSE

-----------------------------------------------------------------------------
(* The constants. *)
LEMMA ConstantFacts ==
  /\ MaxKeys \in Nat /\ MaxKeys > 0 /\ IsFiniteSet(Procs)
  /\ NULL \notin Keys /\ NULL \notin Values /\ NULL \notin Inodes
  /\ NULL \notin Requests /\ K # NULL /\ X # NULL
<1>1. MaxKeys \in Nat \ {0} /\ IsFiniteSet(Procs)
  BY DatabaseAssumption, Zenon
<1>2. /\ NULL \notin Keys /\ NULL \notin Values /\ NULL \notin Inodes
      /\ NULL \notin Requests /\ NULL \notin {K, X}
  BY DatabaseAssumption, Zenon
<1>3. MaxKeys \in Nat /\ MaxKeys > 0
  BY <1>1
<1> QED BY <1>1, <1>2, <1>3, Zenon

(* The type invariant in two parts: the provers treat the contents of files *)
(* apart from everything else.                                              *)
Indexes == 0..MaxKeys
Types ==
  /\ pc \in [Procs -> Positions]
  /\ status \in [Slots -> {"INVALID", "BUSY", "VALID"}]
  /\ record_name \in [Slots -> Keys \cup {NULL}]
  /\ file \in [Slots -> Inodes \cup {NULL}]
  /\ result \in [Procs -> Values \cup {K, X, NULL}]
  /\ req \in [Procs -> Requests \cup {NULL}]
  /\ index \in [Procs -> Indexes]
  /\ fd \in [Procs -> Inodes \cup {NULL}]
  /\ kv \in [Keys -> Values \cup {NULL}]
Contents == data \in [Inodes -> Seq(Bytes)]
(* The parts are the type invariant. *)
LEMMA TypeSplit == Typed <=> Types /\ Contents
BY Zenon DEF Typed, Types, Contents, Indexes

(* Table indexes: a call's index runs over the slots and one past the last. *)
LEMMA IndexFacts ==
  /\ 0 \in Indexes /\ MaxKeys \in Indexes /\ Slots \subseteq Indexes
  /\ \A n \in Indexes : n # MaxKeys => n \in Slots
  /\ \A n \in Slots : n + 1 \in Indexes /\ n < MaxKeys /\ ~(n < 0)
  /\ \A i, n \in Slots : i < n + 1 => i < n \/ i = n
BY ConstantFacts DEF Indexes, Slots

(* The arguments of a call. *)
LEMMA RequestFacts ==
  ASSUME Typed, NEW p \in Procs, req[p] # NULL
  PROVE  /\ req[p] \in Requests /\ req[p].key \in Keys /\ req[p].op \in {"W", "R", "D"}
         /\ req[p].op = "W" => req[p].val \in Values
BY DEF Typed, Requests

(* A call that may go on with its slot and a call at a slot of its own are  *)
(* at different slots: no slot has two keys, and none is busy twice.        *)
LEMMA OwnersApart ==
  ASSUME Inv, NEW p \in Procs, NEW q \in Procs, p # q, Acts(p), Settled(q)
  PROVE  index[p] # index[q]
<1> SUFFICES ASSUME index[p] = index[q] PROVE FALSE
  OBVIOUS
<1>1. Local(p) /\ Local(q) /\ req[p] # NULL /\ req[q] # NULL
  BY DEF Inv, Locals, Local, CallKept, Acts, Settled, Owning, Working, Reading, Deleting
<1>2. req[p].key # req[q].key
  BY <1>1 DEF Inv, OneCall
<1>3. pc[q] \in Working \/ Has(index[q], req[q].key)
  BY <1>1 DEF Local, Scanned, Settled, Owning
<1>4. pc[p] \in Working \/ Has(index[p], req[p].key) \/ (pc[p] = "busy" /\ status[index[p]] = "INVALID")
  BY <1>1 DEF Local, Scanned, Acts, StillFound, Owning, Has
<1>5. /\ pc[p] \in Working => status[index[p]] = "BUSY"
      /\ pc[q] \in Working => status[index[q]] = "BUSY"
  BY <1>1 DEF Local, SlotKept
<1>6. ~(pc[p] \in Working /\ pc[q] \in Working)
  BY DEF Inv, SlotExclusive
<1> QED BY <1>2, <1>3, <1>4, <1>5, <1>6 DEF Has
-----------------------------------------------------------------------------
(* What a step of one call leaves alone in another call, and in a slot. *)
Stays(q) == /\ pc'[q] = pc[q] /\ req'[q] = req[q] /\ index'[q] = index[q]
            /\ fd'[q] = fd[q] /\ result'[q] = result[q]
SlotStays(i) == /\ status'[i] = status[i] /\ record_name'[i] = record_name[i] /\ file'[i] = file[i]
                /\ file[i] # NULL => data'[file[i]] = data[file[i]]

(* A step of the owner p of a slot does not disturb another call q: it      *)
(* changes that slot, its file and p's key only, and whatever it makes of   *)
(* the slot, it does not make it a record of q's key.                       *)
LEMMA OwnerStep ==
  ASSUME Inv, NEW p \in Procs, NEW q \in Procs, p # q, Stays(q), Acts(p),
         \A i \in Slots : i # index[p] => SlotStays(i),
         \A k \in Keys : k # req[p].key => kv'[k] = kv[k],
         record_name'[index[p]] \in {NULL, req[p].key, record_name[index[p]]},
         status'[index[p]] = "VALID" => record_name'[index[p]] = req[p].key,
         status'[index[p]] = "VALID" \/ status[index[p]] # "VALID" \/ record_name'[index[p]] = req[p].key
  PROVE  Local(q)'
<1>1. Local(p) /\ Local(q) /\ req[p] # NULL /\ index[p] \in Slots
  BY DEF Inv, Locals, Local, CallKept, Scanned, Acts, Owning, Working, Reading, Deleting
<1>2. CallKept(q)'
  BY <1>1 DEF Local, CallKept, Stays
<1>3. CASE req[q] = NULL
  BY <1>1, <1>2, <1>3 DEF Local, CallKept, Scanned, SlotKept, Stays, Owning, Working, Reading, Deleting
<1>4. CASE req[q] # NULL
  <2>1. req[p].key # req[q].key /\ req[q].key \in Keys /\ req[p].key \in Keys
    BY <1>1, <1>4, RequestFacts DEF Inv, OneCall
  <2>2. kv'[req[q].key] = kv[req[q].key]
    BY <2>1
  <2>3. ASSUME NEW i \in Slots, ~Has(i, req[q].key) PROVE ~(Has(i, req[q].key)')
    BY <2>1, <2>3 DEF Has, SlotStays, Stays
  <2>4. Settled(q) => index[q] # index[p]
    BY OwnersApart
  <2>5. Settled(q) => index[q] \in Slots /\ SlotStays(index[q])
    BY <1>1, <2>4 DEF Local, Scanned, Settled
  <2>o. pc[q] \in Owning /\ pc[q] # "busy" => index[q] \in Slots /\ SlotStays(index[q])
    BY <2>5 DEF Settled
  <2>6. Scanned(q)'
    <3>1. pc'[q] \in {"find", "compare"} => \A i \in Slots : i < index'[q] => ~(Has(i, req[q].key)')
      BY <1>1, <2>3 DEF Local, Scanned, Stays
    <3>2. pc'[q] = "compare" => /\ index'[q] \in Slots
                                /\ record_name'[index'[q]] = req[q].key => status'[index'[q]] = "VALID"
      <4>1. NULL \notin Keys
        BY ConstantFacts
      <4>2. index[q] = index[p] \/ index[q] \notin Slots \/ SlotStays(index[q])
        OBVIOUS
      <4> QED BY <1>1, <2>1, <4>1, <4>2 DEF Local, Scanned, Stays, SlotStays
    <3>3. /\ pc'[q] = "free" => kv'[req[q].key] = NULL
          /\ pc'[q] \in Owning => index'[q] \in Slots
      BY <1>1, <2>2 DEF Local, Scanned, Stays
    <3>4. pc'[q] = "busy" => \/ status'[index[q]] = "VALID" /\ record_name'[index[q]] = req[q].key
                             \/ kv'[req[q].key] = NULL
      BY <1>1, <2>2, <2>5 DEF Local, Scanned, Stays, SlotStays, Has, Owning, Settled
    <3>5. pc'[q] \in Reading \cup Deleting =>
            status'[index[q]] = "VALID" /\ record_name'[index[q]] = req[q].key
      BY <1>1, <2>o DEF Local, Scanned, Stays, SlotStays, Has, Owning, Reading, Deleting
    <3> QED BY <3>1, <3>2, <3>3, <3>4, <3>5 DEF Scanned, Stays, Has
  <2>7. SlotKept(q)'
    <3>1. pc'[q] \in Working => status'[index[q]] = "BUSY" /\ \A i \in Slots : ~(Has(i, req[q].key)')
      BY <1>1, <2>3, <2>o DEF Local, SlotKept, Stays, SlotStays, Owning, Working
    <3>2. (pc'[q] \in Owning /\ pc'[q] # "busy") => file'[index[q]] = file[index[q]] /\ record_name'[index[q]] = record_name[index[q]]
            /\ (file[index[q]] # NULL => data'[file[index[q]]] = data[file[index[q]]])
      BY <2>o DEF Stays, SlotStays
    <3>3. /\ fd'[q] # NULL <=> pc'[q] \in {"write", "read"}
          /\ pc'[q] \in {"write", "read"} => fd'[q] = file'[index[q]] /\ file[index[q]] # NULL
          /\ pc'[q] = "fault" => IOFaults
      BY <1>1, <3>2 DEF Local, SlotKept, Stays, Owning, Working, Reading
    <3>4. /\ pc'[q] = "write" => data'[file'[index[q]]] = <<>>
          /\ pc'[q] \in {"name", "named", "valid"} =>
               file'[index[q]] # NULL /\ data'[file'[index[q]]] = req[q].val
          /\ pc'[q] = "valid" => record_name'[index[q]] = req[q].key
          /\ pc'[q] = "invalid" => file'[index[q]] = NULL
      BY <1>1, <3>2, <3>3 DEF Local, SlotKept, Stays, Owning, Working, Deleting
    <3> QED BY <3>1, <3>3, <3>4 DEF SlotKept, Stays, Has
  <2> QED BY <1>2, <2>6, <2>7 DEF Local
<1> QED BY <1>3, <1>4

(* A step of p that touches no slot, file or key, before and after which p  *)
(* neither writes a slot nor has unlinked one's file.                       *)
LEMMA QuietStep ==
  ASSUME Inv, NEW p \in Procs, UNCHANGED <<status, record_name, file, data, kv>>,
         \A q \in Procs : q # p => Stays(q),
         pc[p] \notin Working \cup {"invalid"}, pc'[p] \notin Working \cup {"invalid"},
         Local(p)', Typed', OneCall'
  PROVE  Inv'
<1>1. Locals'
  <2> SUFFICES ASSUME NEW q \in Procs, q # p PROVE Local(q)'
    BY DEF Locals
  <2>1. Local(q) /\ Stays(q)
    BY DEF Inv, Locals
  <2>2. CallKept(q)'
    BY <2>1 DEF Local, CallKept, Stays
  <2>3. Scanned(q)'
    BY <2>1 DEF Local, Scanned, Has, Stays
  <2>4. SlotKept(q)'
    BY <2>1 DEF Local, SlotKept, Has, Stays
  <2> QED BY <2>2, <2>3, <2>4 DEF Local
<1>2. FilesDistinct' /\ KeysDistinct'
  BY DEF Inv, FilesDistinct, KeysDistinct, Has
<1>3. RecordsAgree'
  BY DEF Inv, RecordsAgree, Stays
<1>4. KeysStored'
  BY DEF Inv, KeysStored, Has, Stays
<1>5. SlotExclusive'
  BY DEF Inv, SlotExclusive, Stays
<1>6. BusyHasWriter'
  BY DEF Inv, BusyHasWriter, Stays
<1> QED BY <1>1, <1>2, <1>3, <1>4, <1>5, <1>6 DEF Inv

(* A step that starts no call keeps calls on different keys.                *)
LEMMA NoNewCall ==
  ASSUME Inv, NEW p \in Procs, \A q \in Procs : q # p => Stays(q),
         req'[p] = req[p] \/ req'[p] = NULL
  PROVE  OneCall'
BY DEF Inv, OneCall, Stays

(* There is an inode left for a new file: slots and open descriptors use at *)
(* most one each, and the caller's slot has none.                           *)
LEMMA FreeInodeFound ==
  ASSUME Typed, NEW s \in Slots, file[s] = NULL, Procs # {}
  PROVE  /\ FreeInode \in Inodes
         /\ \A i \in Slots : file[i] # FreeInode
         /\ \A p \in Procs : fd[p] # FreeInode
<1> DEFINE S == Slots \ {s}
           F == {file[i] : i \in S}
           G == {fd[p] : p \in Procs}
<1>1. MaxKeys \in Nat /\ MaxKeys > 0 /\ IsFiniteSet(Procs) /\ NULL \notin Inodes
  BY ConstantFacts
<1>2. IsFiniteSet(S) /\ Cardinality(S) = MaxKeys - 1
  <2>1. IsFiniteSet(Slots) /\ Cardinality(Slots) = MaxKeys
    <3>1. 0 \in Int /\ MaxKeys - 1 \in Int
      BY <1>1
    <3> QED BY <1>1, <3>1, FS_Interval DEF Slots
  <2> QED BY <2>1, FS_RemoveElement
<1>3. IsFiniteSet(F) /\ Cardinality(F) <= MaxKeys - 1
  <2>1. [i \in S |-> file[i]] \in Surjection(S, F)
    BY DEF Surjection
  <2> HIDE DEF F, S
  <2> QED BY <1>2, <2>1, FS_Surjection
<1>4. Cardinality(Procs) \in Nat
  BY <1>1, FS_CardinalityType
<1>5. IsFiniteSet(G) /\ Cardinality(G) <= Cardinality(Procs)
  <2>1. [p \in Procs |-> fd[p]] \in Surjection(Procs, G)
    BY DEF Surjection
  <2> HIDE DEF G
  <2> QED BY <1>1, <2>1, FS_Surjection
<1>6. Cardinality(Inodes) = MaxKeys + Cardinality(Procs)
  <2>1. 1 \in Int /\ MaxKeys + Cardinality(Procs) \in Int
    BY <1>1, <1>4
  <2> QED BY <1>1, <1>4, <2>1, FS_Interval DEF Inodes
<1>7. \E n \in Inodes : n \notin F \cup G
  <2> HIDE DEF F, G
  <2>1. IsFiniteSet(F \cup G) /\ Cardinality(F \cup G) = Cardinality(F) + Cardinality(G) - Cardinality(F \cap G)
    BY <1>3, <1>5, FS_Union
  <2>2. /\ Cardinality(F) \in Nat /\ Cardinality(G) \in Nat
        /\ Cardinality(F \cap G) \in Nat /\ Cardinality(F \cup G) \in Nat
    BY <1>3, <1>5, <2>1, FS_Intersection, FS_CardinalityType
  <2>3. Cardinality(F \cup G) < Cardinality(Inodes)
    BY <1>1, <1>3, <1>4, <1>5, <1>6, <2>1, <2>2
  <2>4. SUFFICES ASSUME Inodes \subseteq F \cup G PROVE FALSE
    OBVIOUS
  <2>5. Cardinality(Inodes) <= Cardinality(F \cup G)
    BY <2>1, <2>4, FS_Subset
  <2> QED BY <1>1, <1>4, <1>6, <2>2, <2>3, <2>5
<1>8. PICK n \in Inodes : n \notin F \cup G
  BY <1>7
<1>9. \A i \in Slots, p \in Procs : file[i] # n /\ fd[p] # n
  BY <1>1, <1>8
<1>10. FreeInode \in Inodes /\ \A i \in Slots, p \in Procs : file[i] # FreeInode /\ fd[p] # FreeInode
  BY <1>9, Zenon DEF FreeInode
<1> QED BY <1>10
-----------------------------------------------------------------------------
(* The empty table satisfies the inductive invariant. *)
LEMMA InvInit == Init => Inv
<1> SUFFICES ASSUME Init PROVE Inv
  OBVIOUS
<1> USE ConstantFacts DEF Init
<1>1. Typed
  <2>1. <<>> \in Seq(Bytes)
    OBVIOUS
  <2> QED BY <2>1 DEF Typed, Positions
<1>2. Locals
  BY DEF Locals, Local, CallKept, Scanned, SlotKept, Writing, Reading, Deleting, Owning, Working
<1>3. OneCall
  BY DEF OneCall
<1>4. FilesDistinct /\ RecordsAgree /\ KeysDistinct /\ KeysStored
  BY DEF FilesDistinct, RecordsAgree, KeysDistinct, KeysStored, Has
<1>5. SlotExclusive /\ BusyHasWriter
  BY DEF SlotExclusive, BusyHasWriter, Working
<1> QED BY <1>1, <1>2, <1>3, <1>4, <1>5 DEF Inv

(* Calling, searching and reading. *)
LEMMA QuietActions ==
  ASSUME Inv, NEW p \in Procs, Discipline \in {"one_call_per_key", "one_new_key"},
         \/ \E r \in Requests : Call(p, r)
         \/ Find(p) \/ FreeIndex(p) \/ TableFull(p) \/ Read(p) \/ CheckBusy(p) \/ Return(p)
  PROVE  Inv'
<1>c. /\ 0 \in Indexes /\ MaxKeys \in Indexes /\ Slots \subseteq Indexes
      /\ \A n \in Indexes : n # MaxKeys => n \in Slots
      /\ \A n \in Slots : n + 1 \in Indexes /\ n < MaxKeys /\ ~(n < 0)
      /\ \A i, n \in Slots : i < n + 1 => i < n \/ i = n
  BY IndexFacts
<1>d. /\ NULL \notin Keys /\ NULL \notin Values
      /\ NULL \notin Inodes /\ NULL \notin Requests /\ K # NULL /\ X # NULL
  BY ConstantFacts
<1>t. Types /\ Contents /\ CallKept(p) /\ Scanned(p) /\ SlotKept(p) /\ OneCall
  BY TypeSplit DEF Inv, Locals, Local
<1>r. req[p] # NULL => /\ req[p] \in Requests /\ req[p].key \in Keys /\ req[p].op \in {"W", "R", "D"}
  BY RequestFacts DEF Inv
<1>q. ASSUME UNCHANGED <<status, record_name, file, data, kv>>,
             \A q \in Procs : q # p => Stays(q),
             pc[p] \notin Working \cup {"invalid"}, pc'[p] \notin Working \cup {"invalid"},
             Types', Local(p)', OneCall'
      PROVE  Inv'
  <2>1. Typed'
    <3>1. Contents'
      BY <1>t, <1>q DEF Contents
    <3> QED BY <1>q, <3>1, Zenon DEF Typed, Types, Contents, Indexes
  <2> QED BY <1>q, <2>1, QuietStep
<1>n. ASSUME UNCHANGED <<status, record_name, file, data, kv>>,
             \A q \in Procs : q # p => Stays(q),
             pc[p] \notin Working \cup {"invalid", "idle"}, pc'[p] \notin Working \cup {"invalid"},
             Types', Local(p)',
             req'[p] = req[p] \/ req'[p] = NULL
      PROVE  Inv'
  <2>1. OneCall'
    BY <1>n, NoNewCall
  <2> QED BY <1>n, <1>q, <2>1
<1>u. Types => /\ \A v \in Positions : [pc EXCEPT ![p] = v] \in [Procs -> Positions]
               /\ \A v \in Indexes : [index EXCEPT ![p] = v] \in [Procs -> Indexes]
               /\ \A v \in Requests \cup {NULL} : [req EXCEPT ![p] = v] \in [Procs -> Requests \cup {NULL}]
               /\ \A v \in Values \cup {K, X, NULL} : [result EXCEPT ![p] = v] \in [Procs -> Values \cup {K, X, NULL}]
               /\ \A v \in Inodes \cup {NULL} : [fd EXCEPT ![p] = v] \in [Procs -> Inodes \cup {NULL}]
  BY DEF Types
<1>1. ASSUME NEW r \in Requests, Call(p, r) PROVE Inv'
  <2>1. /\ pc[p] = "idle" /\ pc' = [pc EXCEPT ![p] = "find"] /\ index' = [index EXCEPT ![p] = 0]
        /\ req' = [req EXCEPT ![p] = r]
        /\ UNCHANGED <<status, record_name, file, data, kv>> /\ fd' = fd /\ result' = result
    BY <1>1 DEF Call, Goto, Answer, table, files, locals
  <2>2. Types'
    BY <1>t, <1>u, <1>c, <1>d, <2>1 DEF Types, Positions, Working
  <2>3. \A q \in Procs : q # p => Stays(q)
    BY <1>t, <2>1 DEF Types, Stays
  <2>4. CallKept(p)'
    BY <1>t, <1>c, <1>d, <1>r, <2>1 DEF Types, CallKept, Writing, Reading, Deleting, Working
  <2>5. Scanned(p)'
    BY <1>t, <1>c, <1>d, <1>r, <2>1 DEF Types, Scanned, Has, Owning, Reading, Deleting, Working
  <2>6. SlotKept(p)'
    BY <1>t, <2>1 DEF Types, SlotKept, Working
  <2>7. InFlight(r.key) = {}
    BY <1>1 DEF Call, Admitted
  <2>8. r # NULL /\ req'[p] = r /\ req[p] = NULL
    BY <1>t, <1>c, <1>d, <2>1 DEF Types, CallKept
  <2>9. OneCall'
    <3>1. \A q \in Procs : req[q] # NULL => req[q].key # r.key
      BY <2>7 DEF InFlight
    <3> QED BY <1>t, <2>3, <2>8, <3>1 DEF OneCall, Stays
  <2> QED BY <1>t, <1>q, <2>1, <2>2, <2>3, <2>4, <2>5, <2>6, <2>9 DEF Local, Types, Working
<1>2. ASSUME FindStatus(p) PROVE Inv'
  <2>1. /\ pc[p] = "find" /\ index[p] # MaxKeys
        /\ \/ status[index[p]] = "VALID" /\ pc' = [pc EXCEPT ![p] = "compare"] /\ index' = index
           \/ status[index[p]] # "VALID" /\ pc' = pc /\ index' = [index EXCEPT ![p] = index[p] + 1]
        /\ UNCHANGED <<status, record_name, file, data, kv>> /\ fd' = fd /\ result' = result /\ req' = req
    BY <1>2 DEF FindStatus, AtEnd, Goto, Answer, table, files, locals
  <2>a. index[p] \in Slots /\ index[p] + 1 \in Indexes
    BY <1>t, <1>c, <2>1 DEF Types
  <2>b. \/ pc' = pc /\ index'[p] = index[p] + 1
        \/ pc' = [pc EXCEPT ![p] = "compare"] /\ index' = index
    BY <1>t, <2>1 DEF Types
  <2>2. Types'
    <3>1. pc' \in [Procs -> Positions]
      BY <1>t, <1>u, <2>1 DEF Types, Positions, Working
    <3>2. index' \in [Procs -> Indexes]
      BY <1>t, <1>u, <2>1, <2>a DEF Types
    <3> QED BY <1>t, <2>1, <3>1, <3>2 DEF Types
  <2>3. \A q \in Procs : q # p => Stays(q)
    BY <1>t, <2>1 DEF Types, Stays
  <2>4. CallKept(p)'
    BY <1>t, <1>c, <1>d, <1>r, <2>1 DEF Types, CallKept, Writing, Reading, Deleting, Working
  <2>5. Scanned(p)'
    <3>1. CASE pc'[p] = "find"
      <4>1. index'[p] = index[p] + 1 /\ ~Has(index[p], req[p].key)
        BY <1>t, <2>1, <3>1 DEF Types, Has
      <4>2. \A i \in Slots : i < index'[p] => ~Has(i, req[p].key)
        <5>1. \A i \in Slots : i < index[p] => ~Has(i, req[p].key)
          BY <1>t, <2>1 DEF Scanned
        <5>2. \A i \in Slots : i < index[p] + 1 => i < index[p] \/ i = index[p]
          BY <1>c, <2>a
        <5> QED BY <4>1, <5>1, <5>2
      <4> QED BY <2>1, <3>1, <4>2 DEF Scanned, Has, Owning, Reading, Deleting, Working
    <3>2. CASE pc'[p] = "compare"
      BY <1>t, <2>1, <2>a, <2>b, <3>2 DEF Types, Scanned, Has, Owning, Reading, Deleting, Working
    <3> QED BY <1>t, <2>1, <3>1, <3>2 DEF Types
  <2>6. SlotKept(p)'
    BY <1>t, <2>1 DEF Types, SlotKept, Working
  <2> QED BY <1>t, <1>n, <2>1, <2>2, <2>3, <2>4, <2>5, <2>6 DEF Local, Types, Working
<1>3. ASSUME FindCompare(p) PROVE Inv'
  <2>1. /\ pc[p] = "compare"
        /\ \/ /\ record_name[index[p]] = req[p].key /\ index' = index
              /\ pc' = [pc EXCEPT ![p] = CASE req[p].op = "W" -> "busy" [] req[p].op = "R" -> "open"
                                           [] req[p].op = "D" -> "check"]
           \/ /\ record_name[index[p]] # req[p].key /\ pc' = [pc EXCEPT ![p] = "find"]
              /\ index' = [index EXCEPT ![p] = index[p] + 1]
        /\ UNCHANGED <<status, record_name, file, data, kv>> /\ fd' = fd /\ result' = result /\ req' = req
    BY <1>3 DEF FindCompare, Found, Goto, Answer, table, files, locals
  <2>a. req[p] # NULL /\ index[p] \in Slots /\ index[p] + 1 \in Indexes
    BY <1>t, <1>c, <1>d, <2>1 DEF Types, CallKept, Scanned
  <2>2. Types'
    <3>1. pc' \in [Procs -> Positions]
      BY <1>t, <1>u, <1>r, <2>1, <2>a, SMTT(40) DEF Positions
    <3>2. index' \in [Procs -> Indexes]
      BY <1>t, <1>u, <2>1, <2>a DEF Types
    <3> QED BY <1>t, <2>1, <3>1, <3>2 DEF Types
  <2>3. \A q \in Procs : q # p => Stays(q)
    BY <1>t, <2>1 DEF Types, Stays
  <2>b. \/ /\ pc'[p] \in {"busy", "open", "check"} /\ record_name[index[p]] = req[p].key /\ index' = index
           /\ pc'[p] = "busy" => req[p].op = "W"
           /\ pc'[p] = "open" => req[p].op = "R"
           /\ pc'[p] = "check" => req[p].op = "D"
        \/ pc'[p] = "find" /\ record_name[index[p]] # req[p].key /\ index'[p] = index[p] + 1
    BY <1>t, <1>r, <2>1, <2>a DEF Types
  <2>4. CallKept(p)'
    BY <1>t, <2>1, <2>a, <2>b DEF CallKept, Writing, Reading, Deleting, Working
  <2>5. Scanned(p)'
    <3>1. CASE pc'[p] = "find"
      <4>1. index'[p] = index[p] + 1 /\ ~Has(index[p], req[p].key)
        BY <2>b, <3>1 DEF Has
      <4>2. \A i \in Slots : i < index'[p] => ~Has(i, req[p].key)
        <5>1. \A i \in Slots : i < index[p] => ~Has(i, req[p].key)
          BY <1>t, <2>1 DEF Scanned
        <5>2. \A i \in Slots : i < index[p] + 1 => i < index[p] \/ i = index[p]
          BY <1>c, <2>a
        <5> QED BY <4>1, <5>1, <5>2
      <4> QED BY <2>1, <3>1, <4>2 DEF Scanned, Has, Owning, Reading, Deleting, Working
    <3>2. CASE pc'[p] # "find"
      BY <1>t, <2>1, <2>a, <2>b, <3>2 DEF Scanned, Has, Owning, Reading, Deleting, Working
    <3> QED BY <3>1, <3>2
  <2>6. SlotKept(p)'
    BY <1>t, <2>1, <2>b DEF SlotKept, Working
  <2> QED BY <1>t, <1>n, <2>1, <2>2, <2>3, <2>4, <2>5, <2>6, <2>b DEF Local, Working
<1>4. ASSUME FindFails(p) PROVE Inv'
  <2>1. /\ pc[p] = "find" /\ index[p] = MaxKeys /\ index' = [index EXCEPT ![p] = 0]
        /\ \/ /\ req[p].op = "W" /\ pc' = [pc EXCEPT ![p] = "free"] /\ fd' = fd /\ result' = result
           \/ /\ req[p].op # "W" /\ pc' = [pc EXCEPT ![p] = "done"]
              /\ fd' = [fd EXCEPT ![p] = NULL] /\ result' = [result EXCEPT ![p] = X]
        /\ UNCHANGED <<status, record_name, file, data, kv>> /\ req' = req
    BY <1>4 DEF FindFails, AtEnd, Goto, Answer, table, files, locals
  <2>a. kv[req[p].key] = NULL
    <3>1. req[p] # NULL /\ req[p].key \in Keys /\ \A i \in Slots : ~Has(i, req[p].key)
      BY <1>t, <1>r, <1>c, <1>d, <2>1 DEF Types, CallKept, Scanned
    <3>2. \A q \in Procs : pc[q] \in Working => req[q] # NULL /\ q # p
      BY <2>1 DEF Inv, Locals, Local, CallKept, Working
    <3>3. ~\E q \in Procs : pc[q] \in Working /\ req[q].key = req[p].key
      BY <1>t, <3>1, <3>2 DEF OneCall
    <3> QED BY <3>1, <3>3 DEF Inv, KeysStored
  <2>2. Types'
    BY <1>t, <1>u, <1>c, <1>d, <2>1 DEF Types, Positions, Working
  <2>3. \A q \in Procs : q # p => Stays(q)
    BY <1>t, <2>1 DEF Types, Stays
  <2>4. CallKept(p)'
    BY <1>t, <1>c, <1>d, <1>r, <2>1 DEF Types, CallKept, Writing, Reading, Deleting, Working
  <2>5. Scanned(p)'
    BY <2>a, <1>t, <1>c, <1>d, <1>r, <2>1 DEF Types, Scanned, Has, Owning, Reading, Deleting, Working
  <2>6. SlotKept(p)'
    BY <1>t, <2>1 DEF Types, SlotKept, Working
  <2> QED BY <1>t, <1>n, <2>1, <2>2, <2>3, <2>4, <2>5, <2>6 DEF Local, Types, Working
<1>5. ASSUME FreeIndex(p) PROVE Inv'
  <2>1. /\ pc[p] = "free" /\ index[p] # MaxKeys
        /\ \/ status[index[p]] = "INVALID" /\ pc' = [pc EXCEPT ![p] = "busy"] /\ index' = index
           \/ status[index[p]] # "INVALID" /\ pc' = pc /\ index' = [index EXCEPT ![p] = index[p] + 1]
        /\ UNCHANGED <<status, record_name, file, data, kv>> /\ fd' = fd /\ result' = result /\ req' = req
    BY <1>5 DEF FreeIndex, FreeSlot, AtEnd, Goto, Answer, table, files, locals
  <2>a. index[p] \in Slots /\ index[p] + 1 \in Indexes
    BY <1>t, <1>c, <2>1 DEF Types
  <2>b. \/ pc' = pc /\ index'[p] = index[p] + 1
        \/ pc' = [pc EXCEPT ![p] = "busy"] /\ index' = index
    BY <1>t, <2>1 DEF Types
  <2>2. Types'
    <3>1. pc' \in [Procs -> Positions]
      BY <1>t, <1>u, <2>1 DEF Types, Positions, Working
    <3>2. index' \in [Procs -> Indexes]
      BY <1>t, <1>u, <2>1, <2>a DEF Types
    <3> QED BY <1>t, <2>1, <3>1, <3>2 DEF Types
  <2>3. \A q \in Procs : q # p => Stays(q)
    BY <1>t, <2>1 DEF Types, Stays
  <2>4. CallKept(p)'
    BY <1>t, <1>c, <1>d, <1>r, <2>1 DEF Types, CallKept, Writing, Reading, Deleting, Working
  <2>5. Scanned(p)'
    BY <1>t, <1>c, <2>1, <2>a, <2>b DEF Types, Scanned, Has, Owning, Reading, Deleting, Working
  <2>6. SlotKept(p)'
    BY <1>t, <2>1 DEF Types, SlotKept, Working
  <2> QED BY <1>t, <1>n, <2>1, <2>2, <2>3, <2>4, <2>5, <2>6 DEF Local, Types, Working
<1>6. ASSUME TableFull(p) PROVE Inv'
  <2>1. /\ pc[p] = "free" /\ pc' = [pc EXCEPT ![p] = "done"]
        /\ fd' = [fd EXCEPT ![p] = NULL] /\ result' = [result EXCEPT ![p] = X]
        /\ UNCHANGED <<status, record_name, file, data, kv>> /\ index' = index /\ req' = req
    BY <1>6 DEF TableFull, Goto, Answer, table, files, locals
  <2>2. Types'
    BY <1>t, <1>u, <1>c, <1>d, <2>1 DEF Types, Positions, Working
  <2>3. \A q \in Procs : q # p => Stays(q)
    BY <1>t, <2>1 DEF Types, Stays
  <2>4. CallKept(p)'
    BY <1>t, <1>c, <1>d, <1>r, <2>1 DEF Types, CallKept, Writing, Reading, Deleting, Working
  <2>5. Scanned(p)'
    BY <1>t, <1>c, <1>d, <1>r, <2>1 DEF Types, Scanned, Has, Owning, Reading, Deleting, Working
  <2>6. SlotKept(p)'
    BY <1>t, <2>1 DEF Types, SlotKept, Working
  <2> QED BY <1>t, <1>n, <2>1, <2>2, <2>3, <2>4, <2>5, <2>6 DEF Local, Types, Working
<1>7. ASSUME OpenFile(p) PROVE Inv'
  <2>1. /\ pc[p] = "open"
        /\ \/ /\ pc' = [pc EXCEPT ![p] = "done"]
              /\ fd' = [fd EXCEPT ![p] = NULL] /\ result' = [result EXCEPT ![p] = X]
           \/ /\ file[index[p]] # NULL /\ fd' = [fd EXCEPT ![p] = file[index[p]]]
              /\ pc' = [pc EXCEPT ![p] = "read"] /\ result' = result
        /\ UNCHANGED <<status, record_name, file, data, kv>> /\ index' = index /\ req' = req
    BY <1>7 DEF OpenFile, Goto, Answer, table, files, locals
  <2>a. file[index[p]] \in Inodes \cup {NULL}
    BY <1>t, <2>1 DEF Types, Scanned, Owning, Reading
  <2>2. Types'
    BY <2>a, <1>t, <1>u, <1>c, <1>d, <2>1 DEF Types, Positions, Working
  <2>3. \A q \in Procs : q # p => Stays(q)
    BY <1>t, <2>1 DEF Types, Stays
  <2>4. CallKept(p)'
    BY <1>t, <1>c, <1>d, <1>r, <2>1 DEF Types, CallKept, Writing, Reading, Deleting, Working
  <2>5. Scanned(p)'
    BY <1>t, <1>c, <1>d, <1>r, <2>1 DEF Types, Scanned, Has, Owning, Reading, Deleting, Working
  <2>6. SlotKept(p)'
    BY <1>t, <2>1 DEF Types, SlotKept, Working
  <2> QED BY <1>t, <1>n, <2>1, <2>2, <2>3, <2>4, <2>5, <2>6 DEF Local, Types, Working
<1>8. ASSUME ReadFile(p) PROVE Inv'
  <2>1. /\ pc[p] = "read" /\ pc' = [pc EXCEPT ![p] = "done"]
        /\ fd' = [fd EXCEPT ![p] = NULL] /\ result' = [result EXCEPT ![p] = data[fd[p]]]
        /\ UNCHANGED <<status, record_name, file, data, kv>> /\ index' = index /\ req' = req
    BY <1>8 DEF ReadFile, Goto, Answer, table, files, locals
  <2>a. data[fd[p]] \in Values
    <3>1. /\ fd[p] = file[index[p]] /\ fd[p] # NULL /\ index[p] \in Slots /\ Has(index[p], req[p].key)
          /\ req[p].key \in Keys
      BY <1>t, <1>r, <2>1 DEF SlotKept, Scanned, CallKept, Owning, Reading
    <3>2. data[fd[p]] = kv[req[p].key] /\ kv[req[p].key] # NULL
      BY <3>1 DEF Inv, RecordsAgree, Has
    <3> QED BY <1>t, <3>1, <3>2 DEF Types
  <2>2. Types'
    BY <2>a, <1>t, <1>u, <1>c, <1>d, <2>1 DEF Types, Positions, Working
  <2>3. \A q \in Procs : q # p => Stays(q)
    BY <2>a, <1>t, <2>1 DEF Types, Stays
  <2>4. CallKept(p)'
    BY <2>a, <1>t, <1>c, <1>d, <1>r, <2>1 DEF Types, CallKept, Writing, Reading, Deleting, Working
  <2>5. Scanned(p)'
    BY <2>a, <1>t, <1>c, <1>d, <1>r, <2>1 DEF Types, Scanned, Has, Owning, Reading, Deleting, Working
  <2>6. SlotKept(p)'
    BY <2>a, <1>t, <2>1 DEF Types, SlotKept, Working
  <2> QED BY <1>t, <1>n, <2>1, <2>2, <2>3, <2>4, <2>5, <2>6 DEF Local, Types, Working
<1>9. ASSUME CheckBusy(p) PROVE Inv'
  <2>1. /\ pc[p] = "check"
        /\ \/ /\ pc' = [pc EXCEPT ![p] = "done"]
              /\ fd' = [fd EXCEPT ![p] = NULL] /\ result' = [result EXCEPT ![p] = X]
           \/ pc' = [pc EXCEPT ![p] = "unlink"] /\ fd' = fd /\ result' = result
        /\ UNCHANGED <<status, record_name, file, data, kv>> /\ index' = index /\ req' = req
    BY <1>9 DEF CheckBusy, Goto, Answer, table, files, locals
  <2>2. Types'
    BY <1>t, <1>u, <1>c, <1>d, <2>1 DEF Types, Positions, Working
  <2>3. \A q \in Procs : q # p => Stays(q)
    BY <1>t, <2>1 DEF Types, Stays
  <2>4. CallKept(p)'
    BY <1>t, <1>c, <1>d, <1>r, <2>1 DEF Types, CallKept, Writing, Reading, Deleting, Working
  <2>5. Scanned(p)'
    BY <1>t, <1>c, <1>d, <1>r, <2>1 DEF Types, Scanned, Has, Owning, Reading, Deleting, Working
  <2>6. SlotKept(p)'
    BY <1>t, <2>1 DEF Types, SlotKept, Working
  <2> QED BY <1>t, <1>n, <2>1, <2>2, <2>3, <2>4, <2>5, <2>6 DEF Local, Types, Working
<1>10. ASSUME Return(p) PROVE Inv'
  <2>1. /\ pc[p] = "done" /\ pc' = [pc EXCEPT ![p] = "idle"] /\ req' = [req EXCEPT ![p] = NULL]
        /\ result' = [result EXCEPT ![p] = NULL] /\ index' = [index EXCEPT ![p] = 0]
        /\ UNCHANGED <<status, record_name, file, data, kv>> /\ fd' = fd
    BY <1>10 DEF Return, Goto, Answer, table, files, locals
  <2>2. Types'
    BY <1>t, <1>u, <1>c, <1>d, <2>1 DEF Types, Positions, Working
  <2>3. \A q \in Procs : q # p => Stays(q)
    BY <1>t, <2>1 DEF Types, Stays
  <2>4. CallKept(p)'
    BY <1>t, <1>c, <1>d, <1>r, <2>1 DEF Types, CallKept, Writing, Reading, Deleting, Working
  <2>5. Scanned(p)'
    BY <1>t, <1>c, <1>d, <1>r, <2>1 DEF Types, Scanned, Has, Owning, Reading, Deleting, Working
  <2>6. SlotKept(p)'
    BY <1>t, <2>1 DEF Types, SlotKept, Working
  <2> QED BY <1>t, <1>n, <2>1, <2>2, <2>3, <2>4, <2>5, <2>6 DEF Local, Types, Working
<1> QED BY <1>1, <1>2, <1>3, <1>4, <1>5, <1>6, <1>7, <1>8, <1>9, <1>10 DEF Find, Read

(* The owner of a slot is the only call whose key could be in it, and no    *)
(* other slot has its key.                                                  *)
LEMMA OwnKey ==
  ASSUME Inv, NEW p \in Procs, Acts(p)
  PROVE  /\ index[p] \in Slots /\ req[p] # NULL /\ req[p].key \in Keys
         /\ \A i \in Slots : i # index[p] => ~Has(i, req[p].key)
         /\ \A k \in Keys : Has(index[p], k) => k = req[p].key
<1>1. /\ Local(p) /\ index[p] \in Slots /\ req[p] # NULL /\ req[p].key \in Keys
  <2>1. Local(p) /\ index[p] \in Slots /\ req[p] # NULL
    BY DEF Inv, Locals, Local, CallKept, Scanned, Acts, Owning, Working, Reading, Deleting
  <2> QED BY <2>1, RequestFacts DEF Inv
<1>2. CASE pc[p] \in Working
  BY <1>1, <1>2 DEF Local, SlotKept, Has
<1>3. CASE pc[p] \notin Working
  <2>1. Has(index[p], req[p].key) \/ (status[index[p]] = "INVALID" /\ kv[req[p].key] = NULL)
    BY <1>1, <1>3 DEF Local, Scanned, Acts, StillFound, Owning, Has
  <2>2. CASE Has(index[p], req[p].key)
    <3>1. \A i \in Slots : i # index[p] => ~Has(i, req[p].key)
      BY <1>1, <2>2 DEF Inv, KeysDistinct
    <3> QED BY <1>1, <2>2, <3>1 DEF Has
  <2>3. CASE status[index[p]] = "INVALID" /\ kv[req[p].key] = NULL
    BY <1>1, <2>3 DEF Inv, RecordsAgree, Has
  <2> QED BY <2>1, <2>2, <2>3
<1> QED BY <1>2, <1>3

(* A step of the owner of a slot keeps the invariant, if it keeps to that   *)
(* slot and to its key and leaves both as the invariant wants them.         *)
LEMMA OwnerKeepsInv ==
  ASSUME Inv, NEW p \in Procs, Acts(p),
         \A q \in Procs : q # p => Stays(q),
         index'[p] = index[p], req'[p] = req[p],
         \A i \in Slots : i # index[p] => SlotStays(i),
         \A k \in Keys : k # req[p].key => kv'[k] = kv[k],
         Types', Contents', Local(p)',
         record_name'[index[p]] \in {NULL, req[p].key, record_name[index[p]]},
         file'[index[p]] \in {NULL, file[index[p]]} \/ \A i \in Slots : file[i] # file'[index[p]],
         status'[index[p]] = "BUSY" => pc'[p] \in Working,
         status'[index[p]] = "VALID" => record_name'[index[p]] = req[p].key,
         status'[index[p]] = "VALID" \/ status[index[p]] # "VALID" \/ record_name'[index[p]] = req[p].key,
         status'[index[p]] = "VALID" =>
           /\ kv'[req[p].key] # NULL
           /\ file'[index[p]] # NULL => data'[file'[index[p]]] = kv'[req[p].key]
           /\ file'[index[p]] = NULL => pc'[p] = "invalid",
         kv'[req[p].key] # NULL => status'[index[p]] = "VALID" \/ pc'[p] \in Working
  PROVE  Inv'
<1>1. /\ index[p] \in Slots /\ req[p] # NULL /\ req[p].key \in Keys /\ NULL \notin Keys
      /\ \A i \in Slots : i # index[p] => ~Has(i, req[p].key)
      /\ \A k \in Keys : Has(index[p], k) => k = req[p].key
  BY OwnKey, ConstantFacts
<1>2. Typed'
  BY Zenon DEF Typed, Types, Contents, Indexes
<1>3. Locals'
  <2>1. \A q \in Procs : q # p => Local(q)'
    BY OwnerStep
  <2> QED BY <2>1 DEF Locals
<1>4. OneCall'
  BY NoNewCall
<1>5. FilesDistinct'
  BY <1>1 DEF Inv, FilesDistinct, SlotStays
<1>6. KeysDistinct'
  BY <1>1 DEF Inv, KeysDistinct, Has, SlotStays
<1>7. RecordsAgree'
  <2>1. ASSUME NEW i \in Slots, status'[i] = "VALID"
        PROVE  /\ record_name'[i] # NULL /\ kv'[record_name'[i]] # NULL
               /\ file'[i] # NULL => data'[file'[i]] = kv'[record_name'[i]]
               /\ file'[i] = NULL => \E q \in Procs : pc'[q] = "invalid" /\ index'[q] = i
    <3>1. CASE i = index[p]
      BY <1>1, <2>1, <3>1
    <3>2. CASE i # index[p]
      <4>1. SlotStays(i) /\ status[i] = "VALID" /\ record_name[i] # req[p].key
        BY <1>1, <2>1, <3>2 DEF SlotStays, Has
      <4>2. record_name[i] # NULL /\ record_name[i] \in Keys
        BY <4>1, TypeSplit DEF Inv, RecordsAgree, Types
      <4>3. kv'[record_name[i]] = kv[record_name[i]]
        BY <4>1, <4>2
      <4>4. file[i] = NULL => \E q \in Procs : pc'[q] = "invalid" /\ index'[q] = i
        BY <3>2, <4>1 DEF Inv, RecordsAgree, Stays
      <4> QED BY <4>1, <4>2, <4>3, <4>4 DEF Inv, RecordsAgree, SlotStays
    <3> QED BY <3>1, <3>2
  <2> QED BY <2>1 DEF RecordsAgree
<1>8. KeysStored'
  <2>1. ASSUME NEW k \in Keys, kv'[k] # NULL
        PROVE  (\E i \in Slots : Has(i, k)') \/ \E q \in Procs : pc'[q] \in Working /\ req'[q].key = k
    <3>1. CASE k = req[p].key
      BY <1>1, <2>1, <3>1 DEF Has
    <3>2. CASE k # req[p].key
      <4>1. (\E i \in Slots : Has(i, k)) \/ \E q \in Procs : pc[q] \in Working /\ req[q].key = k
        BY <2>1, <3>2 DEF Inv, KeysStored
      <4>2. ASSUME NEW i \in Slots, Has(i, k) PROVE Has(i, k)'
        BY <1>1, <3>2, <4>2 DEF Has, SlotStays
      <4>3. ASSUME NEW q \in Procs, pc[q] \in Working /\ req[q].key = k
            PROVE  pc'[q] \in Working /\ req'[q].key = k
        BY <3>2, <4>3 DEF Stays
      <4> QED BY <4>1, <4>2, <4>3
    <3> QED BY <3>1, <3>2
  <2> QED BY <2>1 DEF KeysStored
<1>9. SlotExclusive'
  <2>1. \A q \in Procs : q # p /\ pc[q] \in Working => index[q] # index[p]
    BY OwnersApart DEF Owning, Settled, Working
  <2> QED BY <2>1 DEF Inv, SlotExclusive, Stays
<1>10. BusyHasWriter'
  BY <1>1 DEF Inv, BusyHasWriter, SlotStays, Stays
<1> QED BY <1>2, <1>3, <1>4, <1>5, <1>6, <1>7, <1>8, <1>9, <1>10 DEF Inv

(* What writing to a file leaves in it: all of the value, if the file was   *)
(* truncated, and bytes in any case.                                        *)
LEMMA OverwriteFacts ==
  ASSUME NEW new \in Seq(Bytes)
  PROVE  /\ Overwrite(<<>>, new) = new
         /\ \A old \in Seq(Bytes) : Overwrite(old, new) \in Seq(Bytes)
<1>1. SubSeq(<<>>, Len(new) + 1, Len(<<>>)) = <<>>
  OBVIOUS
<1>2. Overwrite(<<>>, new) = new
  BY <1>1 DEF Overwrite
<1>3. ASSUME NEW old \in Seq(Bytes) PROVE Overwrite(old, new) \in Seq(Bytes)
  <2>1. SubSeq(old, Len(new) + 1, Len(old)) \in Seq(Bytes)
    OBVIOUS
  <2> QED BY <2>1 DEF Overwrite
<1> QED BY <1>2, <1>3

(* What is written is a sequence of bytes. *)
LEMMA ValueBytes == Values \subseteq Seq(Bytes)
BY DatabaseAssumption, Zenon

(* Writing and deleting. *)
LEMMA OwnerActions ==
  ASSUME Inv, ~raced', NEW p \in Procs,
         \/ SetBusy(p) \/ CreateFile(p) \/ WriteFile(p) \/ CopyName(p) \/ SetValid(p)
         \/ FileFault(p) \/ WriteFails(p) \/ Unlink(p) \/ SetInvalid(p)
  PROVE  Inv'
<1>c. /\ NULL \notin Keys /\ NULL \notin Values /\ NULL \notin Inodes /\ NULL \notin Requests
      /\ K # NULL /\ X # NULL
  BY ConstantFacts
<1>t. Types /\ Contents /\ CallKept(p) /\ Scanned(p) /\ SlotKept(p)
  BY TypeSplit DEF Inv, Locals, Local
<1>a. Acts(p)
  <2>1. pc[p] \in Owning
    BY Zenon DEF SetBusy, CreateFile, WriteFile, CopyName, SetValid, FileFault, WriteFails, Unlink,
                 SetInvalid, Owning, Working, Deleting
  <2>2. pc[p] = "busy" => SetBusy(p)
    BY DEF CreateFile, WriteFile, CopyName, SetValid, FileFault, WriteFails, Unlink, SetInvalid
  <2>3. SetBusy(p) => StillFound(p)
    BY DEF SetBusy
  <2> QED BY <2>1, <2>2, <2>3 DEF Acts
<1>o. pc[p] \in Owning =>
        /\ index[p] \in Slots /\ req[p] # NULL /\ req[p].key \in Keys
        /\ \A i \in Slots : i # index[p] => ~Has(i, req[p].key)
        /\ req[p].op = "W" => req[p].val \in Values
  BY <1>a, OwnKey, RequestFacts DEF Inv
<1>f. \A i, j \in Slots : i # j /\ file[i] # NULL => file[i] # file[j]
  BY DEF Inv, FilesDistinct
<1>v. pc[p] \in Owning /\ Has(index[p], req[p].key) =>
        /\ kv[req[p].key] # NULL
        /\ file[index[p]] # NULL => data[file[index[p]]] = kv[req[p].key]
  BY <1>o DEF Inv, RecordsAgree, Has
<1>1. ASSUME SetBusy(p) PROVE Inv'
  <2>1. /\ pc[p] = "busy" /\ pc' = [pc EXCEPT ![p] = "create"]
        /\ status' = [status EXCEPT ![index[p]] = "BUSY"]
        /\ record_name' = record_name /\ file' = file /\ data' = data /\ req' = req
        /\ index' = index /\ fd' = fd /\ result' = result /\ kv' = kv
    BY <1>1 DEF SetBusy, Goto, Answer, table, files, locals
  <2>2. pc[p] \in Owning /\ index[p] \in Slots /\ req[p] # NULL /\ req[p].key \in Keys
    BY <1>o, <2>1 DEF Owning, Working, Deleting
  <2>3. Types'
    BY <1>t, <1>c, <2>1, <2>2 DEF Types, Positions, Working
  <2>4. Contents'
    BY <1>t, <2>1 DEF Contents
  <2>5. \A q \in Procs : q # p => Stays(q)
    BY <1>t, <2>1 DEF Types, Stays
  <2>6. CallKept(p)'
    BY <1>t, <1>c, <2>1, <2>2 DEF Types, CallKept, Writing, Reading, Deleting, Working
  <2>7. Scanned(p)' /\ SlotKept(p)'
    BY <1>t, <1>c, <1>o, <1>v, <2>1, <2>2
       DEF Types, Scanned, SlotKept, Has, Owning, Reading, Deleting, Working
  <2>8. \A i \in Slots : i # index[p] => SlotStays(i)
    BY <1>t, <1>f, <2>1, <2>2 DEF Types, SlotStays
  <2>9. /\ status'[index[p]] = "BUSY" /\ pc'[p] = "create" /\ record_name' = record_name
        /\ file' = file /\ kv' = kv
        /\ status[index[p]] # "VALID" \/ record_name'[index[p]] = req[p].key
    BY <1>a, <1>t, <1>o, <1>c, <2>1, <2>2 DEF Types, Working, Acts, StillFound
  <2> QED BY <1>a, <1>t, <1>o, <1>c, <2>1, <2>2, <2>3, <2>4, <2>5, <2>6, <2>7, <2>8, <2>9, OwnerKeepsInv
             DEF Local, Types, Owning, Working, Deleting, Has
<1>2. ASSUME CreateFile(p) PROVE Inv'
  <2>1. /\ pc[p] = "create" /\ pc' = [pc EXCEPT ![p] = "write"]
        /\ \E n : /\ n = IF file[index[p]] = NULL THEN FreeInode ELSE file[index[p]]
                  /\ file' = [file EXCEPT ![index[p]] = n]
                  /\ fd' = [fd EXCEPT ![p] = n]
                  /\ data' = [data EXCEPT ![n] = <<>>]
        /\ status' = status /\ record_name' = record_name /\ req' = req /\ index' = index
        /\ result' = result /\ kv' = kv
    BY <1>2 DEF CreateFile, Truncate, Goto, Answer, table, files, locals
  <2>2. pc[p] \in Owning /\ index[p] \in Slots /\ req[p] # NULL /\ req[p].key \in Keys
    BY <1>o, <2>1 DEF Owning, Working, Deleting
  <2>a. PICK n : /\ n = IF file[index[p]] = NULL THEN FreeInode ELSE file[index[p]]
                 /\ file' = [file EXCEPT ![index[p]] = n]
                 /\ fd' = [fd EXCEPT ![p] = n]
                 /\ data' = [data EXCEPT ![n] = <<>>]
    BY <2>1
  <2>b. n \in Inodes /\ n # NULL /\ \A i \in Slots : i # index[p] => file[i] # n
    <3>1. CASE file[index[p]] = NULL
      BY <1>t, <1>c, <2>2, <2>a, <3>1, FreeInodeFound DEF Inv
    <3>2. CASE file[index[p]] # NULL
      BY <1>t, <1>c, <1>f, <2>2, <2>a, <3>2 DEF Types
    <3> QED BY <3>1, <3>2
  <2>c. n = file[index[p]] \/ \A i \in Slots : file[i] # n
    BY <2>2, <2>a, FreeInodeFound DEF Inv
  <2>d. file'[index[p]] = n /\ fd'[p] = n /\ data'[n] = <<>>
    BY <1>t, <2>2, <2>a, <2>b DEF Types, Contents
  <2>3. Types'
    BY <1>t, <1>c, <2>1, <2>2, <2>a, <2>b DEF Types, Positions, Working
  <2>4. Contents'
    <3>1. <<>> \in Seq(Bytes)
      OBVIOUS
    <3> QED BY <1>t, <2>a, <2>b, <3>1 DEF Contents
  <2>5. \A q \in Procs : q # p => Stays(q)
    BY <1>t, <2>1 DEF Types, Stays
  <2>6. CallKept(p)'
    BY <1>t, <1>c, <2>1, <2>2 DEF Types, CallKept, Writing, Reading, Deleting, Working
  <2>7. Scanned(p)' /\ SlotKept(p)'
    BY <1>t, <1>c, <1>o, <1>v, <2>1, <2>2, <2>a, <2>b, <2>d
       DEF Types, Scanned, SlotKept, Has, Owning, Reading, Deleting, Working
  <2>8. \A i \in Slots : i # index[p] => SlotStays(i)
    BY <1>t, <1>f, <2>1, <2>2, <2>a, <2>b DEF Types, SlotStays
  <2>9. /\ status[index[p]] = "BUSY" /\ status' = status /\ pc'[p] = "write"
        /\ record_name' = record_name /\ kv' = kv
        /\ file'[index[p]] = file[index[p]] \/ \A i \in Slots : file[i] # file'[index[p]]
    BY <1>t, <1>o, <1>c, <2>1, <2>2, <2>c, <2>d DEF Types, Working, SlotKept
  <2> QED BY <1>a, <1>t, <1>o, <1>c, <2>1, <2>2, <2>3, <2>4, <2>5, <2>6, <2>7, <2>8, <2>9, OwnerKeepsInv
             DEF Local, Types, Owning, Working, Deleting, Has
<1>3. ASSUME WriteFile(p) PROVE Inv'
  <2>1. /\ pc[p] = "write" /\ pc' = [pc EXCEPT ![p] = "name"]
        /\ data' = [data EXCEPT ![fd[p]] = Overwrite(data[fd[p]], req[p].val)]
        /\ fd' = [fd EXCEPT ![p] = NULL]
        /\ status' = status /\ record_name' = record_name /\ file' = file /\ req' = req
        /\ index' = index /\ result' = result /\ kv' = kv
    BY <1>3 DEF WriteFile, Goto, Answer, table, files, locals
  <2>2. pc[p] \in Owning /\ index[p] \in Slots /\ req[p] # NULL /\ req[p].key \in Keys
    BY <1>o, <2>1 DEF Owning, Working, Deleting
  <2>a. fd[p] = file[index[p]] /\ fd[p] # NULL /\ fd[p] \in Inodes /\ data[fd[p]] = <<>>
    BY <1>t, <2>1, <2>2 DEF Types, SlotKept
  <2>b. Overwrite(data[fd[p]], req[p].val) = req[p].val /\ req[p].val \in Seq(Bytes)
    <3>1. req[p].val \in Seq(Bytes)
      BY <1>o, <1>t, <2>1, <2>2, ValueBytes DEF CallKept, Writing, Working
    <3> QED BY <2>a, <3>1, OverwriteFacts
  <2>c. data' = [data EXCEPT ![fd[p]] = req[p].val]
    BY <2>1, <2>b
  <2>d. data'[fd[p]] = req[p].val /\ \A n \in Inodes : n # fd[p] => data'[n] = data[n]
    BY <1>t, <2>a, <2>c DEF Contents
  <2>3. Types'
    BY <1>t, <1>c, <2>1, <2>2 DEF Types, Positions, Working
  <2>4. Contents'
    BY <1>t, <2>a, <2>b, <2>c DEF Contents
  <2>5. \A q \in Procs : q # p => Stays(q)
    BY <1>t, <2>1 DEF Types, Stays
  <2>6. CallKept(p)'
    BY <1>t, <1>c, <2>1, <2>2 DEF Types, CallKept, Writing, Reading, Deleting, Working
  <2>7. Scanned(p)' /\ SlotKept(p)'
    BY <1>t, <1>c, <1>o, <1>v, <2>1, <2>2, <2>a, <2>d
       DEF Types, Scanned, SlotKept, Has, Owning, Reading, Deleting, Working
  <2>8. \A i \in Slots : i # index[p] => SlotStays(i)
    BY <1>t, <1>f, <2>1, <2>2, <2>a, <2>d DEF Types, SlotStays
  <2>9. /\ status[index[p]] = "BUSY" /\ status' = status /\ pc'[p] = "name"
        /\ record_name' = record_name /\ kv' = kv /\ file' = file
    BY <1>t, <1>o, <1>c, <2>1, <2>2 DEF Types, Working, SlotKept
  <2> QED BY <1>a, <1>t, <1>o, <1>c, <2>1, <2>2, <2>3, <2>4, <2>5, <2>6, <2>7, <2>8, <2>9, OwnerKeepsInv
             DEF Local, Types, Owning, Working, Deleting, Has
<1>4. ASSUME CopyName(p) PROVE Inv'
  <2>1. /\ \/ pc[p] = "name" /\ record_name' = [record_name EXCEPT ![index[p]] = NULL]
              /\ pc' = [pc EXCEPT ![p] = "named"]
           \/ pc[p] = "named" /\ record_name' = [record_name EXCEPT ![index[p]] = req[p].key]
              /\ pc' = [pc EXCEPT ![p] = "valid"]
        /\ status' = status /\ file' = file /\ data' = data /\ req' = req /\ index' = index
        /\ fd' = fd /\ result' = result /\ kv' = kv
    BY <1>4 DEF CopyName, Goto, Answer, table, files, locals
  <2>2. pc[p] \in Owning /\ index[p] \in Slots /\ req[p] # NULL /\ req[p].key \in Keys
    BY <1>o, <2>1 DEF Owning, Working, Deleting
  <2>a. status[index[p]] = "BUSY"
    BY <1>t, <2>1 DEF SlotKept, Working
  <2>3. Types'
    BY <1>t, <1>c, <2>1, <2>2 DEF Types, Positions, Working
  <2>4. Contents'
    BY <1>t, <2>1 DEF Contents
  <2>5. \A q \in Procs : q # p => Stays(q)
    BY <1>t, <2>1 DEF Types, Stays
  <2>6. CallKept(p)'
    BY <1>t, <1>c, <2>1, <2>2 DEF Types, CallKept, Writing, Reading, Deleting, Working
  <2>7. Scanned(p)' /\ SlotKept(p)'
    BY <1>t, <1>c, <1>o, <1>v, <2>1, <2>2, <2>a
       DEF Types, Scanned, SlotKept, Has, Owning, Reading, Deleting, Working
  <2>8. \A i \in Slots : i # index[p] => SlotStays(i)
    BY <1>t, <1>f, <2>1, <2>2 DEF Types, SlotStays
  <2> QED BY <1>a, <1>t, <1>o, <1>c, <2>1, <2>2, <2>3, <2>4, <2>5, <2>6, <2>7, <2>8, <2>a, OwnerKeepsInv
             DEF Local, Types, Owning, Working, Deleting, Has
<1>5. ASSUME SetValid(p) PROVE Inv'
  <2>1. /\ pc[p] = "valid" /\ status' = [status EXCEPT ![index[p]] = "VALID"]
        /\ kv' = [kv EXCEPT ![req[p].key] = req[p].val]
        /\ pc' = [pc EXCEPT ![p] = "done"]
        /\ fd' = [fd EXCEPT ![p] = NULL] /\ result' = [result EXCEPT ![p] = K]
        /\ record_name' = record_name /\ file' = file /\ data' = data /\ req' = req /\ index' = index
    BY <1>5 DEF SetValid, Goto, Answer, table, files, locals
  <2>2. pc[p] \in Owning /\ index[p] \in Slots /\ req[p] # NULL /\ req[p].key \in Keys
    BY <1>o, <2>1 DEF Owning, Working, Deleting
  <2>a. /\ req[p].val \in Values /\ record_name[index[p]] = req[p].key
        /\ file[index[p]] # NULL /\ data[file[index[p]]] = req[p].val
    BY <1>t, <1>o, <2>1, <2>2 DEF CallKept, SlotKept, Writing, Working
  <2>3. Types'
    BY <1>t, <1>c, <2>1, <2>2, <2>a DEF Types, Positions, Working
  <2>4. Contents'
    BY <1>t, <2>1 DEF Contents
  <2>5. \A q \in Procs : q # p => Stays(q)
    BY <1>t, <2>1 DEF Types, Stays
  <2>6. CallKept(p)'
    BY <1>t, <1>c, <2>1, <2>2 DEF Types, CallKept, Writing, Reading, Deleting, Working
  <2>7. Scanned(p)' /\ SlotKept(p)'
    BY <1>t, <1>c, <1>o, <1>v, <2>1, <2>2, <2>a
       DEF Types, Scanned, SlotKept, Has, Owning, Reading, Deleting, Working
  <2>8. \A i \in Slots : i # index[p] => SlotStays(i)
    BY <1>t, <1>f, <2>1, <2>2 DEF Types, SlotStays
  <2> QED BY <1>a, <1>t, <1>o, <1>c, <2>1, <2>2, <2>3, <2>4, <2>5, <2>6, <2>7, <2>8, <2>a, OwnerKeepsInv
             DEF Local, Types, Owning, Working, Deleting, Has
<1>6. ASSUME FileFault(p) PROVE Inv'
  <2>1. /\ IOFaults /\ pc[p] \in {"create", "write"} /\ pc' = [pc EXCEPT ![p] = "fault"]
        /\ fd' = [fd EXCEPT ![p] = NULL]
        /\ status' = status /\ record_name' = record_name /\ file' = file /\ req' = req
        /\ index' = index /\ result' = result /\ kv' = kv
    BY <1>6 DEF FileFault, ShortWriteSeen, Goto, Answer, table, files, locals
  <2>2. pc[p] \in Owning /\ index[p] \in Slots /\ req[p] # NULL /\ req[p].key \in Keys
    BY <1>o, <2>1 DEF Owning, Working, Deleting
  <2>a. \/ data' = data
        \/ \E n \in 0..(Len(req[p].val) - 1) :
             /\ pc[p] = "write"
             /\ data' = [data EXCEPT ![fd[p]] = Overwrite(data[fd[p]], SubSeq(req[p].val, 1, n))]
    BY <1>6 DEF FileFault
  <2>3. Types'
    BY <1>t, <1>c, <2>1, <2>2 DEF Types, Positions, Working
  <2>4. Contents' /\ \A n \in Inodes : data'[n] = data[n] \/ (n = file[index[p]])
    <3>1. CASE data' = data
      BY <1>t, <3>1 DEF Contents
    <3>2. ASSUME NEW n \in 0..(Len(req[p].val) - 1), pc[p] = "write",
                 data' = [data EXCEPT ![fd[p]] = Overwrite(data[fd[p]], SubSeq(req[p].val, 1, n))]
          PROVE  Contents' /\ \A m \in Inodes : data'[m] = data[m] \/ (m = file[index[p]])
      <4>1. fd[p] = file[index[p]] /\ fd[p] \in Inodes
        BY <1>t, <2>1, <2>2, <3>2 DEF Types, SlotKept
      <4>2. req[p].val \in Seq(Bytes)
        BY <1>o, <1>t, <2>1, <2>2, ValueBytes DEF CallKept, Writing, Working
      <4>3. SubSeq(req[p].val, 1, n) \in Seq(Bytes)
        BY <4>2
      <4>4. data[fd[p]] \in Seq(Bytes)
        BY <1>t, <4>1 DEF Contents
      <4>5. Overwrite(data[fd[p]], SubSeq(req[p].val, 1, n)) \in Seq(Bytes)
        BY <4>3, <4>4, OverwriteFacts
      <4> QED BY <1>t, <3>2, <4>1, <4>5 DEF Contents
    <3> QED BY <2>a, <3>1, <3>2
  <2>5. \A q \in Procs : q # p => Stays(q)
    BY <1>t, <2>1 DEF Types, Stays
  <2>6. CallKept(p)'
    BY <1>t, <1>c, <2>1, <2>2 DEF Types, CallKept, Writing, Reading, Deleting, Working
  <2>7. Scanned(p)' /\ SlotKept(p)'
    BY <1>t, <1>c, <1>o, <1>v, <2>1, <2>2
       DEF Types, Scanned, SlotKept, Has, Owning, Reading, Deleting, Working
  <2>8. \A i \in Slots : i # index[p] => SlotStays(i)
    BY <1>t, <1>f, <2>1, <2>2, <2>4 DEF Types, SlotStays
  <2>9. /\ status[index[p]] = "BUSY" /\ status' = status /\ pc'[p] = "fault"
        /\ record_name' = record_name /\ kv' = kv /\ file' = file
    BY <1>t, <1>o, <1>c, <2>1, <2>2 DEF Types, Working, SlotKept
  <2> QED BY <1>a, <1>t, <1>o, <1>c, <2>1, <2>2, <2>3, <2>4, <2>5, <2>6, <2>7, <2>8, <2>9, OwnerKeepsInv
             DEF Local, Types, Owning, Working, Deleting, Has
<1>7. ASSUME WriteFails(p) PROVE Inv'
  <2>1. /\ pc[p] = "fault" /\ status' = [status EXCEPT ![index[p]] = "INVALID"]
        /\ kv' = [kv EXCEPT ![req[p].key] = NULL]
        /\ pc' = [pc EXCEPT ![p] = "done"]
        /\ fd' = [fd EXCEPT ![p] = NULL] /\ result' = [result EXCEPT ![p] = X]
        /\ record_name' = record_name /\ file' = file /\ data' = data /\ req' = req /\ index' = index
    BY <1>7 DEF WriteFails, GiveUpSlot, Goto, Answer, table, files, locals
  <2>2. pc[p] \in Owning /\ index[p] \in Slots /\ req[p] # NULL /\ req[p].key \in Keys
    BY <1>o, <2>1 DEF Owning, Working, Deleting
  <2>3. Types'
    BY <1>t, <1>c, <2>1, <2>2 DEF Types, Positions, Working
  <2>4. Contents'
    BY <1>t, <2>1 DEF Contents
  <2>5. \A q \in Procs : q # p => Stays(q)
    BY <1>t, <2>1 DEF Types, Stays
  <2>6. CallKept(p)'
    BY <1>t, <1>c, <2>1, <2>2 DEF Types, CallKept, Writing, Reading, Deleting, Working
  <2>7. Scanned(p)' /\ SlotKept(p)'
    BY <1>t, <1>c, <1>o, <1>v, <2>1, <2>2
       DEF Types, Scanned, SlotKept, Has, Owning, Reading, Deleting, Working
  <2>8. \A i \in Slots : i # index[p] => SlotStays(i)
    BY <1>t, <1>f, <2>1, <2>2 DEF Types, SlotStays
  <2>9. /\ status[index[p]] = "BUSY" /\ status'[index[p]] = "INVALID" /\ pc'[p] = "done"
        /\ record_name' = record_name /\ file' = file /\ kv'[req[p].key] = NULL
        /\ \A k \in Keys : k # req[p].key => kv'[k] = kv[k]
    BY <1>t, <1>o, <1>c, <2>1, <2>2 DEF Types, Working, SlotKept
  <2> QED BY <1>a, <1>t, <1>o, <1>c, <2>1, <2>2, <2>3, <2>4, <2>5, <2>6, <2>7, <2>8, <2>9, OwnerKeepsInv
             DEF Local, Types, Owning, Working, Deleting, Has
<1>8. ASSUME Unlink(p) PROVE Inv'
  <2>1. /\ pc[p] = "unlink"
        /\ \/ /\ file[index[p]] = NULL /\ file' = file /\ pc' = [pc EXCEPT ![p] = "done"]
              /\ fd' = [fd EXCEPT ![p] = NULL] /\ result' = [result EXCEPT ![p] = X]
           \/ /\ file' = [file EXCEPT ![index[p]] = NULL]
              /\ pc' = [pc EXCEPT ![p] = "invalid"] /\ fd' = fd /\ result' = result
        /\ status' = status /\ record_name' = record_name /\ data' = data /\ req' = req
        /\ index' = index /\ kv' = kv
    BY <1>8 DEF Unlink, Goto, Answer, table, files, locals
  <2>2. pc[p] \in Owning /\ index[p] \in Slots /\ req[p] # NULL /\ req[p].key \in Keys
    BY <1>o, <2>1 DEF Owning, Working, Deleting
  <2>a. file[index[p]] # NULL /\ Has(index[p], req[p].key)
    <3>1. Has(index[p], req[p].key)
      BY <1>t, <2>1 DEF Scanned, Deleting
    <3>2. \A q \in Procs : pc[q] = "invalid" => q # p /\ index[q] # index[p]
      BY <1>a, <2>1, <2>2, OwnersApart DEF Owning, Deleting, Settled
    <3> QED BY <2>2, <3>1, <3>2 DEF Inv, RecordsAgree, Has
  <2>3. Types'
    BY <1>t, <1>c, <2>1, <2>2, <2>a DEF Types, Positions, Working
  <2>4. Contents'
    BY <1>t, <2>1 DEF Contents
  <2>5. \A q \in Procs : q # p => Stays(q)
    BY <1>t, <2>1 DEF Types, Stays
  <2>6. CallKept(p)'
    BY <1>t, <1>c, <2>1, <2>2 DEF Types, CallKept, Writing, Reading, Deleting, Working
  <2>7. Scanned(p)' /\ SlotKept(p)'
    BY <1>t, <1>c, <1>o, <1>v, <2>1, <2>2, <2>a
       DEF Types, Scanned, SlotKept, Has, Owning, Reading, Deleting, Working
  <2>8. \A i \in Slots : i # index[p] => SlotStays(i)
    BY <1>t, <1>f, <2>1, <2>2 DEF Types, SlotStays
  <2> QED BY <1>a, <1>t, <1>o, <1>c, <2>1, <2>2, <2>3, <2>4, <2>5, <2>6, <2>7, <2>8, <1>v, <2>a, OwnerKeepsInv
             DEF Local, Types, Owning, Working, Deleting, Has
<1>9. ASSUME SetInvalid(p) PROVE Inv'
  <2>1. /\ pc[p] = "invalid" /\ status' = [status EXCEPT ![index[p]] = "INVALID"]
        /\ kv' = [kv EXCEPT ![req[p].key] = NULL]
        /\ pc' = [pc EXCEPT ![p] = "done"]
        /\ fd' = [fd EXCEPT ![p] = NULL] /\ result' = [result EXCEPT ![p] = K]
        /\ record_name' = record_name /\ file' = file /\ data' = data /\ req' = req /\ index' = index
    BY <1>9 DEF SetInvalid, Goto, Answer, table, files, locals
  <2>2. pc[p] \in Owning /\ index[p] \in Slots /\ req[p] # NULL /\ req[p].key \in Keys
    BY <1>o, <2>1 DEF Owning, Working, Deleting
  <2>3. Types'
    BY <1>t, <1>c, <2>1, <2>2 DEF Types, Positions, Working
  <2>4. Contents'
    BY <1>t, <2>1 DEF Contents
  <2>5. \A q \in Procs : q # p => Stays(q)
    BY <1>t, <2>1 DEF Types, Stays
  <2>6. CallKept(p)'
    BY <1>t, <1>c, <2>1, <2>2 DEF Types, CallKept, Writing, Reading, Deleting, Working
  <2>7. Scanned(p)' /\ SlotKept(p)'
    BY <1>t, <1>c, <1>o, <1>v, <2>1, <2>2
       DEF Types, Scanned, SlotKept, Has, Owning, Reading, Deleting, Working
  <2>8. \A i \in Slots : i # index[p] => SlotStays(i)
    BY <1>t, <1>f, <2>1, <2>2 DEF Types, SlotStays
  <2>9. /\ Has(index[p], req[p].key) /\ status'[index[p]] = "INVALID" /\ pc'[p] = "done"
        /\ record_name' = record_name /\ file' = file /\ kv'[req[p].key] = NULL
        /\ \A k \in Keys : k # req[p].key => kv'[k] = kv[k]
    BY <1>t, <1>o, <1>c, <2>1, <2>2 DEF Types, Working, Scanned, Deleting
  <2> QED BY <1>a, <1>t, <1>o, <1>c, <2>1, <2>2, <2>3, <2>4, <2>5, <2>6, <2>7, <2>8, <2>9, OwnerKeepsInv
             DEF Local, Types, Owning, Working, Deleting, Has
<1> QED BY <1>1, <1>2, <1>3, <1>4, <1>5, <1>6, <1>7, <1>8, <1>9

-----------------------------------------------------------------------------
(* Whatever the callers do: the places of the calls and the busy slots.     *)

(* A call has arguments, its index is in the table where it is used, and a  *)
(* busy slot has a db_write working on it.                                  *)
Placed ==
  /\ pc \in [Procs -> Positions]
  /\ status \in [Slots -> {"INVALID", "BUSY", "VALID"}]
  /\ req \in [Procs -> Requests \cup {NULL}]
  /\ index \in [Procs -> Indexes]
  /\ \A p \in Procs : req[p] = NULL => pc[p] = "idle"
  /\ \A p \in Procs : pc[p] \in Owning \cup {"compare"} => index[p] \in Slots
  /\ BusyHasWriter

(* p goes from pc[p] to v and its index to n; its slot, if it changes, gets *)
(* the status t, and only a call that stays at work leaves it busy.         *)
LEMMA PlacedStep ==
  ASSUME Placed, NEW p \in Procs, NEW v \in Positions, NEW n \in Indexes,
         NEW t \in {"INVALID", "BUSY", "VALID"},
         pc' = [pc EXCEPT ![p] = v], index' = [index EXCEPT ![p] = n],
         req' \in [Procs -> Requests \cup {NULL}],
         \A q \in Procs : q # p => req'[q] = req[q],
         req'[p] = NULL => v = "idle",
         v \in Owning \cup {"compare"} => n \in Slots,
         \/ status' = status /\ (pc[p] \in Working => v \in Working /\ n = index[p])
         \/ /\ index[p] \in Slots /\ status' = [status EXCEPT ![index[p]] = t]
            /\ t = "BUSY" => v \in Working /\ n = index[p]
  PROVE  Placed'
<1>1. /\ pc' \in [Procs -> Positions] /\ index' \in [Procs -> Indexes]
      /\ status' \in [Slots -> {"INVALID", "BUSY", "VALID"}]
  BY DEF Placed
<1>2. \A q \in Procs : q # p => pc'[q] = pc[q] /\ index'[q] = index[q]
  BY DEF Placed
<1>3. pc'[p] = v /\ index'[p] = n
  BY DEF Placed
<1>4. \A q \in Procs : /\ req'[q] = NULL => pc'[q] = "idle"
                       /\ pc'[q] \in Owning \cup {"compare"} => index'[q] \in Slots
  BY <1>2, <1>3 DEF Placed
<1>5. ASSUME NEW i \in Slots, status'[i] = "BUSY"
      PROVE  \E q \in Procs : index'[q] = i /\ pc'[q] \in Working
  <2>1. CASE v \in Working /\ n = i
    BY <1>3, <2>1
  <2>2. CASE ~(v \in Working /\ n = i)
    <3>1. status[i] = "BUSY" /\ ~(index[p] = i /\ pc[p] \in Working)
      <4>1. CASE status' = status
        BY <1>5, <2>2, <4>1 DEF Placed
      <4>2. CASE status' # status
        BY <1>5, <2>2, <4>2 DEF Placed
      <4> QED BY <4>1, <4>2
    <3>2. PICK q \in Procs : index[q] = i /\ pc[q] \in Working
      BY <3>1 DEF Placed, BusyHasWriter
    <3> QED BY <1>2, <3>1, <3>2
  <2> QED BY <2>1, <2>2
<1> QED BY <1>1, <1>4, <1>5 DEF Placed, BusyHasWriter

(* Every step keeps the calls placed. *)
LEMMA PlacedNext == Placed /\ [Next]_vars => Placed'
<1> SUFFICES ASSUME Placed, [Next]_vars PROVE Placed'
  OBVIOUS
<1>1. CASE UNCHANGED vars
  BY <1>1 DEF vars, Placed, BusyHasWriter
<1>2. CASE Next
  <2>p. PICK p \in Procs : (\E r \in Requests : Call(p, r)) \/ Step(p) \/ Return(p)
    BY <1>2 DEF Next
  <2>i. /\ 0 \in Indexes /\ Slots \subseteq Indexes
        /\ \A n \in Indexes : n # MaxKeys => n \in Slots
        /\ \A n \in Slots : n + 1 \in Indexes
    BY IndexFacts
  <2>t. /\ pc[p] \in Positions /\ index[p] \in Indexes
        /\ req \in [Procs -> Requests \cup {NULL}]
        /\ req[p] = NULL => pc[p] = "idle"
        /\ pc[p] \in Owning \cup {"compare"} => index[p] \in Slots
        /\ index = [index EXCEPT ![p] = index[p]] /\ pc = [pc EXCEPT ![p] = pc[p]]
    BY DEF Placed
  <2>r. req[p] # NULL => req[p].op \in {"W", "R", "D"}
    BY <2>t DEF Requests
  <2>n. NULL \notin Requests
    BY ConstantFacts
  <2>s. ASSUME NEW v \in Positions, NEW n \in Indexes, pc[p] \notin Working,
               pc' = [pc EXCEPT ![p] = v], index' = [index EXCEPT ![p] = n],
               req' = req, req[p] # NULL, status' = status,
               v \in Owning \cup {"compare"} => n \in Slots
        PROVE  Placed'
    BY <2>s, <2>t, PlacedStep
  <2>1. ASSUME NEW r \in Requests, Call(p, r) PROVE Placed'
    <3>1. /\ pc[p] = "idle" /\ pc' = [pc EXCEPT ![p] = "find"] /\ index' = [index EXCEPT ![p] = 0]
          /\ req' = [req EXCEPT ![p] = r] /\ status' = status
      BY <2>1 DEF Call, Goto, table
    <3>2. /\ req' \in [Procs -> Requests \cup {NULL}] /\ req'[p] # NULL
          /\ \A q \in Procs : q # p => req'[q] = req[q]
      BY <2>n, <2>t, <3>1
    <3> QED BY <2>i, <3>1, <3>2, PlacedStep DEF Positions, Working, Owning, Reading, Deleting
  <2>2. ASSUME Return(p) PROVE Placed'
    <3>1. /\ pc[p] = "done" /\ pc' = [pc EXCEPT ![p] = "idle"] /\ index' = [index EXCEPT ![p] = 0]
          /\ req' = [req EXCEPT ![p] = NULL] /\ status' = status
      BY <2>2 DEF Return, Goto, table
    <3>2. /\ req' \in [Procs -> Requests \cup {NULL}]
          /\ \A q \in Procs : q # p => req'[q] = req[q]
      BY <2>t, <3>1
    <3> QED BY <2>i, <3>1, <3>2, PlacedStep DEF Positions, Working, Owning, Reading, Deleting
  <2>3. ASSUME Find(p) PROVE Placed'
    <3>1. /\ pc[p] \in {"find", "compare"} /\ req' = req /\ status' = status
          /\ pc[p] = "find" \/ index[p] \in Slots
      BY <2>3, <2>t DEF Find, FindStatus, FindCompare, FindFails, table
    <3>2. \E v \in Positions, n \in Indexes :
            /\ pc' = [pc EXCEPT ![p] = v] /\ index' = [index EXCEPT ![p] = n]
            /\ v \in Owning \cup {"compare"} => n \in Slots
      <4>1. CASE FindStatus(p)
        <5>1. index[p] \in Slots /\ index[p] + 1 \in Indexes
          BY <2>i, <2>t, <4>1 DEF FindStatus, AtEnd
        <5>2. \/ pc' = [pc EXCEPT ![p] = "compare"] /\ index' = [index EXCEPT ![p] = index[p]]
              \/ pc' = [pc EXCEPT ![p] = "find"] /\ index' = [index EXCEPT ![p] = index[p] + 1]
          BY <2>t, <4>1 DEF FindStatus, Goto
        <5> QED BY <2>t, <5>1, <5>2 DEF Positions, Owning, Working, Reading, Deleting
      <4>2. CASE FindCompare(p)
        <5>1. /\ pc[p] = "compare" /\ index[p] \in Slots /\ index[p] + 1 \in Indexes
          BY <2>i, <2>t, <4>2 DEF FindCompare
        <5>2. \/ /\ index' = [index EXCEPT ![p] = index[p]]
                 /\ \E v \in {"busy", "open", "check"} : pc' = [pc EXCEPT ![p] = v]
              \/ pc' = [pc EXCEPT ![p] = "find"] /\ index' = [index EXCEPT ![p] = index[p] + 1]
          <6>1. req[p].op \in {"W", "R", "D"}
            BY <2>t, <2>r, <5>1
          <6> QED BY <2>t, <4>2, <6>1 DEF FindCompare, Found, Goto
        <5> QED BY <2>t, <5>1, <5>2 DEF Positions, Owning, Working, Reading, Deleting
      <4>3. CASE FindFails(p)
        <5>1. index' = [index EXCEPT ![p] = 0] /\ \E v \in {"free", "done"} : pc' = [pc EXCEPT ![p] = v]
          BY <4>3 DEF FindFails, Answer, Goto
        <5> QED BY <2>i, <5>1 DEF Positions, Owning, Working, Reading, Deleting
      <4> QED BY <2>3, <4>1, <4>2, <4>3 DEF Find
    <3> QED BY <2>t, <2>s, <3>1, <3>2 DEF Working
  <2>4. ASSUME FreeIndex(p) PROVE Placed'
    <3>1. /\ pc[p] = "free" /\ index[p] \in Slots /\ index[p] + 1 \in Indexes
          /\ req' = req /\ status' = status
      BY <2>i, <2>t, <2>4 DEF FreeIndex, AtEnd, table
    <3>2. \/ pc' = [pc EXCEPT ![p] = "busy"] /\ index' = [index EXCEPT ![p] = index[p]]
          \/ pc' = [pc EXCEPT ![p] = "free"] /\ index' = [index EXCEPT ![p] = index[p] + 1]
      BY <2>t, <2>4 DEF FreeIndex, Goto
    <3> QED BY <2>t, <2>s, <3>1, <3>2 DEF Positions, Owning, Working, Reading, Deleting
  <2>5. ASSUME TableFull(p) \/ Read(p) \/ CheckBusy(p) \/ Unlink(p) PROVE Placed'
    <3>1. /\ pc[p] \in {"free", "open", "read", "check", "unlink"}
          /\ \/ pc' = [pc EXCEPT ![p] = "done"]
             \/ pc[p] # "free" /\ \E v \in {"read", "unlink", "invalid"} : pc' = [pc EXCEPT ![p] = v]
          /\ index' = [index EXCEPT ![p] = index[p]] /\ req' = req /\ status' = status
      BY <2>t, <2>5 DEF TableFull, Read, OpenFile, ReadFile, CheckBusy, Unlink, Answer, Goto, table
    <3> QED BY <2>t, <2>s, <3>1 DEF Positions, Owning, Working, Reading, Deleting
  <2>6. ASSUME CreateFile(p) \/ WriteFile(p) \/ CopyName(p) \/ FileFault(p) PROVE Placed'
    <3>1. /\ pc[p] \in Working /\ \E v \in Working : pc' = [pc EXCEPT ![p] = v]
          /\ index' = [index EXCEPT ![p] = index[p]] /\ req' = req /\ status' = status
      BY <2>t, <2>6 DEF CreateFile, WriteFile, CopyName, FileFault, ShortWriteSeen, Goto, Working,
                        locals, table
    <3>2. Working \subseteq Positions /\ pc[p] # "idle" /\ index[p] \in Slots
      BY <2>t, <3>1 DEF Positions, Working, Owning
    <3> QED BY <2>t, <3>1, <3>2, PlacedStep
  <2>7. ASSUME SetBusy(p) PROVE Placed'
    <3>1. /\ pc[p] = "busy" /\ pc' = [pc EXCEPT ![p] = "create"]
          /\ index' = [index EXCEPT ![p] = index[p]] /\ req' = req
          /\ status' = [status EXCEPT ![index[p]] = "BUSY"]
      BY <2>t, <2>7 DEF SetBusy, Goto, locals
    <3>2. "create" \in Positions /\ "create" \in Working /\ index[p] \in Slots
      BY <2>t, <3>1 DEF Positions, Working, Owning
    <3> QED BY <2>t, <3>1, <3>2, PlacedStep
  <2>8. ASSUME SetValid(p) \/ WriteFails(p) \/ SetInvalid(p) PROVE Placed'
    <3>1. /\ pc[p] \in {"valid", "fault", "invalid"} /\ pc' = [pc EXCEPT ![p] = "done"]
          /\ index' = [index EXCEPT ![p] = index[p]] /\ req' = req
          /\ \E t \in {"VALID", "INVALID"} : status' = [status EXCEPT ![index[p]] = t]
      BY <2>t, <2>8 DEF SetValid, WriteFails, GiveUpSlot, SetInvalid, Answer, Goto
    <3>2. "done" \in Positions /\ "done" \notin Owning \cup {"compare"} /\ index[p] \in Slots /\ pc[p] # "idle"
      BY <2>t, <3>1 DEF Positions, Working, Owning, Reading, Deleting
    <3> QED BY <2>t, <3>1, <3>2, PlacedStep
  <2> QED BY <2>p, <2>1, <2>2, <2>3, <2>4, <2>5, <2>6, <2>7, <2>8, Zenon DEF Step, Write, Delete
<1> QED BY <1>1, <1>2

(* BusyHasWriter: whatever calls the clients make, on one key or on many, a *)
(* slot marked BUSY (database.c:51) has a db_write in progress that will    *)
(* mark it VALID or INVALID: none is lost to a failed open or short write.  *)
THEOREM BusySlots == Spec => []BusyHasWriter
<1>1. Init => Placed
  BY IndexFacts DEF Init, Placed, Positions, BusyHasWriter, Owning, Working, Reading, Deleting
<1>2. Placed => BusyHasWriter
  BY DEF Placed
<1> QED BY <1>1, <1>2, PlacedNext, PTL DEF Spec

-----------------------------------------------------------------------------
(* The theorems that need the callers' help.                                *)

\* dbtest's guarantee, with or without one new key at a time.
OneCallDiscipline == Discipline \in {"one_call_per_key", "one_new_key"}

(* The invariant is inductive until the first race. *)
LEMMA InvNext == OneCallDiscipline /\ Inv /\ ~raced' /\ [Next]_vars => Inv'
<1> SUFFICES ASSUME OneCallDiscipline, Inv, ~raced', [Next]_vars PROVE Inv'
  OBVIOUS
<1>1. CASE Next
  <2>1. PICK p \in Procs : (\E r \in Requests : Call(p, r)) \/ Step(p) \/ Return(p)
    BY <1>1 DEF Next
  <2>2. \/ \/ \E r \in Requests : Call(p, r)
           \/ Find(p) \/ FreeIndex(p) \/ TableFull(p) \/ Read(p) \/ CheckBusy(p) \/ Return(p)
        \/ \/ SetBusy(p) \/ CreateFile(p) \/ WriteFile(p) \/ CopyName(p) \/ SetValid(p)
           \/ FileFault(p) \/ WriteFails(p) \/ Unlink(p) \/ SetInvalid(p)
    BY <2>1, Zenon DEF Step, Write, Delete
  <2> QED BY <2>2, QuietActions, OwnerActions DEF OneCallDiscipline
<1>2. CASE UNCHANGED vars
  <2>1. /\ status' = status /\ record_name' = record_name /\ file' = file /\ data' = data /\ pc' = pc
        /\ req' = req /\ index' = index /\ fd' = fd /\ result' = result /\ kv' = kv
    BY <1>2 DEF vars
  <2>2. Typed' /\ OneCall' /\ SlotExclusive' /\ BusyHasWriter'
    BY <2>1, Zenon DEF Inv, Typed, OneCall, SlotExclusive, BusyHasWriter
  <2>4. Locals'
    <3>1. ASSUME NEW p \in Procs PROVE CallKept(p)' /\ Scanned(p)' /\ SlotKept(p)'
      <4>1. CallKept(p) /\ Scanned(p) /\ SlotKept(p)
        BY DEF Inv, Locals, Local
      <4>2. CallKept(p)'
        BY <2>1, <4>1, Zenon DEF CallKept
      <4>3. Scanned(p)'
        BY <2>1, <4>1 DEF Scanned, Has
      <4>4. SlotKept(p)'
        BY <2>1, <4>1 DEF SlotKept, Has
      <4> QED BY <4>2, <4>3, <4>4
    <3> QED BY <3>1 DEF Locals, Local
  <2>3. FilesDistinct' /\ RecordsAgree' /\ KeysDistinct' /\ KeysStored'
    BY <2>1, Zenon DEF Inv, FilesDistinct, RecordsAgree, KeysDistinct, KeysStored, Has
  <2> QED BY <2>2, <2>3, <2>4 DEF Inv
<1> QED BY <1>1, <1>2

(* A race is never undone. *)
LEMMA RacedStays == raced /\ [Next]_vars => raced'
BY DEF Next, vars, Call, Return, Step, Find, Write, Read, Delete, FindStatus, FindCompare, FindFails,
       FreeIndex, TableFull, SetBusy, CreateFile, WriteFile, CopyName, SetValid, FileFault, WriteFails,
       OpenFile, ReadFile, CheckBusy, Unlink, SetInvalid, table

(* It holds in every state the server can reach without one. *)
LEMMA InvUntilRace == OneCallDiscipline => (Spec => [](~raced => Inv))
<1> SUFFICES ASSUME OneCallDiscipline PROVE Spec => [](~raced => Inv)
  OBVIOUS
<1>1. Inv /\ ~raced' /\ [Next]_vars => Inv'
  BY InvNext
<1>2. (~raced => Inv) /\ [Next]_vars => (~raced => Inv)'
  BY <1>1, RacedStays
<1> QED BY <1>2, InvInit, PTL DEF Spec

(* StoreAgrees until the first race: if no key has two calls in flight, as  *)
(* in dbtest, then until two writes meet in one slot between database.c:46  *)
(* and 51 the table and the files hold, for a key no call is working on,    *)
(* what the answered calls add up to.                                       *)
THEOREM StoreCorrect == OneCallDiscipline => (Spec => []StoreAgreesUntilRace)
<1>1. ASSUME Inv, NEW k \in Keys, InFlight(k) = {} PROVE Lookup(k) = kv[k]
  <2> DEFINE hits == {i \in Slots : status[i] = "VALID" /\ record_name[i] = k}
  <2>1. ASSUME NEW p \in Procs, req[p] # NULL PROVE req[p].key # k
    BY <1>1, <2>1 DEF InFlight
  <2>2. k # NULL
    BY ConstantFacts
  <2>3. CASE hits = {}
    <3>1. ~\E i \in Slots : Has(i, k)
      BY <2>3 DEF Has
    <3>2. ~\E p \in Procs : pc[p] \in Working /\ req[p].key = k
      BY <1>1, <2>1 DEF Inv, Locals, Local, CallKept, Working
    <3>3. kv[k] = NULL
      BY <1>1, <3>1, <3>2 DEF Inv, KeysStored
    <3> QED BY <2>3, <3>3 DEF Lookup
  <2>4. CASE hits # {}
    <3>1. PICK i \in Slots : Has(i, k)
      BY <2>4 DEF Has
    <3>2. hits = {i}
      BY <1>1, <3>1 DEF Inv, KeysDistinct, Has
    <3>3. i <= i
      BY <3>1, ConstantFacts DEF Slots
    <3> HIDE DEF hits
    <3>4. (CHOOSE n \in hits : \A j \in hits : n <= j) = i
      BY <3>2, <3>3
    <3>5. file[i] # NULL
      <4>1. ASSUME NEW p \in Procs, pc[p] = "invalid", index[p] = i PROVE FALSE
        <5>1. req[p] # NULL /\ Has(i, req[p].key)
          BY <1>1, <4>1 DEF Inv, Locals, Local, CallKept, Scanned, Deleting
        <5> QED BY <2>1, <3>1, <5>1 DEF Has
      <4> QED BY <1>1, <3>1, <4>1 DEF Inv, RecordsAgree, Has
    <3>6. data[file[i]] = kv[k]
      BY <1>1, <3>1, <3>5 DEF Inv, RecordsAgree, Has
    <3>7. Lookup(k) = data[file[i]]
      BY <2>4, <3>4, <3>5 DEF Lookup, hits
    <3> QED BY <3>6, <3>7
  <2> QED BY <2>3, <2>4
<1>2. Inv => StoreAgrees
  BY <1>1 DEF StoreAgrees
<1>3. (~raced => Inv) => StoreAgreesUntilRace
  BY <1>2 DEF StoreAgreesUntilRace
<1> QED BY <1>3, InvUntilRace, PTL

-----------------------------------------------------------------------------
(* The refinement.  A call takes effect in KVStore at the step that stores  *)
(* its result: db_write when the slot becomes valid, a read when it reads   *)
(* the file, a delete when the slot becomes invalid, a failed search when   *)
(* find_key reaches the end.                                                *)
LEMMA EffectAtAnswer ==
  ASSUME Inv, NEW p \in Procs, req' = req, req[p] # NULL, NEW v, NEW a,
         kv' = [kv EXCEPT ![req[p].key] = v], result' = [result EXCEPT ![p] = a]
  PROVE  KV!Effect(p, v, a)
BY DEF KV!Effect

(* A read, and a failed delete, leave the map as it is. *)
LEMMA SameValue ==
  ASSUME Typed, NEW k \in Keys
  PROVE  kv = [kv EXCEPT ![k] = kv[k]]
BY DEF Typed

(* Every step of a worker is a step of the map or leaves it alone.          *)
LEMMA KVStep == Inv /\ [Next]_vars => [KV!KVNext]_KV!kvVars
<1> SUFFICES ASSUME Inv, Next PROVE KV!KVNext \/ UNCHANGED <<kv, req, result>>
  BY DEF vars, KV!kvVars
<1>c. /\ NULL \notin Keys /\ NULL \notin Values /\ NULL \notin Inodes /\ NULL \notin Requests
      /\ K # NULL /\ X # NULL
  BY ConstantFacts
<1>p. PICK p \in Procs : (\E r \in Requests : Call(p, r)) \/ Step(p) \/ Return(p)
  BY DEF Next
<1>t. Types /\ CallKept(p) /\ Scanned(p) /\ SlotKept(p)
  BY TypeSplit DEF Inv, Locals, Local
<1>r. req[p] # NULL => /\ req[p].key \in Keys /\ req[p].op \in {"W", "R", "D"}
                       /\ kv = [kv EXCEPT ![req[p].key] = kv[req[p].key]]
  BY RequestFacts, SameValue DEF Inv
<1>e. ASSUME req[p] # NULL, result[p] = NULL, req' = req, NEW v, NEW a,
             kv' = [kv EXCEPT ![req[p].key] = v], result' = [result EXCEPT ![p] = a],
             \/ /\ req[p].op = "W"
                /\ \/ v = req[p].val /\ a = K
                   \/ v = NULL /\ a = X /\ (kv[req[p].key] = NULL \/ IOFaults)
             \/ /\ req[p].op = "R" /\ v = kv[req[p].key]
                /\ a = (IF v = NULL THEN X ELSE v) \/ (IOFaults /\ a = X)
             \/ /\ req[p].op = "D" /\ v = NULL /\ a = (IF kv[req[p].key] = NULL THEN X ELSE K)
      PROVE  KV!KVNext
  <2>1. KV!Effect(p, v, a)
    BY <1>e, EffectAtAnswer
  <2>2. KV!WriteEffect(p) \/ KV!ReadEffect(p) \/ KV!DeleteEffect(p)
    BY <1>e, <2>1 DEF KV!WriteEffect, KV!ReadEffect, KV!DeleteEffect, KV!Pending
  <2> QED BY <2>2 DEF KV!KVNext
<1>1. ASSUME NEW r \in Requests, Call(p, r) PROVE KV!KVNext \/ UNCHANGED <<kv, req, result>>
  <2>1. req[p] = NULL /\ req' = [req EXCEPT ![p] = r] /\ kv' = kv /\ result' = result
    BY <1>t, <1>1 DEF Call, CallKept
  <2>2. KV!Call(p, r) /\ r \in KV!Requests
    BY <1>1, <2>1 DEF KV!Call, KV!Requests, Requests
  <2> QED BY <2>2 DEF KV!KVNext
<1>2. ASSUME Return(p) PROVE KV!KVNext \/ UNCHANGED <<kv, req, result>>
  <2>1. /\ result[p] # NULL /\ req' = [req EXCEPT ![p] = NULL]
        /\ result' = [result EXCEPT ![p] = NULL] /\ kv' = kv
    BY <1>t, <1>2 DEF Return, CallKept
  <2>2. KV!Return(p)
    BY <2>1 DEF KV!Return
  <2> QED BY <2>2 DEF KV!KVNext
<1>3. ASSUME \/ FindStatus(p) \/ FindCompare(p) \/ FreeIndex(p) \/ SetBusy(p) \/ CreateFile(p) \/ WriteFile(p)
            \/ CopyName(p) \/ FileFault(p)
      PROVE KV!KVNext \/ UNCHANGED <<kv, req, result>>
  BY <1>3 DEF FindStatus, FindCompare, FreeIndex, SetBusy, CreateFile, WriteFile, CopyName, FileFault,
              locals, table
<1>4. ASSUME FindFails(p) PROVE KV!KVNext \/ UNCHANGED <<kv, req, result>>
  <2>1. /\ pc[p] = "find" /\ kv' = kv
        /\ result' = result \/ (req[p].op # "W" /\ result' = [result EXCEPT ![p] = X])
        /\ req' = req
    BY <1>4 DEF FindFails, Answer, Goto, GiveUpSlot, locals
  <2>2. req[p] # NULL /\ result[p] = NULL
    BY <1>t, <2>1 DEF CallKept
  <2>3. kv[req[p].key] = NULL
    <3>1. index[p] = MaxKeys
      BY <1>4 DEF FindFails, AtEnd
    <3>2. \A i \in Slots : ~Has(i, req[p].key)
      BY <1>t, <2>1, <3>1, IndexFacts DEF Scanned
    <3>3. ~\E q \in Procs : pc[q] \in Working /\ req[q].key = req[p].key
      BY <2>1, <2>2 DEF Inv, Locals, Local, CallKept, OneCall, Working
    <3> QED BY <1>r, <2>2, <3>2, <3>3 DEF Inv, KeysStored
  <2> QED BY <1>t, <1>c, <1>r, <1>e, <2>1, <2>2, <2>3
             DEF CallKept, Scanned, SlotKept, Writing, Reading, Deleting, Working
<1>5. ASSUME TableFull(p) PROVE KV!KVNext \/ UNCHANGED <<kv, req, result>>
  <2>1. pc[p] = "free" /\ kv' = kv /\ result' = [result EXCEPT ![p] = X] /\ req' = req
    BY <1>5 DEF TableFull, Answer, Goto, GiveUpSlot, locals
  <2>2. req[p] # NULL /\ result[p] = NULL
    BY <1>t, <2>1 DEF CallKept
  <2> QED BY <1>t, <1>c, <1>r, <1>e, <2>1, <2>2
             DEF CallKept, Scanned, SlotKept, Writing, Reading, Deleting, Working
<1>6. ASSUME SetValid(p) PROVE KV!KVNext \/ UNCHANGED <<kv, req, result>>
  <2>1. /\ pc[p] = "valid" /\ kv' = [kv EXCEPT ![req[p].key] = req[p].val]
        /\ result' = [result EXCEPT ![p] = K] /\ req' = req
    BY <1>6 DEF SetValid, Answer, Goto, GiveUpSlot, locals
  <2>2. req[p] # NULL /\ result[p] = NULL
    BY <1>t, <2>1 DEF CallKept
  <2> QED BY <1>t, <1>c, <1>r, <1>e, <2>1, <2>2
             DEF CallKept, Scanned, SlotKept, Writing, Reading, Deleting, Working
<1>7. ASSUME WriteFails(p) PROVE KV!KVNext \/ UNCHANGED <<kv, req, result>>
  <2>1. /\ pc[p] = "fault" /\ kv' = [kv EXCEPT ![req[p].key] = NULL]
        /\ result' = [result EXCEPT ![p] = X] /\ req' = req
    BY <1>7 DEF WriteFails, Answer, Goto, GiveUpSlot, locals
  <2>2. req[p] # NULL /\ result[p] = NULL
    BY <1>t, <2>1 DEF CallKept
  <2> QED BY <1>t, <1>c, <1>r, <1>e, <2>1, <2>2
             DEF CallKept, Scanned, SlotKept, Writing, Reading, Deleting, Working
<1>8. ASSUME OpenFile(p) PROVE KV!KVNext \/ UNCHANGED <<kv, req, result>>
  <2>1. /\ pc[p] = "open" /\ kv' = kv
        /\ \/ (file[index[p]] = NULL \/ IOFaults) /\ result' = [result EXCEPT ![p] = X]
           \/ result' = result
        /\ req' = req
    BY <1>8 DEF OpenFile, Answer, Goto, GiveUpSlot, locals
  <2>2. req[p] # NULL /\ result[p] = NULL
    BY <1>t, <2>1 DEF CallKept
  <2>3. Has(index[p], req[p].key) /\ index[p] \in Slots /\ pc[p] \in Owning
    BY <1>t, <2>1 DEF Scanned, Owning, Reading, Deleting
  <2>4. /\ kv[req[p].key] # NULL
        /\ file[index[p]] # NULL => data[file[index[p]]] = kv[req[p].key]
        /\ pc[p] # "invalid" => file[index[p]] # NULL
    <3>1. \A q \in Procs : pc[q] = "invalid" /\ index[q] = index[p] => q = p
      BY <2>1, <2>3, OwnersApart DEF Owning, Deleting, Acts, Settled
    <3> QED BY <2>3, <3>1 DEF Inv, RecordsAgree, Has
  <2>5. CASE result' = [result EXCEPT ![p] = X] /\ IOFaults
    <3>1. req[p].op = "R" /\ kv' = [kv EXCEPT ![req[p].key] = kv[req[p].key]]
      BY <1>t, <1>r, <2>1, <2>2 DEF CallKept, Reading
    <3>2. KV!Effect(p, kv[req[p].key], X)
      BY <2>1, <2>5, <3>1 DEF KV!Effect
    <3>3. KV!ReadEffect(p)
      BY <2>2, <2>5, <3>1, <3>2 DEF KV!ReadEffect, KV!Pending
    <3> QED BY <3>3 DEF KV!KVNext
  <2> QED BY <1>t, <1>c, <1>r, <1>e, <2>1, <2>2, <2>4, <2>5
             DEF CallKept, Scanned, SlotKept, Writing, Reading, Deleting, Working
<1>9. ASSUME ReadFile(p) PROVE KV!KVNext \/ UNCHANGED <<kv, req, result>>
  <2>1. pc[p] = "read" /\ kv' = kv /\ result' = [result EXCEPT ![p] = data[fd[p]]] /\ req' = req
    BY <1>9 DEF ReadFile, Answer, Goto, GiveUpSlot, locals
  <2>2. req[p] # NULL /\ result[p] = NULL
    BY <1>t, <2>1 DEF CallKept
  <2>3. Has(index[p], req[p].key) /\ index[p] \in Slots /\ pc[p] \in Owning
    BY <1>t, <2>1 DEF Scanned, Owning, Reading, Deleting
  <2>4. /\ kv[req[p].key] # NULL
        /\ file[index[p]] # NULL => data[file[index[p]]] = kv[req[p].key]
        /\ pc[p] # "invalid" => file[index[p]] # NULL
    <3>1. \A q \in Procs : pc[q] = "invalid" /\ index[q] = index[p] => q = p
      BY <2>1, <2>3, OwnersApart DEF Owning, Deleting, Acts, Settled
    <3> QED BY <2>3, <3>1 DEF Inv, RecordsAgree, Has
  <2> QED BY <1>t, <1>c, <1>r, <1>e, <2>1, <2>2, <2>3, <2>4, ZenonT(60)
             DEF CallKept, Scanned, SlotKept, Writing, Reading, Deleting, Working
<1>10. ASSUME CheckBusy(p) PROVE KV!KVNext \/ UNCHANGED <<kv, req, result>>
  <2>1. /\ pc[p] = "check" /\ kv' = kv
        /\ (status[index[p]] = "BUSY" \/ result' = result) /\ req' = req
    BY <1>10 DEF CheckBusy, Answer, Goto, GiveUpSlot, locals
  <2>2. req[p] # NULL /\ result[p] = NULL
    BY <1>t, <2>1 DEF CallKept
  <2>3. Has(index[p], req[p].key) /\ index[p] \in Slots /\ pc[p] \in Owning
    BY <1>t, <2>1 DEF Scanned, Owning, Reading, Deleting
  <2>4. /\ kv[req[p].key] # NULL
        /\ file[index[p]] # NULL => data[file[index[p]]] = kv[req[p].key]
        /\ pc[p] # "invalid" => file[index[p]] # NULL
    <3>1. \A q \in Procs : pc[q] = "invalid" /\ index[q] = index[p] => q = p
      BY <2>1, <2>3, OwnersApart DEF Owning, Deleting, Acts, Settled
    <3> QED BY <2>3, <3>1 DEF Inv, RecordsAgree, Has
  <2>5. result' = result
    BY <2>1, <2>3 DEF Has
  <2> QED BY <1>t, <1>c, <1>r, <1>e, <2>1, <2>2, <2>5
             DEF CallKept, Scanned, SlotKept, Writing, Reading, Deleting, Working
<1>11. ASSUME Unlink(p) PROVE KV!KVNext \/ UNCHANGED <<kv, req, result>>
  <2>1. /\ pc[p] = "unlink" /\ kv' = kv
        /\ (file[index[p]] = NULL \/ result' = result) /\ req' = req
    BY <1>11 DEF Unlink, Answer, Goto, GiveUpSlot, locals
  <2>2. req[p] # NULL /\ result[p] = NULL
    BY <1>t, <2>1 DEF CallKept
  <2>3. Has(index[p], req[p].key) /\ index[p] \in Slots /\ pc[p] \in Owning
    BY <1>t, <2>1 DEF Scanned, Owning, Reading, Deleting
  <2>4. /\ kv[req[p].key] # NULL
        /\ file[index[p]] # NULL => data[file[index[p]]] = kv[req[p].key]
        /\ pc[p] # "invalid" => file[index[p]] # NULL
    <3>1. \A q \in Procs : pc[q] = "invalid" /\ index[q] = index[p] => q = p
      BY <2>1, <2>3, OwnersApart DEF Owning, Deleting, Acts, Settled
    <3> QED BY <2>3, <3>1 DEF Inv, RecordsAgree, Has
  <2> QED BY <1>t, <1>c, <1>r, <1>e, <2>1, <2>2, <2>3, <2>4
             DEF CallKept, Scanned, SlotKept, Writing, Reading, Deleting, Working
<1>12. ASSUME SetInvalid(p) PROVE KV!KVNext \/ UNCHANGED <<kv, req, result>>
  <2>1. /\ pc[p] = "invalid" /\ kv' = [kv EXCEPT ![req[p].key] = NULL]
        /\ result' = [result EXCEPT ![p] = K] /\ req' = req
    BY <1>12 DEF SetInvalid, Answer, Goto, GiveUpSlot, locals
  <2>2. req[p] # NULL /\ result[p] = NULL
    BY <1>t, <2>1 DEF CallKept
  <2>3. Has(index[p], req[p].key) /\ index[p] \in Slots /\ pc[p] \in Owning
    BY <1>t, <2>1 DEF Scanned, Owning, Reading, Deleting
  <2>4. /\ kv[req[p].key] # NULL
        /\ file[index[p]] # NULL => data[file[index[p]]] = kv[req[p].key]
        /\ pc[p] # "invalid" => file[index[p]] # NULL
    <3>1. \A q \in Procs : pc[q] = "invalid" /\ index[q] = index[p] => q = p
      BY <2>1, <2>3, OwnersApart DEF Owning, Deleting, Acts, Settled
    <3> QED BY <2>3, <3>1 DEF Inv, RecordsAgree, Has
  <2> QED BY <1>t, <1>c, <1>r, <1>e, <2>1, <2>2, <2>3, <2>4
             DEF CallKept, Scanned, SlotKept, Writing, Reading, Deleting, Working
<1> QED
  BY <1>p, <1>1, <1>2, <1>3, <1>4, <1>5, <1>6, <1>7, <1>8, <1>9, <1>10, <1>11, <1>12
     DEF Step, Find, Write, Read, Delete

-----------------------------------------------------------------------------
(* One new key at a time: no slot is taken between a search and its mark.   *)

(* A step of one call leaves the others' places and arguments alone. *)
LEMMA OthersStay ==
  ASSUME Typed, NEW p \in Procs, (\E r \in Requests : Call(p, r)) \/ Step(p) \/ Return(p),
         NEW q \in Procs, q # p
  PROVE  pc'[q] = pc[q] /\ req'[q] = req[q] /\ index'[q] = index[q]
<1>t. Types
  BY TypeSplit
<1>1. /\ \E v : pc' = [pc EXCEPT ![p] = v] \/ pc' = pc
      /\ \E r : req' = [req EXCEPT ![p] = r] \/ req' = req
      /\ \E n : index' = [index EXCEPT ![p] = n] \/ index' = index
  <2>1. CASE Step(p)
    <3>1. req' = req
      BY <2>1 DEF Step, Find, Write, Read, Delete, FindStatus, FindCompare, FindFails, FreeIndex, TableFull,
                  SetBusy, CreateFile, WriteFile, CopyName, SetValid, FileFault, WriteFails, OpenFile,
                  ReadFile, CheckBusy, Unlink, SetInvalid, locals
    <3>2. \E n : index' = [index EXCEPT ![p] = n] \/ index' = index
      BY <2>1 DEF Step, Find, Write, Read, Delete, FindStatus, FindCompare, FindFails, FreeIndex, TableFull,
                  SetBusy, CreateFile, WriteFile, CopyName, SetValid, FileFault, WriteFails, OpenFile,
                  ReadFile, CheckBusy, Unlink, SetInvalid, locals
    <3>3. \E v : pc' = [pc EXCEPT ![p] = v] \/ pc' = pc
      BY <2>1 DEF Step, Find, Write, Read, Delete, FindStatus, FindCompare, FindFails, FreeIndex, TableFull,
                  SetBusy, CreateFile, WriteFile, CopyName, SetValid, FileFault, ShortWriteSeen, WriteFails,
                  OpenFile, ReadFile, CheckBusy, Unlink, SetInvalid, Goto, Found, Answer
    <3> QED BY <3>1, <3>2, <3>3
  <2>2. CASE ~Step(p)
    BY <2>2 DEF Call, Return, Goto
  <2> QED BY <2>1, <2>2
<1>3. pc'[q] = pc[q]
  BY <1>t, <1>1 DEF Types
<1>4. req'[q] = req[q]
  BY <1>t, <1>1 DEF Types
<1>5. index'[q] = index[q]
  BY <1>t, <1>1 DEF Types
<1> QED BY <1>3, <1>4, <1>5

(* Nobody takes a slot that a write has found free or its own. *)
LEMMA FoundStaysNext ==
  ASSUME NewInv, NEW p \in Procs, (\E r \in Requests : Call(p, r)) \/ Step(p) \/ Return(p)
  PROVE  FoundStays'
<1>i. Inv /\ Types /\ OneNewKey /\ FoundStays
  BY TypeSplit DEF NewInv, Inv
<1> SUFFICES ASSUME NEW q \in Procs, pc'[q] = "busy" PROVE StillFound(q)'
  BY DEF FoundStays
<1>1. CASE q = p
  <2>1. FindCompare(p) \/ FreeIndex(p)
    BY <1>i, <1>1 DEF Step, Find, Write, Read, Delete, FindStatus, FindFails, TableFull, SetBusy,
          CreateFile, WriteFile, CopyName, SetValid, FileFault, ShortWriteSeen, WriteFails, OpenFile,
          ReadFile, CheckBusy, Unlink, SetInvalid, Goto, Answer, Call, Return, Types
  <2>2. status' = status /\ record_name' = record_name /\ req' = req
    BY <2>1 DEF FindCompare, FreeIndex, table
  <2>3. CASE FreeIndex(p)
    <3>1. status[index[p]] = "INVALID" /\ index' = index
      BY <1>i, <1>1, <2>3 DEF FreeIndex, FreeSlot, Types
    <3> QED BY <1>1, <2>2, <3>1 DEF StillFound
  <2>4. CASE FindCompare(p)
    <3>1. pc[p] = "compare" /\ record_name[index[p]] = req[p].key /\ index' = index
      BY <1>i, <1>1, <2>4 DEF FindCompare, Goto, Types
    <3>2. status[index[p]] = "VALID"
      BY <1>i, <3>1 DEF Inv, Locals, Local, Scanned
    <3> QED BY <1>1, <2>2, <3>1, <3>2 DEF StillFound
  <2> QED BY <2>1, <2>3, <2>4
<1>2. CASE q # p
  <2>1. pc[q] = "busy" /\ req'[q] = req[q] /\ index'[q] = index[q]
    BY <1>i, <1>2, OthersStay DEF Inv
  <2>2. StillFound(q) /\ Local(q) /\ Local(p)
    BY <1>i, <2>1 DEF FoundStays, Inv, Locals
  <2>3. CASE status' = status /\ record_name' = record_name
    BY <2>1, <2>2, <2>3 DEF StillFound
  <2>4. CASE SetBusy(p) \/ CopyName(p) \/ SetValid(p) \/ WriteFails(p) \/ SetInvalid(p)
    <3>1. /\ pc[p] \in Working \cup {"busy", "invalid"} /\ Acts(p)
          /\ pc[p] # "busy" => pc[p] \in Working \/ pc[p] = "invalid"
      BY <1>i, <2>4 DEF SetBusy, CopyName, SetValid, WriteFails, SetInvalid, Acts, Owning, Working,
                        Deleting, FoundStays
    <3>2. /\ status'[index[q]] = status[index[q]] \/ index[p] = index[q]
          /\ record_name'[index[q]] = record_name[index[q]] \/ index[p] = index[q]
      <4>1. index[q] \in Slots
        BY <2>1, <2>2 DEF Local, Scanned, Owning
      <4> QED BY <1>i, <2>4, <4>1 DEF SetBusy, CopyName, SetValid, WriteFails, GiveUpSlot, SetInvalid, Types
    <3>3. index[p] # index[q]
      <4> SUFFICES ASSUME index[p] = index[q] PROVE FALSE
        OBVIOUS
      <4>1. ~Settled(q)
        BY <1>i, <1>2, <3>1, OwnersApart
      <4>2. ~Has(index[q], req[q].key)
        BY <2>1, <4>1 DEF Settled, Owning
      <4>3. status[index[p]] = "INVALID" /\ kv[req[q].key] = NULL
        BY <2>1, <2>2, <4>2 DEF StillFound, Has, Local, Scanned
      <4>4. pc[p] = "busy" /\ kv[req[p].key] = NULL
        BY <2>2, <3>1, <4>3 DEF Local, Scanned, SlotKept, Has, Deleting
      <4>5. AddsKey(p) /\ AddsKey(q)
        BY <2>1, <2>2, <4>3, <4>4 DEF AddsKey, Local, CallKept, Writing
      <4> QED BY <1>i, <1>2, <4>5 DEF OneNewKey
    <3> QED BY <2>1, <2>2, <3>2, <3>3 DEF StillFound
  <2>5. \/ status' = status /\ record_name' = record_name
        \/ SetBusy(p) \/ CopyName(p) \/ SetValid(p) \/ WriteFails(p) \/ SetInvalid(p)
    BY DEF Step, Find, Write, Read, Delete, FindStatus, FindCompare, FindFails, FreeIndex, TableFull,
           CreateFile, WriteFile, FileFault, OpenFile, ReadFile, CheckBusy, Unlink, Call, Return, table
  <2> QED BY <2>3, <2>4, <2>5
<1> QED BY <1>1, <1>2

(* No second writer of a new key comes in: a key that leaves the map leaves *)
(* it with the answer of its call.                                          *)
LEMMA OneNewKeyNext ==
  ASSUME Discipline = "one_new_key", NewInv, NEW p \in Procs,
         (\E r \in Requests : Call(p, r)) \/ Step(p) \/ Return(p)
  PROVE  OneNewKey'
<1>i. Inv /\ Types /\ OneNewKey /\ Local(p)
  BY TypeSplit DEF NewInv, Inv, Locals
<1>q. ASSUME NEW q \in Procs, q # p, AddsKey(q)',
             \A k \in Keys : kv'[k] = kv[k] \/ (req[p] # NULL /\ k = req[p].key)
      PROVE  AddsKey(q)
  <2>1. pc'[q] = pc[q] /\ req'[q] = req[q] /\ req[q] # NULL
    BY <1>i, <1>q, OthersStay DEF Inv, AddsKey
  <2>2. req[q].key \in Keys
    BY <1>i, <2>1, RequestFacts DEF Inv
  <2>3. kv'[req[q].key] = kv[req[q].key]
    BY <1>i, <1>q, <2>1, <2>2 DEF Inv, OneCall
  <2> QED BY <1>q, <2>1, <2>3 DEF AddsKey
<1>1. ASSUME NEW r \in Requests, Call(p, r) PROVE OneNewKey'
  <2>1. req' = [req EXCEPT ![p] = r] /\ kv' = kv
    BY <1>1 DEF Call
  <2>2. r.op = "W" /\ kv[r.key] = NULL => NewKeyWriters = {}
    BY <1>1 DEF Call, Admitted
  <2>3. AddsKey(p)' => \A q \in Procs : ~AddsKey(q)
    BY <1>i, <2>1, <2>2 DEF AddsKey, NewKeyWriters, Types
  <2>4. \A q \in Procs : q # p /\ AddsKey(q)' => AddsKey(q)
    BY <1>q, <2>1
  <2> QED BY <1>i, <2>3, <2>4 DEF OneNewKey
<1>2. ASSUME Return(p) PROVE OneNewKey'
  <2>1. req'[p] = NULL /\ kv' = kv
    BY <1>i, <1>2 DEF Return, Types
  <2>2. ~AddsKey(p)'
    BY <2>1 DEF AddsKey
  <2>3. \A q \in Procs : q # p /\ AddsKey(q)' => AddsKey(q)
    BY <1>q, <2>1
  <2> QED BY <1>i, <2>2, <2>3 DEF OneNewKey
<1>3. ASSUME Step(p) PROVE OneNewKey'
  <2>1. req' = req /\ pc[p] # "done" /\ pc[p] # "idle"
    BY <1>3 DEF Step, Find, Write, Read, Delete, FindStatus, FindCompare, FindFails, FreeIndex, TableFull,
                SetBusy, CreateFile, WriteFile, CopyName, SetValid, FileFault, WriteFails, OpenFile,
                ReadFile, CheckBusy, Unlink, SetInvalid, locals
  <2>2. req[p] # NULL /\ req[p].key \in Keys
    BY <1>i, <2>1, RequestFacts DEF Local, CallKept, Inv
  <2>3. kv' = kv \/ (SetValid(p) \/ WriteFails(p) \/ SetInvalid(p))
    BY <1>3 DEF Step, Find, Write, Read, Delete, FindStatus, FindCompare, FindFails, FreeIndex, TableFull,
                SetBusy, CreateFile, WriteFile, CopyName, FileFault, OpenFile, ReadFile, CheckBusy, Unlink
  <2>4. /\ \A k \in Keys : kv'[k] = kv[k] \/ k = req[p].key
        /\ kv'[req[p].key] = kv[req[p].key] \/ pc'[p] = "done"
    BY <1>i, <2>2, <2>3 DEF SetValid, WriteFails, SetInvalid, Answer, Goto, Types
  <2>5. AddsKey(p)' => AddsKey(p)
    BY <2>1, <2>2, <2>4 DEF AddsKey
  <2>6. \A q \in Procs : q # p /\ AddsKey(q)' => AddsKey(q)
    BY <1>q, <2>2, <2>4
  <2> QED BY <1>i, <2>5, <2>6 DEF OneNewKey
<1> QED BY <1>1, <1>2, <1>3

(* With one new key at a time there is never a race. *)
LEMMA NewNext == Discipline = "one_new_key" /\ NewInv /\ [Next]_vars => NewInv'
<1> SUFFICES ASSUME Discipline = "one_new_key", NewInv, [Next]_vars PROVE NewInv'
  OBVIOUS
<1>1. CASE UNCHANGED vars
  <2>1. Inv'
    BY <1>1, InvNext DEF NewInv, OneCallDiscipline, vars
  <2>2. OneNewKey' /\ FoundStays' /\ raced' = FALSE
    BY <1>1, Zenon DEF NewInv, vars, OneNewKey, AddsKey, FoundStays, StillFound
  <2> QED BY <2>1, <2>2 DEF NewInv
<1>2. CASE Next
  <2>p. PICK p \in Procs : (\E r \in Requests : Call(p, r)) \/ Step(p) \/ Return(p)
    BY <1>2 DEF Next
  <2>1. raced' = FALSE
    <3>1. CASE SetBusy(p)
      BY <3>1 DEF SetBusy, NewInv, FoundStays
    <3>2. CASE ~SetBusy(p)
      BY <2>p, <3>2 DEF NewInv, Call, Return, Step, Find, Write, Read, Delete, FindStatus, FindCompare,
           FindFails, FreeIndex, TableFull, CreateFile, WriteFile, CopyName, SetValid, FileFault,
           WriteFails, OpenFile, ReadFile, CheckBusy, Unlink, SetInvalid, table
    <3> QED BY <3>1, <3>2
  <2>2. Inv'
    BY <2>1, InvNext DEF NewInv, OneCallDiscipline
  <2> QED BY <2>p, <2>1, <2>2, FoundStaysNext, OneNewKeyNext DEF NewInv
<1> QED BY <1>1, <1>2

(* So the invariant holds in every state the server can reach. *)
LEMMA InvAlways == Discipline = "one_new_key" => (Spec => []NewInv)
<1> SUFFICES ASSUME Discipline = "one_new_key" PROVE Spec => []NewInv
  OBVIOUS
<1>1. Init => NewInv
  <2>1. Init => OneNewKey /\ FoundStays /\ raced = FALSE
    BY DEF Init, OneNewKey, AddsKey, FoundStays
  <2> QED BY <2>1, InvInit DEF NewInv
<1>2. NewInv /\ [Next]_vars => NewInv'
  BY NewNext
<1> QED BY <1>1, <1>2, PTL DEF Spec

(* TypeOK: find_key and free_index return an index of the table, no write   *)
(* or read uses a descriptor that is not open, and what db_read returns is  *)
(* a value some db_write was given, one new key being written at a time.    *)
THEOREM TypeCorrect == Discipline = "one_new_key" => (Spec => []TypeOK)
<1>1. NewInv => TypeOK
  <2>1. NewInv => Typed /\ raced \in BOOLEAN
    BY DEF NewInv, Inv
  <2> QED BY <2>1, Zenon DEF Typed, TypeOK
<1> QED BY <1>1, InvAlways, PTL

(* SlotExclusive: no lock guards db_table, and still, one new key being     *)
(* written at a time, two db_write calls never fill one slot together.      *)
THEOREM Exclusive == Discipline = "one_new_key" => (Spec => []SlotExclusive)
<1>1. NewInv => SlotExclusive
  BY DEF NewInv, Inv
<1> QED BY <1>1, InvAlways, PTL

(* StoreAgrees: then there is no race, and what the table and the files     *)
(* hold is at all times what the answered calls left.                       *)
THEOREM StoreKept == Discipline = "one_new_key" => (Spec => []StoreAgrees)
<1> SUFFICES ASSUME Discipline = "one_new_key" PROVE Spec => []StoreAgrees
  OBVIOUS
<1>1. Spec => []StoreAgreesUntilRace
  BY StoreCorrect DEF OneCallDiscipline
<1>2. NewInv /\ StoreAgreesUntilRace => StoreAgrees
  BY Zenon DEF NewInv, StoreAgreesUntilRace
<1> QED BY <1>1, <1>2, InvAlways, PTL

(* ImplementsKVStore: the unlocked table with its files behaves as one map, *)
(* each call taking effect at one instant between its start and its answer. *)
THEOREM DatabaseRefinesMap == Discipline = "one_new_key" => (Spec => ImplementsKVStore)
<1>1. Init => KV!KVInit
  BY DEF Init, KV!KVInit
<1>2. NewInv /\ [Next]_vars => [KV!KVNext]_KV!kvVars
  BY KVStep DEF NewInv
<1> QED
  BY <1>1, <1>2, InvAlways, PTL DEF Spec, ImplementsKVStore, KV!KVSpec
=============================================================================
