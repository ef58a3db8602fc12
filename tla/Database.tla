------------------------------ MODULE Database ------------------------------
(* The record table of project2/database.c and its files, called by the     *)
(* worker threads without any lock.  Every load or store of db_table and    *)
(* every system call is a step of its own, so calls interleave as they do   *)
(* in the server.                                                           *)
EXTENDS Integers, Sequences, FiniteSets

CONSTANTS Procs,       \* worker threads
          Keys,        \* record names
          Bytes,       \* what files are made of
          Values,      \* data: sequences of bytes, so that two can be mixed
          MaxKeys,     \* MAX_KEYS, the size of db_table
          IOFaults,    \* may open and write fail?
          Discipline,  \* what the callers guarantee, see Admitted
          K, X,        \* the answers "done" and "failed" handle_work sends on
          NULL

Slots == 0..(MaxKeys - 1)
\* Inodes of the data files: enough for every slot and every open descriptor.
Inodes == 1..(MaxKeys + Cardinality(Procs))
Requests == [op : {"W"}, key : Keys, val : Values] \cup [op : {"R", "D"}, key : Keys]

ASSUME DatabaseAssumption ==
  /\ MaxKeys \in Nat \ {0}
  /\ IsFiniteSet(Procs)
  /\ IOFaults \in BOOLEAN
  /\ Discipline \in {"one_new_key", "one_call_per_key", "none"}
  /\ Values \subseteq Seq(Bytes)
  /\ NULL \notin Keys /\ NULL \notin Values /\ NULL \notin Inodes
  /\ NULL \notin Requests /\ NULL \notin {K, X}

VARIABLES
  status, record_name,   \* db_table
  file,                  \* inode of /tmp/data.<i>, or NULL
  data,                  \* contents of every inode
  pc, req, index, fd,    \* each call's position, arguments, table index and open inode
  result,                \* what the call returned to handle_work
  kv,                    \* history: the map the answered calls add up to
  raced                  \* history: has a write taken a slot that another call had
                         \* taken since the search, see SetBusy?

vars == <<status, record_name, file, data, pc, req, index, fd, result, kv, raced>>
table == <<status, record_name, raced>>
files == <<file, data>>
locals == <<req, index, fd>>

Init == /\ status = [i \in Slots |-> "INVALID"]
        /\ record_name = [i \in Slots |-> NULL]
        /\ file = [i \in Slots |-> NULL]
        /\ data = [n \in Inodes |-> <<>>]
        /\ pc = [p \in Procs |-> "idle"]
        /\ req = [p \in Procs |-> NULL]
        /\ index = [p \in Procs |-> 0]
        /\ fd = [p \in Procs |-> NULL]
        /\ result = [p \in Procs |-> NULL]
        /\ kv = [k \in Keys |-> NULL]
        /\ raced = FALSE

InFlight(k) == {p \in Procs : req[p] # NULL /\ req[p].key = k}
NewKeyWriters == {p \in Procs : req[p] # NULL /\ req[p].op = "W" /\ kv[req[p].key] = NULL}

(* Which call may start now.  "one_call_per_key": what dbtest's table of    *)
(* busy flags guarantees.  "one_new_key": that, and at most one write of a  *)
(* key the table does not hold.  "none": independent clients.               *)
Admitted(r) ==
  CASE Discipline = "one_call_per_key" -> InFlight(r.key) = {}
    [] Discipline = "one_new_key" ->
         /\ InFlight(r.key) = {}
         /\ r.op = "W" /\ kv[r.key] = NULL => NewKeyWriters = {}
    [] Discipline = "none" -> TRUE

Goto(p, l) == pc' = [pc EXCEPT ![p] = l]
Answer(p, a) == /\ result' = [result EXCEPT ![p] = a]
                /\ Goto(p, "done")
                /\ fd' = [fd EXCEPT ![p] = NULL]

Call(p, r) ==
  /\ pc[p] = "idle"
  /\ Admitted(r)
  /\ req' = [req EXCEPT ![p] = r]
  /\ index' = [index EXCEPT ![p] = 0]
  /\ Goto(p, "find")
  /\ UNCHANGED <<table, files, fd, result, kv>>

Return(p) ==
  /\ pc[p] = "done"
  /\ Goto(p, "idle")
  /\ req' = [req EXCEPT ![p] = NULL]
  /\ result' = [result EXCEPT ![p] = NULL]
  /\ index' = [index EXCEPT ![p] = 0]
  /\ UNCHANGED <<table, files, fd, kv>>
----------------------------------------------------------------------------
(* find_key: first the status of slot index[p], then its name. *)

AtEnd(p) == index[p] = MaxKeys

FindStatus(p) ==
  /\ pc[p] = "find" /\ ~AtEnd(p)
  /\ IF status[index[p]] = "VALID"
       THEN Goto(p, "compare") /\ UNCHANGED index
       ELSE index' = [index EXCEPT ![p] = @ + 1] /\ UNCHANGED pc
  /\ UNCHANGED <<table, files, req, fd, result, kv>>

\* Where each operation goes on once its key has been found.
Found(p) == Goto(p, CASE req[p].op = "W" -> "busy" [] req[p].op = "R" -> "open"
                      [] req[p].op = "D" -> "check")

FindCompare(p) ==
  /\ pc[p] = "compare"
  /\ IF record_name[index[p]] = req[p].key
       THEN Found(p) /\ UNCHANGED index
       ELSE index' = [index EXCEPT ![p] = @ + 1] /\ Goto(p, "find")
  /\ UNCHANGED <<table, files, req, fd, result, kv>>

\* No record: a write looks for a free slot, a read or delete fails.
FindFails(p) ==
  /\ pc[p] = "find" /\ AtEnd(p)
  /\ index' = [index EXCEPT ![p] = 0]
  /\ IF req[p].op = "W" THEN Goto(p, "free") /\ UNCHANGED <<fd, result>> ELSE Answer(p, X)
  /\ UNCHANGED <<table, files, req, kv>>
----------------------------------------------------------------------------
(* db_write *)

\* Mutant: any slot that is not busy is taken for free.
NotBusySlot(i) == status[i] # "BUSY"
FreeSlot(i) == status[i] = "INVALID"

FreeIndex(p) ==
  /\ pc[p] = "free" /\ ~AtEnd(p)
  /\ IF FreeSlot(index[p])
       THEN Goto(p, "busy") /\ UNCHANGED index
       ELSE index' = [index EXCEPT ![p] = @ + 1] /\ UNCHANGED pc
  /\ UNCHANGED <<table, files, req, fd, result, kv>>

TableFull(p) ==
  /\ pc[p] = "free" /\ AtEnd(p)
  /\ Answer(p, X)
  /\ UNCHANGED <<table, files, req, index, kv>>

\* Is the slot still as find_key or free_index found it, free or the key's own?
StillFound(p) ==
  LET i == index[p] IN
  status[i] = "INVALID" \/ (status[i] = "VALID" /\ record_name[i] = req[p].key)

SetBusy(p) ==
  /\ pc[p] = "busy"
  /\ status' = [status EXCEPT ![index[p]] = "BUSY"]
  /\ raced' = (raced \/ ~StillFound(p))
  /\ Goto(p, "create")
  /\ UNCHANGED <<record_name, files, locals, result, kv>>

FreeInode == CHOOSE n \in Inodes : \A i \in Slots, p \in Procs : file[i] # n /\ fd[p] # n

\* open with O_CREAT | O_TRUNC, which truncates a file another call has open.
\* Mutant: O_TRUNC left out.
CreateOnly(n) == UNCHANGED data
Truncate(n) == data' = [data EXCEPT ![n] = <<>>]

CreateFile(p) ==
  /\ pc[p] = "create"
  /\ LET n == IF file[index[p]] = NULL THEN FreeInode ELSE file[index[p]] IN
     /\ file' = [file EXCEPT ![index[p]] = n]
     /\ fd' = [fd EXCEPT ![p] = n]
     /\ Truncate(n)
  /\ Goto(p, "write")
  /\ UNCHANGED <<table, req, index, result, kv>>

\* write at offset 0: a shorter value leaves the rest of a longer one in place.
Overwrite(old, new) == new \o SubSeq(old, Len(new) + 1, Len(old))

WriteFile(p) ==
  /\ pc[p] = "write"
  /\ data' = [data EXCEPT ![fd[p]] = Overwrite(@, req[p].val)]
  /\ fd' = [fd EXCEPT ![p] = NULL]
  /\ Goto(p, "name")
  /\ UNCHANGED <<table, file, req, index, result, kv>>

\* strncpy: between its first and its last byte the name is no key's name.
CopyName(p) ==
  /\ \/ pc[p] = "name" /\ record_name' = [record_name EXCEPT ![index[p]] = NULL] /\ Goto(p, "named")
     \/ pc[p] = "named" /\ record_name' = [record_name EXCEPT ![index[p]] = req[p].key] /\ Goto(p, "valid")
  /\ UNCHANGED <<status, raced, files, locals, result, kv>>

SetValid(p) ==
  /\ pc[p] = "valid"
  /\ status' = [status EXCEPT ![index[p]] = "VALID"]
  /\ kv' = [kv EXCEPT ![req[p].key] = req[p].val]
  /\ Answer(p, K)
  /\ UNCHANGED <<record_name, raced, files, req, index>>

\* Mutant: write's return value is not compared with len.
ShortWriteIgnored(p) == Goto(p, "name")
ShortWriteSeen(p) == Goto(p, "fault")

\* open fails, or write stores only a prefix: the slot is given up.
FileFault(p) ==
  /\ IOFaults
  /\ \/ pc[p] = "create" /\ UNCHANGED data /\ Goto(p, "fault")
     \/ /\ pc[p] = "write"
        /\ \E n \in 0..(Len(req[p].val) - 1) :
             data' = [data EXCEPT ![fd[p]] = Overwrite(@, SubSeq(req[p].val, 1, n))]
        /\ ShortWriteSeen(p)
  /\ fd' = [fd EXCEPT ![p] = NULL]
  /\ UNCHANGED <<table, file, req, index, result, kv>>

\* Mutant: the slot is left busy for ever.
SlotLeaks(p) == UNCHANGED status
GiveUpSlot(p) == status' = [status EXCEPT ![index[p]] = "INVALID"]

WriteFails(p) ==
  /\ pc[p] = "fault"
  /\ GiveUpSlot(p)
  /\ kv' = [kv EXCEPT ![req[p].key] = NULL]
  /\ Answer(p, X)
  /\ UNCHANGED <<record_name, raced, files, req, index>>
----------------------------------------------------------------------------
(* db_read *)

OpenFile(p) ==
  /\ pc[p] = "open"
  /\ \/ /\ file[index[p]] = NULL \/ IOFaults   \* open fails
        /\ Answer(p, X)
     \/ /\ file[index[p]] # NULL
        /\ fd' = [fd EXCEPT ![p] = file[index[p]]]
        /\ Goto(p, "read")
        /\ UNCHANGED result
  /\ UNCHANGED <<table, files, req, index, kv>>

ReadFile(p) ==
  /\ pc[p] = "read"
  /\ Answer(p, data[fd[p]])
  /\ UNCHANGED <<table, files, req, index, kv>>
----------------------------------------------------------------------------
(* db_delete *)

\* Mutant: the slot is given up before its file is unlinked.
InvalidateEarly(p) ==
  /\ pc[p] = "check"
  /\ IF status[index[p]] = "BUSY" THEN Answer(p, X) /\ UNCHANGED status
     ELSE /\ Goto(p, "unlink") /\ UNCHANGED <<fd, result>>
          /\ status' = [status EXCEPT ![index[p]] = "INVALID"]
  /\ UNCHANGED <<record_name, raced, files, req, index, kv>>

CheckBusy(p) ==
  /\ pc[p] = "check"
  /\ IF status[index[p]] = "BUSY" THEN Answer(p, X) ELSE Goto(p, "unlink") /\ UNCHANGED <<fd, result>>
  /\ UNCHANGED <<table, files, req, index, kv>>

Unlink(p) ==
  /\ pc[p] = "unlink"
  /\ IF file[index[p]] = NULL \* unlink fails
       THEN Answer(p, X) /\ UNCHANGED file
       ELSE /\ file' = [file EXCEPT ![index[p]] = NULL]
            /\ Goto(p, "invalid")
            /\ UNCHANGED <<fd, result>>
  /\ UNCHANGED <<table, data, req, index, kv>>

SetInvalid(p) ==
  /\ pc[p] = "invalid"
  /\ status' = [status EXCEPT ![index[p]] = "INVALID"]
  /\ kv' = [kv EXCEPT ![req[p].key] = NULL]
  /\ Answer(p, K)
  /\ UNCHANGED <<record_name, raced, files, req, index>>
----------------------------------------------------------------------------
Find(p) == FindStatus(p) \/ FindCompare(p) \/ FindFails(p)
Write(p) == \/ FreeIndex(p) \/ TableFull(p) \/ SetBusy(p) \/ CreateFile(p) \/ WriteFile(p)
            \/ CopyName(p) \/ SetValid(p) \/ FileFault(p) \/ WriteFails(p)
Read(p) == OpenFile(p) \/ ReadFile(p)
Delete(p) == CheckBusy(p) \/ Unlink(p) \/ SetInvalid(p)
Step(p) == Find(p) \/ Write(p) \/ Read(p) \/ Delete(p)

Next == \E p \in Procs : (\E r \in Requests : Call(p, r)) \/ Step(p) \/ Return(p)

Spec == Init /\ [][Next]_vars
----------------------------------------------------------------------------
Working == {"create", "write", "name", "named", "valid", "fault"}
Positions == Working \cup {"idle", "done", "find", "compare", "free", "busy", "open", "read",
                          "check", "unlink", "invalid"}

TypeOK ==
  /\ pc \in [Procs -> Positions]
  /\ status \in [Slots -> {"INVALID", "BUSY", "VALID"}]
  /\ record_name \in [Slots -> Keys \cup {NULL}]
  /\ file \in [Slots -> Inodes \cup {NULL}]
  /\ data \in [Inodes -> Seq(Bytes)]
  /\ result \in [Procs -> Values \cup {K, X, NULL}]
  /\ req \in [Procs -> Requests \cup {NULL}]
  /\ index \in [Procs -> 0..MaxKeys]
  /\ fd \in [Procs -> Inodes \cup {NULL}]
  /\ kv \in [Keys -> Values \cup {NULL}]
  /\ raced \in BOOLEAN

\* The value db_read would return for k if nothing interfered.
Lookup(k) ==
  LET hits == {i \in Slots : status[i] = "VALID" /\ record_name[i] = k}
      i == CHOOSE i \in hits : \A j \in hits : i <= j
  IN IF hits = {} \/ file[i] = NULL THEN NULL ELSE data[file[i]]

(* An acknowledged write stays readable, whole and unmixed, until the next  *)
(* write or delete of its key, and a deleted key stays deleted: for a key   *)
(* no call is working on, the table and the files hold what the answered    *)
(* calls add up to.  (db_write, db_delete; what dbtest.c:321-326 checks.)   *)
StoreAgrees == \A k \in Keys : InFlight(k) = {} => Lookup(k) = kv[k]

(* With dbtest's guarantee alone, one call per key, the window between the  *)
(* search of a slot (database.c:46) and its mark (51) is the only way to    *)
(* lose a record: until a write takes a slot another call has taken in      *)
(* between, acknowledged writes stay readable and deletions final.          *)
StoreAgreesUntilRace == ~raced => StoreAgrees

(* A slot is busy only while some db_write works on it: a write that fails  *)
(* gives its slot back, so the table never silts up with dead entries.      *)
BusyHasWriter ==
  \A i \in Slots : status[i] = "BUSY" =>
    \E p \in Procs : index[p] = i /\ pc[p] \in Working

(* Two calls never write the same slot at the same time. *)
SlotExclusive ==
  \A p, q \in Procs : p # q /\ index[p] = index[q] => ~({pc[p], pc[q]} \subseteq Working)

(* The table and its files implement the key-value map. *)
KV == INSTANCE KVStore WITH store <- kv, request <- req, answer <- result
ImplementsKVStore == KV!KVSpec
=============================================================================
