------------------------------- MODULE DbTest -------------------------------
(* The load test of project2/dbtest.c: threads that send random requests    *)
(* and remember, in a shared table of entries with busy flags, what each    *)
(* record should hold, so that a read can be compared with the last write.  *)
(* The server is the map of KVStore.  One step per section under mutex m    *)
(* and per access outside it.                                               *)
EXTENDS Integers, FiniteSets

CONSTANTS Threads,   \* load threads
          Main,      \* main, which deletes what is left
          Names,     \* what randstr makes: never the same name twice
          Values,    \* lengths and checksums of data
          Rounds,    \* count / nthreads, the requests of one thread
          TableSize, \* 150
          Spread,    \* 100, the range of the random number in get_op
          Max,       \* args->max
          IOFaults, K, X, NULL   \* see KVStore

\* get_op's thresholds.
Lo == (Max * 15) \div 100
Hi == (Max * 85) \div 100

(* With lo = 0 the first thread reads, and waits for a record for ever.     *)
(* The last conjunct is what keeps get_free inside the table.               *)
ASSUME DbTestAssumption ==
  /\ Rounds \in Nat /\ TableSize \in Nat /\ Spread \in Nat \ {0} /\ Max \in Nat
  /\ Lo \in Nat \ {0} /\ Hi >= Lo
  /\ IsFiniteSet(Threads)
  /\ Main \notin Threads
  /\ NULL \notin Names \cup Values
  /\ Lo + Spread - 2 + Cardinality(Threads) <= TableSize

VARIABLES
  store, request, answer,  \* the server, see KVStore
  e_name, e_value, e_busy, \* table[150] and, at TableSize, the memory after it
  n_objects,
  pc, num, name, value,    \* each thread's position and locals
  left,                    \* requests it has still to make
  scan,                    \* main's index in its final loop
  alarmed, refused         \* history: names a read complained of, names answered X

vars == <<store, request, answer, e_name, e_value, e_busy, n_objects, pc, num, name, value, left, scan, alarmed, refused>>
table == <<e_name, e_value, e_busy>>
server == <<store, request, answer>>
locals == <<num, name, value, left>>
history == <<alarmed, refused>>

\* The threads of dbtest, each a client of the server.
Clients == Threads \cup {Main}
KV == INSTANCE KVStore WITH Procs <- Clients, Keys <- Names

Entries == 0..TableSize

Init == /\ KV!KVInit
        /\ e_name = [i \in Entries |-> NULL]
        /\ e_value = [i \in Entries |-> NULL]
        /\ e_busy = [i \in Entries |-> 0]
        /\ n_objects = 0
        /\ pc = [t \in Threads |-> "op"]
        /\ num = [t \in Threads |-> 0]
        /\ name = [t \in Threads |-> NULL]
        /\ value = [t \in Threads |-> NULL]
        /\ left = [t \in Threads |-> Rounds]
        /\ scan = 0
        /\ alarmed = {} /\ refused = {}

Goto(t, l) == pc' = [pc EXCEPT ![t] = l]
----------------------------------------------------------------------------
(* get_op: 'W' below lo, from there 'W' with a chance that falls to nothing *)
(* at lo + 99.  The branch for hi assigns a value that the next one always  *)
(* replaces, as hi >= lo, so 'D' is never returned.                         *)
\* Mutant: new objects are written up to the upper threshold and beyond.
BelowHi(nn) == nn < Hi + Spread
Below(nn) == nn < Lo
OpsAt(nn) == IF Below(nn) THEN {"W"}
             ELSE {"R"} \cup {op \in {"W"} : \E r \in 0..(Spread - 1) : r > nn - Lo}

GetOp(t) ==
  /\ pc[t] = "op" /\ left[t] > 0
  /\ \E op \in OpsAt(n_objects) : Goto(t, op)
  /\ UNCHANGED <<server, table, n_objects, locals, scan, history>>

(* pick_random: twenty random entries are tried; it may find one only if    *)
(* one is idle, and may also fail.                                          *)
\* Mutant: an entry in use by another thread is picked.
Written(i) == e_value[i] # NULL
Idle(i) == e_value[i] # NULL /\ e_busy[i] = 0

PickRandom(t) == \E i \in 0..(TableSize - 1) :
                   /\ Idle(i)
                   /\ e_busy' = [e_busy EXCEPT ![i] = 1]
                   /\ num' = [num EXCEPT ![t] = i]
                   /\ UNCHANGED <<e_name, e_value>>

\* get_free: the first unused entry, or the index after the last one.
Unused(i) == e_value[i] = NULL /\ e_busy[i] = 0
IsFree(n) == /\ n = TableSize \/ Unused(n)
             /\ \A i \in 0..(n - 1) : ~Unused(i)
----------------------------------------------------------------------------
(* 'W': rewrite a known record, or count and name a new one. *)

Rewrite(t) ==
  /\ pc[t] = "W"
  /\ PickRandom(t)
  /\ Goto(t, "copy_name")
  /\ UNCHANGED <<server, n_objects, name, value, left, scan, history>>

CopyName(t) ==
  /\ pc[t] = "copy_name"
  /\ name' = [name EXCEPT ![t] = e_name[num[t]]]
  /\ Goto(t, "send")
  /\ UNCHANGED <<server, table, n_objects, num, value, left, scan, history>>

\* randstr: which new name it makes is never looked at, so any one will do.
UsedNames == {e_name[i] : i \in Entries} \cup {name[t] : t \in Threads}
NewName == CHOOSE n \in Names : n \notin UsedNames

CountNew(t) ==
  /\ pc[t] = "W"
  /\ n_objects' = n_objects + 1
  /\ ~(Names \subseteq UsedNames)
  /\ name' = [name EXCEPT ![t] = NewName]
  /\ Goto(t, "free")
  /\ UNCHANGED <<server, table, num, value, left, scan, history>>

GetFree(t) ==
  /\ pc[t] = "free"
  /\ \E n \in Entries :
       /\ IsFree(n)
       /\ num' = [num EXCEPT ![t] = n]
       /\ e_busy' = [e_busy EXCEPT ![n] = 1]
  /\ Goto(t, "enter")
  /\ UNCHANGED <<server, e_name, e_value, n_objects, name, value, left, scan, history>>

EnterName(t) ==
  /\ pc[t] = "enter"
  /\ e_name' = [e_name EXCEPT ![num[t]] = name[t]]
  /\ Goto(t, "send")
  /\ UNCHANGED <<server, e_value, e_busy, n_objects, locals, scan, history>>

SendWrite(t) ==
  /\ pc[t] = "send"
  /\ \E v \in Values : /\ value' = [value EXCEPT ![t] = v]
                       /\ KV!Call(t, [op |-> "W", key |-> name[t], val |-> v])
  /\ Goto(t, "sent")
  /\ UNCHANGED <<table, n_objects, num, name, left, scan, history>>

\* The answer's status is not looked at.
Refusal(n, a) == refused' = IF a = X THEN refused \cup {n} ELSE refused

ReceiveWrite(t) ==
  /\ pc[t] = "sent"
  /\ KV!Return(t)
  /\ Refusal(name[t], answer[t])
  /\ Goto(t, "record")
  /\ UNCHANGED <<table, n_objects, locals, scan, alarmed>>

\* Mutants: a rewrite leaves the length and checksum of the old data; the
\* entry is never given up.
RecordOnce(t) == IF e_value[num[t]] = NULL THEN value[t] ELSE e_value[num[t]]
Recorded(t) == value[t]
StaysBusy(t) == e_busy[num[t]]
BusyAfter(t) == 0

Record(t) ==
  /\ pc[t] = "record"
  /\ e_name' = [e_name EXCEPT ![num[t]] = name[t]]
  /\ e_value' = [e_value EXCEPT ![num[t]] = Recorded(t)]
  /\ e_busy' = [e_busy EXCEPT ![num[t]] = BusyAfter(t)]
  /\ left' = [left EXCEPT ![t] = @ - 1]
  /\ Goto(t, "op")
  /\ UNCHANGED <<server, n_objects, num, name, value, scan, history>>
----------------------------------------------------------------------------
(* 'R': wait for an idle entry, read its record and compare. *)

PickRead(t) ==
  /\ pc[t] = "R"
  /\ PickRandom(t)
  /\ Goto(t, "copy_entry")
  /\ UNCHANGED <<server, n_objects, name, value, left, scan, history>>

CopyEntry(t) ==
  /\ pc[t] = "copy_entry"
  /\ name' = [name EXCEPT ![t] = e_name[num[t]]]
  /\ value' = [value EXCEPT ![t] = e_value[num[t]]]
  /\ Goto(t, "ask")
  /\ UNCHANGED <<server, table, n_objects, num, left, scan, history>>

SendRead(t) ==
  /\ pc[t] = "ask"
  /\ KV!Call(t, [op |-> "R", key |-> name[t]])
  /\ Goto(t, "asked")
  /\ UNCHANGED <<table, n_objects, locals, scan, history>>

\* "bad_len" and "bad_cksum"; an answer X comes with length 0.
ReceiveRead(t) ==
  /\ pc[t] = "asked"
  /\ KV!Return(t)
  /\ alarmed' = IF answer[t] = value[t] THEN alarmed ELSE alarmed \cup {name[t]}
  /\ Refusal(name[t], answer[t])
  /\ Goto(t, "release")
  /\ UNCHANGED <<table, n_objects, locals, scan>>

Release(t) ==
  /\ pc[t] = "release"
  /\ e_busy' = [e_busy EXCEPT ![num[t]] = 0]
  /\ left' = [left EXCEPT ![t] = @ - 1]
  /\ Goto(t, "op")
  /\ UNCHANGED <<server, e_name, e_value, n_objects, num, name, value, scan, history>>

Thread(t) == \/ GetOp(t)
             \/ Rewrite(t) \/ CopyName(t) \/ CountNew(t) \/ GetFree(t) \/ EnterName(t)
             \/ SendWrite(t) \/ ReceiveWrite(t) \/ Record(t)
             \/ PickRead(t) \/ CopyEntry(t) \/ SendRead(t) \/ ReceiveRead(t) \/ Release(t)
----------------------------------------------------------------------------
(* main joins the threads, then deletes every record of the table.          *)

Joined == \A t \in Threads : pc[t] = "op" /\ left[t] = 0
Scanning == Joined /\ scan < TableSize

MainSkip ==
  /\ Scanning /\ e_value[scan] = NULL
  /\ scan' = scan + 1
  /\ UNCHANGED <<server, table, n_objects, pc, locals, history>>

MainDelete ==
  /\ Scanning /\ e_value[scan] # NULL
  /\ KV!Call(Main, [op |-> "D", key |-> e_name[scan]])
  /\ UNCHANGED <<table, n_objects, pc, locals, scan, history>>

MainDeleted ==
  /\ KV!Return(Main)
  /\ scan' = scan + 1
  /\ UNCHANGED <<table, n_objects, pc, locals, history>>

Finished == Joined /\ scan = TableSize
MainLoop == MainSkip \/ MainDelete \/ MainDeleted

\* The server executes p's request.
Serve(p) == /\ KV!WriteEffect(p) \/ KV!ReadEffect(p) \/ KV!DeleteEffect(p)
            /\ UNCHANGED <<table, n_objects, pc, locals, scan, history>>

Next == \/ \E t \in Threads : Thread(t)
        \/ MainLoop
        \/ \E p \in Clients : Serve(p)

Spec == Init /\ [][Next]_vars

(* Threads run, the server answers, and a thread that keeps trying random   *)
(* entries hits an idle one in the end.                                     *)
FairSpec == /\ Spec
            /\ \A t \in Threads : WF_vars(Thread(t))
            /\ WF_vars(MainLoop)
            /\ \A p \in Clients : WF_vars(Serve(p))
----------------------------------------------------------------------------
Positions == {"op", "W", "copy_name", "free", "enter", "send", "sent", "record",
              "R", "copy_entry", "ask", "asked", "release"}

TypeOK ==
  /\ store \in [Names -> Values \cup {NULL}]
  /\ request \in [Clients -> KV!Requests \cup {NULL}]
  /\ answer \in [Clients -> Values \cup {K, X, NULL}]
  /\ e_name \in [Entries -> Names \cup {NULL}]
  /\ e_value \in [Entries -> Values \cup {NULL}]
  /\ e_busy \in [Entries -> {0, 1}]
  /\ n_objects \in Nat
  /\ pc \in [Threads -> Positions]
  /\ num \in [Threads -> Entries]
  /\ name \in [Threads -> Names \cup {NULL}]
  /\ value \in [Threads -> Values \cup {NULL}]
  /\ left \in [Threads -> 0..Rounds]
  /\ scan \in Entries
  /\ alarmed \subseteq Names /\ refused \subseteq Names

\* t is between taking an entry and giving it up.
Holding(t) == pc[t] \notin {"op", "W", "R", "free"}

(* No thread uses memory after the table, although get_free does not look   *)
(* whether it found an entry (dbtest.c:191-195): the counts that threads    *)
(* read before writing keep the table from filling.                         *)
TableNotOverrun == \A t \in Threads : Holding(t) => num[t] < TableSize

(* The busy flags give the server at most one call per record at a time.    *)
(* Database relies on it: its store is only right for such callers.         *)
OneCallPerKey ==
  \A p, q \in Clients :
    request[p] # NULL /\ request[q] # NULL /\ request[p].key = request[q].key => p = q

(* "bad_len" or "bad_cksum" is printed only for a record on which the       *)
(* server refused a call: on a correct server the test raises no alarm,     *)
(* however its threads interleave.                                          *)
NoFalseAlarm == alarmed \subseteq refused

(* The test ends, and leaves no record in the server. *)
FinishesClean == <>[](Finished /\ store = [n \in Names |-> NULL])
=============================================================================
