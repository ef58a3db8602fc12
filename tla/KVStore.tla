------------------------------ MODULE KVStore ------------------------------
(* What project2/database.c promises: db_write, db_read and db_delete each  *)
(* take effect at one instant between the call and the return, on one map   *)
(* from keys to values.  A write of a new key may fail because the table is *)
(* full; a file that cannot be opened or written makes any write or read    *)
(* fail, and such a write loses the key.  Database is checked against this. *)
CONSTANTS Procs,    \* worker threads
          Keys, Values,
          IOFaults, \* may opening and writing files fail?
          K, X,     \* the answers "done" and "failed"
          NULL      \* no value; also "no request" and "no answer"

VARIABLES store,    \* the map
          request,  \* the call each thread is in, or NULL
          answer    \* its result, or NULL until it has taken effect

kvVars == <<store, request, answer>>

Requests == [op : {"W"}, key : Keys, val : Values] \cup [op : {"R", "D"}, key : Keys]

KVInit == /\ store = [k \in Keys |-> NULL]
          /\ request = [p \in Procs |-> NULL]
          /\ answer = [p \in Procs |-> NULL]

Call(p, r) == /\ request[p] = NULL
              /\ request' = [request EXCEPT ![p] = r]
              /\ UNCHANGED <<store, answer>>

\* The instant at which p's call takes effect.
Effect(p, v, a) == /\ store' = [store EXCEPT ![request[p].key] = v]
                   /\ answer' = [answer EXCEPT ![p] = a]
                   /\ UNCHANGED request

Pending(p, op) == /\ request[p] # NULL
                  /\ answer[p] = NULL
                  /\ request[p].op = op

WriteEffect(p) == /\ Pending(p, "W")
                  /\ \/ Effect(p, request[p].val, K)
                     \/ store[request[p].key] = NULL /\ Effect(p, NULL, X)
                     \/ IOFaults /\ Effect(p, NULL, X)

ReadEffect(p) == /\ Pending(p, "R")
                 /\ LET v == store[request[p].key] IN
                    \/ Effect(p, v, IF v = NULL THEN X ELSE v)
                    \/ IOFaults /\ Effect(p, v, X)

DeleteEffect(p) == /\ Pending(p, "D")
                   /\ Effect(p, NULL, IF store[request[p].key] = NULL THEN X ELSE K)

Return(p) == /\ answer[p] # NULL
             /\ request' = [request EXCEPT ![p] = NULL]
             /\ answer' = [answer EXCEPT ![p] = NULL]
             /\ UNCHANGED store

KVNext == \E p \in Procs : \/ \E r \in Requests : Call(p, r)
                           \/ WriteEffect(p) \/ ReadEffect(p) \/ DeleteEffect(p)
                           \/ Return(p)

KVSpec == KVInit /\ [][KVNext]_kvVars
=============================================================================
