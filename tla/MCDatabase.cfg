\* Two workers, any calls on different keys, one new key at a time; three keys
\* for two slots, so that the table fills.  Includes every history of a client
\* that waits for each answer.
SPECIFICATION Spec
CONSTANTS
  p1 = p1  p2 = p2  k1 = k1  k2 = k2  k3 = k3
  Procs = {p1, p2}
  Keys = {k1, k2, k3}
  Values <- MCValues
  Bytes = {1, 2}
  MaxKeys = 2
  IOFaults = TRUE
  Discipline = "one_new_key"
  K = K  X = X  NULL = NULL
SYMMETRY Symmetry
INVARIANTS TypeOK StoreAgrees BusyHasWriter SlotExclusive
PROPERTY ImplementsKVStore
