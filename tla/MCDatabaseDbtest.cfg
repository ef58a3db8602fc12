\* dbtest's guarantee: one call per key at a time.
SPECIFICATION Spec
CONSTANTS
  p1 = p1  p2 = p2  k1 = k1  k2 = k2  k3 = k3
  Procs = {p1, p2}
  Keys = {k1, k2}
  Values <- MCValues
  Bytes = {1, 2}
  MaxKeys = 2
  IOFaults = FALSE
  Discipline = "one_call_per_key"
  K = K  X = X  NULL = NULL
INVARIANT StoreAgrees
