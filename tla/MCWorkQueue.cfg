\* One listener, two workers and main shutting down; two descriptors and two
\* heap cells, so that both are reused and a descriptor is closed a second time
\* while another worker holds it.  No symmetry, for the liveness properties.
SPECIFICATION FairSpec
CONSTANTS
  l1 = l1  w1 = w1  w2 = w2  m1 = m1  c1 = c1  c2 = c2
  Producers = {l1}
  Consumers = {w1, w2}
  Controllers = {m1}
  Cells = {c1, c2}
  Fds = {4, 5}
  NULL = NULL
INVARIANTS TypeOK ListWellFormed CellsOwnedOnce ConnectionOwnedOnce NoLostWakeup CounterExact
PROPERTIES ImplementsFifo LinkedIsTaken ShutdownStopsWorkers
