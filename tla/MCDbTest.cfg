\* Two threads, two requests each.  Max = 7 gives lo = 1 and hi = 5;
\* with Spread = 2 writing stops at two objects, three when both threads read
\* the count before either has raised it, so a table of three is just enough;
\* there are names for one object more.
SPECIFICATION FairSpec
CONSTANTS
  t1 = t1  t2 = t2  n1 = n1  n2 = n2  n3 = n3  n4 = n4  v1 = v1  v2 = v2
  Threads = {t1, t2}
  Main = Main
  Names = {n1, n2, n3, n4}
  Values = {v1, v2}
  Rounds = 2
  TableSize = 3
  Spread = 2
  Max = 7
  IOFaults = TRUE
  K = K  X = X  NULL = NULL
\* The test ends.
CHECK_DEADLOCK FALSE
INVARIANTS TableNotOverrun OneCallPerKey NoFalseAlarm
PROPERTY FinishesClean
