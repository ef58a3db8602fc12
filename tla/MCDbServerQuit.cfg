\* The operator types quit.
SPECIFICATION FairSpec
CONSTANTS
  w1 = w1  w2 = w2  cl1 = cl1  cl2 = cl2
  Clients = {cl1}
  Kinds = {"W"}
  Consumers = {w1, w2}
  Fds = {3, 4}
  Listen = 3
  NULL = NULL
\* A server with nothing to do, or that has exited, takes no step.
CHECK_DEADLOCK FALSE
PROPERTY QuitCommandExits
