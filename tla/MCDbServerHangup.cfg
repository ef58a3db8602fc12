\* Clients that send a request and clients that hang up; one descriptor for them.
SPECIFICATION Spec
CONSTANTS
  w1 = w1  w2 = w2  cl1 = cl1  cl2 = cl2
  Clients = {cl1, cl2}
  Kinds = {"W", "hangup"}
  Consumers = {w1, w2}
  Fds = {3, 4}
  Listen = 3
  NULL = NULL
\* A server with nothing to do, or that has exited, takes no step.
CHECK_DEADLOCK FALSE
INVARIANT RequestsAnswered
