\* Two clients that send a request, quit or hang up, and one descriptor for them,
\* so that it is reused and accept fails for want of one.
SPECIFICATION FairSpec
CONSTANTS
  w1 = w1  w2 = w2  cl1 = cl1  cl2 = cl2
  Clients = {cl1, cl2}
  Kinds = {"W", "bad", "hangup", "Q"}
  Consumers = {w1, w2}
  Fds = {3, 4}
  Listen = 3
  NULL = NULL
\* A server with nothing to do, or that has exited, takes no step.
CHECK_DEADLOCK FALSE
INVARIANTS TypeOK ConnectionOwnedOnce AnswerToRequester AnsweredBeforeClose
PROPERTIES ClientsAnswered ConnectionsClosed QuitRequestExits
