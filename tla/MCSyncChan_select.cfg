\* Writers of a buffered and of an unbuffered channel and a reader that waits for both.
SPECIFICATION MCSpec
CONSTANTS
  t1 = t1 t2 = t2 t3 = t3 buf = buf sync = sync
  NoOne = NoOne
  Threads = {t1, t2, t3}
  Chans = {buf, sync}
  maxsize <- Capacities
  evlinks <- Select
  MaxCalls = 2
INVARIANT TypeOK
PROPERTY SemSpec
\* The threads stop when the bounded calls are made.
CHECK_DEADLOCK FALSE
