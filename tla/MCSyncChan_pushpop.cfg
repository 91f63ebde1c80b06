\* push and pop on one buffered channel of capacity 1.
SPECIFICATION MCFairSpec
CONSTANTS
  t1 = t1 t2 = t2 t3 = t3 buf = buf sync = sync
  NoOne = NoOne
  Threads = {t1, t2, t3}
  Chans = {buf}
  maxsize <- OneBuffer
  evlinks <- PushPop
  MaxCalls = 2
PROPERTIES CallsReturn OperationServesSleepers
\* The threads stop when the bounded calls are made.
CHECK_DEADLOCK FALSE
