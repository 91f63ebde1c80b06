\* The unbuffered part of mainsync_test1: one push against one wait for it.
SPECIFICATION MCSpec
CONSTANTS
  t1 = t1 t2 = t2 t3 = t3 buf = buf sync = sync
  NoOne = NoOne
  Threads = {t1, t2}
  Chans = {sync}
  maxsize <- Unbuffered
  evlinks <- Meeting
  MaxCalls = 3
INVARIANT NoLostWakeup
CHECK_DEADLOCK FALSE
