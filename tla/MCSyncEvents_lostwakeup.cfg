\* mainsync_test1: one group waits three times on three events, one thread signals each once.
SPECIFICATION MCSpec
CONSTANTS
  g1 = g1 g2 = g2 s1 = s1 s2 = s2 e1 = e1 e2 = e2 e3 = e3
  NoOne = NoOne Null = Null
  Groups = {g1}
  Signallers = {s1}
  Events = {e1, e2, e3}
  MaxSize = 3
  evlinks <- ThreeEvents
  Persistent = {}
  Counts = {1}
  MaxCalls = 3
  MaxSent <- OneEach
INVARIANT NoLostWakeup
CHECK_DEADLOCK FALSE
