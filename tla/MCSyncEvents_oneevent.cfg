\* Groups that wait for one event, one of them twice and with fdontBreakLinks.
SPECIFICATION MCFairSpec
CONSTANTS
  g1 = g1 g2 = g2 s1 = s1 s2 = s2 e1 = e1 e2 = e2 e3 = e3
  NoOne = NoOne Null = Null
  Groups = {g1, g2}
  Signallers = {s1, s2}
  Events = {e1}
  MaxSize = 2
  evlinks <- OneEvent
  Persistent = {g2}
  Counts = {1, 2}
  MaxCalls = 2
  MaxSent <- Two
INVARIANT NoDeadlock
PROPERTY CallsReturn
\* The threads stop when the bounded calls are made.
CHECK_DEADLOCK FALSE
