\* Two groups on the same two events in opposite orders, one of them with
\* fdontBreakLinks, and two signalling threads.
SPECIFICATION MCSpec
CONSTANTS
  g1 = g1 g2 = g2 s1 = s1 s2 = s2 e1 = e1 e2 = e2 e3 = e3
  NoOne = NoOne Null = Null
  Groups = {g1, g2}
  Signallers = {s1, s2}
  Events = {e1, e2}
  MaxSize = 2
  evlinks <- CrossLinks
  Persistent = {g2}
  Counts = {1, 2}
  MaxCalls = 2
  MaxSent <- TwoAndOne
SYMMETRY Symmetric
INVARIANTS TypeOK Conservation BlockingWaitIsServed ChainConsistent CursorLive
PROPERTIES SemSpec SignalReachesSleepers
\* The threads stop when the bounded calls are made.
CHECK_DEADLOCK FALSE
