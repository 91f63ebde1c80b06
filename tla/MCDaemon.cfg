\* Two starts of one service, whose mainloop has two threads that call programs.
SPECIFICATION FairSpec
CONSTANTS
  p1 = p1 p2 = p2 t1 = t1 t2 = t2
  Processes = {p1, p2}
  Hosts = {p1, p2}
  Threads = {t1, t2}
  hostOf <- HostOf
  MaxStarts = 1
  Sends <- SignalsSent
  NoOne = NoOne
  Home = "home"
  Dirs = {"home", "work"}
  requests <- RequestsOf
  MaxCalls = 2
  Forever = 99
  Free = Free
INVARIANTS PidFileNamesRunner DirectoriesKeptApart
  NoChildLeft StatusIsOfOwnChild
PROPERTIES TermEndsService HupReachesService
\* The processes stop when they have been started and called often enough.
CHECK_DEADLOCK FALSE
