------------------------------ MODULE MCDaemon ------------------------------
(* An instance of Daemon for TLC. *)
EXTENDS Daemon, TLC

CONSTANTS p1, p2, t1, t2

\* Both threads are of the first process; the second competes for the pid file.
HostOf == [t \in Threads |-> p1]
\* One may come while the other is handled or pending.
SignalsSent == (p1 :> Sent) @@ (p2 :> {})
\* One thread waits for ever; the other calls with a timeout, in a directory of
\* its own, or asynchronously, in one that does not exist.
RequestsOf == [t \in Threads |->
  IF t = t1 THEN {[setdir |-> "home", async |-> FALSE, timeout |-> Forever]}
  ELSE {[setdir |-> "work", async |-> FALSE, timeout |-> 1],
        [setdir |-> "none", async |-> TRUE,  timeout |-> 0]}]
=============================================================================
