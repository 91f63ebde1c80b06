------------------------------- MODULE Daemon -------------------------------
(***************************************************************************)
(* A daemon that runs programs: the service process of ServiceProcess with *)
(* a mainloop whose threads call SysExecute of ChildProcess.               *)
(*                                                                         *)
(* The library leaves mainloop and onStop to the derived class.  Here they *)
(* are what their declarations ask for: mainloop makes calls while running *)
(* is set and returns when its threads have; onStop also raises the word   *)
(* that the calls were given as stopsignal.                                *)
(***************************************************************************)
EXTENDS ServiceProcess, ChildProcess

ASSUME HostsAreProcesses == Hosts = Processes

vars == <<serviceVars, childVars>>
serviceButPending ==
  <<spc, running, hup, blocked, tpc, lock, pidfile, starts, signals, hungup>>

Init == ServiceInit /\ ChildInit

(***************************************************************************)
(* The main thread before mainloop, and the signal thread.                 *)
(***************************************************************************)
Service(p) == MainStep(p) /\ UNCHANGED childVars

stopsignal(p) == IF running'[p] THEN stop ELSE [stop EXCEPT ![p] = TRUE]
SignalThread(p) ==
  /\ TakeSignal(p)
  /\ stop' = stopsignal(p)
  /\ UNCHANGED <<callVars, cwd, orgcdir, gmu, children, failed>>

(***************************************************************************)
(* mainloop.                                                               *)
(***************************************************************************)
MainloopCalls(t) ==
  /\ spc[host(t)] = "mainloop" /\ running[host(t)]
  /\ Call(t)
  /\ UNCHANGED serviceVars

\* The parent of a child that has ended is told.  Its signals are blocked as
\* long as it has children.
SigChld ==
  pending' = [p \in Processes |->
                IF \E c \in Children(p) : /\ children[c].state = "running"
                                          /\ children'[c].state = "zombie"
                  THEN pending[p] \cup {"SIGCHLD"} ELSE pending[p]]

InMainloop(t) == CallStep(t) /\ SigChld /\ UNCHANGED serviceButPending

Program(c) == ChildEnds(c) /\ SigChld /\ UNCHANGED serviceButPending

\* mainloop has returned, and so does main.  What was not reaped gets another
\* parent, and the process that starts next has a memory of its own.
MainReturns(p) ==
  /\ \A t \in Threads : host(t) = p => ~InCall(t)
  /\ Exit(p)
  /\ children' = [c \in DOMAIN children |->
                    IF host(children[c].by) = p THEN LeftBy(children[c].by) ELSE children[c]]
  /\ cwd' = [cwd EXCEPT ![p] = Home]
  /\ orgcdir' = [orgcdir EXCEPT ![p] = Unset]
  /\ stop' = [stop EXCEPT ![p] = FALSE]
  /\ UNCHANGED <<callVars, gmu, failed>>

(***************************************************************************)
(* The specification.  What has begun to start, run or return goes on; who *)
(* starts a process, sends a signal or makes a call need not, and a program*)
(* need not end.                                                           *)
(***************************************************************************)
Next ==
  \/ \E p \in Processes :
       \/ Start(p) /\ UNCHANGED childVars
       \/ \E signo \in Sent : Kill(p, signo) /\ UNCHANGED childVars
       \/ Service(p) \/ SignalThread(p) \/ MainReturns(p)
  \/ \E t \in Threads : MainloopCalls(t) \/ InMainloop(t)
  \/ \E c \in DOMAIN children : Program(c)

Spec == Init /\ [][Next]_vars

MainThread(p) == Service(p) \/ MainReturns(p)
Fairness ==
  /\ \A p \in Processes : WF_vars(MainThread(p)) /\ WF_vars(SignalThread(p))
  /\ \A t \in Threads : WF_vars(InMainloop(t))
FairSpec == Spec /\ Fairness

(***************************************************************************)
(* Properties.                                                             *)
(***************************************************************************)
\* While a service runs mainloop the pid file holds its pid, so that the one
\* who reads the file and sends a signal reaches the service: a second start
\* neither runs beside it nor empties the file (already_running).
PidFileNamesRunner ==
  \A p \in Processes : spc[p] \in {"run", "block", "thread", "mainloop"} => pidfile = p

\* The current directory belongs to all threads of a process.  A program
\* starts in the directory its call asks for, or in that of the process when
\* there is none, and nobody sees another directory than the process had
\* outside of the general mutex.
DirectoriesKeptApart ==
  /\ \A t \in Threads : xpc[t] = "spawn" =>
       cwd[host(t)] = IF request[t].setdir \in Dirs THEN request[t].setdir ELSE Home
  /\ \A p \in Processes : gmu[p] = Free => cwd[p] = Home

\* A call without EF_ASYNC leaves no child behind, whether the child ended in
\* time, at the timeout, between the last poll and the kill, or was stopped:
\* one that is not reaped is in the hands of a call that will.  (A spawn that
\* fails waits for a number that may be another call's child.)
NoChildLeft ==
  failed = 0 =>
    \A p \in Processes : \A c \in Children(p) :
      ~children[c].async /\ children[c].state # "reaped" =>
        \E t \in Threads : pid[t] = c /\ xpc[t] \in {"back", "poll", "after", "reap"}

\* What SysExecute returns is how its own child ended; 0 when it did not wait
\* for the end of an asynchronous one.
StatusIsOfOwnChild ==
  failed = 0 =>
    \A t \in Threads : xpc[t] = "return" =>
      \/ children[pid[t]].state = "reaped" /\ status[t] = children[pid[t]].status
      \/ request[t].async /\ status[t] = "0"

\* SIGTERM ends a service whatever its threads do: also one that waits for ever
\* for a program that never ends.
TermEndsService ==
  \A p \in Processes : "SIGTERM" \in pending[p] ~> spc[p] = "out"

\* SIGHUP asks a service to read its configuration again (onRefresh).  One that came while signals
\* are blocked is not left pending for ever, be it before the signal thread was created or
\* while it handles another.  It ends the process only before demonize ignores it and between
\* the call that gives it its default action back and the one that blocks all signals.
HupReachesService ==
  /\ \A p \in Processes : "SIGHUP" \in pending[p] ~> "SIGHUP" \notin pending[p]
  /\ [](hungup \subseteq {"demonize", "block"})
=============================================================================
