--------------------------- MODULE ServiceProcess ---------------------------
(***************************************************************************)
(* A daemon of src/tsys/tb_service.cpp: r_service_process::callAsService   *)
(* on Linux, the lock on its pid file, its thread for signals, and the     *)
(* signals themselves (those of POSIX: a signal that is pending already is *)
(* not queued a second time).                                              *)
(*                                                                         *)
(* A process may be started again after it has ended.  What a derived      *)
(* class does in mainloop is left to the module that composes this one;    *)
(* it runs while running is set, as onStop expects.                        *)
(***************************************************************************)
EXTENDS Integers, FiniteSets

CONSTANTS
  Processes,   \* the processes that call callAsService for one servicename
  MaxStarts,   \* bound: how often a process is started
  Sends,       \* bound: the signals of Sends[p] are sent to p, once each
  NoOne        \* nobody has the lock; the pid file is empty

ASSUME ProcessesAssumption == NoOne \notin Processes
Sent == {"SIGHUP", "SIGTERM"}
ASSUME ServiceBounds == MaxStarts \in Nat /\ Sends \in [Processes -> SUBSET Sent]

Signals == Sent \cup {"SIGCHLD"}

VARIABLES
  spc,      \* where callAsService of a process is
  running,  \* r_service_process::running
  hup,      \* what SIGHUP does: "default", "ignored"
  blocked,  \* all signals are blocked
  pending,  \* the signals that are pending
  tpc,      \* where process_signal_thr is
  lock,     \* the process that has the lock on the pid file
  pidfile,  \* the pid that is written there
  starts,   \* history: how often a process was started
  signals,  \* history: the signals that were sent to it
  hungup    \* history: the processes a SIGHUP has ended, and where they were

serviceVars ==
  <<spc, running, hup, blocked, pending, tpc, lock, pidfile, starts, signals, hungup>>

Alive(p) == spc[p] # "out"

ServiceInit ==
  /\ spc = [p \in Processes |-> "out"]
  /\ running = [p \in Processes |-> FALSE]
  /\ hup = [p \in Processes |-> "default"]
  /\ blocked = [p \in Processes |-> FALSE]
  /\ pending = [p \in Processes |-> {}]
  /\ tpc = [p \in Processes |-> "none"]
  /\ lock = NoOne /\ pidfile = NoOne
  /\ starts = [p \in Processes |-> 0]
  /\ signals = [p \in Processes |-> {}]
  /\ hungup = {}

At(p, here, there) == spc[p] = here /\ spc' = [spc EXCEPT ![p] = there]

\* The process is gone, its threads, signals and locks with it.
Ends(p) ==
  /\ spc' = [spc EXCEPT ![p] = "out"]
  /\ running' = [running EXCEPT ![p] = FALSE]
  /\ hup' = [hup EXCEPT ![p] = "default"]
  /\ blocked' = [blocked EXCEPT ![p] = FALSE]
  /\ pending' = [pending EXCEPT ![p] = {}]
  /\ tpc' = [tpc EXCEPT ![p] = "none"]
  /\ lock' = IF lock = p THEN NoOne ELSE lock
  /\ UNCHANGED <<pidfile, starts>>

(***************************************************************************)
(* callAsService.                                                          *)
(***************************************************************************)
\* The fork of demonize: from here it is the child.
Start(p) ==
  /\ At(p, "out", "demonize") /\ starts[p] < MaxStarts
  /\ starts' = [starts EXCEPT ![p] = @ + 1]
  /\ UNCHANGED <<running, hup, blocked, pending, tpc, lock, pidfile, signals, hungup>>

IgnoreHup(p) ==
  /\ At(p, "demonize", "lock")
  /\ hup' = [hup EXCEPT ![p] = "ignored"]
  /\ UNCHANGED <<running, blocked, pending, tpc, lock, pidfile, starts, signals, hungup>>

\* already_running: lockf with F_TLOCK.
LocksAlways(p) == TRUE
Locks(p) == lock = NoOne
LockPidFile(p) ==
  \/ /\ Locks(p)
     /\ At(p, "lock", "truncate")
     /\ lock' = p
     /\ UNCHANGED <<running, hup, blocked, pending, tpc, pidfile, starts, signals, hungup>>
  \/ /\ ~ Locks(p)
     /\ spc[p] = "lock"
     /\ Ends(p)
     /\ UNCHANGED <<signals, hungup>>

TruncatePidFile(p) ==
  /\ At(p, "truncate", "write")
  /\ pidfile' = NoOne
  /\ UNCHANGED <<running, hup, blocked, pending, tpc, lock, starts, signals, hungup>>

WritePidFile(p) ==
  /\ At(p, "write", "run")
  /\ pidfile' = p
  /\ UNCHANGED <<running, hup, blocked, pending, tpc, lock, starts, signals, hungup>>

\* running is set and SIGHUP gets its default action back.  (Nobody reads
\* running before the signal thread does.)
DefaultHup(p) ==
  /\ At(p, "run", "block")
  /\ running' = [running EXCEPT ![p] = TRUE]
  /\ hup' = [hup EXCEPT ![p] = "default"]
  /\ UNCHANGED <<blocked, pending, tpc, lock, pidfile, starts, signals, hungup>>

BlockSignals(p) ==
  /\ At(p, "block", "thread")
  /\ blocked' = [blocked EXCEPT ![p] = TRUE]
  /\ UNCHANGED <<running, hup, pending, tpc, lock, pidfile, starts, signals, hungup>>

CreateThread(p) ==
  /\ At(p, "thread", "mainloop")
  /\ tpc' = [tpc EXCEPT ![p] = IF running[p] THEN "sigwait" ELSE "done"]
  /\ UNCHANGED <<running, hup, blocked, pending, lock, pidfile, starts, signals, hungup>>

\* mainloop has returned; main returns and the process ends.
Exit(p) ==
  /\ spc[p] = "mainloop" /\ ~running[p]
  /\ Ends(p)
  /\ UNCHANGED <<signals, hungup>>

(***************************************************************************)
(* process_signal_thr: running is read once for each signal.               *)
(***************************************************************************)
\* sigwait returns one of them; SIGHUP calls onRefresh, SIGTERM onStop.
onStopNothing(p) == running
onStop(p) == [running EXCEPT ![p] = FALSE]
maskWithoutHup == Signals \ {"SIGHUP"}
mask == Signals
TakeSignal(p) ==
  /\ tpc[p] = "sigwait"
  /\ \E signo \in pending[p] \cap mask :
       /\ pending' = [pending EXCEPT ![p] = @ \ {signo}]
       /\ running' = IF signo = "SIGTERM" THEN onStop(p) ELSE running
  /\ tpc' = [tpc EXCEPT ![p] = IF running'[p] THEN "sigwait" ELSE "done"]
  /\ UNCHANGED <<spc, hup, blocked, lock, pidfile, starts, signals, hungup>>

(***************************************************************************)
(* A signal from outside.                                                  *)
(***************************************************************************)
Deliver(p, signo) == pending' = [pending EXCEPT ![p] = @ \cup {signo}]

Kill(p, signo) ==
  /\ Alive(p) /\ signo \in Sends[p] \ signals[p]
  /\ signals' = [signals EXCEPT ![p] = @ \cup {signo}]
  /\ \/ /\ blocked[p]
        /\ Deliver(p, signo)
        /\ UNCHANGED <<spc, running, hup, blocked, tpc, lock, pidfile, starts, hungup>>
     \/ /\ ~blocked[p] /\ signo = "SIGHUP" /\ hup[p] = "ignored"
        /\ UNCHANGED <<spc, running, hup, blocked, pending, tpc, lock, pidfile, starts, hungup>>
     \/ /\ ~blocked[p] /\ ~(signo = "SIGHUP" /\ hup[p] = "ignored")
        /\ Ends(p)
        /\ hungup' = IF signo = "SIGHUP" THEN hungup \cup {spc[p]} ELSE hungup

MainStep(p) ==
  \/ IgnoreHup(p) \/ LockPidFile(p) \/ TruncatePidFile(p) \/ WritePidFile(p)
  \/ DefaultHup(p) \/ BlockSignals(p) \/ CreateThread(p)
=============================================================================
