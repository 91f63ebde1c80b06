---------------------------- MODULE ChildProcess ----------------------------
(***************************************************************************)
(* rProcess::SysExecute of src/tsys/tb_process.cpp on Linux: a program is  *)
(* spawned in its directory, waited for with a timeout and a stop signal,  *)
(* killed when one of them comes, and reaped.                              *)
(*                                                                         *)
(* The threads of a process share its current directory, the static        *)
(* orgcdir and the general mutex.  The output files, the arguments and the *)
(* length of a step of waiting are left out: a timeout is a number of      *)
(* steps.                                                                  *)
(***************************************************************************)
EXTENDS Integers, Sequences, FiniteSets

CONSTANTS
  Hosts,       \* the processes that call SysExecute
  Threads,
  hostOf,      \* hostOf[t]: the process of thread t
  Home,        \* the current directory of a process when it begins
  Dirs,        \* the directories there are
  requests,    \* requests[t]: what t calls SysExecute with, setdir, async and timeout
  MaxCalls,    \* bound: how many calls are made
  Forever,     \* to_INFINITE
  Free         \* owner of a mutex that is free

ASSUME HostsAssumption == hostOf \in [Threads -> Hosts] /\ Home \in Dirs
ASSUME FreeAssumption == Free \notin Threads
ASSUME ChildBounds == MaxCalls \in Nat
ASSUME RequestsAssumption == \A t \in Threads : \A r \in requests[t] : r.async \in BOOLEAN

NoPid == 0
Unset == "unset"
NoRequest == [setdir |-> Unset, async |-> FALSE, timeout |-> 0]

VARIABLES
  xpc,       \* where SysExecute of a thread is
  request,   \* its arguments
  pid, tm, isterm, status,     \* its locals; status is of the object
  cwd, orgcdir, gmu, stop,     \* of a process: directory, statics, *stopsignal & 0x100
  children,  \* the processes that were spawned, in order
  failed     \* history: how many calls could not spawn

callVars  == <<xpc, request, pid, tm, isterm, status>>
hostVars  == <<cwd, orgcdir, gmu, stop>>
childVars == <<callVars, hostVars, children, failed>>

ChildInit ==
  /\ xpc = [t \in Threads |-> "out"]
  /\ request = [t \in Threads |-> NoRequest]
  /\ pid = [t \in Threads |-> NoPid]
  /\ tm = [t \in Threads |-> 0]
  /\ isterm = [t \in Threads |-> FALSE]
  /\ status = [t \in Threads |-> Unset]
  /\ cwd = [h \in Hosts |-> Home]
  /\ orgcdir = [h \in Hosts |-> Unset]
  /\ gmu = [h \in Hosts |-> Free]
  /\ stop = [h \in Hosts |-> FALSE]
  /\ children = <<>>
  /\ failed = 0

Goto(t, place) == xpc' = [xpc EXCEPT ![t] = place]
InCall(t) == xpc[t] # "out"
host(t) == hostOf[t]
\* What a process has spawned.  Once it is gone, its children are left and
\* nobody asks for them.
LeftBy(t) == [by |-> t, state |-> "left", status |-> Unset, async |-> TRUE]
Children(h) ==
  {c \in DOMAIN children : host(children[c].by) = h /\ children[c].state # "left"}

\* The bound, with the calls that have yet to spawn.
CallsLeft ==
  Len(children) + failed + Cardinality({t \in Threads : xpc[t] \in {"enter", "spawn"}})
    < MaxCalls

Call(t) ==
  /\ xpc[t] = "out" /\ CallsLeft
  /\ \E r \in requests[t] : request' = [request EXCEPT ![t] = r]
  /\ status' = [status EXCEPT ![t] = "0"]
  /\ Goto(t, "enter")
  /\ UNCHANGED <<pid, tm, isterm, hostVars, children, failed>>

\* chdir does nothing when there is no such directory, and nobody looks.
chdir(h, d) == cwd' = [cwd EXCEPT ![h] = IF d \in Dirs THEN d ELSE @]

\* AUTOENTERG; the directory to come back to is read once in a process.
MutexIgnored(h) == TRUE
MutexFree(h) == gmu[h] = Free
EnterMutex(t) ==
  /\ xpc[t] = "enter" /\ MutexFree(host(t))
  /\ gmu' = [gmu EXCEPT ![host(t)] = t]
  /\ orgcdir' = IF orgcdir[host(t)] = Unset
                  THEN [orgcdir EXCEPT ![host(t)] = cwd[host(t)]] ELSE orgcdir
  /\ chdir(host(t), request[t].setdir)
  /\ Goto(t, "spawn")
  /\ UNCHANGED <<request, pid, tm, isterm, status, stop, children, failed>>

\* posix_spawn.  On failure it returns a positive number and leaves pid as it
\* was: not initialised, the number of no process or what an earlier call has
\* left on the stack.  (Zero and the negative numbers, which stand for groups of
\* processes, are left out.)
Spawn(t) ==
  /\ xpc[t] = "spawn"
  /\ \/ /\ children' = Append(children, [by |-> t, state |-> "running", status |-> Unset,
                                         async |-> request[t].async])
        /\ pid' = [pid EXCEPT ![t] = Len(children) + 1]
        /\ UNCHANGED failed
     \/ /\ \E garbage \in {NoPid} \cup Children(host(t)) : pid' = [pid EXCEPT ![t] = garbage]
        /\ failed' = failed + 1
        /\ UNCHANGED children
  /\ Goto(t, "back")
  /\ UNCHANGED <<request, tm, isterm, status, hostVars>>

\* err >= 0 holds in both cases, so that both wait.
LeaveMutex(t) ==
  /\ xpc[t] = "back"
  /\ chdir(host(t), orgcdir[host(t)])
  /\ gmu' = [gmu EXCEPT ![host(t)] = Free]
  /\ Goto(t, "poll")
  /\ UNCHANGED <<request, pid, tm, isterm, status, orgcdir, stop, children, failed>>

\* waitpid gives the status of a child of this process that has ended, once.
HasEnded(t, c) == c \in Children(host(t)) /\ children[c].state = "zombie"
ReapUnread(t, c) ==
  /\ children' = [children EXCEPT ![c].state = "reaped"]
  /\ UNCHANGED status
Reap(t, c) ==
  /\ children' = [children EXCEPT ![c].state = "reaped"]
  /\ status' = [status EXCEPT ![t] = children[c].status]

\* The loop: stop, waitpid with WNOHANG ...
PollStopped(t) ==
  /\ xpc[t] = "poll" /\ stop[host(t)]
  /\ Goto(t, "after")
  /\ UNCHANGED <<request, pid, tm, isterm, status, hostVars, children, failed>>
PollEnded(t) ==
  /\ xpc[t] = "poll" /\ ~stop[host(t)]
  /\ HasEnded(t, pid[t])
  /\ Reap(t, pid[t])
  /\ isterm' = [isterm EXCEPT ![t] = TRUE]
  /\ Goto(t, "after")
  /\ UNCHANGED <<request, pid, tm, hostVars, failed>>
\* ... and, after the sleep, the timeout.
checktimeout(t, n) == request[t].timeout # Forever /\ n >= request[t].timeout
PollSleeps(t) ==
  /\ xpc[t] = "poll" /\ ~stop[host(t)]
  /\ ~HasEnded(t, pid[t])
  /\ tm' = IF request[t].timeout = Forever THEN tm ELSE [tm EXCEPT ![t] = @ + 1]
  /\ Goto(t, IF checktimeout(t, tm[t] + 1) THEN "after" ELSE "poll")
  /\ UNCHANGED <<request, pid, isterm, status, hostVars, children, failed>>

\* What has not ended is killed, unless EF_ASYNC is set.
KeepsChildAlways(t) == TRUE
KeepsChild(t) == request[t].async \/ isterm[t]
AfterLoop(t) ==
  /\ xpc[t] = "after"
  /\ \/ /\ KeepsChild(t)
        /\ Goto(t, "return")
        /\ UNCHANGED children
     \/ /\ ~KeepsChild(t)
        /\ children' = IF pid[t] \in Children(host(t)) /\ children[pid[t]].state = "running"
                         THEN [children EXCEPT ![pid[t]].state = "zombie", ![pid[t]].status = "killed"]
                         ELSE children
        /\ Goto(t, "reap")
  /\ UNCHANGED <<request, pid, tm, isterm, status, hostVars, failed>>

\* waitpid that blocks; it fails at once when there is no such child.
ReapKilled(t) ==
  /\ xpc[t] = "reap"
  /\ \/ HasEnded(t, pid[t]) /\ Reap(t, pid[t])
     \/ /\ pid[t] \in Children(host(t)) => children[pid[t]].state = "reaped"
        /\ UNCHANGED <<children, status>>
  /\ Goto(t, "return")
  /\ UNCHANGED <<request, pid, tm, isterm, hostVars, failed>>

\* The frame of the call and the rProcess it was called for are gone.
Return(t) ==
  /\ xpc[t] = "return"
  /\ Goto(t, "out")
  /\ request' = [request EXCEPT ![t] = NoRequest]
  /\ pid' = [pid EXCEPT ![t] = NoPid]
  /\ tm' = [tm EXCEPT ![t] = 0]
  /\ isterm' = [isterm EXCEPT ![t] = FALSE]
  /\ status' = [status EXCEPT ![t] = Unset]
  /\ UNCHANGED <<hostVars, children, failed>>

\* A child ends by itself.
ChildEnds(c) ==
  /\ children[c].state = "running"
  /\ children' = [children EXCEPT ![c].state = "zombie", ![c].status = "exited"]
  /\ UNCHANGED <<callVars, hostVars, failed>>

CallStep(t) ==
  \/ EnterMutex(t) \/ Spawn(t) \/ LeaveMutex(t)
  \/ PollStopped(t) \/ PollEnded(t) \/ PollSleeps(t)
  \/ AfterLoop(t) \/ ReapKilled(t) \/ Return(t)
=============================================================================
