---------------------------- MODULE Daemon_proofs ----------------------------
(***************************************************************************)
(* Theorems about Daemon, for all processes, threads, requests and bounds. *)
(***************************************************************************)
EXTENDS Daemon, SequenceTheorems, TLAPS

(***************************************************************************)
(* The pid file.  Whoever is past already_running has the lock, so that    *)
(* only he writes the file; a process that ends gives up both.             *)
(***************************************************************************)
Places == {"out", "demonize", "lock", "truncate", "write", "run", "block", "thread", "mainloop"}
Locked == {"truncate", "write", "run", "block", "thread", "mainloop"}
Written == {"run", "block", "thread", "mainloop"}

PlacesOK == spc \in [Processes -> Places]
LockOK == \A p \in Processes : spc[p] \in Locked => lock = p
PidFileInv == PlacesOK /\ LockOK /\ PidFileNamesRunner

LEMMA PidFileInit == Init => PidFileInv
  BY DEF Init, ServiceInit, PidFileInv, PlacesOK, LockOK, PidFileNamesRunner, Places, Locked

\* A process that ends takes nothing from another one.
LEMMA EndKeepsPidFile ==
  ASSUME PidFileInv, NEW p \in Processes, Ends(p)
  PROVE  PidFileInv'
  BY DEF Ends, PidFileInv, PlacesOK, LockOK, PidFileNamesRunner, Places, Locked

LEMMA PidFileNext == PidFileInv /\ [Next]_vars => PidFileInv'
  <1> SUFFICES ASSUME PidFileInv, [Next]_vars PROVE PidFileInv'
    OBVIOUS
  <1> USE DEF PidFileInv, PlacesOK, LockOK, PidFileNamesRunner, Places, Locked, At
  <1>1. ASSUME NEW p \in Processes, Start(p) PROVE PidFileInv'
    BY <1>1 DEF Start
  <1>2. ASSUME NEW p \in Processes, NEW signo \in Sent, Kill(p, signo) PROVE PidFileInv'
    <2>1. CASE Ends(p)
      BY <2>1, EndKeepsPidFile
    <2>2. CASE UNCHANGED <<spc, lock, pidfile>>
      BY <2>2
    <2> QED BY <1>2, <2>1, <2>2 DEF Kill
  <1>3. ASSUME NEW p \in Processes, Service(p) PROVE PidFileInv'
    <2>1. CASE IgnoreHup(p)
      BY <2>1 DEF IgnoreHup
    <2>2. CASE LockPidFile(p)
      <3>1. CASE Ends(p)
        BY <3>1, EndKeepsPidFile
      <3>2. CASE lock = NoOne /\ At(p, "lock", "truncate") /\ lock' = p /\ pidfile' = pidfile
        BY <3>2, ProcessesAssumption
      <3> QED BY <2>2, <3>1, <3>2 DEF LockPidFile, Locks
    <2>3. CASE TruncatePidFile(p)
      BY <2>3, ProcessesAssumption DEF TruncatePidFile
    <2>4. CASE WritePidFile(p)
      BY <2>4 DEF WritePidFile
    <2>5. CASE DefaultHup(p)
      BY <2>5 DEF DefaultHup
    <2>6. CASE BlockSignals(p)
      BY <2>6 DEF BlockSignals
    <2>7. CASE CreateThread(p)
      BY <2>7 DEF CreateThread
    <2> QED BY <1>3, <2>1, <2>2, <2>3, <2>4, <2>5, <2>6, <2>7 DEF Service, MainStep
  <1>4. ASSUME NEW p \in Processes, SignalThread(p) PROVE PidFileInv'
    BY <1>4 DEF SignalThread, TakeSignal
  <1>5. ASSUME NEW p \in Processes, MainReturns(p) PROVE PidFileInv'
    BY <1>5, EndKeepsPidFile DEF MainReturns, Exit
  <1>6. ASSUME NEW t \in Threads, MainloopCalls(t) \/ InMainloop(t) PROVE PidFileInv'
    BY <1>6 DEF MainloopCalls, InMainloop, serviceVars, serviceButPending
  <1>7. ASSUME NEW c \in DOMAIN children, Program(c) PROVE PidFileInv'
    BY <1>7 DEF Program, serviceButPending
  <1>8. CASE UNCHANGED vars
    BY <1>8 DEF vars, serviceVars
  <1> QED BY <1>1, <1>2, <1>3, <1>4, <1>5, <1>6, <1>7, <1>8 DEF Next

\* While a service runs, the pid file names it (already_running), for any number
\* of processes that are started and stopped in any way.
THEOREM PidFileCorrect == Spec => []PidFileNamesRunner
  <1>1. PidFileInv => PidFileNamesRunner
    BY DEF PidFileInv
  <1> QED BY <1>1, PidFileInit, PidFileNext, PTL DEF Spec

-----------------------------------------------------------------------------
(***************************************************************************)
(* The current directory.  A thread between the two chdir has the general  *)
(* mutex of its process, and orgcdir was read when nobody had it.          *)
(***************************************************************************)
CallPlaces == {"out", "enter", "spawn", "back", "poll", "after", "reap", "return"}

CallTypes ==
  /\ xpc \in [Threads -> CallPlaces]
  /\ cwd \in [Hosts -> Dirs] /\ orgcdir \in [Hosts -> {Unset, Home}]
  /\ gmu \in [Hosts -> Threads \cup {Free}]
MutexOK ==
  /\ \A t \in Threads : xpc[t] \in {"spawn", "back"} => gmu[host(t)] = t
  /\ \A h \in Hosts : gmu[h] # Free =>
       host(gmu[h]) = h /\ xpc[gmu[h]] \in {"spawn", "back"} /\ orgcdir[h] = Home
DirectoryInv == CallTypes /\ MutexOK /\ DirectoriesKeptApart

LEMMA DirectoryInit == Init => DirectoryInv
  BY HostsAssumption, HostsAreProcesses
     DEF Init, ChildInit, DirectoryInv, CallTypes, MutexOK, DirectoriesKeptApart, CallPlaces

\* A thread that goes from one place to another outside of the mutex.
LEMMA OutsideMutex ==
  ASSUME DirectoryInv, NEW t \in Threads, NEW place \in CallPlaces,
         xpc[t] \notin {"spawn", "back"}, place \notin {"spawn", "back"},
         Goto(t, place), UNCHANGED <<cwd, orgcdir, gmu>>,
         \A u \in Threads \ {t} : request'[u] = request[u]
  PROVE  DirectoryInv'
  BY HostsAssumption, FreeAssumption
     DEF DirectoryInv, CallTypes, MutexOK, DirectoriesKeptApart, CallPlaces, Goto, host

LEMMA DirectoryNext == DirectoryInv /\ [Next]_vars => DirectoryInv'
  <1> SUFFICES ASSUME DirectoryInv, [Next]_vars PROVE DirectoryInv'
    OBVIOUS
  <1> USE HostsAssumption, FreeAssumption, HostsAreProcesses
  <1>1. CASE UNCHANGED <<xpc, request, cwd, orgcdir, gmu>>
    BY <1>1 DEF DirectoryInv, CallTypes, MutexOK, DirectoriesKeptApart, host
  <1>2. ASSUME NEW t \in Threads, MainloopCalls(t) PROVE DirectoryInv'
    <2>1. Goto(t, "enter") /\ xpc[t] = "out" /\ UNCHANGED <<cwd, orgcdir, gmu>>
      BY <1>2 DEF MainloopCalls, Call, hostVars
    <2>2. \A u \in Threads \ {t} : request'[u] = request[u]
      BY <1>2 DEF MainloopCalls, Call
    <2> QED BY <2>1, <2>2, OutsideMutex DEF CallPlaces
  <1>3. ASSUME NEW t \in Threads, CallStep(t) PROVE DirectoryInv'
    <2>1. CASE EnterMutex(t)
      BY <2>1 DEF EnterMutex, MutexFree, chdir, Goto, host, Unset,
                  DirectoryInv, CallTypes, CallPlaces, MutexOK, DirectoriesKeptApart
    <2>2. CASE Spawn(t)
      BY <2>2 DEF Spawn, Goto, host, hostVars,
                  DirectoryInv, CallTypes, CallPlaces, MutexOK, DirectoriesKeptApart
    <2>3. CASE LeaveMutex(t)
      BY <2>3 DEF LeaveMutex, chdir, Goto, host,
                  DirectoryInv, CallTypes, CallPlaces, MutexOK, DirectoriesKeptApart
    <2>4. CASE \E place \in {"poll", "after", "reap", "return", "out"} :
                 /\ xpc[t] \in {"poll", "after", "reap", "return"}
                 /\ Goto(t, place) /\ UNCHANGED <<cwd, orgcdir, gmu>>
                 /\ \A u \in Threads \ {t} : request'[u] = request[u]
      BY <2>4, OutsideMutex DEF CallPlaces
    <2>5. CASE PollStopped(t)
      BY <2>4, <2>5 DEF PollStopped, hostVars
    <2>6. CASE PollEnded(t)
      BY <2>4, <2>6 DEF PollEnded, hostVars
    <2>7. CASE PollSleeps(t)
      BY <2>4, <2>7 DEF PollSleeps, hostVars
    <2>8. CASE AfterLoop(t)
      BY <2>4, <2>8 DEF AfterLoop, hostVars
    <2>9. CASE ReapKilled(t)
      BY <2>4, <2>9 DEF ReapKilled, hostVars
    <2>10. CASE Return(t)
      BY <2>4, <2>10 DEF Return, hostVars
    <2> QED BY <1>3, <2>1, <2>2, <2>3, <2>5, <2>6, <2>7, <2>8, <2>9, <2>10 DEF CallStep
  <1>4. ASSUME NEW p \in Processes, MainReturns(p) PROVE DirectoryInv'
    BY <1>4 DEF MainReturns, callVars, InCall, host,
                DirectoryInv, CallTypes, MutexOK, DirectoriesKeptApart
  <1>5. ASSUME NEW p \in Processes,
               \/ UNCHANGED childVars
               \/ SignalThread(p)
        PROVE  DirectoryInv'
    BY <1>1, <1>5 DEF SignalThread, childVars, callVars, hostVars
  <1>6. ASSUME NEW c \in DOMAIN children, Program(c) PROVE DirectoryInv'
    BY <1>1, <1>6 DEF Program, ChildEnds, callVars, hostVars
  <1>7. CASE UNCHANGED vars
    BY <1>1, <1>7 DEF vars, childVars, callVars, hostVars
  <1> QED BY <1>2, <1>3, <1>4, <1>5, <1>6, <1>7 DEF Next, InMainloop, Service

\* A program starts in the directory its call asks for, whatever other threads
\* of the process do at the same time (the two chdir of SysExecute).
THEOREM DirectoriesCorrect == Spec => []DirectoriesKeptApart
  <1>1. DirectoryInv => DirectoriesKeptApart
    BY DEF DirectoryInv
  <1> QED BY <1>1, DirectoryInit, DirectoryNext, PTL DEF Spec

-----------------------------------------------------------------------------
(***************************************************************************)
(* The children.  As long as every spawn has succeeded, a call that goes   *)
(* on holds the child it has spawned itself, and no two calls the same.    *)
(***************************************************************************)
Requests == {NoRequest} \cup UNION {requests[t] : t \in Threads}
Child == [by : Threads, state : {"running", "zombie", "reaped", "left"},
          status : {Unset, "exited", "killed"}, async : BOOLEAN]

ChildTypes ==
  /\ xpc \in [Threads -> CallPlaces] /\ request \in [Threads -> Requests]
  /\ pid \in [Threads -> Nat] /\ isterm \in [Threads -> BOOLEAN]
  /\ status \in [Threads -> {Unset, "0", "exited", "killed"}]
  /\ children \in Seq(Child) /\ failed \in Nat

Holding == {"back", "poll", "after", "reap"}
Unread == {"running", "zombie"}

\* What a call has of its child: where the call is decides what became of the child, and
\* whether status was read from it.
HoldsChild(t) ==
  /\ pid[t] \in DOMAIN children
  /\ children[pid[t]].by = t /\ children[pid[t]].async = request[t].async
  /\ xpc[t] \in {"back", "poll"} => children[pid[t]].state \in Unread /\ ~isterm[t] /\ status[t] = "0"
  /\ xpc[t] = "after" /\ ~isterm[t] => children[pid[t]].state \in Unread /\ status[t] = "0"
  /\ xpc[t] = "after" /\ isterm[t] => /\ children[pid[t]].state = "reaped"
                                      /\ status[t] = children[pid[t]].status
  /\ xpc[t] = "reap" => children[pid[t]].state = "zombie"
  /\ xpc[t] = "return" => \/ children[pid[t]].state = "reaped" /\ status[t] = children[pid[t]].status
                          \/ request[t].async /\ status[t] = "0" /\ children[pid[t]].state # "left"
CallOK(t) ==
  /\ xpc[t] \in Holding \cup {"return"} => HoldsChild(t)
  /\ xpc[t] \in {"out", "enter", "spawn"} => ~isterm[t]
  /\ xpc[t] \in {"enter", "spawn"} => status[t] = "0"
\* Who spawned the child c, not asynchronously, still has it or has reaped it.
IsHeld(c) ==
  children[c].state \in Unread /\ ~children[c].async =>
    pid[children[c].by] = c /\ xpc[children[c].by] \in Holding
CallsHoldChild == (\A t \in Threads : CallOK(t)) /\ (\A c \in DOMAIN children : IsHeld(c))

ChildInv == ChildTypes /\ (failed = 0 => CallsHoldChild)

LEMMA TypeOfChild ==
  ASSUME ChildTypes, NEW c \in DOMAIN children
  PROVE  /\ children[c] \in Child /\ children[c].by \in Threads /\ children[c].async \in BOOLEAN
         /\ children[c].state \in {"running", "zombie", "reaped", "left"}
  <1>1. c \in 1 .. Len(children) /\ children \in Seq(Child)
    BY LenProperties DEF ChildTypes
  <1>2. children[c] \in Child
    BY <1>1, ElementOfSeq
  <1> QED BY <1>2 DEF Child

LEMMA ChildInit0 == Init => ChildInv
  <1> SUFFICES ASSUME Init PROVE ChildInv
    OBVIOUS
  <1> USE DEF Init, ChildInit
  <1>1. ChildTypes
    BY DEF ChildTypes, CallPlaces, Requests, NoPid
  <1>2. CallsHoldChild
    BY DEF CallsHoldChild, CallOK, Holding
  <1> QED BY <1>1, <1>2 DEF ChildInv

\* The call of t changes what is of t, and the children t has spawned.
OnlyOf(t) ==
  /\ \A u \in Threads \ {t} : /\ xpc'[u] = xpc[u] /\ request'[u] = request[u] /\ pid'[u] = pid[u]
                              /\ isterm'[u] = isterm[u] /\ status'[u] = status[u]
  /\ \A c \in DOMAIN children : /\ c \in DOMAIN children'
                                /\ children[c].by # t => children'[c] = children[c]
  /\ \A c \in DOMAIN children' : children'[c].by # t => c \in DOMAIN children /\ children[c].by # t

LEMMA OthersKeepTheirs ==
  ASSUME ChildTypes, ChildTypes', CallsHoldChild, NEW t \in Threads, OnlyOf(t), CallOK(t)',
         \A c \in DOMAIN children' : children'[c].by = t => IsHeld(c)'
  PROVE  CallsHoldChild'
  <1>1. ASSUME NEW u \in Threads \ {t} PROVE CallOK(u)'
    <2>1. CASE xpc[u] \in Holding \cup {"return"}
      <3>1. HoldsChild(u)
        BY <2>1 DEF CallsHoldChild, CallOK
      <3>2. /\ pid[u] \in DOMAIN children' /\ children'[pid[u]] = children[pid[u]]
        BY <3>1 DEF OnlyOf, HoldsChild
      <3>3. HoldsChild(u)'
        BY <1>1, <3>1, <3>2 DEF OnlyOf, HoldsChild
      <3> QED BY <2>1, <3>3 DEF OnlyOf, CallOK, Holding
    <2>2. CASE xpc[u] \notin Holding \cup {"return"}
      BY <2>2 DEF OnlyOf, CallOK, CallsHoldChild
    <2> QED BY <2>1, <2>2
  <1>2. ASSUME NEW c \in DOMAIN children', children'[c].by # t PROVE IsHeld(c)'
    <2>1. c \in DOMAIN children /\ children'[c] = children[c] /\ children[c] \in Child
      BY <1>2 DEF OnlyOf, ChildTypes
    <2>2. children[c].by \in Threads \ {t}
      BY <1>2, <2>1 DEF Child
    <2> QED BY <2>1, <2>2 DEF OnlyOf, IsHeld, CallsHoldChild
  <1> QED BY <1>1, <1>2 DEF CallsHoldChild

\* The child c goes into another state: it stays the child it was.
LEMMA ChildChanges ==
  ASSUME ChildTypes, NEW c \in DOMAIN children, NEW new \in Child, new.by = children[c].by,
         children' = [children EXCEPT ![c] = new]
  PROVE  /\ children' \in Seq(Child) /\ DOMAIN children' = DOMAIN children
         /\ children'[c] = new
         /\ \A d \in DOMAIN children : children'[d].by = children[d].by
                                       /\ (d # c => children'[d] = children[d])
  <1>1. c \in 1 .. Len(children) /\ DOMAIN children = 1 .. Len(children) /\ Len(children) \in Nat
    BY LenProperties DEF ChildTypes
  <1>2. children' \in Seq(Child) /\ Len(children') = Len(children)
    BY <1>1, ExceptSeq DEF ChildTypes
  <1> QED BY <1>1, <1>2

LEMMA CallKeeps ==
  ASSUME ChildInv, NEW t \in Threads, Call(t)
  PROVE  ChildInv'
  <1> USE RequestsAssumption DEF ChildInv, Call, Goto
  <1>1. ChildTypes'
    BY DEF ChildTypes, Requests, CallPlaces
  <1>2. OnlyOf(t)
    BY DEF OnlyOf, ChildTypes
  <1>3. failed = 0 => CallOK(t)'
    BY DEF CallsHoldChild, CallOK, ChildTypes, Holding
  <1>4. failed = 0 => \A c \in DOMAIN children : children[c].by = t => IsHeld(c)'
    BY DEF CallsHoldChild, IsHeld, ChildTypes, Holding
  <1> QED BY <1>1, <1>2, <1>3, <1>4, OthersKeepTheirs

\* Where the mutex, the sleep or the return of a call changes no child.
LEMMA QuietStepKeeps ==
  ASSUME ChildInv, NEW t \in Threads, UNCHANGED <<children, failed>>,
         EnterMutex(t) \/ LeaveMutex(t) \/ PollStopped(t) \/ PollSleeps(t) \/ Return(t)
  PROVE  ChildInv'
  <1> USE DEF ChildInv, Goto, EnterMutex, LeaveMutex, PollStopped, PollSleeps, Return
  <1>1. ChildTypes'
    <2>1. /\ \E place \in CallPlaces : xpc' = [xpc EXCEPT ![t] = place]
          /\ request' = request \/ request' = [request EXCEPT ![t] = NoRequest]
          /\ pid' = pid \/ pid' = [pid EXCEPT ![t] = 0]
          /\ isterm' = isterm \/ isterm' = [isterm EXCEPT ![t] = FALSE]
          /\ status' = status \/ status' = [status EXCEPT ![t] = Unset]
      BY DEF CallPlaces, NoPid
    <2>2. NoRequest \in Requests
      BY DEF Requests
    <2> HIDE DEF Goto, EnterMutex, LeaveMutex, PollStopped, PollSleeps, Return
    <2>3. xpc' \in [Threads -> CallPlaces] /\ request' \in [Threads -> Requests]
      BY <2>1, <2>2 DEF ChildTypes
    <2>4. pid' \in [Threads -> Nat]
      BY <2>1 DEF ChildTypes
    <2>6. isterm' \in [Threads -> BOOLEAN]
      <3>1. CASE isterm' = isterm
        BY <3>1 DEF ChildTypes
      <3>2. CASE isterm' = [isterm EXCEPT ![t] = FALSE]
        BY <3>2 DEF ChildTypes
      <3> QED BY <2>1, <3>1, <3>2
    <2>5. status' \in [Threads -> {Unset, "0", "exited", "killed"}]
      BY <2>1 DEF ChildTypes
    <2> QED BY <2>3, <2>4, <2>5, <2>6 DEF ChildTypes
  <1>2. OnlyOf(t)
    BY DEF OnlyOf, ChildTypes
  <1>3. failed = 0 => CallOK(t)'
    BY DEF CallsHoldChild, CallOK, HoldsChild, ChildTypes, Holding, Unread
  <1>4. failed = 0 => \A c \in DOMAIN children : children[c].by = t => IsHeld(c)'
    BY DEF CallsHoldChild, CallOK, HoldsChild, IsHeld, ChildTypes, Holding, Unread
  <1> QED BY <1>1, <1>2, <1>3, <1>4, OthersKeepTheirs

LEMMA SpawnKeeps ==
  ASSUME ChildInv, NEW t \in Threads, Spawn(t)
  PROVE  ChildInv'
  <1> USE DEF ChildInv, Goto, Spawn
  <1>0. DOMAIN children = 1 .. Len(children) /\ Len(children) \in Nat
    BY LenProperties DEF ChildTypes
  <1>1. CASE failed' = failed + 1 /\ UNCHANGED children
    <2>1. ChildTypes'
      <3>1. PICK garbage \in {NoPid} \cup Children(host(t)) : pid' = [pid EXCEPT ![t] = garbage]
        BY <1>1 DEF ChildTypes
      <3>2. garbage \in Nat
        BY <1>0 DEF NoPid, Children
      <3> QED BY <1>1, <3>1, <3>2 DEF ChildTypes, CallPlaces
    <2> QED BY <1>1, <2>1 DEF ChildTypes
  <1>2. CASE failed' = failed
    <2> DEFINE new == [by |-> t, state |-> "running", status |-> Unset, async |-> request[t].async]
    <2>1. new \in Child /\ children' = Append(children, new)
      <3>1. request[t] \in Requests
        BY DEF ChildTypes
      <3>2. request[t].async \in BOOLEAN
        <4>1. CASE request[t] = NoRequest
          BY <4>1 DEF NoRequest
        <4>2. CASE \E u \in Threads : request[t] \in requests[u]
          BY <4>2, RequestsAssumption
        <4> QED BY <3>1, <4>1, <4>2 DEF Requests
      <3>3. new \in Child
        BY <3>2 DEF Child
      <3>4. children' = Append(children, new)
        BY <1>2 DEF ChildTypes
      <3> QED BY <3>3, <3>4
    <2>2. /\ children' \in Seq(Child) /\ DOMAIN children' = 1 .. Len(children) + 1
          /\ \A c \in 1 .. Len(children) : children'[c] = children[c]
          /\ children'[Len(children) + 1] = new
      <3>1. children \in Seq(Child)
        BY DEF ChildTypes
      <3> HIDE DEF new
      <3>2. children' \in Seq(Child) /\ Len(children') = Len(children) + 1
        BY <2>1, <3>1, AppendProperties
      <3>3. DOMAIN children' = 1 .. Len(children) + 1
        BY <3>2, LenProperties
      <3> QED BY <2>1, <3>1, <3>2, <3>3, AppendProperties
    <2> HIDE DEF new
    <2>3. ChildTypes' /\ pid'[t] = Len(children) + 1
      BY <1>0, <1>2, <2>2 DEF ChildTypes, CallPlaces
    <2>4. new.by = t /\ new.state = "running" /\ new.async = request[t].async
      BY DEF new
    <2>5. OnlyOf(t)
      BY <1>0, <2>2, <2>4 DEF OnlyOf, ChildTypes
    <2>6. failed = 0 => CallOK(t)'
      BY <1>0, <2>2, <2>3, <2>4 DEF CallsHoldChild, CallOK, HoldsChild, ChildTypes, Holding, Unread
    <2>7. failed = 0 => \A c \in DOMAIN children' : children'[c].by = t => IsHeld(c)'
      <3>1. ASSUME failed = 0, NEW c \in 1 .. Len(children), children[c].by = t PROVE IsHeld(c)'
        <4>1. ~(children[c].state \in Unread /\ ~children[c].async)
          BY <1>0, <3>1 DEF CallsHoldChild, IsHeld, Holding
        <4> QED BY <2>2, <4>1 DEF IsHeld
      <3>2. PICK c \in Nat : c = Len(children) + 1
        BY <1>0
      <3>3. IsHeld(c)'
        BY <2>2, <2>3, <2>4, <3>2 DEF IsHeld, Holding, ChildTypes
      <3>4. DOMAIN children' = 1 .. Len(children) \cup {c}
        BY <1>0, <2>2, <3>2
      <3> QED BY <2>2, <3>1, <3>3, <3>4
    <2> QED BY <1>2, <2>3, <2>5, <2>6, <2>7, OthersKeepTheirs
  <1> QED BY <1>1, <1>2

\* Reaping, with or without a child to reap.
LEMMA ReapingKeeps ==
  ASSUME ChildInv, NEW t \in Threads, PollEnded(t) \/ ReapKilled(t)
  PROVE  ChildInv'
  <1> DEFINE c0 == pid[t]
             new == [children[c0] EXCEPT !.state = "reaped"]
  <1> USE DEF ChildInv, Goto
  <1>1. CASE HasEnded(t, c0) /\ Reap(t, c0)
    <2>1. c0 \in DOMAIN children /\ children[c0] \in Child /\ children[c0].state = "zombie"
      BY <1>1 DEF HasEnded, Children, ChildTypes
    <2>2. /\ new \in Child /\ new.by = children[c0].by /\ new.state = "reaped"
          /\ new.status = children[c0].status /\ new.async = children[c0].async
      BY <2>1 DEF Child
    <2>3. children' = [children EXCEPT ![c0] = new] /\ status' = [status EXCEPT ![t] = children[c0].status]
      BY <1>1 DEF Reap
    <2>4. PICK c \in DOMAIN children : c = c0
      BY <2>1
    <2>5. PICK n \in Child : n = new
      BY <2>2
    <2>6. /\ children' \in Seq(Child) /\ DOMAIN children' = DOMAIN children
          /\ children'[c] = n
          /\ \A d \in DOMAIN children : children'[d].by = children[d].by
                                        /\ (d # c => children'[d] = children[d])
      BY <2>2, <2>3, <2>4, <2>5, ChildChanges
    <2> HIDE DEF new
    <2>7. /\ xpc' = [xpc EXCEPT ![t] = IF xpc[t] = "poll" THEN "after" ELSE "return"]
          /\ isterm' = IF xpc[t] = "poll" THEN [isterm EXCEPT ![t] = TRUE] ELSE isterm
          /\ xpc[t] \in {"poll", "reap"} /\ UNCHANGED <<request, pid, failed>>
      BY DEF PollEnded, ReapKilled
    <2>8. ChildTypes'
      BY <2>1, <2>3, <2>6, <2>7 DEF ChildTypes, CallPlaces, Child
    <2>9. failed = 0 => children[c0].by = t /\ children[c0].async = request[t].async
      BY <2>7 DEF CallsHoldChild, CallOK, HoldsChild, Holding
    <2>10. failed = 0 => OnlyOf(t)
      BY <2>3, <2>4, <2>6, <2>7, <2>9 DEF OnlyOf, ChildTypes
    <2>11. failed = 0 => CallOK(t)'
      BY <2>2, <2>3, <2>4, <2>5, <2>6, <2>7, <2>9 DEF CallOK, HoldsChild, ChildTypes, Holding
    <2>12. failed = 0 => \A d \in DOMAIN children' : children'[d].by = t => IsHeld(d)'
      <3>1. ASSUME failed = 0, NEW d \in DOMAIN children, d # c, children[d].by = t PROVE IsHeld(d)'
        BY <2>4, <2>6, <3>1 DEF CallsHoldChild, IsHeld
      <3>2. IsHeld(c)'
        BY <2>2, <2>5, <2>6 DEF IsHeld, Unread
      <3> QED BY <2>6, <3>1, <3>2
    <2> QED BY <2>7, <2>8, <2>10, <2>11, <2>12, OthersKeepTheirs
  <1>2. CASE /\ xpc[t] = "reap" /\ Goto(t, "return")
             /\ c0 \in Children(host(t)) => children[c0].state = "reaped"
             /\ UNCHANGED <<request, pid, isterm, status, children, failed>>
    <2>1. ChildTypes'
      BY <1>2 DEF ChildTypes, CallPlaces
    <2>2. failed # 0
      BY <1>2 DEF CallsHoldChild, CallOK, HoldsChild, Holding, Children
    <2> QED BY <1>2, <2>1, <2>2
  <1> QED BY <1>1, <1>2 DEF PollEnded, ReapKilled

\* The kill after the loop.
LEMMA AfterLoopKeeps ==
  ASSUME ChildInv, NEW t \in Threads, AfterLoop(t)
  PROVE  ChildInv'
  <1> USE DEF ChildInv, Goto
  <1>0. /\ xpc[t] = "after" /\ UNCHANGED <<request, pid, isterm, status, failed>>
        /\ xpc' = [xpc EXCEPT ![t] = IF KeepsChild(t) THEN "return" ELSE "reap"]
    BY DEF AfterLoop
  <1>1. CASE /\ UNCHANGED children
             /\ ~KeepsChild(t) => ~(pid[t] \in Children(host(t)) /\ children[pid[t]].state = "running")
    <2>1. ChildTypes'
      BY <1>0, <1>1 DEF ChildTypes, CallPlaces
    <2>2. OnlyOf(t)
      BY <1>0, <1>1 DEF OnlyOf, ChildTypes
    <2>3. failed = 0 => CallOK(t)'
      <3>1. SUFFICES ASSUME failed = 0 PROVE CallOK(t)'
        OBVIOUS
      <3>2. HoldsChild(t)
        BY <1>0, <3>1 DEF CallsHoldChild, CallOK, Holding
      <3>3. ~KeepsChild(t) => children[pid[t]].state = "zombie"
        BY <1>0, <1>1, <3>2 DEF HoldsChild, KeepsChild, Children, ChildTypes, Unread
      <3> QED BY <1>0, <1>1, <3>2, <3>3
              DEF CallOK, HoldsChild, KeepsChild, ChildTypes, Holding, Unread
    <2>4. failed = 0 => \A c \in DOMAIN children : children[c].by = t => IsHeld(c)'
      BY <1>0, <1>1 DEF CallsHoldChild, CallOK, HoldsChild, IsHeld, KeepsChild, ChildTypes, Holding, Unread
    <2> QED BY <1>0, <1>1, <2>1, <2>2, <2>3, <2>4, OthersKeepTheirs
  <1>2. CASE /\ ~KeepsChild(t) /\ pid[t] \in Children(host(t)) /\ children[pid[t]].state = "running"
             /\ children' = [children EXCEPT ![pid[t]].state = "zombie", ![pid[t]].status = "killed"]
    <2>1. PICK c \in DOMAIN children : c = pid[t]
      BY <1>2 DEF Children
    <2>2. PICK n \in Child : /\ n = [children[c] EXCEPT !.state = "zombie", !.status = "killed"]
                             /\ n.by = children[c].by /\ n.state = "zombie" /\ n.async = children[c].async
      <3>1. children[c] \in Child
        BY TypeOfChild
      <3>2. [children[c] EXCEPT !.state = "zombie", !.status = "killed"] \in Child
        BY <3>1 DEF Child
      <3> QED BY <3>1, <3>2 DEF Child
    <2>3. children' = [children EXCEPT ![c] = n]
      BY <1>2, <2>1, <2>2 DEF ChildTypes
    <2>4. /\ children' \in Seq(Child) /\ DOMAIN children' = DOMAIN children
          /\ children'[c] = n
          /\ \A d \in DOMAIN children : children'[d].by = children[d].by
                                        /\ (d # c => children'[d] = children[d])
      BY <2>2, <2>3, ChildChanges
    <2>5. ChildTypes'
      BY <1>0, <2>4 DEF ChildTypes, CallPlaces
    <2>6. failed = 0 => HoldsChild(t)
      BY <1>0 DEF CallsHoldChild, CallOK, Holding
    <2>7. failed = 0 => OnlyOf(t)
      BY <1>0, <2>1, <2>4, <2>6 DEF OnlyOf, ChildTypes, HoldsChild
    <2>8. failed = 0 => CallOK(t)'
      BY <1>0, <1>2, <2>1, <2>2, <2>4, <2>6 DEF CallOK, HoldsChild, ChildTypes, Holding
    <2>9. failed = 0 => \A d \in DOMAIN children' : children'[d].by = t => IsHeld(d)'
      <3>1. ASSUME failed = 0, NEW d \in DOMAIN children, d # c, children[d].by = t PROVE IsHeld(d)'
        BY <1>0, <2>1, <2>4, <3>1 DEF CallsHoldChild, IsHeld
      <3>2. failed = 0 => IsHeld(c)'
        <4>1. failed = 0 => children'[c].by = t /\ pid'[t] = c
          BY <1>0, <2>1, <2>2, <2>4, <2>6 DEF HoldsChild
        <4>2. xpc'[t] = "reap"
          BY <1>0, <1>2 DEF ChildTypes
        <4> QED BY <4>1, <4>2 DEF IsHeld, Holding
      <3> QED BY <2>4, <3>1, <3>2
    <2> QED BY <1>0, <2>5, <2>7, <2>8, <2>9, OthersKeepTheirs
  <1> QED BY <1>1, <1>2 DEF AfterLoop

\* A child ends by itself: who holds it finds it ended.
LEMMA ChildEndsKeeps ==
  ASSUME ChildInv, NEW c \in DOMAIN children, ChildEnds(c)
  PROVE  ChildInv'
  <1> USE DEF ChildInv, ChildEnds, callVars
  <1>1. PICK n \in Child : /\ n = [children[c] EXCEPT !.state = "zombie", !.status = "exited"]
                           /\ n.by = children[c].by /\ n.state = "zombie" /\ n.async = children[c].async
    <2>1. children[c] \in Child
      BY TypeOfChild
    <2>2. [children[c] EXCEPT !.state = "zombie", !.status = "exited"] \in Child
      BY <2>1 DEF Child
    <2> QED BY <2>1, <2>2 DEF Child
  <1>2. children' = [children EXCEPT ![c] = n]
    BY <1>1 DEF ChildTypes
  <1>3. /\ children' \in Seq(Child) /\ DOMAIN children' = DOMAIN children
        /\ children'[c] = n
        /\ \A d \in DOMAIN children : children'[d].by = children[d].by
                                      /\ (d # c => children'[d] = children[d])
    BY <1>1, <1>2, ChildChanges
  <1>4. ChildTypes'
    BY <1>3 DEF ChildTypes
  <1>5. ASSUME failed = 0, NEW t \in Threads PROVE CallOK(t)'
    <2>1. CallOK(t)
      BY <1>5 DEF CallsHoldChild
    <2>2. xpc[t] \in Holding \cup {"return"} => HoldsChild(t)'
      BY <1>1, <1>3, <2>1 DEF CallOK, HoldsChild, Unread
    <2> QED BY <2>1, <2>2 DEF CallOK
  <1>6. ASSUME failed = 0, NEW d \in DOMAIN children PROVE IsHeld(d)'
    <2>1. IsHeld(d)
      BY <1>6 DEF CallsHoldChild
    <2> QED BY <1>1, <1>3, <2>1 DEF IsHeld, Unread
  <1> QED BY <1>3, <1>4, <1>5, <1>6 DEF CallsHoldChild

\* The process ends: no call of it goes on, and its children are asked for no more.
LEMMA MainReturnsKeeps ==
  ASSUME ChildInv, NEW p \in Processes, MainReturns(p)
  PROVE  ChildInv'
  <1> USE DEF ChildInv, MainReturns, callVars
  <1>1. /\ DOMAIN children' = DOMAIN children
        /\ \A c \in DOMAIN children : children[c] \in Child /\ children'[c] \in Child
                                      /\ children'[c].by = children[c].by
    <2>1. \A t \in Threads : LeftBy(t) \in Child /\ LeftBy(t).by = t
      BY DEF LeftBy, Child
    <2> QED BY <2>1, TypeOfChild
  <1>2. children' \in Seq(Child)
    <2>1. Len(children) \in Nat /\ DOMAIN children = 1 .. Len(children)
      BY LenProperties DEF ChildTypes
    <2>2. children' \in [1 .. Len(children) -> Child]
      BY <1>1, <2>1
    <2> QED BY <2>1, <2>2, SeqDef
  <1>3. ChildTypes'
    BY <1>2 DEF ChildTypes
  <1>4. ASSUME failed = 0, NEW t \in Threads PROVE CallOK(t)'
    <2>1. CallOK(t)
      BY <1>4 DEF CallsHoldChild
    <2>2. CASE xpc[t] = "out"
      BY <2>1, <2>2 DEF CallOK, Holding
    <2>3. CASE xpc[t] # "out"
      <3>1. HoldsChild(t) => children'[pid[t]] = children[pid[t]]
        BY <2>3 DEF HoldsChild, InCall
      <3> QED BY <1>1, <2>1, <3>1 DEF CallOK, HoldsChild
    <2> QED BY <2>2, <2>3
  <1>5. ASSUME failed = 0, NEW c \in DOMAIN children PROVE IsHeld(c)'
    <2>1. IsHeld(c)
      BY <1>5 DEF CallsHoldChild
    <2>2. children'[c] = children[c] \/ children'[c].async
      BY DEF LeftBy
    <2> QED BY <1>1, <2>1, <2>2 DEF IsHeld
  <1> QED BY <1>1, <1>3, <1>4, <1>5 DEF CallsHoldChild

LEMMA ChildNext == ChildInv /\ [Next]_vars => ChildInv'
  <1> SUFFICES ASSUME ChildInv, [Next]_vars PROVE ChildInv'
    OBVIOUS
  <1>1. CASE UNCHANGED <<callVars, children, failed>>
    BY <1>1 DEF ChildInv, ChildTypes, CallsHoldChild, CallOK, HoldsChild, IsHeld, callVars
  <1>2. ASSUME NEW t \in Threads, MainloopCalls(t) PROVE ChildInv'
    BY <1>2, CallKeeps DEF MainloopCalls
  <1>3. ASSUME NEW t \in Threads, CallStep(t) PROVE ChildInv'
    <2>1. CASE EnterMutex(t) \/ LeaveMutex(t) \/ PollStopped(t) \/ PollSleeps(t) \/ Return(t)
      <3>1. UNCHANGED <<children, failed>>
        BY <2>1 DEF EnterMutex, LeaveMutex, PollStopped, PollSleeps, Return
      <3> QED BY <2>1, <3>1, QuietStepKeeps
    <2>2. CASE Spawn(t) \/ PollEnded(t) \/ ReapKilled(t) \/ AfterLoop(t)
      BY <2>2, SpawnKeeps, ReapingKeeps, AfterLoopKeeps
    <2> QED BY <1>3, <2>1, <2>2 DEF CallStep
  <1>4. ASSUME NEW p \in Processes, MainReturns(p) PROVE ChildInv'
    BY <1>4, MainReturnsKeeps
  <1>5. ASSUME NEW p \in Processes, UNCHANGED childVars \/ SignalThread(p) PROVE ChildInv'
    BY <1>1, <1>5 DEF SignalThread, childVars
  <1>6. ASSUME NEW c \in DOMAIN children, Program(c) PROVE ChildInv'
    BY <1>6, ChildEndsKeeps DEF Program
  <1>7. CASE UNCHANGED vars
    BY <1>1, <1>7 DEF vars, childVars
  <1> QED BY <1>2, <1>3, <1>4, <1>5, <1>6, <1>7 DEF Next, InMainloop, Service

LEMMA ChildInvariant == Spec => []ChildInv
  BY ChildInit0, ChildNext, PTL DEF Spec

\* A call without EF_ASYNC leaves no child behind, however it ends (SysExecute), whatever the
\* threads, the requests, the programs and the signals.
THEOREM ChildrenCorrect == Spec => []NoChildLeft
  <1>1. ChildInv => NoChildLeft
    <2> SUFFICES ASSUME ChildInv, failed = 0, NEW p \in Processes, NEW c \in Children(p),
                        ~children[c].async /\ children[c].state # "reaped"
                 PROVE  \E t \in Threads : pid[t] = c /\ xpc[t] \in {"back", "poll", "after", "reap"}
      BY DEF NoChildLeft
    <2>1. c \in DOMAIN children /\ children[c] \in Child /\ children[c].state \in Unread
      BY TypeOfChild DEF ChildInv, Children, Unread
    <2>2. pid[children[c].by] = c /\ xpc[children[c].by] \in Holding
      BY <2>1 DEF ChildInv, CallsHoldChild, IsHeld
    <2> QED BY <2>1, <2>2 DEF Child, Holding
  <1> QED BY <1>1, ChildInvariant, PTL

\* SysExecute returns the status of the child that the same call has spawned.
THEOREM StatusCorrect == Spec => []StatusIsOfOwnChild
  <1>1. ChildInv => StatusIsOfOwnChild
    BY DEF ChildInv, CallsHoldChild, CallOK, HoldsChild, StatusIsOfOwnChild
  <1> QED BY <1>1, ChildInvariant, PTL
=============================================================================
