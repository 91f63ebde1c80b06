------------------------------ MODULE SyncChan ------------------------------
(***************************************************************************)
(* Channels of src/tbsync (chan_t, event_chan_t) and the waits on them.    *)
(*                                                                         *)
(* A channel has one mutex and two events, its read and its write event,   *)
(* each with a chain of the links that wait for it.  A thread calls push,  *)
(* pop or wait_multiple, which make an event_group_t and call its wait().  *)
(* There is no signal(): a thread that tries an operation offers what it   *)
(* did to the threads asleep on the other event of the channel, and        *)
(* performs their operation for them.                                      *)
(*                                                                         *)
(* Steps are cut as in SyncEvents.  A chain is a sequence here: that the   *)
(* left and right pointers form one is shown there, and the mutex of the   *)
(* channel is held while it is walked.                                     *)
(***************************************************************************)
EXTENDS Integers, Sequences, SequencesExt

CONSTANTS
  Threads,    \* the threads, each with the event_group_t of its current call
  Chans,
  maxsize,    \* maxsize[c]: capacity of channel c, 0 for an unbuffered one
  evlinks,    \* evlinks[t]: the operations thread t waits for
  MaxCalls,   \* bound: calls made by a thread
  NoOne       \* owner of a free mutex

Ops == {"Read", "Write"}

ASSUME ChansAssumption == IsFiniteSet(Chans) /\ maxsize \in [Chans -> Nat]
\* test_duplicate: a group names a channel once.
ASSUME LinksAssumption ==
  /\ evlinks \in [Threads -> Seq([op : Ops, chan : Chans])]
  /\ \A t \in Threads : \A i, j \in DOMAIN evlinks[t] :
       i # j => evlinks[t][i].chan # evlinks[t][j].chan
ASSUME BoundsAssumption == MaxCalls \in Nat
ASSUME NamesAssumption == NoOne \notin Threads

isSyncChan(c) == maxsize[c] = 0
coevent(op) == IF op = "Read" THEN "Write" ELSE "Read"
esigNoSignal == 0

\* A link <<t, i>>: position i of the group of thread t.
waitgroup(l)  == l[1]
groupindex(l) == l[2]
operation(t, i) == evlinks[t][i].op
chanOf(t, i)    == evlinks[t][i].chan
Size(t) == Len(evlinks[t])

VARIABLES
  que, chain, cmu,                       \* chan_t: buffer, waiting links, mutex
  mu, waitstate, signal_index,           \* event_group_t
  wpc, wi, trying, calls,                \* the thread in wait()
  cursor, done,                          \* in popsignal_nm: place in the chain, success
  got                                    \* what the thread last read

chanVars  == <<que, chain, cmu>>
groupVars == <<mu, waitstate, signal_index>>
waitVars  == <<wpc, wi, trying, calls>>
popVars   == <<cursor, done>>
vars == <<chanVars, groupVars, waitVars, popVars, got>>

\* The value a thread writes tells the call it makes.
value(t) == <<t, calls[t]>>
Values == Threads \X (0..MaxCalls)

Init ==
  /\ que = [c \in Chans |-> <<>>]
  /\ chain = [x \in Chans \X Ops |-> <<>>]
  /\ cmu = [c \in Chans |-> NoOne]
  /\ mu = [t \in Threads |-> NoOne]
  /\ waitstate = [t \in Threads |-> "NoWait"]
  /\ signal_index = [t \in Threads |-> esigNoSignal]
  /\ wpc = [t \in Threads |-> "idle"]
  /\ wi = [t \in Threads |-> 1]
  /\ trying = [t \in Threads |-> FALSE]
  /\ calls = [t \in Threads |-> 0]
  /\ cursor = [t \in Threads |-> 1]
  /\ done = [t \in Threads |-> FALSE]
  /\ got = [t \in Threads |-> <<t, 0>>]

Goto(t, label) == wpc' = [wpc EXCEPT ![t] = label]

PeekSkipped(t) == TRUE
PeekWaits(t) == waitstate[t] = "Wait"
StillWaitsUnchecked(t) == TRUE
StillWaits(t) == waitstate[t] = "Wait"

\* readop_nm and writeop_nm on the buffer, for thread t; empty_event_nm is the
\* same test, through count_in.
HasRoomForOneMore(c) == Len(que[c]) <= maxsize[c]
HasRoom(c) == Len(que[c]) < maxsize[c]
CanOperate(c, op) == IF op = "Read" THEN que[c] # <<>> ELSE HasRoom(c)
empty_event_nm(c, op) == ~CanOperate(c, op)
do_operation_nm(c, op, t) ==
  IF op = "Read"
    THEN /\ got' = [got EXCEPT ![t] = Head(que[c])]
         /\ que' = [que EXCEPT ![c] = Tail(@)]
    ELSE /\ que' = [que EXCEPT ![c] = Append(@, value(t))]
         /\ UNCHANGED got

\* The channel of the operation thread t is trying, and its other event.
myChan(t) == chanOf(t, wi[t])
myOp(t) == operation(t, wi[t])
coChain(t) == chain[<<myChan(t), coevent(myOp(t))>>]

(***************************************************************************)
(* push, pop, wait_multiple, trywait_multiple: a new group, then wait().   *)
(***************************************************************************)
Wait(t, try_wait) ==
  /\ wpc[t] = "idle" /\ calls[t] < MaxCalls
  /\ mu[t] = NoOne
  /\ mu' = [mu EXCEPT ![t] = t]
  /\ signal_index' = [signal_index EXCEPT ![t] = esigNoSignal]
  /\ wi' = [wi EXCEPT ![t] = 1]
  /\ trying' = [trying EXCEPT ![t] = try_wait]
  /\ calls' = [calls EXCEPT ![t] = @ + 1]
  /\ Goto(t, "pop")
  /\ UNCHANGED <<chanVars, waitstate, popVars, got>>

\* event_base_t::popsignal takes the mutex of the channel; a buffered channel
\* tries the operation, and whether it succeeds or not goes on to signal_nm.
PopSignal(t) ==
  LET c == myChan(t) IN
  /\ wpc[t] = "pop" /\ wi[t] <= Size(t)
  /\ cmu[c] = NoOne
  /\ cmu' = [cmu EXCEPT ![c] = t]
  /\ IF ~isSyncChan(c) /\ CanOperate(c, myOp(t))
       THEN /\ do_operation_nm(c, myOp(t), t)
            /\ done' = [done EXCEPT ![t] = TRUE]
       ELSE /\ done' = [done EXCEPT ![t] = FALSE]
            /\ UNCHANGED <<que, got>>
  /\ cursor' = [cursor EXCEPT ![t] = 1]
  /\ Goto(t, "scan")
  /\ UNCHANGED <<chain, groupVars, wi, trying, calls>>

\* signal_nm ends with the chain; for a buffered channel when the other side
\* has nothing to do, for an unbuffered one with the first group served.
ScanOver(t) ==
  \/ cursor[t] > Len(coChain(t))
  \/ IF isSyncChan(myChan(t)) THEN done[t] ELSE empty_event_nm(myChan(t), coevent(myOp(t)))

ScanEnd(t) ==
  /\ wpc[t] = "scan" /\ ScanOver(t)
  /\ cmu' = [cmu EXCEPT ![myChan(t)] = NoOne]
  /\ IF done[t]
       THEN /\ signal_index' = [signal_index EXCEPT ![t] = wi[t]]
            /\ Goto(t, "return")
            /\ UNCHANGED wi
       ELSE /\ wi' = [wi EXCEPT ![t] = @ + 1]
            /\ Goto(t, "pop")
            /\ UNCHANGED signal_index
  /\ UNCHANGED <<que, chain, mu, waitstate, trying, calls, popVars, got>>

AdvanceOrBreak(t) ==
  cursor' = [cursor EXCEPT ![t] = IF wpc[t] = "scan" THEN Len(coChain(t)) + 1 ELSE @ + 1]
Advance(t) == cursor' = [cursor EXCEPT ![t] = @ + 1]

ScanPeek(t) ==
  /\ wpc[t] = "scan" /\ ~ScanOver(t)
  /\ IF PeekWaits(waitgroup(coChain(t)[cursor[t]]))
       THEN Goto(t, "enter") /\ UNCHANGED cursor
       ELSE Advance(t) /\ UNCHANGED wpc
  /\ UNCHANGED <<chanVars, groupVars, wi, trying, calls, done, got>>

\* sync_rw between the caller and the thread it has met.
sync_rw(t, u) ==
  got' = IF myOp(t) = "Write" THEN [got EXCEPT ![u] = value(t)] ELSE [got EXCEPT ![t] = value(u)]

\* trysignalto under the mutex of the group: perform its operation for it.
TrySignalTo(t) ==
  LET l == coChain(t)[cursor[t]]
      u == waitgroup(l)
      c == myChan(t)
  IN
  /\ wpc[t] = "enter"
  /\ mu[u] = NoOne
  /\ IF StillWaits(u)
       THEN /\ IF isSyncChan(c)
                 THEN /\ sync_rw(t, u)
                      /\ done' = [done EXCEPT ![t] = TRUE]
                      /\ UNCHANGED que
                 ELSE do_operation_nm(c, coevent(myOp(t)), u) /\ UNCHANGED done
            /\ signal_index' = [signal_index EXCEPT ![u] = groupindex(l)]
            /\ waitstate' = [waitstate EXCEPT ![u] = "NoWait"]
       ELSE UNCHANGED <<que, signal_index, waitstate, done, got>>
  /\ Advance(t)
  /\ Goto(t, "scan")
  /\ UNCHANGED <<chain, cmu, mu, wi, trying, calls>>

PopEnd(t) ==
  /\ wpc[t] = "pop" /\ wi[t] > Size(t)
  /\ IF trying[t]
       THEN Goto(t, "return") /\ UNCHANGED wi
       ELSE Goto(t, "link") /\ wi' = [wi EXCEPT ![t] = 1]
  /\ UNCHANGED <<chanVars, groupVars, trying, calls, popVars, got>>

\* link_group puts the link at the head: the last to come is served first.
LinkEvent(t) ==
  /\ wpc[t] = "link" /\ wi[t] <= Size(t)
  /\ cmu[myChan(t)] = NoOne
  /\ chain' = [chain EXCEPT ![<<myChan(t), myOp(t)>>] = <<<<t, wi[t]>>>> \o @]
  /\ wi' = [wi EXCEPT ![t] = @ + 1]
  /\ UNCHANGED <<que, cmu, groupVars, wpc, trying, calls, popVars, got>>

Sleep(t) ==
  /\ wpc[t] = "link" /\ wi[t] > Size(t)
  /\ waitstate' = [waitstate EXCEPT ![t] = "Wait"]
  /\ mu' = [mu EXCEPT ![t] = NoOne]
  /\ Goto(t, "sleep")
  /\ UNCHANGED <<chanVars, signal_index, wi, trying, calls, popVars, got>>

Wake(t) ==
  /\ wpc[t] = "sleep" /\ waitstate[t] # "Wait"
  /\ mu[t] = NoOne
  /\ mu' = [mu EXCEPT ![t] = t]
  /\ Goto(t, "unlink")
  /\ wi' = [wi EXCEPT ![t] = 1]
  /\ UNCHANGED <<chanVars, waitstate, signal_index, trying, calls, popVars, got>>

UnlinkEvent(t) ==
  /\ wpc[t] = "unlink" /\ wi[t] <= Size(t)
  /\ cmu[myChan(t)] = NoOne
  /\ \E k \in DOMAIN chain[<<myChan(t), myOp(t)>>] :
       /\ chain[<<myChan(t), myOp(t)>>][k] = <<t, wi[t]>>
       /\ chain' = [chain EXCEPT ![<<myChan(t), myOp(t)>>] = RemoveAt(@, k)]
  /\ wi' = [wi EXCEPT ![t] = @ + 1]
  /\ UNCHANGED <<que, cmu, groupVars, wpc, trying, calls, popVars, got>>

UnlinkEnd(t) ==
  /\ wpc[t] = "unlink" /\ wi[t] > Size(t)
  /\ Goto(t, "return")
  /\ UNCHANGED <<chanVars, groupVars, wi, trying, calls, popVars, got>>

\* wait() releases the mutex of the group; the group, unlinked, is destroyed.
Return(t) ==
  /\ wpc[t] = "return"
  /\ mu' = [mu EXCEPT ![t] = NoOne]
  /\ Goto(t, "idle")
  /\ UNCHANGED <<chanVars, waitstate, signal_index, wi, trying, calls, popVars, got>>

-----------------------------------------------------------------------------
WaitStep(t) ==
  \/ PopSignal(t) \/ ScanEnd(t) \/ ScanPeek(t) \/ TrySignalTo(t) \/ PopEnd(t)
  \/ LinkEvent(t) \/ Sleep(t) \/ Wake(t) \/ UnlinkEvent(t) \/ UnlinkEnd(t) \/ Return(t)

Next == \E t \in Threads : WaitStep(t) \/ \E try_wait \in BOOLEAN : Wait(t, try_wait)

Spec == Init /\ [][Next]_vars

\* A thread inside wait() keeps running.
FairSpec == Spec /\ \A t \in Threads : WF_vars(WaitStep(t))

-----------------------------------------------------------------------------
Positions == 1..(Cardinality(Chans) + 1)

\* The types of the variables; a buffer never holds more than its maxsize.
TypeOK ==
  /\ \A c \in Chans : que[c] \in Seq(Values) /\ Len(que[c]) <= maxsize[c]
  /\ \A x \in Chans \X Ops : chain[x] \in Seq(Threads \X Positions)
  /\ cmu \in [Chans -> Threads \cup {NoOne}]
  /\ mu \in [Threads -> Threads \cup {NoOne}]
  /\ waitstate \in [Threads -> {"NoWait", "Wait"}]
  /\ signal_index \in [Threads -> 0..Cardinality(Chans)]
  /\ wpc \in [Threads -> {"idle", "pop", "scan", "enter", "link", "sleep", "unlink", "return"}]
  /\ wi \in [Threads -> Positions]
  /\ trying \in [Threads -> BOOLEAN]
  /\ calls \in [Threads -> 0..MaxCalls]
  /\ cursor \in [Threads -> Nat \ {0}]
  /\ done \in [Threads -> BOOLEAN]
  /\ got \in [Threads -> Values]

\* Thread u is asleep and waits for operation op of channel c.
Asleep(c, op) == {u \in Threads : waitstate[u] = "Wait" /\ \E i \in DOMAIN evlinks[u] :
                                     evlinks[u][i] = [op |-> op, chan |-> c]}

(***************************************************************************)
(* Who waits for whom: the owner of the mutex a thread is blocked on.      *)
(***************************************************************************)
Blocker(t) ==
  CASE wpc[t] \in {"pop", "link", "unlink"} /\ wi[t] <= Size(t) -> cmu[myChan(t)]
    [] wpc[t] = "enter" -> mu[waitgroup(coChain(t)[cursor[t]])]
    [] OTHER -> NoOne

\* No set of threads waits for each other's mutexes for ever, when every group
\* has one operation as in push and pop ("lock(src group) -> lock
\* (chan(events)) -> lock(dst group)", sync.cpp:238).
NoDeadlock ==
  \A D \in SUBSET Threads : D # {} => \E t \in D : Blocker(t) \notin D

\* When every thread is at rest, nobody sleeps beside an operation it could perform.
NoLostWakeup ==
  (\A t \in Threads : wpc[t] \in {"idle", "sleep"}) =>
    \A c \in Chans, op \in Ops : Asleep(c, op) # {} =>
      IF isSyncChan(c) THEN Asleep(c, coevent(op)) = {} ELSE empty_event_nm(c, op)

(***************************************************************************)
(* Refinement of ChanSem.                                                  *)
(***************************************************************************)
inScan(t) == wpc[t] \in {"scan", "enter"}
resultOf ==
  [t \in Threads |->
     IF inScan(t) /\ done[t] THEN wi[t]
     ELSE IF wpc[t] = "idle" THEN esigNoSignal ELSE signal_index[t]]
phaseOf ==
  [t \in Threads |->
     IF wpc[t] = "idle" THEN "out"
     ELSE IF resultOf[t] # esigNoSignal THEN "served"
     ELSE IF wpc[t] = "return" THEN "unserved" ELSE "waiting"]

Sem == INSTANCE ChanSem
         WITH phase <- phaseOf, index <- resultOf, put <- [t \in Threads |-> value(t)],
              NoSignal <- esigNoSignal

\* The code implements the queues, meetings and single operations of ChanSem.
SemSpec == Sem!Spec

\* The mutexes never block a set of threads for ever, and a thread that has been served returns
\* to its caller.
CallsReturn ==
  /\ []<>NoDeadlock
  /\ \A t \in Threads : (wpc[t] = "sleep" /\ waitstate[t] = "NoWait") ~> wpc[t] = "idle"
=============================================================================
