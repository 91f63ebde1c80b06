----------------------------- MODULE SyncEvents -----------------------------
(***************************************************************************)
(* Event groups and counting events of src/tbsync (sync.h, sync.cpp).      *)
(*                                                                         *)
(* An event_t holds a counter of signals and the chain of the links that   *)
(* wait for it, both under the mutex *pmu.  An event_group_t belongs to    *)
(* one thread, which calls wait() on it; its fields are under myevent.mu.  *)
(* Other threads call event_t::signal().  A step of the model is what a    *)
(* thread does between two points where another thread can see or disturb  *)
(* it: an acquisition of a mutex, or a read made outside the mutex that    *)
(* guards the variable.                                                    *)
(*                                                                         *)
(* groupindex counts from 1 here and esigNoSignal is 0 (0 and -1 in the    *)
(* code).                                                                  *)
(***************************************************************************)
EXTENDS Integers, Sequences, FiniteSets

CONSTANTS
  Groups,       \* event groups, each with the one thread that waits on it
  Signallers,   \* threads that call signal()
  Events,
  MaxSize,      \* bound on the number of links of a group
  evlinks,      \* evlinks[g][i]: the event of link i of group g
  Persistent,   \* the groups with fdontBreakLinks set
  Counts,       \* the arguments signal() is called with
  MaxCalls,     \* bound: calls of wait() on a group
  MaxSent,      \* bound: MaxSent[e] signals are sent to event e
  NoOne,        \* owner of a free mutex
  Null          \* the null event_group_link_t*

ASSUME GroupsAssumption ==
  /\ evlinks \in [Groups -> Seq(Events)]
  /\ MaxSize \in Nat
  /\ \A g \in Groups : Len(evlinks[g]) <= MaxSize
  /\ Persistent \subseteq Groups
  /\ IsFiniteSet(Groups)
ASSUME CountsAssumption == Counts \subseteq Nat \ {0}
ASSUME BoundsAssumption == MaxCalls \in Nat /\ MaxSent \in [Events -> Nat]
ASSUME NamesAssumption ==
  NoOne \notin Groups \cup Signallers /\ Groups \cap Signallers = {}

Links == {l \in Groups \X (1..MaxSize) : l[2] <= Len(evlinks[l[1]])}
ASSUME NullAssumption == Null \notin Links

waitgroup(l)  == l[1]
groupindex(l) == l[2]
ev(l)         == evlinks[l[1]][l[2]]
Link(g, i)    == <<g, i>>
esigNoSignal  == 0

VARIABLES
  cnt_signals, links, left, right, pmu,         \* event_t and the links
  mu, waitstate, signal_index, flinked_events,  \* event_group_t
  wpc, wi, trying, calls,                       \* the thread of a group
  spc, sev, curr,                               \* a signalling thread
  sent, taken           \* history: signals sent to, and returned from, an event

eventVars == <<cnt_signals, links, left, right, pmu>>
groupVars == <<mu, waitstate, signal_index, flinked_events>>
waitVars  == <<wpc, wi, trying, calls>>
signalVars == <<spc, sev, curr>>
history   == <<sent, taken>>
vars == <<eventVars, groupVars, waitVars, signalVars, history>>

chainVars == <<links, left, right>>

Init ==
  /\ cnt_signals = [e \in Events |-> 0]
  /\ links = [e \in Events |-> Null]
  /\ left  = [l \in Links |-> Null]
  /\ right = [l \in Links |-> Null]
  /\ pmu = [e \in Events |-> NoOne]
  /\ mu = [g \in Groups |-> NoOne]
  /\ waitstate = [g \in Groups |-> "NoWait"]
  /\ signal_index = [g \in Groups |-> esigNoSignal]
  /\ flinked_events = [g \in Groups |-> FALSE]
  /\ wpc = [g \in Groups |-> "idle"]
  /\ wi = [g \in Groups |-> 1]
  /\ trying = [g \in Groups |-> FALSE]
  /\ calls = [g \in Groups |-> 0]
  /\ spc = [s \in Signallers |-> "idle"]
  /\ sev = [s \in Signallers |-> Null]
  /\ curr = [s \in Signallers |-> Null]
  /\ sent = [e \in Events |-> 0]
  /\ taken = [e \in Events |-> 0]

Last(g) == Len(evlinks[g])
Goto(g, label) == wpc' = [wpc EXCEPT ![g] = label]

\* AUTOLOCKER on *pmu: the mutex must be free.
NoLocker(e) == TRUE
CanLock(e) == pmu[e] = NoOne

\* The two reads of waitstate by trysignalto, outside and under the mutex.
PeekSkipped(g) == TRUE
PeekWaits(g) == waitstate[g] = "Wait"
StillWaitsUnchecked(g) == TRUE
StillWaits(g) == waitstate[g] = "Wait"

\* The predicate of cv.wait.
NoPredicate(g) == TRUE
isEndWait(g) == waitstate[g] # "Wait"

(***************************************************************************)
(* event_t::popsignal_nm under *pmu: consume a signal of e if there is     *)
(* one.  The counter is left as it was when the pop fails.                 *)
(***************************************************************************)
CanPopUnchecked(e) == TRUE
CanPop(e) == cnt_signals[e] > 0
PopOne(e) == cnt_signals' = [cnt_signals EXCEPT ![e] = @ - 1]

(***************************************************************************)
(* event_group_t::wait, the thread of group g                              *)
(***************************************************************************)
Wait(g, try_wait) ==
  /\ wpc[g] = "idle" /\ calls[g] < MaxCalls
  /\ mu[g] = NoOne
  /\ mu' = [mu EXCEPT ![g] = g]
  /\ signal_index' = [signal_index EXCEPT ![g] = esigNoSignal]
  /\ wi' = [wi EXCEPT ![g] = 1]
  /\ trying' = [trying EXCEPT ![g] = try_wait]
  /\ calls' = [calls EXCEPT ![g] = @ + 1]
  /\ Goto(g, "pop")
  /\ UNCHANGED <<eventVars, waitstate, flinked_events, signalVars, history>>

\* event_t::popsignal reads the counter before it takes the mutex ...
PopPeek(g) ==
  /\ wpc[g] = "pop" /\ wi[g] <= Last(g)
  /\ IF cnt_signals[ev(Link(g, wi[g]))] = 0
       THEN wi' = [wi EXCEPT ![g] = @ + 1] /\ UNCHANGED wpc
       ELSE Goto(g, "popLock") /\ UNCHANGED wi
  /\ UNCHANGED <<eventVars, groupVars, trying, calls, signalVars, history>>

\* ... and again under it.
PopLocked(g) ==
  LET e == ev(Link(g, wi[g])) IN
  /\ wpc[g] = "popLock"
  /\ CanLock(e)
  /\ IF CanPop(e)
       THEN /\ PopOne(e)
            /\ signal_index' = [signal_index EXCEPT ![g] = groupindex(Link(g, wi[g]))]
            /\ Goto(g, "return")
            /\ UNCHANGED wi
       ELSE /\ wi' = [wi EXCEPT ![g] = @ + 1]
            /\ Goto(g, "pop")
            /\ UNCHANGED <<cnt_signals, signal_index>>
  /\ UNCHANGED <<chainVars, pmu, mu, waitstate, flinked_events, trying, calls,
                 signalVars, history>>

\* No event had a signal: return, or go on to link_events.
PopEnd(g) ==
  /\ wpc[g] = "pop" /\ wi[g] > Last(g)
  /\ IF trying[g]
       THEN Goto(g, "return") /\ UNCHANGED <<wi, flinked_events>>
       ELSE /\ Goto(g, "link")
            /\ wi' = [wi EXCEPT ![g] = IF flinked_events[g] THEN Last(g) + 1 ELSE 1]
            /\ flinked_events' = [flinked_events EXCEPT ![g] = TRUE]
  /\ UNCHANGED <<eventVars, mu, waitstate, signal_index, trying, calls, signalVars, history>>

\* event_base_t::link_group: push the link at the head of the chain.
link_group(l) ==
  LET e == ev(l) IN
  /\ links' = [links EXCEPT ![e] = l]
  /\ IF links[e] = Null
       THEN UNCHANGED <<left, right>>
       ELSE /\ right' = [right EXCEPT ![l] = links[e]]
            /\ left'  = [left EXCEPT ![links[e]] = l]

LinkEvent(g) ==
  LET l == Link(g, wi[g]) IN
  /\ wpc[g] = "link" /\ wi[g] <= Last(g)
  /\ CanLock(ev(l))
  /\ link_group(l)
  /\ wi' = [wi EXCEPT ![g] = @ + 1]
  /\ UNCHANGED <<cnt_signals, pmu, groupVars, wpc, trying, calls, signalVars, history>>

\* signal_index is still esigNoSignal here: nobody could take the mutex since
\* wait() began.  waitstate becomes estateWait and cv.wait releases the mutex of the group.
Sleep(g) ==
  /\ wpc[g] = "link" /\ wi[g] > Last(g)
  /\ waitstate' = [waitstate EXCEPT ![g] = "Wait"]
  /\ mu' = [mu EXCEPT ![g] = NoOne]
  /\ Goto(g, "sleep")
  /\ UNCHANGED <<eventVars, signal_index, flinked_events, wi, trying, calls, signalVars, history>>

\* cv.wait returns with the mutex once isEndWait; a spurious wake-up that
\* finds estateWait goes back to sleep, a stuttering step.
Wake(g) ==
  /\ wpc[g] = "sleep" /\ isEndWait(g)
  /\ mu[g] = NoOne
  /\ mu' = [mu EXCEPT ![g] = g]
  /\ IF g \in Persistent
       THEN Goto(g, "return") /\ UNCHANGED <<wi, flinked_events>>
       ELSE /\ Goto(g, "unlink")
            /\ wi' = [wi EXCEPT ![g] = 1]
            /\ flinked_events' = [flinked_events EXCEPT ![g] = FALSE]
  /\ UNCHANGED <<eventVars, waitstate, signal_index, trying, calls, signalVars, history>>

\* event_base_t::unlink_group.  A new head keeps the left pointer it had.
IsHeadByLeft(l) == left[l] = Null
IsHead(l) == links[ev(l)] = l
unlink_group(l) ==
  LET e == ev(l)
      Bypass(f, at, to) == IF at = Null THEN f ELSE [f EXCEPT ![at] = to]
      inner == ~IsHead(l)
  IN
  /\ links' = IF inner THEN links ELSE [links EXCEPT ![e] = right[l]]
  /\ right' = [(IF inner THEN Bypass(right, left[l], right[l]) ELSE right) EXCEPT ![l] = Null]
  /\ left'  = [(IF inner THEN Bypass(left, right[l], left[l]) ELSE left) EXCEPT ![l] = Null]

\* One round of unlink_events, called by wait and by the destructor.
UnlinkEvent(g) ==
  LET l == Link(g, wi[g]) IN
  /\ wpc[g] \in {"unlink", "dtor"} /\ wi[g] <= Last(g)
  /\ CanLock(ev(l))
  /\ unlink_group(l)
  /\ wi' = [wi EXCEPT ![g] = @ + 1]
  /\ UNCHANGED <<cnt_signals, pmu, groupVars, wpc, trying, calls, signalVars, history>>

UnlinkEnd(g) ==
  /\ wpc[g] = "unlink" /\ wi[g] > Last(g)
  /\ Goto(g, "return")
  /\ UNCHANGED <<eventVars, groupVars, wi, trying, calls, signalVars, history>>

\* The mutex is released and the caller has the index.
Return(g) ==
  /\ wpc[g] = "return"
  /\ mu' = [mu EXCEPT ![g] = NoOne]
  /\ taken' = IF signal_index[g] = esigNoSignal THEN taken
              ELSE [taken EXCEPT ![ev(Link(g, signal_index[g]))] = @ + 1]
  /\ Goto(g, "idle")
  /\ UNCHANGED <<eventVars, waitstate, signal_index, flinked_events, wi, trying, calls,
                 signalVars, sent>>

\* ~event_group_t takes the mutex of the group and unlinks its events.
Destroy(g) ==
  /\ wpc[g] = "idle"
  /\ mu[g] = NoOne
  /\ mu' = [mu EXCEPT ![g] = g]
  /\ wi' = [wi EXCEPT ![g] = IF flinked_events[g] THEN 1 ELSE Last(g) + 1]
  /\ flinked_events' = [flinked_events EXCEPT ![g] = FALSE]
  /\ Goto(g, "dtor")
  /\ UNCHANGED <<eventVars, waitstate, signal_index, trying, calls, signalVars, history>>

DestroyEnd(g) ==
  /\ wpc[g] = "dtor" /\ wi[g] > Last(g)
  /\ mu' = [mu EXCEPT ![g] = NoOne]
  /\ Goto(g, "dead")
  /\ UNCHANGED <<eventVars, waitstate, signal_index, flinked_events, wi, trying, calls,
                 signalVars, history>>

(***************************************************************************)
(* event_t::signal, called by thread s.  The mutex of the event is held    *)
(* from the first step to the last.                                        *)
(***************************************************************************)
Signal(s, e, n) ==
  /\ spc[s] = "idle" /\ sent[e] + n <= MaxSent[e]
  /\ CanLock(e)
  /\ pmu' = [pmu EXCEPT ![e] = s]
  /\ cnt_signals' = [cnt_signals EXCEPT ![e] = @ + n]
  /\ sent' = [sent EXCEPT ![e] = @ + n]
  /\ sev' = [sev EXCEPT ![s] = e]
  /\ curr' = [curr EXCEPT ![s] = links[e]]
  /\ spc' = [spc EXCEPT ![s] = "scan"]
  /\ UNCHANGED <<chainVars, groupVars, waitVars, taken>>

\* signal_nm stops at the end of the chain or when no signal is left.
ScanEnd(s) ==
  /\ spc[s] = "scan"
  /\ curr[s] = Null \/ cnt_signals[sev[s]] <= 0
  /\ pmu' = [pmu EXCEPT ![sev[s]] = NoOne]
  /\ spc' = [spc EXCEPT ![s] = "idle"]
  /\ sev' = [sev EXCEPT ![s] = Null]
  /\ curr' = [curr EXCEPT ![s] = Null]
  /\ UNCHANGED <<cnt_signals, chainVars, groupVars, waitVars, history>>

\* The loop of signal_nm goes on after a group that did not take the signal;
\* the "else break" commented out at its end is not the same thing.
AdvanceOrBreak(s) ==
  curr' = [curr EXCEPT ![s] = IF spc[s] = "scan" THEN Null ELSE right[curr[s]]]
Advance(s) == curr' = [curr EXCEPT ![s] = right[curr[s]]]

\* trysignalto reads waitstate before it takes the mutex of the group ...
ScanPeek(s) ==
  /\ spc[s] = "scan"
  /\ curr[s] # Null /\ cnt_signals[sev[s]] > 0
  /\ IF PeekWaits(waitgroup(curr[s]))
       THEN spc' = [spc EXCEPT ![s] = "enter"] /\ UNCHANGED curr
       ELSE Advance(s) /\ UNCHANGED spc
  /\ UNCHANGED <<eventVars, groupVars, waitVars, sev, history>>

\* ... and again under it; then the signal is the group's.
TrySignalTo(s) ==
  LET g == waitgroup(curr[s])
      e == ev(curr[s])
  IN
  /\ spc[s] = "enter"
  /\ mu[g] = NoOne
  /\ IF StillWaits(g) /\ CanPop(e)
       THEN /\ PopOne(e)
            /\ signal_index' = [signal_index EXCEPT ![g] = groupindex(curr[s])]
            /\ waitstate' = [waitstate EXCEPT ![g] = "NoWait"]
       ELSE UNCHANGED <<cnt_signals, signal_index, waitstate>>
  /\ Advance(s)
  /\ spc' = [spc EXCEPT ![s] = "scan"]
  /\ UNCHANGED <<chainVars, pmu, mu, flinked_events, waitVars, sev, history>>

-----------------------------------------------------------------------------
WaitStep(g) ==
  \/ PopPeek(g) \/ PopLocked(g) \/ PopEnd(g) \/ LinkEvent(g) \/ Sleep(g)
  \/ Wake(g) \/ UnlinkEvent(g) \/ UnlinkEnd(g) \/ Return(g) \/ DestroyEnd(g)

SignalStep(s) == ScanEnd(s) \/ ScanPeek(s) \/ TrySignalTo(s)

Next ==
  \/ \E g \in Groups : \/ \E try_wait \in BOOLEAN : Wait(g, try_wait)
                       \/ Destroy(g)
                       \/ WaitStep(g)
  \/ \E s \in Signallers : \/ \E e \in Events, n \in Counts : Signal(s, e, n)
                           \/ SignalStep(s)

Spec == Init /\ [][Next]_vars

\* A thread inside wait(), ~event_group_t() or signal() keeps running: the
\* number of calls is bounded, so a mutex that is released is free in the end
\* and weak fairness of the acquisition is enough.
Fairness ==
  /\ \A g \in Groups : WF_vars(WaitStep(g))
  /\ \A s \in Signallers : WF_vars(SignalStep(s))

FairSpec == Spec /\ Fairness

-----------------------------------------------------------------------------
LinkOrNull == Links \cup {Null}

\* The types of the variables; the counter of an event is never negative.
TypeOK ==
  /\ cnt_signals \in [Events -> Nat]
  /\ links \in [Events -> LinkOrNull]
  /\ left \in [Links -> LinkOrNull] /\ right \in [Links -> LinkOrNull]
  /\ pmu \in [Events -> Signallers \cup {NoOne}]
  /\ mu \in [Groups -> Groups \cup {NoOne}]
  /\ waitstate \in [Groups -> {"NoWait", "Wait"}]
  /\ signal_index \in [Groups -> 0..MaxSize]
  /\ flinked_events \in [Groups -> BOOLEAN]
  /\ wpc \in [Groups -> {"idle", "pop", "popLock", "link", "sleep", "unlink",
                          "return", "dtor", "dead"}]
  /\ wi \in [Groups -> 1..(MaxSize + 1)]
  /\ trying \in [Groups -> BOOLEAN]
  /\ calls \in [Groups -> 0..MaxCalls]
  /\ spc \in [Signallers -> {"idle", "scan", "enter"}]
  /\ sev \in [Signallers -> Events \cup {Null}]
  /\ curr \in [Signallers -> LinkOrNull]
  /\ sent \in [Events -> Nat] /\ taken \in [Events -> Nat]

\* The groups whose wait has a signal of e that it has not returned yet.
Holders(e) ==
  {g \in Groups : /\ wpc[g] \notin {"idle", "dtor", "dead"}
                  /\ signal_index[g] # esigNoSignal
                  /\ ev(Link(g, signal_index[g])) = e}

\* No signal is lost or delivered twice, whatever the interleaving: every
\* signal sent to an event is still counted, was returned by one wait(), or is
\* held by one wait() on its way out ("only one event may give a signal",
\* sync.cpp:153).
Conservation ==
  \A e \in Events : sent[e] = cnt_signals[e] + taken[e] + Cardinality(Holders(e))

\* A wait that is not a try leaves only with a signal: neither a spurious
\* wake-up nor a signal taken by another group lets it return esigNoSignal
\* (the cv.wait predicate and the checks of trysignalto).
BlockingWaitIsServed ==
  \A g \in Groups : wpc[g] \in {"unlink", "return"} /\ ~trying[g]
                       => signal_index[g] # esigNoSignal

\* Link l is in the chain of its event: link_group has run for it and
\* unlink_group has not.
Linked(l) ==
  LET g == waitgroup(l) IN
  CASE wpc[g] = "link" -> groupindex(l) < wi[g]
    [] wpc[g] \in {"unlink", "dtor"} -> groupindex(l) >= wi[g]
    [] OTHER -> flinked_events[g]

\* The chain of an event holds the links that wait for it and no other, and
\* neighbours agree on each other: no linked group is cut off from its signals
\* and no unlinked one is left in the chain, although unlink_group leaves the
\* old left pointer in a new head.
ChainConsistent ==
  /\ \A e \in Events : links[e] # Null => Linked(links[e]) /\ ev(links[e]) = e
  /\ \A l \in Links :
       IF Linked(l)
         THEN /\ links[ev(l)] # l =>
                    /\ left[l] \in Links /\ right[left[l]] = l
                    /\ Linked(left[l])
              /\ right[l] # Null =>
                    /\ Linked(right[l]) /\ left[right[l]] = l
                    /\ ev(right[l]) = ev(l) /\ links[ev(l)] # right[l]
         ELSE left[l] = Null /\ right[l] = Null

\* A signalling thread never reads a link whose group was destroyed or has
\* left the chain under its feet.
CursorLive ==
  \A s \in Signallers : curr[s] # Null => Linked(curr[s]) /\ ev(curr[s]) = sev[s]

(***************************************************************************)
(* Who waits for whom: the owner of the mutex a thread is blocked on.      *)
(***************************************************************************)
Blocker(t) ==
  IF t \in Groups
    THEN IF \/ wpc[t] = "popLock"
            \/ wpc[t] \in {"link", "unlink", "dtor"} /\ wi[t] <= Last(t)
           THEN pmu[ev(Link(t, wi[t]))] ELSE NoOne
    ELSE IF spc[t] = "enter" THEN mu[waitgroup(curr[t])] ELSE NoOne

\* No set of threads waits for each other's mutexes for ever.  It holds when
\* every group waits for one event; see the run that refutes it for two.
NoDeadlock ==
  \A D \in SUBSET (Groups \cup Signallers) :
    D # {} => \E t \in D : Blocker(t) \notin D

\* When every thread is at rest, no group sleeps beside a signal it waits for.
NoLostWakeup ==
  (/\ \A s \in Signallers : spc[s] = "idle"
   /\ \A g \in Groups : wpc[g] \in {"idle", "sleep", "dead"})
  => \A g \in Groups : wpc[g] = "sleep" /\ waitstate[g] = "Wait"
       => \A i \in 1..Last(g) : cnt_signals[ev(Link(g, i))] = 0

(***************************************************************************)
(* Refinement of EventSem.                                                 *)
(***************************************************************************)
phaseOf ==
  [g \in Groups |->
     CASE wpc[g] \in {"idle", "dtor", "dead"} -> "out"
       [] wpc[g] \notin {"idle", "dtor", "dead"} /\ signal_index[g] # esigNoSignal -> "served"
       [] wpc[g] = "return" /\ signal_index[g] = esigNoSignal -> "unserved"
       [] OTHER -> "waiting"]
resultOf ==
  [g \in Groups |-> IF phaseOf[g] = "served" THEN signal_index[g] ELSE esigNoSignal]

Sem == INSTANCE EventSem
         WITH avail <- cnt_signals, phase <- phaseOf, result <- resultOf,
              NoSignal <- esigNoSignal

\* The code implements the counters and waits of EventSem.
SemSpec == Sem!Spec

\* Every call of signal() returns, and a group that was given a signal returns
\* it to its caller.
CallsReturn ==
  /\ \A s \in Signallers : spc[s] # "idle" ~> spc[s] = "idle"
  /\ \A g \in Groups : (wpc[g] = "sleep" /\ waitstate[g] = "NoWait") ~> wpc[g] = "idle"
=============================================================================
