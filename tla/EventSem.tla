------------------------------ MODULE EventSem ------------------------------
(***************************************************************************)
(* What src/tbsync promises of events and event groups, without mutexes or *)
(* chains: every event is a counter, signal(n) adds n to it, and a wait on *)
(* a group takes exactly one signal from exactly one of its events, or,    *)
(* when it only tries, may leave with none.                                *)
(***************************************************************************)
EXTENDS Integers, Sequences

CONSTANTS Groups, Events, Counts, evlinks, NoSignal

VARIABLES
  avail,    \* avail[e]: signals of e nobody has taken
  phase,    \* phase[g]: where the thread of group g is
  result    \* result[g]: position of the event whose signal the wait took

vars == <<avail, phase, result>>

Init ==
  /\ avail = [e \in Events |-> 0]
  /\ phase = [g \in Groups |-> "out"]
  /\ result = [g \in Groups |-> NoSignal]

Post(e, n) ==
  /\ avail' = [avail EXCEPT ![e] = @ + n]
  /\ UNCHANGED <<phase, result>>

Call(g) ==
  /\ phase[g] = "out"
  /\ phase' = [phase EXCEPT ![g] = "waiting"]
  /\ UNCHANGED <<avail, result>>

Take(g, i) ==
  /\ phase[g] = "waiting"
  /\ avail[evlinks[g][i]] > 0
  /\ avail' = [avail EXCEPT ![evlinks[g][i]] = @ - 1]
  /\ phase' = [phase EXCEPT ![g] = "served"]
  /\ result' = [result EXCEPT ![g] = i]

GiveUp(g) ==
  /\ phase[g] = "waiting"
  /\ phase' = [phase EXCEPT ![g] = "unserved"]
  /\ UNCHANGED <<avail, result>>

Leave(g) ==
  /\ phase[g] \in {"served", "unserved"}
  /\ phase' = [phase EXCEPT ![g] = "out"]
  /\ result' = [result EXCEPT ![g] = NoSignal]
  /\ UNCHANGED avail

Next ==
  \/ \E e \in Events, n \in Counts : Post(e, n)
  \/ \E g \in Groups :
       \/ Call(g) \/ GiveUp(g) \/ Leave(g)
       \/ \E i \in DOMAIN evlinks[g] : Take(g, i)

Spec == Init /\ [][Next]_vars
=============================================================================
