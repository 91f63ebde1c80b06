---------------------------- MODULE MCSyncEvents ----------------------------
(* Instances of SyncEvents for TLC. *)
EXTENDS SyncEvents, TLC

CONSTANTS g1, g2, s1, s2, e1, e2, e3

\* Two groups that share two events, linked in opposite orders.
CrossLinks == (g1 :> <<e1, e2>>) @@ (g2 :> <<e2, e1>>)
\* Two groups on one event; the event_t** constructor lets one list it twice.
OneEvent == (g1 :> <<e1>>) @@ (g2 :> <<e1, e1>>)
\* One group on the three events of mainsync_test1.
ThreeEvents == (g1 :> <<e1, e2, e3>>)
TwoAndOne == (e1 :> 2) @@ (e2 :> 1)
OneEach == (e1 :> 1) @@ (e2 :> 1) @@ (e3 :> 1)
Two == (e1 :> 2)
Symmetric == Permutations({s1, s2})

VARIABLE sleepers   \* history: the groups asleep on the event when signal() began

Asleep(e) ==
  {g \in Groups : waitstate[g] = "Wait" /\ \E i \in 1..Last(g) : ev(Link(g, i)) = e}

MCInit == Init /\ sleepers = [s \in Signallers |-> {}]
MCNext ==
  /\ Next
  /\ sleepers' = [s \in Signallers |->
                    CASE spc[s] = "idle" /\ spc'[s] # "idle" -> Asleep(sev'[s])
                      [] spc'[s] = "idle" -> {}
                      [] OTHER -> sleepers[s]]
MCSpec == MCInit /\ [][MCNext]_<<vars, sleepers>>
MCFairSpec == MCSpec /\ Fairness

\* signal() reaches everyone: when it returns with signals left over, no group
\* that slept on the event when it began is still asleep (signal_nm walks the
\* whole chain and does not stop at a group that another event has woken).
SignalReachesSleepers ==
  [][\A s \in Signallers :
       spc[s] # "idle" /\ spc'[s] = "idle" /\ cnt_signals[sev[s]] > 0
         => \A g \in sleepers[s] : waitstate[g] = "NoWait"]_<<vars, sleepers>>
=============================================================================
