-------------------------- MODULE SyncEvents_proofs --------------------------
(***************************************************************************)
(* Theorems about SyncEvents, for every set of groups, threads and events. *)
(***************************************************************************)
EXTENDS SyncEvents, FiniteSetTheorems, TLAPS

\* Every link of evlinks names a group, a position in it and an event.
LEMMA LinkFacts ==
  ASSUME NEW l \in Links
  PROVE  /\ waitgroup(l) \in Groups
         /\ groupindex(l) \in 1..Last(waitgroup(l))
         /\ groupindex(l) \in 1..MaxSize
         /\ ev(l) \in Events
  <1>1. l[1] \in Groups /\ l[2] \in 1..MaxSize /\ l[2] <= Len(evlinks[l[1]])
    BY DEF Links
  <1>2. evlinks[l[1]] \in Seq(Events)
    BY <1>1, GroupsAssumption
  <1>3. l[2] \in 1..Len(evlinks[l[1]])
    BY <1>1, <1>2, GroupsAssumption
  <1> QED
    BY <1>1, <1>2, <1>3 DEF waitgroup, groupindex, ev, Last

\* A position of a group is one of its links.
LEMMA LinkOf ==
  ASSUME NEW g \in Groups, NEW i \in Nat \ {0}, i <= Last(g)
  PROVE  /\ Link(g, i) \in Links
         /\ waitgroup(Link(g, i)) = g
         /\ groupindex(Link(g, i)) = i
         /\ Last(g) \in 0..MaxSize
  <1>1. evlinks[g] \in Seq(Events) /\ Len(evlinks[g]) <= MaxSize
    BY GroupsAssumption
  <1>2. Len(evlinks[g]) \in 0..MaxSize
    BY <1>1, GroupsAssumption
  <1> QED
    BY <1>2, GroupsAssumption DEF Links, Link, waitgroup, groupindex, Last

LEMMA LastType == ASSUME NEW g \in Groups PROVE Last(g) \in 0..MaxSize
  <1>1. evlinks[g] \in Seq(Events) /\ Len(evlinks[g]) <= MaxSize
    BY GroupsAssumption
  <1> QED BY <1>1, GroupsAssumption DEF Last

-----------------------------------------------------------------------------
(***************************************************************************)
(* Types.  TypeOK is inductive together with what the control points say   *)
(* about the loop counter and the cursor.                                  *)
(***************************************************************************)
ControlOK ==
  /\ \A g \in Groups : wpc[g] = "popLock" => wi[g] <= Last(g)
  /\ \A s \in Signallers : spc[s] = "enter" => curr[s] # Null

TypeInv == TypeOK /\ ControlOK

LEMMA TypeInit == Init => TypeInv
  BY GroupsAssumption, BoundsAssumption, NullAssumption, NamesAssumption
     DEF Init, TypeInv, TypeOK, ControlOK, LinkOrNull, esigNoSignal

LEMMA TypeNext == TypeInv /\ [Next]_vars => TypeInv'
  <1> SUFFICES ASSUME TypeInv, [Next]_vars PROVE TypeInv'
    OBVIOUS
  <1> USE DEF TypeInv, TypeOK, ControlOK
  <1>1. ASSUME NEW g \in Groups, NEW try_wait \in BOOLEAN, Wait(g, try_wait)
        PROVE TypeInv'
    BY <1>1, GroupsAssumption, BoundsAssumption
       DEF Wait, Goto, eventVars, signalVars, history, esigNoSignal
  <1>2. ASSUME NEW g \in Groups, Destroy(g) PROVE TypeInv'
    BY <1>2, LastType, GroupsAssumption DEF Destroy, Goto, eventVars, signalVars, history
  <1>3. ASSUME NEW g \in Groups, PopPeek(g) PROVE TypeInv'
    <2>1. wi[g] + 1 \in 1..(MaxSize + 1) /\ wi[g] <= Last(g)
      BY <1>3, LastType, GroupsAssumption DEF PopPeek
    <2>2. CASE wi' = [wi EXCEPT ![g] = @ + 1] /\ UNCHANGED wpc
      BY <1>3, <2>1, <2>2 DEF PopPeek, eventVars, groupVars, signalVars, history
    <2>3. CASE Goto(g, "popLock") /\ UNCHANGED wi
      BY <1>3, <2>1, <2>3 DEF PopPeek, Goto, eventVars, groupVars, signalVars, history
    <2> QED BY <1>3, <2>2, <2>3 DEF PopPeek
  <1>4. ASSUME NEW g \in Groups, PopLocked(g) PROVE TypeInv'
    <2>1. wi[g] \in Nat \ {0} /\ wi[g] <= Last(g)
      BY <1>4, GroupsAssumption DEF PopLocked
    <2>2. /\ Link(g, wi[g]) \in Links
          /\ groupindex(Link(g, wi[g])) \in 0..MaxSize
          /\ wi[g] + 1 \in 1..(MaxSize + 1)
          /\ ev(Link(g, wi[g])) \in Events
      BY <2>1, LinkOf, LinkFacts, LastType, GroupsAssumption
    <2> DEFINE e == ev(Link(g, wi[g]))
    <2>3. CASE CanPop(e)
      <3>1. cnt_signals' \in [Events -> Nat]
        BY <1>4, <2>2, <2>3 DEF PopLocked, CanPop, PopOne
      <3> QED
        BY <1>4, <2>2, <2>3, <3>1 DEF PopLocked, Goto, chainVars, signalVars, history
    <2>4. CASE ~CanPop(e)
      BY <1>4, <2>2, <2>4 DEF PopLocked, Goto, chainVars, signalVars, history
    <2> QED BY <2>3, <2>4
  <1>5. ASSUME NEW g \in Groups, PopEnd(g) PROVE TypeInv'
    <2>1. Last(g) + 1 \in 1..(MaxSize + 1) /\ 1 \in 1..(MaxSize + 1)
      BY LastType, GroupsAssumption
    <2>2. CASE trying[g]
      BY <1>5, <2>2 DEF PopEnd, Goto, eventVars, signalVars, history
    <2>3. CASE ~trying[g]
      BY <1>5, <2>1, <2>3 DEF PopEnd, Goto, eventVars, signalVars, history
    <2> QED BY <2>2, <2>3
  <1>6. ASSUME NEW g \in Groups, LinkEvent(g) PROVE TypeInv'
    <2>1. wi[g] \in Nat \ {0} /\ wi[g] <= Last(g)
      BY <1>6, GroupsAssumption DEF LinkEvent
    <2>2. /\ Link(g, wi[g]) \in Links
          /\ wi[g] + 1 \in 1..(MaxSize + 1)
          /\ ev(Link(g, wi[g])) \in Events
      BY <2>1, LinkOf, LinkFacts, LastType, GroupsAssumption
    <2> QED
      BY <1>6, <2>2 DEF LinkEvent, link_group, groupVars, signalVars, history, LinkOrNull
  <1>7. ASSUME NEW g \in Groups, Sleep(g) PROVE TypeInv'
    BY <1>7 DEF Sleep, Goto, eventVars, signalVars, history
  <1>8. ASSUME NEW g \in Groups, Wake(g) PROVE TypeInv'
    <2>1. 1 \in 1..(MaxSize + 1)
      BY GroupsAssumption
    <2>2. CASE g \in Persistent
      BY <1>8, <2>2 DEF Wake, Goto, eventVars, signalVars, history
    <2>3. CASE g \notin Persistent
      BY <1>8, <2>1, <2>3 DEF Wake, Goto, eventVars, signalVars, history
    <2> QED BY <2>2, <2>3
  <1>9. ASSUME NEW g \in Groups, UnlinkEvent(g) PROVE TypeInv'
    <2>1. wi[g] \in Nat \ {0} /\ wi[g] <= Last(g)
      BY <1>9, GroupsAssumption DEF UnlinkEvent
    <2>2. /\ Link(g, wi[g]) \in Links
          /\ wi[g] + 1 \in 1..(MaxSize + 1)
          /\ ev(Link(g, wi[g])) \in Events
      BY <2>1, LinkOf, LinkFacts, LastType, GroupsAssumption
    <2> QED
      BY <1>9, <2>2 DEF UnlinkEvent, unlink_group, groupVars, signalVars, history, LinkOrNull
  <1>10. ASSUME NEW g \in Groups, UnlinkEnd(g) PROVE TypeInv'
    BY <1>10 DEF UnlinkEnd, Goto, eventVars, groupVars, signalVars, history
  <1>11. ASSUME NEW g \in Groups, Return(g) PROVE TypeInv'
    <2> DEFINE e == ev(Link(g, signal_index[g]))
    <2>1. taken' \in [Events -> Nat]
      <3>1. taken' = taken \/ taken' = [taken EXCEPT ![e] = @ + 1]
        BY <1>11 DEF Return
      <3> HIDE DEF e
      <3> QED BY <3>1
    <2> QED
      BY <1>11, <2>1 DEF Return, Goto, eventVars, signalVars
  <1>12. ASSUME NEW g \in Groups, DestroyEnd(g) PROVE TypeInv'
    BY <1>12 DEF DestroyEnd, Goto, eventVars, signalVars, history
  <1>13. ASSUME NEW s \in Signallers, NEW e \in Events, NEW n \in Counts, Signal(s, e, n)
         PROVE TypeInv'
    BY <1>13, CountsAssumption DEF Signal, chainVars, groupVars, waitVars
  <1>14. ASSUME NEW s \in Signallers, ScanEnd(s) PROVE TypeInv'
    BY <1>14 DEF ScanEnd, chainVars, groupVars, waitVars, history, LinkOrNull
  <1>15. ASSUME NEW s \in Signallers, ScanPeek(s) PROVE TypeInv'
    BY <1>15 DEF ScanPeek, Advance, eventVars, groupVars, waitVars, history, LinkOrNull
  <1>16. ASSUME NEW s \in Signallers, TrySignalTo(s) PROVE TypeInv'
    <2>1. curr[s] \in Links
      BY <1>16 DEF TrySignalTo, LinkOrNull
    <2>2. /\ groupindex(curr[s]) \in 0..MaxSize
          /\ right[curr[s]] \in LinkOrNull
      BY <2>1, LinkFacts, GroupsAssumption
    <2> QED
      BY <1>16, <2>2 DEF TrySignalTo, Advance, CanPop, PopOne, chainVars, waitVars, history
  <1>17. CASE UNCHANGED vars
    BY <1>17 DEF vars, eventVars, groupVars, waitVars, signalVars, history
  <1> QED
    BY <1>1, <1>2, <1>3, <1>4, <1>5, <1>6, <1>7, <1>8, <1>9, <1>10, <1>11, <1>12,
       <1>13, <1>14, <1>15, <1>16, <1>17
       DEF Next, WaitStep, SignalStep

\* The variables keep their types, and no counter becomes negative.
THEOREM TypeCorrect == Spec => []TypeOK
  <1>1. TypeInv => TypeOK
    BY DEF TypeInv
  <1> QED BY <1>1, TypeInit, TypeNext, PTL DEF Spec

-----------------------------------------------------------------------------
(***************************************************************************)
(* A blocking wait returns with a signal.  The strengthening ties the      *)
(* state of the group to the point its thread has reached: estateWait only *)
(* while it sleeps without a signal, and no sleep without one once it is   *)
(* over.                                                                   *)
(***************************************************************************)
WaitOK(g) ==
  /\ signal_index[g] <= Last(g)
  /\ waitstate[g] = "Wait" => wpc[g] = "sleep" /\ signal_index[g] = esigNoSignal
  /\ wpc[g] \in {"pop", "popLock", "link"} => signal_index[g] = esigNoSignal
  /\ wpc[g] = "sleep" /\ waitstate[g] = "NoWait" => signal_index[g] # esigNoSignal
  /\ wpc[g] \in {"link", "sleep", "unlink"} => ~trying[g]
  /\ wpc[g] \in {"unlink", "return"} /\ ~trying[g] => signal_index[g] # esigNoSignal

WaitInv == TypeInv /\ \A g \in Groups : WaitOK(g)

LEMMA WaitInit == Init => WaitInv
  <1>1. Init => \A g \in Groups : WaitOK(g)
    BY LastType DEF Init, WaitOK, esigNoSignal
  <1> QED BY <1>1, TypeInit DEF WaitInv

LEMMA WaitNext == WaitInv /\ [Next]_vars => WaitInv'
  <1> SUFFICES ASSUME WaitInv, [Next]_vars,
                      NEW h \in Groups
               PROVE  WaitOK(h)'
    BY TypeNext DEF WaitInv
  <1> USE DEF WaitOK, esigNoSignal
  <1>0. TypeOK /\ ControlOK /\ WaitOK(h) /\ \A g \in Groups : WaitOK(g)
    BY DEF WaitInv, TypeInv
  <1>1. ASSUME NEW g \in Groups, NEW try_wait \in BOOLEAN, Wait(g, try_wait)
        PROVE WaitOK(h)'
    BY <1>0, <1>1, LastType DEF Wait, Goto, TypeOK
  <1>2. ASSUME NEW g \in Groups, Destroy(g) PROVE WaitOK(h)'
    BY <1>0, <1>2 DEF Destroy, Goto, TypeOK
  <1>3. ASSUME NEW g \in Groups, PopPeek(g) PROVE WaitOK(h)'
    BY <1>0, <1>3 DEF PopPeek, Goto, groupVars, TypeOK
  <1>4. ASSUME NEW g \in Groups, PopLocked(g) PROVE WaitOK(h)'
    <2>1. wi[g] \in Nat \ {0} /\ wi[g] <= Last(g)
      BY <1>0, <1>4, GroupsAssumption DEF PopLocked, TypeOK, ControlOK
    <2>2. groupindex(Link(g, wi[g])) = wi[g]
      BY <2>1, LinkOf
    <2> QED
      BY <1>0, <1>4, <2>1, <2>2 DEF PopLocked, Goto, TypeOK
  <1>5. ASSUME NEW g \in Groups, PopEnd(g) PROVE WaitOK(h)'
    BY <1>0, <1>5 DEF PopEnd, Goto, TypeOK
  <1>6. ASSUME NEW g \in Groups, LinkEvent(g) PROVE WaitOK(h)'
    BY <1>0, <1>6 DEF LinkEvent, groupVars
  <1>7. ASSUME NEW g \in Groups, Sleep(g) PROVE WaitOK(h)'
    BY <1>0, <1>7 DEF Sleep, Goto, TypeOK
  <1>8. ASSUME NEW g \in Groups, Wake(g) PROVE WaitOK(h)'
    <2>1. waitstate[g] = "NoWait"
      BY <1>0, <1>8 DEF Wake, isEndWait, TypeOK
    <2> QED
      BY <1>0, <1>8, <2>1 DEF Wake, Goto, TypeOK
  <1>9. ASSUME NEW g \in Groups, UnlinkEvent(g) PROVE WaitOK(h)'
    BY <1>0, <1>9 DEF UnlinkEvent, groupVars
  <1>10. ASSUME NEW g \in Groups, UnlinkEnd(g) PROVE WaitOK(h)'
    BY <1>0, <1>10 DEF UnlinkEnd, Goto, groupVars, TypeOK
  <1>11. ASSUME NEW g \in Groups, Return(g) PROVE WaitOK(h)'
    BY <1>0, <1>11 DEF Return, Goto, TypeOK
  <1>12. ASSUME NEW g \in Groups, DestroyEnd(g) PROVE WaitOK(h)'
    BY <1>0, <1>12 DEF DestroyEnd, Goto, TypeOK
  <1>13. ASSUME NEW s \in Signallers, NEW e \in Events, NEW n \in Counts, Signal(s, e, n)
         PROVE WaitOK(h)'
    BY <1>0, <1>13 DEF Signal, groupVars, waitVars
  <1>14. ASSUME NEW s \in Signallers, ScanEnd(s) PROVE WaitOK(h)'
    BY <1>0, <1>14 DEF ScanEnd, groupVars, waitVars
  <1>15. ASSUME NEW s \in Signallers, ScanPeek(s) PROVE WaitOK(h)'
    BY <1>0, <1>15 DEF ScanPeek, groupVars, waitVars
  <1>16. ASSUME NEW s \in Signallers, TrySignalTo(s) PROVE WaitOK(h)'
    <2> DEFINE g == waitgroup(curr[s])
    <2>1. curr[s] \in Links
      BY <1>0, <1>16 DEF TrySignalTo, LinkOrNull, TypeOK, ControlOK
    <2>2. g \in Groups /\ groupindex(curr[s]) \in 1..Last(g)
      BY <2>1, LinkFacts
    <2>3. Last(g) \in Nat
      BY <2>2, LastType, GroupsAssumption
    <2> QED
      BY <1>0, <1>16, <2>2, <2>3 DEF TrySignalTo, StillWaits, waitVars, TypeOK
  <1>17. CASE UNCHANGED vars
    BY <1>0, <1>17 DEF vars, groupVars, waitVars
  <1> QED
    BY <1>1, <1>2, <1>3, <1>4, <1>5, <1>6, <1>7, <1>8, <1>9, <1>10, <1>11, <1>12,
       <1>13, <1>14, <1>15, <1>16, <1>17
       DEF Next, WaitStep, SignalStep

LEMMA WaitCorrect == Spec => []WaitInv
  BY WaitInit, WaitNext, PTL DEF Spec

\* A wait that is not a try never leaves with esigNoSignal.
THEOREM WaitServed == Spec => []BlockingWaitIsServed
  <1>1. WaitInv => BlockingWaitIsServed
    BY DEF WaitInv, WaitOK, BlockingWaitIsServed
  <1> QED BY <1>1, WaitCorrect, PTL

-----------------------------------------------------------------------------
(***************************************************************************)
(* Conservation of signals.  WaitInv says that a group that is about to    *)
(* receive a signal holds none, so that every step adds or removes at most *)
(* one holder while it moves one signal.                                   *)
(***************************************************************************)
LEMMA HoldersFinite ==
  ASSUME NEW e \in Events
  PROVE  IsFiniteSet(Holders(e)) /\ Cardinality(Holders(e)) \in Nat
  BY FS_Subset, FS_CardinalityType, GroupsAssumption DEF Holders

ConservationInv == WaitInv /\ Conservation

LEMMA ConservationInit == Init => Conservation
  <1> SUFFICES ASSUME Init, NEW e \in Events
               PROVE sent[e] = cnt_signals[e] + taken[e] + Cardinality(Holders(e))
    BY DEF Conservation
  <1>1. Holders(e) = {}
    BY DEF Init, Holders
  <1> QED BY <1>1, FS_EmptySet DEF Init

\* A step that moves no signal and leaves every holder where it is.
LEMMA ConservationKept ==
  ASSUME Conservation, UNCHANGED <<cnt_signals, history>>,
         \A e \in Events : Holders(e)' = Holders(e)
  PROVE  Conservation'
  BY DEF Conservation, history

\* A step that gives one signal of e to group g, which held none.
LEMMA ConservationTake ==
  ASSUME TypeOK, Conservation, UNCHANGED history,
         NEW g \in Groups, NEW l \in Links, waitgroup(l) = g,
         Link(g, groupindex(l)) = l,
         cnt_signals' = [cnt_signals EXCEPT ![ev(l)] = @ - 1],
         signal_index[g] = esigNoSignal,
         signal_index' = [signal_index EXCEPT ![g] = groupindex(l)],
         wpc[g] \notin {"idle", "dtor", "dead"}, wpc'[g] \notin {"idle", "dtor", "dead"},
         \A h \in Groups : h # g => wpc'[h] = wpc[h]
  PROVE  Conservation'
  <1>1. ev(l) \in Events /\ groupindex(l) # esigNoSignal
    BY LinkFacts DEF esigNoSignal
  <1>2. ev(Link(g, groupindex(l))) = ev(l)
    OBVIOUS
  <1>3. ASSUME NEW e \in Events
        PROVE  sent'[e] = cnt_signals'[e] + taken'[e] + Cardinality(Holders(e)')
    <2>1. sent[e] = cnt_signals[e] + taken[e] + Cardinality(Holders(e))
      BY DEF Conservation
    <2>2. /\ cnt_signals[e] \in Nat /\ taken[e] \in Nat /\ Cardinality(Holders(e)) \in Nat
          /\ sent' = sent /\ taken' = taken
      BY HoldersFinite DEF TypeOK, history
    <2>3. CASE e = ev(l)
      <3>1. g \notin Holders(e)
        BY DEF Holders
      <3>2. Holders(e)' = Holders(e) \cup {g}
        BY <1>1, <1>2, <2>3 DEF Holders, TypeOK
      <3>3. Cardinality(Holders(e)') = Cardinality(Holders(e)) + 1
        <4>1. IsFiniteSet(Holders(e))
          BY HoldersFinite
        <4>2. Cardinality(Holders(e) \cup {g}) = Cardinality(Holders(e)) + 1
          BY <3>1, <4>1, FS_AddElement
        <4> QED BY <3>2, <4>2
      <3>4. cnt_signals'[e] = cnt_signals[e] - 1
        BY <2>3 DEF TypeOK
      <3> QED BY <2>1, <2>2, <3>3, <3>4
    <2>4. CASE e # ev(l)
      <3>1. Holders(e)' = Holders(e)
        BY <1>2, <2>4 DEF Holders, TypeOK
      <3>2. cnt_signals'[e] = cnt_signals[e]
        BY <2>4 DEF TypeOK
      <3> QED BY <2>1, <2>2, <3>1, <3>2
    <2> QED BY <2>3, <2>4
  <1> QED BY <1>3 DEF Conservation

LEMMA ConservationNext == ConservationInv /\ [Next]_vars => Conservation'
  <1> SUFFICES ASSUME WaitInv, Conservation, [Next]_vars PROVE Conservation'
    BY DEF ConservationInv
  <1>0. TypeOK /\ ControlOK /\ \A g \in Groups : WaitOK(g)
    BY DEF WaitInv, TypeInv
  <1>1. ASSUME NEW g \in Groups, NEW try_wait \in BOOLEAN, Wait(g, try_wait)
        PROVE Conservation'
    <2>1. \A e \in Events : Holders(e)' = Holders(e)
      BY <1>0, <1>1 DEF Wait, Goto, Holders, TypeOK
    <2> QED BY <1>1, <2>1, ConservationKept DEF Wait, eventVars
  <1>2. ASSUME NEW g \in Groups, Destroy(g) PROVE Conservation'
    <2>1. \A e \in Events : Holders(e)' = Holders(e)
      BY <1>0, <1>2 DEF Destroy, Goto, Holders, TypeOK
    <2> QED BY <1>2, <2>1, ConservationKept DEF Destroy, eventVars
  <1>3. ASSUME NEW g \in Groups, PopPeek(g) PROVE Conservation'
    <2>1. \A e \in Events : Holders(e)' = Holders(e)
      BY <1>0, <1>3 DEF PopPeek, Goto, groupVars, Holders, TypeOK
    <2> QED BY <1>3, <2>1, ConservationKept DEF PopPeek, eventVars
  <1>4. ASSUME NEW g \in Groups, PopLocked(g) PROVE Conservation'
    <2> DEFINE l == Link(g, wi[g])
    <2>1. wi[g] \in Nat \ {0} /\ wi[g] <= Last(g)
      BY <1>0, <1>4, GroupsAssumption DEF PopLocked, TypeOK, ControlOK
    <2>2. l \in Links /\ waitgroup(l) = g /\ groupindex(l) = wi[g]
      BY <2>1, LinkOf
    <2>3. wpc[g] = "popLock" /\ signal_index[g] = esigNoSignal
      BY <1>0, <1>4 DEF PopLocked, WaitOK
    <2>4. CASE CanPop(ev(l))
      <3>1. /\ cnt_signals' = [cnt_signals EXCEPT ![ev(l)] = @ - 1]
            /\ signal_index' = [signal_index EXCEPT ![g] = groupindex(l)]
            /\ UNCHANGED history
        BY <1>4, <2>4 DEF PopLocked, PopOne
      <3>2. wpc' = [wpc EXCEPT ![g] = "return"]
        BY <1>4, <2>4 DEF PopLocked, Goto
      <3>3. wpc'[g] = "return" /\ \A h \in Groups : h # g => wpc'[h] = wpc[h]
        BY <1>0, <3>2 DEF TypeOK
      <3> HIDE DEF l
      <3>4. Link(g, groupindex(l)) = l
        BY <2>2 DEF l
      <3> QED BY <1>0, <2>2, <2>3, <3>1, <3>3, <3>4, ConservationTake
    <2>5. CASE ~CanPop(ev(l))
      <3>1. \A e \in Events : Holders(e)' = Holders(e)
        BY <1>0, <1>4, <2>5 DEF PopLocked, Goto, Holders, TypeOK
      <3> QED BY <1>4, <2>5, <3>1, ConservationKept DEF PopLocked
    <2> QED BY <2>4, <2>5
  <1>5. ASSUME NEW g \in Groups, PopEnd(g) PROVE Conservation'
    <2>1. \A e \in Events : Holders(e)' = Holders(e)
      BY <1>0, <1>5 DEF PopEnd, Goto, Holders, TypeOK
    <2> QED BY <1>5, <2>1, ConservationKept DEF PopEnd, eventVars
  <1>6. ASSUME NEW g \in Groups, LinkEvent(g) PROVE Conservation'
    BY <1>6, ConservationKept DEF LinkEvent, groupVars, Holders
  <1>7. ASSUME NEW g \in Groups, Sleep(g) PROVE Conservation'
    <2>1. \A e \in Events : Holders(e)' = Holders(e)
      BY <1>0, <1>7 DEF Sleep, Goto, Holders, TypeOK
    <2> QED BY <1>7, <2>1, ConservationKept DEF Sleep, eventVars
  <1>8. ASSUME NEW g \in Groups, Wake(g) PROVE Conservation'
    <2>1. \A e \in Events : Holders(e)' = Holders(e)
      BY <1>0, <1>8 DEF Wake, Goto, Holders, TypeOK
    <2> QED BY <1>8, <2>1, ConservationKept DEF Wake, eventVars
  <1>9. ASSUME NEW g \in Groups, UnlinkEvent(g) PROVE Conservation'
    BY <1>9, ConservationKept DEF UnlinkEvent, groupVars, Holders
  <1>10. ASSUME NEW g \in Groups, UnlinkEnd(g) PROVE Conservation'
    <2>1. \A e \in Events : Holders(e)' = Holders(e)
      BY <1>0, <1>10 DEF UnlinkEnd, Goto, groupVars, Holders, TypeOK
    <2> QED BY <1>10, <2>1, ConservationKept DEF UnlinkEnd, eventVars
  <1>11. ASSUME NEW g \in Groups, Return(g) PROVE Conservation'
    <2>0. /\ wpc[g] = "return" /\ wpc' = [wpc EXCEPT ![g] = "idle"]
          /\ UNCHANGED <<cnt_signals, signal_index, sent>>
      BY <1>11 DEF Return, Goto, eventVars
    <2>1. CASE signal_index[g] = esigNoSignal
      <3>1. \A e \in Events : Holders(e)' = Holders(e)
        BY <1>0, <2>0, <2>1 DEF Holders, TypeOK
      <3> QED BY <1>11, <2>0, <2>1, <3>1, ConservationKept DEF Return, history
    <2>2. CASE signal_index[g] # esigNoSignal
      <3> DEFINE r == ev(Link(g, signal_index[g]))
      <3>1. signal_index[g] \in Nat \ {0} /\ signal_index[g] <= Last(g)
        BY <1>0, <2>2, GroupsAssumption DEF TypeOK, WaitOK, esigNoSignal
      <3>2. r \in Events
        BY <3>1, LinkOf, LinkFacts
      <3>3. taken' = [taken EXCEPT ![r] = @ + 1]
        BY <1>11, <2>2 DEF Return
      <3>4. ASSUME NEW e \in Events
            PROVE  sent'[e] = cnt_signals'[e] + taken'[e] + Cardinality(Holders(e)')
        <4>1. sent[e] = cnt_signals[e] + taken[e] + Cardinality(Holders(e))
          BY DEF Conservation
        <4>2. /\ cnt_signals[e] \in Nat /\ taken[e] \in Nat
              /\ Cardinality(Holders(e)) \in Nat /\ IsFiniteSet(Holders(e))
          BY <1>0, HoldersFinite DEF TypeOK
        <4>3. CASE e = r
          <5>1. g \in Holders(e) /\ Holders(e)' = Holders(e) \ {g}
            BY <1>0, <2>0, <2>2, <4>3 DEF Holders, TypeOK
          <5>2. Cardinality(Holders(e)') = Cardinality(Holders(e)) - 1
            BY <5>1, <4>2, FS_RemoveElement
          <5>3. taken'[e] = taken[e] + 1
            BY <1>0, <3>3, <4>3 DEF TypeOK
          <5> QED BY <2>0, <4>1, <4>2, <5>2, <5>3
        <4>4. CASE e # r
          <5>1. Holders(e)' = Holders(e)
            BY <1>0, <2>0, <4>4 DEF Holders, TypeOK
          <5>2. taken'[e] = taken[e]
            BY <1>0, <3>3, <4>4 DEF TypeOK
          <5> QED BY <2>0, <4>1, <5>1, <5>2
        <4> QED BY <4>3, <4>4
      <3> QED BY <3>4 DEF Conservation
    <2> QED BY <2>1, <2>2
  <1>12. ASSUME NEW g \in Groups, DestroyEnd(g) PROVE Conservation'
    <2>1. \A e \in Events : Holders(e)' = Holders(e)
      BY <1>0, <1>12 DEF DestroyEnd, Goto, Holders, TypeOK
    <2> QED BY <1>12, <2>1, ConservationKept DEF DestroyEnd, eventVars
  <1>13. ASSUME NEW s \in Signallers, NEW e \in Events, NEW n \in Counts, Signal(s, e, n)
         PROVE Conservation'
    <2>1. \A d \in Events : Holders(d)' = Holders(d)
      BY <1>13 DEF Signal, groupVars, waitVars, Holders
    <2>2. /\ cnt_signals' = [cnt_signals EXCEPT ![e] = @ + n]
          /\ sent' = [sent EXCEPT ![e] = @ + n] /\ taken' = taken /\ n \in Nat
      BY <1>13, CountsAssumption DEF Signal
    <2>3. \A d \in Events : /\ cnt_signals[d] \in Nat /\ sent[d] \in Nat /\ taken[d] \in Nat
                            /\ Cardinality(Holders(d)) \in Nat
      BY <1>0, HoldersFinite DEF TypeOK
    <2>4. \A d \in Events : sent'[d] = cnt_signals'[d] + taken'[d] + Cardinality(Holders(d))
      BY <1>0, <2>2, <2>3 DEF Conservation, TypeOK
    <2> QED BY <2>1, <2>4 DEF Conservation
  <1>14. ASSUME NEW s \in Signallers, ScanEnd(s) PROVE Conservation'
    BY <1>14, ConservationKept DEF ScanEnd, groupVars, waitVars, Holders
  <1>15. ASSUME NEW s \in Signallers, ScanPeek(s) PROVE Conservation'
    BY <1>15, ConservationKept DEF ScanPeek, eventVars, groupVars, waitVars, Holders
  <1>16. ASSUME NEW s \in Signallers, TrySignalTo(s) PROVE Conservation'
    <2> DEFINE l == curr[s]
               g == waitgroup(l)
    <2>1. l \in Links
      BY <1>0, <1>16 DEF TrySignalTo, LinkOrNull, TypeOK, ControlOK
    <2>2. g \in Groups /\ Link(g, groupindex(l)) = l
      BY <2>1 DEF Links, Link, waitgroup, groupindex
    <2>3. CASE StillWaits(g) /\ CanPop(ev(l))
      <3>1. /\ cnt_signals' = [cnt_signals EXCEPT ![ev(l)] = @ - 1]
            /\ signal_index' = [signal_index EXCEPT ![g] = groupindex(l)]
            /\ UNCHANGED history /\ wpc' = wpc
        BY <1>16, <2>3 DEF TrySignalTo, PopOne, waitVars
      <3>2. wpc[g] = "sleep" /\ signal_index[g] = esigNoSignal
        BY <1>0, <2>2, <2>3 DEF WaitOK, StillWaits
      <3> HIDE DEF l, g
      <3>3. waitgroup(l) = g
        BY DEF g
      <3> QED BY <1>0, <2>1, <2>2, <3>1, <3>2, <3>3, ConservationTake
    <2>4. CASE ~(StillWaits(g) /\ CanPop(ev(l)))
      BY <1>16, <2>4, ConservationKept DEF TrySignalTo, waitVars, Holders
    <2> QED BY <2>3, <2>4
  <1>17. CASE UNCHANGED vars
    BY <1>17, ConservationKept DEF vars, eventVars, groupVars, waitVars, Holders
  <1> QED
    BY <1>1, <1>2, <1>3, <1>4, <1>5, <1>6, <1>7, <1>8, <1>9, <1>10, <1>11, <1>12,
       <1>13, <1>14, <1>15, <1>16, <1>17
       DEF Next, WaitStep, SignalStep

\* Every signal sent is counted, returned, or held by exactly one wait.
THEOREM SignalsConserved == Spec => []Conservation
  <1>1. Init => ConservationInv
    BY WaitInit, ConservationInit DEF ConservationInv
  <1>2. ConservationInv /\ [Next]_vars => ConservationInv'
    BY WaitNext, ConservationNext DEF ConservationInv
  <1>3. ConservationInv => Conservation
    BY DEF ConservationInv
  <1> QED BY <1>1, <1>2, <1>3, PTL DEF Spec

-----------------------------------------------------------------------------
(***************************************************************************)
(* Freedom from deadlock when every group waits for one event.  The owner  *)
(* of a mutex follows from the control points; a signaller that is about   *)
(* to take the mutex of a group holds the only event that can wake it, so  *)
(* the group still sleeps and its mutex is free.                           *)
(***************************************************************************)
OneEventGroups ==
  \A l, m \in Links : waitgroup(l) = waitgroup(m) => ev(l) = ev(m)

OwnersOK ==
  /\ \A g \in Groups : mu[g] = IF wpc[g] \in {"idle", "sleep", "dead"} THEN NoOne ELSE g
  /\ \A s \in Signallers : spc[s] # "idle" => sev[s] \in Events /\ pmu[sev[s]] = s

ChainEvents ==
  /\ \A e \in Events : links[e] # Null => ev(links[e]) = e
  /\ \A l \in Links : /\ left[l] # Null => ev(left[l]) = ev(l)
                      /\ right[l] # Null => ev(right[l]) = ev(l)
  /\ \A s \in Signallers : curr[s] # Null => spc[s] # "idle" /\ ev(curr[s]) = sev[s]

EnterOK ==
  \A s \in Signallers : spc[s] = "enter" => waitstate[waitgroup(curr[s])] = "Wait"

LockInv == WaitInv /\ OwnersOK /\ ChainEvents

LEMMA LockInit == Init => LockInv /\ EnterOK
  <1>1. Init => OwnersOK /\ ChainEvents /\ EnterOK
    BY DEF Init, OwnersOK, ChainEvents, EnterOK
  <1> QED BY <1>1, WaitInit DEF LockInv

LEMMA OwnersNext == LockInv /\ [Next]_vars => OwnersOK'
  <1> SUFFICES ASSUME WaitInv, OwnersOK, [Next]_vars PROVE OwnersOK'
    BY DEF LockInv
  <1>0. TypeOK
    BY DEF WaitInv, TypeInv
  <1> USE DEF OwnersOK, TypeOK
  <1>1. ASSUME NEW g \in Groups, NEW try_wait \in BOOLEAN, Wait(g, try_wait) PROVE OwnersOK'
    BY <1>0, <1>1 DEF Wait, Goto, eventVars, signalVars
  <1>2. ASSUME NEW g \in Groups, Destroy(g) PROVE OwnersOK'
    BY <1>0, <1>2 DEF Destroy, Goto, eventVars, signalVars
  <1>3. ASSUME NEW g \in Groups, PopPeek(g) PROVE OwnersOK'
    BY <1>0, <1>3 DEF PopPeek, Goto, eventVars, groupVars, signalVars
  <1>4. ASSUME NEW g \in Groups, PopLocked(g) PROVE OwnersOK'
    BY <1>0, <1>4 DEF PopLocked, Goto, signalVars
  <1>5. ASSUME NEW g \in Groups, PopEnd(g) PROVE OwnersOK'
    BY <1>0, <1>5 DEF PopEnd, Goto, eventVars, signalVars
  <1>6. ASSUME NEW g \in Groups, LinkEvent(g) PROVE OwnersOK'
    BY <1>0, <1>6 DEF LinkEvent, groupVars, signalVars
  <1>7. ASSUME NEW g \in Groups, Sleep(g) PROVE OwnersOK'
    BY <1>0, <1>7 DEF Sleep, Goto, eventVars, signalVars
  <1>8. ASSUME NEW g \in Groups, Wake(g) PROVE OwnersOK'
    BY <1>0, <1>8 DEF Wake, Goto, eventVars, signalVars
  <1>9. ASSUME NEW g \in Groups, UnlinkEvent(g) PROVE OwnersOK'
    BY <1>0, <1>9 DEF UnlinkEvent, groupVars, signalVars
  <1>10. ASSUME NEW g \in Groups, UnlinkEnd(g) PROVE OwnersOK'
    BY <1>0, <1>10 DEF UnlinkEnd, Goto, eventVars, groupVars, signalVars
  <1>11. ASSUME NEW g \in Groups, Return(g) PROVE OwnersOK'
    BY <1>0, <1>11 DEF Return, Goto, eventVars, signalVars
  <1>12. ASSUME NEW g \in Groups, DestroyEnd(g) PROVE OwnersOK'
    BY <1>0, <1>12 DEF DestroyEnd, Goto, eventVars, signalVars
  <1>13. ASSUME NEW s \in Signallers, NEW e \in Events, NEW n \in Counts, Signal(s, e, n)
         PROVE OwnersOK'
    BY <1>0, <1>13, NamesAssumption DEF Signal, CanLock, groupVars, waitVars
  <1>14. ASSUME NEW s \in Signallers, ScanEnd(s) PROVE OwnersOK'
    BY <1>0, <1>14, NamesAssumption DEF ScanEnd, groupVars, waitVars
  <1>15. ASSUME NEW s \in Signallers, ScanPeek(s) PROVE OwnersOK'
    BY <1>0, <1>15 DEF ScanPeek, eventVars, groupVars, waitVars
  <1>16. ASSUME NEW s \in Signallers, TrySignalTo(s) PROVE OwnersOK'
    BY <1>0, <1>16 DEF TrySignalTo, waitVars
  <1>17. CASE UNCHANGED vars
    BY <1>17 DEF vars, eventVars, groupVars, waitVars, signalVars
  <1> QED
    BY <1>1, <1>2, <1>3, <1>4, <1>5, <1>6, <1>7, <1>8, <1>9, <1>10, <1>11, <1>12,
       <1>13, <1>14, <1>15, <1>16, <1>17
       DEF Next, WaitStep, SignalStep

LEMMA ChainEventsNext == LockInv /\ [Next]_vars => ChainEvents'
  <1> SUFFICES ASSUME WaitInv, OwnersOK, ChainEvents, [Next]_vars PROVE ChainEvents'
    BY DEF LockInv
  <1>0. TypeOK /\ ControlOK
    BY DEF WaitInv, TypeInv
  <1>1. CASE UNCHANGED <<chainVars, sev, curr, spc>>
    BY <1>1 DEF ChainEvents, chainVars
  <1>2. ASSUME NEW g \in Groups, LinkEvent(g) PROVE ChainEvents'
    <2>1. Link(g, wi[g]) \in Links /\ ev(Link(g, wi[g])) \in Events
      BY <1>0, <1>2, LinkOf, LinkFacts, GroupsAssumption DEF LinkEvent, TypeOK
    <2> QED
      BY <1>0, <1>2, <2>1 DEF LinkEvent, link_group, ChainEvents, TypeOK, LinkOrNull, signalVars
  <1>3. ASSUME NEW g \in Groups, UnlinkEvent(g) PROVE ChainEvents'
    <2> DEFINE l == Link(g, wi[g])
    <2>1. l \in Links /\ ev(l) \in Events
      BY <1>0, <1>3, LinkOf, LinkFacts, GroupsAssumption DEF UnlinkEvent, TypeOK
    <2>2. unlink_group(l) /\ UNCHANGED signalVars
      BY <1>3 DEF UnlinkEvent
    <2> HIDE DEF l
    <2>3. CASE IsHead(l)
      BY <1>0, <2>1, <2>2, <2>3
         DEF unlink_group, ChainEvents, TypeOK, LinkOrNull, signalVars
    <2>4. CASE ~IsHead(l)
      BY <1>0, <2>1, <2>2, <2>4
         DEF unlink_group, ChainEvents, TypeOK, LinkOrNull, signalVars
    <2> QED BY <2>3, <2>4
  <1>4. ASSUME NEW s \in Signallers, NEW e \in Events, NEW n \in Counts, Signal(s, e, n)
        PROVE ChainEvents'
    BY <1>0, <1>4 DEF Signal, ChainEvents, TypeOK, chainVars
  <1>5. ASSUME NEW s \in Signallers, ScanEnd(s) PROVE ChainEvents'
    BY <1>0, <1>5 DEF ScanEnd, ChainEvents, TypeOK, chainVars
  <1>6. ASSUME NEW s \in Signallers, ScanPeek(s) PROVE ChainEvents'
    BY <1>0, <1>6 DEF ScanPeek, Advance, ChainEvents, TypeOK, LinkOrNull, eventVars
  <1>7. ASSUME NEW s \in Signallers, TrySignalTo(s) PROVE ChainEvents'
    <2>1. curr[s] \in Links
      BY <1>0, <1>7 DEF TrySignalTo, LinkOrNull, TypeOK, ControlOK
    <2>2. curr[s] # Null /\ spc[s] = "enter"
      BY <1>0, <1>7 DEF TrySignalTo, ControlOK
    <2>3. right[curr[s]] # Null => ev(right[curr[s]]) = sev[s]
      BY <2>1, <2>2 DEF ChainEvents
    <2>4. /\ UNCHANGED <<links, left, right, sev>>
          /\ curr' = [curr EXCEPT ![s] = right[curr[s]]]
          /\ spc' = [spc EXCEPT ![s] = "scan"]
      BY <1>7 DEF TrySignalTo, Advance, chainVars
    <2> QED
      BY <1>0, <2>3, <2>4 DEF ChainEvents, TypeOK
  <1> QED
    BY <1>1, <1>2, <1>3, <1>4, <1>5, <1>6, <1>7
       DEF Next, WaitStep, SignalStep, Wait, Destroy, PopPeek, PopLocked, PopEnd, Sleep, Wake,
           UnlinkEnd, Return, DestroyEnd, vars, eventVars, chainVars, signalVars

LEMMA LockNext == LockInv /\ [Next]_vars => LockInv'
  BY WaitNext, OwnersNext, ChainEventsNext DEF LockInv

LEMMA EnterNext ==
  ASSUME OneEventGroups
  PROVE  LockInv /\ EnterOK /\ [Next]_vars => EnterOK'
  <1> SUFFICES ASSUME LockInv, EnterOK, [Next]_vars, NEW t \in Signallers, spc'[t] = "enter"
               PROVE  waitstate'[waitgroup(curr'[t])] = "Wait"
    BY DEF EnterOK
  <1>0. TypeOK /\ ControlOK /\ OwnersOK /\ ChainEvents
    BY DEF LockInv, WaitInv, TypeInv
  <1>1. CASE UNCHANGED <<spc, curr, waitstate>>
    BY <1>1 DEF EnterOK
  <1>2. ASSUME NEW g \in Groups, Sleep(g) PROVE waitstate'[waitgroup(curr'[t])] = "Wait"
    BY <1>0, <1>2 DEF Sleep, EnterOK, TypeOK, signalVars
  <1>3. ASSUME NEW s \in Signallers, NEW e \in Events, NEW n \in Counts, Signal(s, e, n)
        PROVE waitstate'[waitgroup(curr'[t])] = "Wait"
    BY <1>0, <1>3 DEF Signal, EnterOK, TypeOK, groupVars
  <1>4. ASSUME NEW s \in Signallers, ScanEnd(s) PROVE waitstate'[waitgroup(curr'[t])] = "Wait"
    BY <1>0, <1>4 DEF ScanEnd, EnterOK, TypeOK, groupVars
  <1>5. ASSUME NEW s \in Signallers, ScanPeek(s) PROVE waitstate'[waitgroup(curr'[t])] = "Wait"
    BY <1>0, <1>5 DEF ScanPeek, PeekWaits, Advance, EnterOK, TypeOK, groupVars
  <1>6. ASSUME NEW s \in Signallers, TrySignalTo(s)
        PROVE waitstate'[waitgroup(curr'[t])] = "Wait"
    <2>1. t # s /\ spc[t] = "enter" /\ curr'[t] = curr[t]
      BY <1>0, <1>6 DEF TrySignalTo, Advance, TypeOK
    <2>2. curr[s] \in Links /\ curr[t] \in Links /\ spc[s] = "enter"
      BY <1>0, <1>6, <2>1 DEF TrySignalTo, TypeOK, ControlOK, LinkOrNull
    <2>3. sev[s] # sev[t]
      BY <1>0, <2>1, <2>2 DEF OwnersOK
    <2>4. ev(curr[s]) # ev(curr[t])
      BY <1>0, <2>2, <2>3, NullAssumption DEF ChainEvents
    <2>5. waitgroup(curr[s]) # waitgroup(curr[t])
      BY <2>2, <2>4 DEF OneEventGroups
    <2>6. waitgroup(curr[t]) \in Groups
      BY <2>2, LinkFacts
    <2> QED
      BY <1>0, <1>6, <2>1, <2>5, <2>6 DEF TrySignalTo, EnterOK, TypeOK
  <1> QED
    BY <1>1, <1>2, <1>3, <1>4, <1>5, <1>6
       DEF Next, WaitStep, SignalStep, Wait, Destroy, PopPeek, PopLocked, PopEnd, Sleep, Wake,
           LinkEvent, UnlinkEvent, UnlinkEnd, Return, DestroyEnd, vars, groupVars, signalVars

LEMMA EnterNoDeadlock == LockInv /\ EnterOK => NoDeadlock
  <1> SUFFICES ASSUME LockInv, EnterOK,
                      NEW D \in SUBSET (Groups \cup Signallers), D # {},
                      \A t \in D : Blocker(t) \in D
               PROVE FALSE
    BY DEF NoDeadlock
  <1>0. TypeOK /\ ControlOK /\ OwnersOK /\ \A g \in Groups : WaitOK(g)
    BY DEF LockInv, WaitInv, TypeInv
  <1>1. NoOne \notin D
    BY NamesAssumption
  <1>2. ASSUME NEW s \in Signallers, s \in D PROVE FALSE
    <2>1. s \notin Groups
      BY NamesAssumption
    <2>2. spc[s] = "enter" /\ mu[waitgroup(curr[s])] \in D
      BY <1>1, <1>2, <2>1 DEF Blocker
    <2>3. waitgroup(curr[s]) \in Groups
      BY <1>0, <2>2, LinkFacts DEF TypeOK, ControlOK, LinkOrNull
    <2>4. wpc[waitgroup(curr[s])] = "sleep"
      BY <1>0, <2>2, <2>3 DEF EnterOK, WaitOK
    <2> QED BY <1>0, <1>1, <2>2, <2>3, <2>4 DEF OwnersOK
  <1>3. PICK g \in D : g \in Groups
    BY <1>2
  <1>4. /\ wpc[g] \in {"popLock", "link", "unlink", "dtor"} /\ wi[g] <= Last(g)
        /\ pmu[ev(Link(g, wi[g]))] \in D
    BY <1>0, <1>1, <1>3 DEF Blocker, ControlOK
  <1>5. ev(Link(g, wi[g])) \in Events
    BY <1>0, <1>3, <1>4, LinkOf, LinkFacts, GroupsAssumption DEF TypeOK
  <1>6. pmu[ev(Link(g, wi[g]))] \in Signallers
    BY <1>0, <1>1, <1>4, <1>5 DEF TypeOK
  <1> QED BY <1>2, <1>4, <1>6

\* If all the links of a group are on one event, as in event_t::wait(), push()
\* and pop(), no set of threads blocks itself on the mutexes.
THEOREM OneEventNoDeadlock ==
  ASSUME OneEventGroups
  PROVE  Spec => []NoDeadlock
  <1>1. Init => LockInv /\ EnterOK
    BY LockInit
  <1>2. LockInv /\ EnterOK /\ [Next]_vars => LockInv' /\ EnterOK'
    BY LockNext, EnterNext
  <1>3. LockInv /\ EnterOK => NoDeadlock
    BY EnterNoDeadlock
  <1> QED BY <1>1, <1>2, <1>3, PTL DEF Spec

-----------------------------------------------------------------------------
(***************************************************************************)
(* The chains.  flinked_events follows the control points; link_group and  *)
(* unlink_group change the linked set by one link, whose event's mutex is  *)
(* free, so that no signaller is inside its chain.                         *)
(***************************************************************************)
FlagOK ==
  \A g \in Groups :
    /\ wpc[g] \in {"link", "sleep"} => flinked_events[g]
    /\ wpc[g] \in {"unlink", "dtor", "dead"} => ~flinked_events[g]

ChainInv == LockInv /\ FlagOK /\ ChainConsistent /\ CursorLive

LEMMA ChainInit == Init => ChainInv
  <1>1. Init => FlagOK /\ ChainConsistent /\ CursorLive
    <2> SUFFICES ASSUME Init PROVE FlagOK /\ ChainConsistent /\ CursorLive
      OBVIOUS
    <2>1. \A l \in Links : ~Linked(l)
      BY LinkFacts DEF Init, Linked
    <2> QED BY <2>1 DEF Init, FlagOK, ChainConsistent, CursorLive
  <1> QED BY <1>1, LockInit DEF ChainInv

LEMMA FlagNext == TypeOK /\ FlagOK /\ [Next]_vars => FlagOK'
  <1> SUFFICES ASSUME TypeOK, FlagOK, [Next]_vars PROVE FlagOK'
    OBVIOUS
  <1> USE DEF FlagOK, TypeOK
  <1>1. ASSUME NEW g \in Groups, NEW try_wait \in BOOLEAN, Wait(g, try_wait) PROVE FlagOK'
    BY <1>1 DEF Wait, Goto
  <1>2. ASSUME NEW g \in Groups, Destroy(g) PROVE FlagOK'
    BY <1>2 DEF Destroy, Goto
  <1>3. ASSUME NEW g \in Groups, PopPeek(g) PROVE FlagOK'
    BY <1>3 DEF PopPeek, Goto, groupVars
  <1>4. ASSUME NEW g \in Groups, PopLocked(g) PROVE FlagOK'
    BY <1>4 DEF PopLocked, Goto
  <1>5. ASSUME NEW g \in Groups, PopEnd(g) PROVE FlagOK'
    BY <1>5 DEF PopEnd, Goto
  <1>6. ASSUME NEW g \in Groups, Sleep(g) \/ Return(g) \/ DestroyEnd(g) PROVE FlagOK'
    BY <1>6 DEF Sleep, Return, DestroyEnd, Goto
  <1>7. ASSUME NEW g \in Groups, Wake(g) PROVE FlagOK'
    BY <1>7 DEF Wake, Goto
  <1>8. ASSUME NEW g \in Groups, UnlinkEnd(g) PROVE FlagOK'
    BY <1>8 DEF UnlinkEnd, Goto, groupVars
  <1>9. CASE UNCHANGED <<wpc, flinked_events>>
    BY <1>9
  <1> QED
    BY <1>1, <1>2, <1>3, <1>4, <1>5, <1>6, <1>7, <1>8, <1>9
       DEF Next, WaitStep, SignalStep, LinkEvent, UnlinkEvent, Signal, ScanEnd, ScanPeek,
           TrySignalTo, vars, groupVars, waitVars

\* Only link_group and unlink_group change which links are linked.
LEMMA LinkedKept ==
  ASSUME TypeOK, FlagOK, ControlOK, [Next]_vars,
         \A g \in Groups : ~LinkEvent(g) /\ ~UnlinkEvent(g),
         NEW l \in Links
  PROVE  Linked(l)' <=> Linked(l)
  <1> DEFINE h == waitgroup(l)
  <1>0. /\ h \in Groups /\ groupindex(l) \in 1..Last(h) /\ Last(h) \in Nat
        /\ wi[h] \in Nat
    BY LinkFacts, LastType, GroupsAssumption DEF TypeOK
  <1> USE DEF Linked
  <1>1. ASSUME NEW g \in Groups, NEW try_wait \in BOOLEAN, Wait(g, try_wait)
        PROVE Linked(l)' <=> Linked(l)
    BY <1>0, <1>1 DEF Wait, Goto, TypeOK
  <1>2. ASSUME NEW g \in Groups, Destroy(g) PROVE Linked(l)' <=> Linked(l)
    BY <1>0, <1>2 DEF Destroy, Goto, TypeOK
  <1>3. ASSUME NEW g \in Groups, PopPeek(g) PROVE Linked(l)' <=> Linked(l)
    BY <1>0, <1>3 DEF PopPeek, Goto, groupVars, TypeOK
  <1>4. ASSUME NEW g \in Groups, PopLocked(g) PROVE Linked(l)' <=> Linked(l)
    BY <1>0, <1>4 DEF PopLocked, Goto, TypeOK
  <1>5. ASSUME NEW g \in Groups, PopEnd(g) PROVE Linked(l)' <=> Linked(l)
    BY <1>0, <1>5 DEF PopEnd, Goto, TypeOK
  <1>6. ASSUME NEW g \in Groups, Sleep(g) PROVE Linked(l)' <=> Linked(l)
    BY <1>0, <1>6 DEF Sleep, Goto, TypeOK, FlagOK
  <1>7. ASSUME NEW g \in Groups, Wake(g) PROVE Linked(l)' <=> Linked(l)
    BY <1>0, <1>7 DEF Wake, Goto, TypeOK, FlagOK
  <1>8. ASSUME NEW g \in Groups, UnlinkEnd(g) PROVE Linked(l)' <=> Linked(l)
    BY <1>0, <1>8 DEF UnlinkEnd, Goto, groupVars, TypeOK, FlagOK
  <1>9. ASSUME NEW g \in Groups, Return(g) PROVE Linked(l)' <=> Linked(l)
    BY <1>0, <1>9 DEF Return, Goto, TypeOK
  <1>10. ASSUME NEW g \in Groups, DestroyEnd(g) PROVE Linked(l)' <=> Linked(l)
    BY <1>0, <1>10 DEF DestroyEnd, Goto, TypeOK, FlagOK
  <1>11. CASE UNCHANGED <<wpc, wi, flinked_events>>
    BY <1>11
  <1> QED
    BY <1>1, <1>2, <1>3, <1>4, <1>5, <1>6, <1>7, <1>8, <1>9, <1>10, <1>11
       DEF Next, WaitStep, SignalStep, Signal, ScanEnd, ScanPeek, TrySignalTo, vars,
           groupVars, waitVars

LEMMA LinkKeepsChain ==
  ASSUME ChainInv, NEW g \in Groups, LinkEvent(g)
  PROVE  ChainConsistent' /\ CursorLive'
  <1> DEFINE l == Link(g, wi[g])
  <1>1. TypeOK /\ ControlOK /\ FlagOK /\ ChainConsistent /\ CursorLive
    BY DEF ChainInv, LockInv, WaitInv, TypeInv
  <1>2. /\ wi[g] \in Nat \ {0} /\ wi[g] <= Last(g) /\ wpc[g] = "link"
        /\ link_group(l)
        /\ wpc' = wpc /\ wi' = [wi EXCEPT ![g] = @ + 1] /\ UNCHANGED <<flinked_events, signalVars>>
    BY <1>1, GroupsAssumption DEF LinkEvent, TypeOK, groupVars
  <1>3. l \in Links /\ ev(l) \in Events /\ waitgroup(l) = g /\ groupindex(l) = wi[g]
    BY <1>2, LinkOf, LinkFacts
  <1>4. ~Linked(l)
    BY <1>2, <1>3 DEF Linked
  <1>5. ASSUME NEW m \in Links PROVE Linked(m)' <=> Linked(m) \/ m = l
    <2>1. waitgroup(m) \in Groups /\ groupindex(m) \in Nat
      BY LinkFacts
    <2>2. waitgroup(m) = g /\ groupindex(m) = wi[g] => m = l
      BY DEF Links, Link, waitgroup, groupindex
    <2> QED BY <1>1, <1>2, <1>3, <2>1, <2>2 DEF Linked, TypeOK
  <1> HIDE DEF l
  <1>6. /\ links' = [links EXCEPT ![ev(l)] = l]
        /\ left[l] = Null /\ right[l] = Null
        /\ links \in [Events -> LinkOrNull]
        /\ left \in [Links -> LinkOrNull] /\ right \in [Links -> LinkOrNull]
    BY <1>1, <1>2, <1>3, <1>4 DEF link_group, ChainConsistent, TypeOK
  <1>7. CASE links[ev(l)] = Null
    BY <1>1, <1>2, <1>3, <1>4, <1>5, <1>6, <1>7, LinkFacts, NullAssumption
       DEF link_group, ChainConsistent, CursorLive, LinkOrNull, signalVars, TypeOK
  <1>8. CASE links[ev(l)] # Null
    <2> DEFINE h == links[ev(l)]
    <2>1. h \in Links /\ Linked(h) /\ ev(h) = ev(l) /\ h # l
      BY <1>1, <1>3, <1>4, <1>6, <1>8 DEF ChainConsistent, LinkOrNull
    <2>2. /\ right' = [right EXCEPT ![l] = h]
          /\ left' = [left EXCEPT ![h] = l]
      BY <1>2, <1>8 DEF link_group
    <2>3. CursorLive'
      BY <1>1, <1>2, <1>5 DEF CursorLive, signalVars, TypeOK, LinkOrNull
    <2>4. ASSUME NEW e \in Events, links'[e] # Null
          PROVE  Linked(links[e])' /\ ev(links'[e]) = e
      BY <1>1, <1>3, <1>5, <1>6, <2>4 DEF ChainConsistent, LinkOrNull
    <2> HIDE DEF h
    <2>5. ASSUME NEW m \in Links, Linked(m)', links'[ev(m)] # m
          PROVE  left'[m] \in Links /\ right'[left'[m]] = m /\ Linked(left[m])'
      BY <1>1, <1>3, <1>4, <1>5, <1>6, <2>1, <2>2, <2>5, LinkFacts, NullAssumption DEF ChainConsistent, h
    <2>6. ASSUME NEW m \in Links, Linked(m)', right'[m] # Null
          PROVE  /\ Linked(right[m])' /\ left'[right'[m]] = m
                 /\ ev(right'[m]) = ev(m) /\ links'[ev(m)] # right'[m]
      BY <1>1, <1>3, <1>4, <1>5, <1>6, <2>1, <2>2, <2>6, LinkFacts, NullAssumption DEF ChainConsistent, LinkOrNull, h
    <2>7. ASSUME NEW m \in Links, ~Linked(m)' PROVE left'[m] = Null /\ right'[m] = Null
      BY <1>1, <1>5, <1>6, <2>1, <2>2, <2>7 DEF ChainConsistent
    <2> QED BY <2>3, <2>4, <2>5, <2>6, <2>7 DEF ChainConsistent
  <1> QED BY <1>7, <1>8

LEMMA UnlinkKeepsChain ==
  ASSUME ChainInv, NEW g \in Groups, UnlinkEvent(g)
  PROVE  ChainConsistent' /\ CursorLive'
  <1> DEFINE l == Link(g, wi[g])
  <1>1. TypeOK /\ ControlOK /\ FlagOK /\ ChainConsistent /\ CursorLive /\ OwnersOK /\ ChainEvents
    BY DEF ChainInv, LockInv, WaitInv, TypeInv
  <1>2. /\ wi[g] \in Nat \ {0} /\ wi[g] <= Last(g) /\ wpc[g] \in {"unlink", "dtor"}
        /\ pmu[ev(l)] = NoOne /\ unlink_group(l)
        /\ wpc' = wpc /\ wi' = [wi EXCEPT ![g] = @ + 1] /\ UNCHANGED <<flinked_events, signalVars>>
    BY <1>1, GroupsAssumption DEF UnlinkEvent, CanLock, TypeOK, groupVars
  <1>3. l \in Links /\ ev(l) \in Events /\ waitgroup(l) = g /\ groupindex(l) = wi[g]
    BY <1>2, LinkOf, LinkFacts
  <1>4. Linked(l)
    BY <1>2, <1>3 DEF Linked
  <1>5. ASSUME NEW m \in Links PROVE Linked(m)' <=> Linked(m) /\ m # l
    <2>1. waitgroup(m) \in Groups /\ groupindex(m) \in Nat
      BY LinkFacts
    <2>2. waitgroup(m) = g /\ groupindex(m) = wi[g] => m = l
      BY DEF Links, Link, waitgroup, groupindex
    <2> QED BY <1>1, <1>2, <1>3, <2>1, <2>2 DEF Linked, TypeOK
  <1> HIDE DEF l
  <1>6. /\ links \in [Events -> LinkOrNull]
        /\ left \in [Links -> LinkOrNull] /\ right \in [Links -> LinkOrNull]
    BY <1>1 DEF TypeOK
  <1>7. CursorLive'
    <2> SUFFICES ASSUME NEW s \in Signallers, curr[s] # Null
                 PROVE  Linked(curr[s])' /\ ev(curr[s]) = sev[s]
      BY <1>2 DEF CursorLive, signalVars, Linked
    <2>1. curr[s] \in Links /\ Linked(curr[s]) /\ ev(curr[s]) = sev[s] /\ spc[s] # "idle"
      BY <1>1 DEF CursorLive, ChainEvents, TypeOK, LinkOrNull
    <2>2. pmu[sev[s]] # NoOne
      BY <1>1, <2>1, NamesAssumption DEF OwnersOK
    <2>3. PICK m \in Links : m = curr[s]
      BY <2>1
    <2>4. Linked(m)'
      BY <1>2, <1>5, <2>1, <2>2, <2>3
    <2>5. curr' = curr
      BY <1>2 DEF signalVars
    <2> QED BY <2>1, <2>3, <2>4, <2>5
  <1>8. CASE IsHead(l)
    <2>1. /\ links' = [links EXCEPT ![ev(l)] = right[l]]
          /\ right' = [right EXCEPT ![l] = Null]
          /\ left' = [left EXCEPT ![l] = Null]
          /\ links[ev(l)] = l
      BY <1>2, <1>8 DEF unlink_group, IsHead
    <2>2. ASSUME NEW e \in Events, links'[e] # Null
          PROVE  Linked(links[e])' /\ ev(links'[e]) = e
      BY <1>1, <1>3, <1>4, <1>5, <1>6, <2>1, <2>2 DEF ChainConsistent, LinkOrNull
    <2>3. ASSUME NEW m \in Links, Linked(m)', links'[ev(m)] # m
          PROVE  left'[m] \in Links /\ right'[left'[m]] = m /\ Linked(left[m])'
      BY <1>1, <1>3, <1>4, <1>5, <1>6, <2>1, <2>3, LinkFacts, NullAssumption DEF ChainConsistent, LinkOrNull
    <2>4. ASSUME NEW m \in Links, Linked(m)', right'[m] # Null
          PROVE  /\ Linked(right[m])' /\ left'[right'[m]] = m
                 /\ ev(right'[m]) = ev(m) /\ links'[ev(m)] # right'[m]
      BY <1>1, <1>3, <1>4, <1>5, <1>6, <2>1, <2>4, LinkFacts, NullAssumption DEF ChainConsistent, LinkOrNull
    <2>5. ASSUME NEW m \in Links, ~Linked(m)' PROVE left'[m] = Null /\ right'[m] = Null
      BY <1>1, <1>5, <1>6, <2>1, <2>5 DEF ChainConsistent
    <2> QED BY <1>7, <2>2, <2>3, <2>4, <2>5 DEF ChainConsistent
  <1>9. CASE ~IsHead(l)
    <2> DEFINE p == left[l]
               r == right[l]
    <2>1. p \in Links /\ right[p] = l /\ Linked(p) /\ links[ev(l)] # l /\ r \in LinkOrNull
      BY <1>1, <1>3, <1>4, <1>6, <1>9 DEF ChainConsistent, IsHead
    <2>2. /\ links' = links
          /\ right' = [[right EXCEPT ![p] = r] EXCEPT ![l] = Null]
          /\ r = Null => left' = [left EXCEPT ![l] = Null]
          /\ r # Null => left' = [[left EXCEPT ![r] = p] EXCEPT ![l] = Null]
      BY <1>2, <1>9, <2>1, NullAssumption DEF unlink_group
    <2>3. r # Null => r \in Links /\ Linked(r) /\ left[r] = l /\ ev(r) = ev(l) /\ links[ev(l)] # r
      BY <1>1, <1>3, <1>4, <2>1 DEF ChainConsistent, LinkOrNull
    <2>4. ev(p) = ev(l)
      BY <1>1, <1>3, <2>1, NullAssumption DEF ChainConsistent
    <2> HIDE DEF p, r
    <2>5. ASSUME NEW e \in Events, links'[e] # Null
          PROVE  Linked(links[e])' /\ ev(links'[e]) = e
      BY <1>1, <1>3, <1>4, <1>5, <1>6, <2>1, <2>2, <2>5 DEF ChainConsistent, LinkOrNull
    <2>6. ASSUME NEW m \in Links, Linked(m)', links'[ev(m)] # m
          PROVE  left'[m] \in Links /\ right'[left'[m]] = m /\ Linked(left[m])'
      <3>1. Linked(m) /\ m # l
        BY <1>5, <2>6
      <3>2. left[m] \in Links /\ right[left[m]] = m /\ Linked(left[m])
        BY <1>1, <2>2, <2>6, <3>1 DEF ChainConsistent
      <3>3. CASE r # Null /\ m = r
        BY <1>5, <1>6, <2>1, <2>2, <2>3, <3>1, <3>3 DEF Linked
      <3>4. CASE m # r
        BY <1>5, <1>6, <2>1, <2>2, <2>3, <3>1, <3>2, <3>4 DEF Linked, r
      <3> QED BY <3>3, <3>4, NullAssumption
    <2>7. ASSUME NEW m \in Links, Linked(m)', right'[m] # Null
          PROVE  /\ Linked(right[m])' /\ left'[right'[m]] = m
                 /\ ev(right'[m]) = ev(m) /\ links'[ev(m)] # right'[m]
      <3>1. Linked(m) /\ m # l
        BY <1>5, <2>7
      <3>2. CASE m = p
        <4>1. right'[m] = r
          BY <1>3, <1>6, <2>1, <2>2, <3>1, <3>2
        <4>2. /\ r \in Links /\ Linked(r) /\ left[r] = l
              /\ ev(r) = ev(l) /\ links[ev(l)] # r
          BY <2>3, <2>7, <4>1
        <4>3. r # l
          BY <3>1, <3>2, <4>2 DEF p
        <4>4. PICK n \in Links : n = r
          BY <4>2
        <4>5. Linked(n)' /\ left'[n] = p
          BY <1>5, <1>6, <2>2, <2>7, <4>1, <4>2, <4>3, <4>4
        <4> QED BY <2>2, <2>4, <3>2, <4>1, <4>2, <4>4, <4>5
      <3>3. CASE m # p
        BY <1>1, <1>3, <1>4, <1>5, <1>6, <2>1, <2>2, <2>3, <2>7, <3>1, <3>3, NullAssumption
           DEF ChainConsistent, LinkOrNull, p
      <3> QED BY <3>2, <3>3
    <2>8. ASSUME NEW m \in Links, ~Linked(m)' PROVE left'[m] = Null /\ right'[m] = Null
      BY <1>1, <1>5, <1>6, <2>1, <2>2, <2>3, <2>8 DEF ChainConsistent
    <2> QED BY <1>7, <2>5, <2>6, <2>7, <2>8 DEF ChainConsistent
  <1> QED BY <1>8, <1>9

\* A cursor moves from a link of a chain to the next one, or starts at its head.
LEMMA CursorKept ==
  ASSUME ChainInv, [Next]_vars,
         \A g \in Groups : ~LinkEvent(g) /\ ~UnlinkEvent(g)
  PROVE  ChainConsistent' /\ CursorLive'
  <1>1. TypeOK /\ ControlOK /\ FlagOK /\ ChainConsistent /\ CursorLive
    BY DEF ChainInv, LockInv, WaitInv, TypeInv
  <1>2. \A l \in Links : Linked(l)' <=> Linked(l)
    BY <1>1, LinkedKept
  <1>3. UNCHANGED chainVars
    BY DEF Next, WaitStep, SignalStep, Wait, Destroy, PopPeek, PopLocked, PopEnd, Sleep, Wake,
           UnlinkEnd, Return, DestroyEnd, Signal, ScanEnd, ScanPeek, TrySignalTo,
           vars, eventVars, chainVars
  <1>4. ChainConsistent'
    <2>1. links' = links /\ left' = left /\ right' = right
      BY <1>3 DEF chainVars
    <2>2. \A e \in Events : links[e] # Null => links[e] \in Links
      BY <1>1 DEF TypeOK, LinkOrNull
    <2>3. ASSUME NEW e \in Events, links[e] # Null PROVE Linked(links[e])' /\ ev(links[e]) = e
      <3>1. PICK m \in Links : m = links[e]
        BY <2>2, <2>3
      <3> QED BY <1>1, <1>2, <2>1, <2>3, <3>1 DEF ChainConsistent
    <2>4. ASSUME NEW l \in Links, Linked(l)', links[ev(l)] # l
          PROVE  left[l] \in Links /\ right[left[l]] = l /\ Linked(left[l])'
      <3>1. left[l] \in Links /\ right[left[l]] = l /\ Linked(left[l])
        BY <1>1, <1>2, <2>4 DEF ChainConsistent
      <3>2. PICK m \in Links : m = left[l]
        BY <3>1
      <3> QED BY <1>2, <2>1, <3>1, <3>2
    <2>5. ASSUME NEW l \in Links, Linked(l)', right[l] # Null
          PROVE  /\ Linked(right[l])' /\ left[right[l]] = l
                 /\ ev(right[l]) = ev(l) /\ links[ev(l)] # right[l]
      <3>1. /\ Linked(right[l]) /\ left[right[l]] = l
            /\ ev(right[l]) = ev(l) /\ links[ev(l)] # right[l]
        BY <1>1, <1>2, <2>5 DEF ChainConsistent
      <3>2. PICK m \in Links : m = right[l]
        BY <1>1, <2>5 DEF TypeOK, LinkOrNull
      <3> QED BY <1>2, <2>1, <3>1, <3>2
    <2>6. ASSUME NEW l \in Links, ~Linked(l)' PROVE left[l] = Null /\ right[l] = Null
      BY <1>1, <1>2, <2>6 DEF ChainConsistent
    <2> QED BY <2>1, <2>3, <2>4, <2>5, <2>6 DEF ChainConsistent
  <1>5. ASSUME NEW s \in Signallers, curr'[s] # Null
        PROVE  Linked(curr[s])' /\ ev(curr'[s]) = sev'[s]
    <2> SUFFICES \E m \in Links : m = curr'[s] /\ Linked(m) /\ ev(m) = sev'[s]
      BY <1>2
    <2>1. /\ curr[s] \in LinkOrNull /\ (curr[s] # Null => Linked(curr[s]) /\ ev(curr[s]) = sev[s])
          /\ \A m \in Links : right[m] \in LinkOrNull
          /\ \A e \in Events : links[e] \in LinkOrNull
          /\ curr \in [Signallers -> LinkOrNull] /\ sev \in [Signallers -> Events \cup {Null}]
      BY <1>1 DEF CursorLive, TypeOK
    <2>2. ASSUME NEW t \in Signallers, NEW e \in Events, NEW n \in Counts, Signal(t, e, n)
          PROVE  \E m \in Links : m = curr'[s] /\ Linked(m) /\ ev(m) = sev'[s]
      BY <1>1, <1>5, <2>1, <2>2 DEF Signal, ChainConsistent, LinkOrNull
    <2>3. ASSUME NEW t \in Signallers, ScanEnd(t)
          PROVE  \E m \in Links : m = curr'[s] /\ Linked(m) /\ ev(m) = sev'[s]
      BY <1>5, <2>1, <2>3 DEF ScanEnd, LinkOrNull
    <2>4. ASSUME NEW t \in Signallers, ScanPeek(t) \/ TrySignalTo(t)
          PROVE  \E m \in Links : m = curr'[s] /\ Linked(m) /\ ev(m) = sev'[s]
      <3>1. /\ sev' = sev /\ curr[t] # Null
            /\ curr' = curr \/ curr' = [curr EXCEPT ![t] = right[curr[t]]]
        BY <1>1, <2>4 DEF ScanPeek, TrySignalTo, Advance, ControlOK
      <3>2. CASE curr'[s] = curr[s]
        BY <1>5, <2>1, <3>1, <3>2 DEF LinkOrNull
      <3>3. CASE t = s /\ curr'[s] = right[curr[s]]
        <4>1. curr[s] \in Links /\ right[curr[s]] # Null
          BY <1>5, <2>1, <3>1, <3>3 DEF LinkOrNull
        <4> QED BY <1>1, <2>1, <3>1, <3>3, <4>1 DEF ChainConsistent, LinkOrNull
      <3> QED BY <2>1, <3>1, <3>2, <3>3
    <2>5. CASE UNCHANGED signalVars
      BY <1>5, <2>1, <2>5 DEF signalVars, LinkOrNull
    <2> QED
      BY <2>2, <2>3, <2>4, <2>5
         DEF Next, WaitStep, SignalStep, Wait, Destroy, PopPeek, PopLocked, PopEnd, Sleep, Wake,
             LinkEvent, UnlinkEvent, UnlinkEnd, Return, DestroyEnd, vars
  <1> QED BY <1>4, <1>5 DEF CursorLive

LEMMA ChainNext == ChainInv /\ [Next]_vars => ChainInv'
  <1> SUFFICES ASSUME ChainInv, [Next]_vars PROVE ChainInv'
    OBVIOUS
  <1>1. LockInv' /\ FlagOK'
    BY LockNext, FlagNext DEF ChainInv, LockInv, WaitInv, TypeInv
  <1>2. ChainConsistent' /\ CursorLive'
    BY LinkKeepsChain, UnlinkKeepsChain, CursorKept
  <1> QED BY <1>1, <1>2 DEF ChainInv

LEMMA ChainCorrect == Spec => []ChainInv
  BY ChainInit, ChainNext, PTL DEF Spec

\* The chain of every event holds the links that wait for it and no other, and
\* its neighbours agree on each other, whatever link_group and unlink_group interleave with.
THEOREM ChainsConsistent == Spec => []ChainConsistent
  <1>1. ChainInv => ChainConsistent
    BY DEF ChainInv
  <1> QED BY <1>1, ChainCorrect, PTL

\* A thread in signal_nm only ever reads links that are in the chain of its event.
THEOREM CursorsLive == Spec => []CursorLive
  <1>1. ChainInv => CursorLive
    BY DEF ChainInv
  <1> QED BY <1>1, ChainCorrect, PTL

-----------------------------------------------------------------------------
(***************************************************************************)
(* SyncEvents implements EventSem: the mutexes, the chains and the double  *)
(* checks of wait() and signal() come to a counter per event and one       *)
(* signal per wait.  The mapping is phaseOf and resultOf of SyncEvents.    *)
(***************************************************************************)

\* The phase of a group, from the control point of its thread and its signal.
PhaseAt(pc, index) ==
  IF pc \in {"idle", "dtor", "dead"} THEN "out"
  ELSE IF index # esigNoSignal THEN "served"
  ELSE IF pc = "return" THEN "unserved" ELSE "waiting"
ResultAt(pc, index) ==
  IF PhaseAt(pc, index) = "served" THEN index ELSE esigNoSignal

LEMMA MappingValue ==
  /\ phaseOf = [g \in Groups |-> PhaseAt(wpc[g], signal_index[g])]
  /\ resultOf = [g \in Groups |-> ResultAt(wpc[g], signal_index[g])]
  <1>1. phaseOf = [g \in Groups |-> PhaseAt(wpc[g], signal_index[g])]
    BY DEF phaseOf, PhaseAt
  <1>2. resultOf = [g \in Groups |-> ResultAt(wpc[g], signal_index[g])]
    BY <1>1 DEF resultOf, ResultAt
  <1> QED BY <1>1, <1>2

LEMMA MappingNext ==
  /\ phaseOf' = [g \in Groups |-> PhaseAt(wpc'[g], signal_index'[g])]
  /\ resultOf' = [g \in Groups |-> ResultAt(wpc'[g], signal_index'[g])]
  <1>1. phaseOf' = [g \in Groups |-> PhaseAt(wpc'[g], signal_index'[g])]
    BY DEF phaseOf, PhaseAt
  <1>2. resultOf' = [g \in Groups |-> ResultAt(wpc'[g], signal_index'[g])]
    BY <1>1 DEF resultOf, ResultAt
  <1> QED BY <1>1, <1>2

\* A step that changes neither the counters nor the phase of a group stutters.
LEMMA Stutter ==
  ASSUME cnt_signals' = cnt_signals,
         \A g \in Groups :
           /\ PhaseAt(wpc'[g], signal_index'[g]) = PhaseAt(wpc[g], signal_index[g])
           /\ signal_index'[g] = signal_index[g]
  PROVE  UNCHANGED Sem!vars
  <1>1. \A g \in Groups : ResultAt(wpc'[g], signal_index'[g]) = ResultAt(wpc[g], signal_index[g])
    BY DEF ResultAt
  <1>2. phaseOf' = phaseOf /\ resultOf' = resultOf
    BY <1>1, MappingValue, MappingNext
  <1> QED BY <1>2 DEF Sem!vars

\* A step of one group moves the phase of that group alone.
LEMMA OneGroup ==
  ASSUME NEW g \in Groups,
         \A h \in Groups : h # g => wpc'[h] = wpc[h] /\ signal_index'[h] = signal_index[h]
  PROVE  /\ phaseOf[g] = PhaseAt(wpc[g], signal_index[g])
         /\ phaseOf' = [phaseOf EXCEPT ![g] = PhaseAt(wpc'[g], signal_index'[g])]
         /\ resultOf' = [resultOf EXCEPT ![g] = ResultAt(wpc'[g], signal_index'[g])]
  BY MappingValue, MappingNext

LEMMA RefinementInit == Init => Sem!Init
  <1> SUFFICES ASSUME Init PROVE Sem!Init
    OBVIOUS
  <1>1. \A g \in Groups : /\ PhaseAt(wpc[g], signal_index[g]) = "out"
                          /\ ResultAt(wpc[g], signal_index[g]) = esigNoSignal
    BY DEF Init, PhaseAt, ResultAt
  <1> QED BY <1>1, MappingValue DEF Init, Sem!Init

\* PopLocked and TrySignalTo give group g the signal of its link l.
LEMMA TakeStep ==
  ASSUME TypeOK, NEW l \in Links, NEW g, g = waitgroup(l),
         wpc[g] \in {"popLock", "sleep"}, wpc'[g] \in {"return", "sleep"},
         signal_index[g] = esigNoSignal,
         CanPop(ev(l)), PopOne(ev(l)),
         signal_index' = [signal_index EXCEPT ![g] = groupindex(l)],
         \A h \in Groups : h # g => wpc'[h] = wpc[h]
  PROVE  Sem!Next
  <1>1. g \in Groups /\ groupindex(l) \in 1..Last(g) /\ ev(l) = evlinks[g][groupindex(l)]
    BY LinkFacts DEF waitgroup, groupindex, ev
  <1>2. groupindex(l) # esigNoSignal /\ groupindex(l) \in DOMAIN evlinks[g]
    BY <1>1, GroupsAssumption DEF esigNoSignal, Last
  <1>3. /\ phaseOf[g] = "waiting"
        /\ phaseOf' = [phaseOf EXCEPT ![g] = "served"]
        /\ resultOf' = [resultOf EXCEPT ![g] = groupindex(l)]
    BY <1>1, <1>2, OneGroup DEF PhaseAt, ResultAt, TypeOK
  <1>4. Sem!Take(g, groupindex(l))
    BY <1>1, <1>3 DEF Sem!Take, CanPop, PopOne
  <1> QED BY <1>1, <1>2, <1>4 DEF Sem!Next

LEMMA RefinementNext == WaitInv /\ [Next]_vars => [Sem!Next]_(Sem!vars)
  <1> SUFFICES ASSUME WaitInv, [Next]_vars PROVE [Sem!Next]_(Sem!vars)
    OBVIOUS
  <1>0. TypeOK /\ ControlOK /\ \A g \in Groups : WaitOK(g)
    BY DEF WaitInv, TypeInv
  <1> USE DEF PhaseAt
  <1>1. ASSUME NEW g \in Groups, NEW try_wait \in BOOLEAN, Wait(g, try_wait)
        PROVE Sem!Next
    <2>1. cnt_signals' = cnt_signals /\ wpc[g] = "idle" /\ wpc'[g] = "pop" /\ signal_index'[g] = esigNoSignal
      BY <1>0, <1>1 DEF Wait, Goto, eventVars, TypeOK
    <2>2. resultOf[g] = esigNoSignal
      BY <2>1, MappingValue DEF ResultAt
    <2>3. resultOf' = resultOf
      BY <1>0, <1>1, <2>1, <2>2, OneGroup, MappingValue DEF Wait, Goto, TypeOK, ResultAt
    <2>4. phaseOf[g] = "out" /\ phaseOf' = [phaseOf EXCEPT ![g] = "waiting"]
      BY <1>0, <1>1, <2>1, OneGroup DEF Wait, Goto, TypeOK
    <2> QED BY <2>1, <2>3, <2>4 DEF Sem!Next, Sem!Call
  <1>2. ASSUME NEW g \in Groups, Destroy(g) \/ DestroyEnd(g) PROVE UNCHANGED Sem!vars
    <2>1. /\ cnt_signals' = cnt_signals /\ signal_index' = signal_index
          /\ wpc[g] \in {"idle", "dtor"} /\ wpc'[g] \in {"dtor", "dead"}
          /\ \A h \in Groups : h # g => wpc'[h] = wpc[h]
      BY <1>0, <1>2 DEF Destroy, DestroyEnd, Goto, eventVars, TypeOK
    <2> QED BY <2>1, Stutter
  <1>3. ASSUME NEW g \in Groups, PopPeek(g) \/ LinkEvent(g) \/ Sleep(g) \/ UnlinkEvent(g)
        PROVE UNCHANGED Sem!vars
    <2>1. /\ cnt_signals' = cnt_signals /\ signal_index' = signal_index
          /\ wpc'[g] = wpc[g] \/ {wpc[g], wpc'[g]} \subseteq {"pop", "popLock", "link", "sleep"}
          /\ \A h \in Groups : h # g => wpc'[h] = wpc[h]
      BY <1>0, <1>3 DEF PopPeek, LinkEvent, Sleep, UnlinkEvent, Goto, eventVars, groupVars, TypeOK
    <2> QED BY <2>1, Stutter
  <1>4. ASSUME NEW g \in Groups, PopLocked(g) PROVE [Sem!Next]_(Sem!vars)
    <2> DEFINE l == Link(g, wi[g])
    <2>1. wi[g] \in Nat \ {0} /\ wi[g] <= Last(g) /\ wpc[g] = "popLock"
      BY <1>0, <1>4, GroupsAssumption DEF PopLocked, TypeOK, ControlOK
    <2>2. l \in Links /\ waitgroup(l) = g
      BY <2>1, LinkOf
    <2>3. signal_index[g] = esigNoSignal /\ \A h \in Groups : h # g => wpc'[h] = wpc[h]
      BY <1>0, <1>4, <2>1 DEF WaitOK, PopLocked, Goto, TypeOK
    <2>4. CASE CanPop(ev(l))
      <3>1. /\ PopOne(ev(l)) /\ wpc'[g] = "return"
            /\ signal_index' = [signal_index EXCEPT ![g] = groupindex(l)]
        BY <1>0, <1>4, <2>4 DEF PopLocked, Goto, TypeOK
      <3> HIDE DEF l
      <3> QED BY <1>0, <2>1, <2>2, <2>3, <2>4, <3>1, TakeStep
    <2>5. CASE ~CanPop(ev(l))
      <3>1. cnt_signals' = cnt_signals /\ signal_index' = signal_index /\ wpc'[g] = "pop"
        BY <1>0, <1>4, <2>5 DEF PopLocked, Goto, TypeOK
      <3> QED BY <2>1, <2>3, <3>1, Stutter
    <2> QED BY <2>4, <2>5
  <1>5. ASSUME NEW g \in Groups, PopEnd(g) PROVE [Sem!Next]_(Sem!vars)
    <2>1. /\ cnt_signals' = cnt_signals /\ signal_index' = signal_index
          /\ wpc[g] = "pop" /\ signal_index[g] = esigNoSignal
          /\ wpc'[g] \in {"return", "link"}
          /\ \A h \in Groups : h # g => wpc'[h] = wpc[h]
      BY <1>0, <1>5 DEF PopEnd, Goto, eventVars, TypeOK, WaitOK
    <2>2. CASE wpc'[g] = "link"
      BY <2>1, <2>2, Stutter
    <2>3. CASE wpc'[g] = "return"
      <3>1. phaseOf[g] = "waiting" /\ phaseOf' = [phaseOf EXCEPT ![g] = "unserved"]
        BY <2>1, <2>3, OneGroup
      <3>2. resultOf' = resultOf
        BY <2>1, <2>3, MappingValue, MappingNext DEF ResultAt
      <3> QED BY <2>1, <3>1, <3>2 DEF Sem!Next, Sem!GiveUp
    <2> QED BY <2>1, <2>2, <2>3
  <1>6. ASSUME NEW g \in Groups, Wake(g) \/ UnlinkEnd(g) PROVE UNCHANGED Sem!vars
    <2>1. /\ cnt_signals' = cnt_signals /\ signal_index' = signal_index
          /\ signal_index[g] # esigNoSignal
          /\ wpc[g] \in {"sleep", "unlink"} /\ wpc'[g] \in {"unlink", "return"}
          /\ \A h \in Groups : h # g => wpc'[h] = wpc[h]
      BY <1>0, <1>6 DEF Wake, UnlinkEnd, isEndWait, Goto, eventVars, groupVars, TypeOK, WaitOK
    <2> QED BY <2>1, Stutter
  <1>7. ASSUME NEW g \in Groups, Return(g) PROVE Sem!Next
    <2>1. /\ cnt_signals' = cnt_signals /\ signal_index' = signal_index
          /\ wpc[g] = "return" /\ wpc'[g] = "idle"
          /\ \A h \in Groups : h # g => wpc'[h] = wpc[h]
      BY <1>0, <1>7 DEF Return, Goto, eventVars, TypeOK
    <2>2. /\ phaseOf[g] \in {"served", "unserved"} /\ phaseOf' = [phaseOf EXCEPT ![g] = "out"]
          /\ resultOf' = [resultOf EXCEPT ![g] = esigNoSignal]
      BY <2>1, OneGroup DEF ResultAt
    <2> QED BY <2>1, <2>2 DEF Sem!Next, Sem!Leave
  <1>8. ASSUME NEW s \in Signallers, NEW e \in Events, NEW n \in Counts, Signal(s, e, n)
        PROVE Sem!Next
    <2>1. cnt_signals' = [cnt_signals EXCEPT ![e] = @ + n] /\ UNCHANGED <<wpc, signal_index>>
      BY <1>8 DEF Signal, groupVars, waitVars
    <2>2. phaseOf' = phaseOf /\ resultOf' = resultOf
      BY <2>1, MappingValue, MappingNext
    <2> QED BY <2>1, <2>2 DEF Sem!Next, Sem!Post
  <1>9. ASSUME NEW s \in Signallers, TrySignalTo(s) PROVE [Sem!Next]_(Sem!vars)
    <2> DEFINE l == curr[s]
               g == waitgroup(l)
    <2>1. l \in Links /\ g \in Groups /\ wpc' = wpc
      BY <1>0, <1>9, LinkFacts DEF TrySignalTo, LinkOrNull, TypeOK, ControlOK, waitVars
    <2>2. CASE StillWaits(g) /\ CanPop(ev(l))
      <3>1. wpc[g] = "sleep" /\ signal_index[g] = esigNoSignal
        BY <1>0, <2>1, <2>2 DEF WaitOK, StillWaits
      <3>2. PopOne(ev(l)) /\ signal_index' = [signal_index EXCEPT ![g] = groupindex(l)]
        BY <1>9, <2>2 DEF TrySignalTo
      <3> HIDE DEF l
      <3> QED BY <1>0, <2>1, <2>2, <3>1, <3>2, TakeStep
    <2>3. CASE ~(StillWaits(g) /\ CanPop(ev(l)))
      <3>1. cnt_signals' = cnt_signals /\ signal_index' = signal_index
        BY <1>9, <2>3 DEF TrySignalTo
      <3> QED BY <2>1, <3>1, Stutter
    <2> QED BY <2>2, <2>3
  <1>10. CASE UNCHANGED <<cnt_signals, wpc, signal_index>>
    BY <1>10, Stutter
  <1> QED
    BY <1>1, <1>2, <1>3, <1>4, <1>5, <1>6, <1>7, <1>8, <1>9, <1>10
       DEF Next, WaitStep, SignalStep, ScanEnd, ScanPeek, vars, eventVars, groupVars, waitVars

\* The code keeps the promise of EventSem: every step of wait() and signal()
\* posts, takes or gives up as EventSem allows, or changes nothing it knows of.
THEOREM ImplementsEventSem == Spec => SemSpec
  <1>1. Init => Sem!Init
    BY RefinementInit
  <1>2. WaitInv /\ [Next]_vars => [Sem!Next]_(Sem!vars)
    BY RefinementNext
  <1> QED BY <1>1, <1>2, WaitCorrect, PTL DEF Spec, SemSpec, Sem!Spec
=============================================================================
