------------------------------- MODULE BinMap -------------------------------
(***************************************************************************)
(* c_MapBin_List of src/gdata/tb_binmap.cpp: a set of numbers, kept as a   *)
(* list of ranges [start, sz] in the order of their starts.                *)
(***************************************************************************)
EXTENDS Integers, Sequences, SequencesExt, FiniteSetsExt

CONSTANTS MapSize,     \* the map is over 0 .. MapSize - 1
          MaxMapAdds   \* calls of addrange

ASSUME MapAssumption == MapSize \in Nat /\ MaxMapAdds \in Nat

VARIABLES
  lst,      \* the ranges
  added,    \* the numbers of the ranges added (history)
  adds,     \* calls of addrange
  bridged   \* "yes" once a range was added that touches one before it and one behind,
            \* "overrun" when elements behind the vector were to be erased

mapVars == <<lst, added, adds, bridged>>

cRange(s, n) == [start |-> s, sz |-> IF n < 0 THEN 0 ELSE n]
EndOf(r) == r.start + r.sz
Numbers(r) == r.start .. EndOf(r) - 1
NumbersOf(l) == UNION {Numbers(l[i]) : i \in DOMAIN l}

\* isintersectWP: ranges that meet at their ends intersect too.
isintersectWHP(r, p) == p >= r.start /\ p <= EndOf(r)
isintersectWP(r, q) == isintersectWHP(r, q.start) \/ isintersectWHP(q, r.start)
dounion(r, q) ==
  LET l == Min({r.start, q.start})
      h == Max({EndOf(r), EndOf(q)})
  IN cRange(l, h - l)

\* 0 where the range begins behind all others.
findlo(l, r) == LET at == {i \in DOMAIN l : r.start <= l[i].start}
                IN IF at = {} THEN 0 ELSE Min(at)

\* How many ranges from st on the range r touches, without a gap.
Touched(l, st, r) ==
  IF st = 0 THEN 0
  ELSE CHOOSE n \in 0 .. Len(l) - st + 1 :
         /\ \A k \in 0 .. n - 1 : isintersectWP(l[st + k], r)
         /\ st + n <= Len(l) => ~isintersectWP(l[st + n], r)
Pred(l, st) == IF st = 0 THEN Len(l) ELSE st - 1
TouchesPred(l, st, r) == Pred(l, st) # 0 /\ isintersectWP(l[Pred(l, st)], r)

\* The ranges that are joined leave their places to the first of them.
Deleted(l, st, n) == SubSeq(l, 1, st - 1) \o SubSeq(l, st + n, Len(l))
JoinedTwo(l, st, n, r) ==
  [Deleted(l, st + 1, n - 1) EXCEPT ![st] = dounion(l[st], r)]
Joined(l, st, n, r) ==
  [Deleted(l, st + 1, n - 1) EXCEPT ![st] = dounion(l[st + n - 1], r)]

\* When r touches the range before it and some behind, the one before is counted among those
\* to be deleted: both keep their union with r, and one too many behind is deleted.
JoinedBoth(l, st, n, r) ==
  [Deleted(l, st + 1, n) EXCEPT ![Pred(l, st)] = dounion(@, r), ![st] = dounion(l[st + n - 1], r)]

addrange(r) ==
  LET st == findlo(lst, r)
      n == Touched(lst, st, r)
      before == TouchesPred(lst, st, r)
  IN /\ adds < MaxMapAdds /\ bridged # "overrun"
     /\ adds' = adds + 1
     /\ added' = added \cup Numbers(r)
     /\ \/ /\ before /\ n > 0 /\ st + n <= Len(lst)
           /\ bridged' = "yes" /\ lst' = JoinedBoth(lst, st, n, r)
        \/ /\ before /\ n > 0 /\ st + n > Len(lst)
           /\ bridged' = "overrun" /\ lst' = <<>>
        \/ /\ before /\ n = 0
           /\ lst' = [lst EXCEPT ![Pred(lst, st)] = dounion(@, r)]
           /\ UNCHANGED bridged
        \/ /\ ~before /\ n > 0
           /\ lst' = Joined(lst, st, n, r)
           /\ UNCHANGED bridged
        \/ /\ ~before /\ n = 0
           /\ lst' = IF st = 0 THEN Append(lst, r) ELSE InsertAt(lst, st, r)
           /\ UNCHANGED bridged

\* inverseto: the gaps in front of the first i ranges (st is where the range before has ended),
\* where pushbackRange leaves out what is empty, and the one behind the last, which goes
\* through addrange: it begins behind all others, but touches the last when an empty
\* range ends the map.
EndBefore(l, i) == IF i = 1 THEN 0 ELSE EndOf(l[i - 1])
WithGap(res, st, next) == IF st < next THEN Append(res, cRange(st, next - st)) ELSE res
Gaps(l) ==
  LET upto[i \in 0 .. Len(l)] ==
        IF i = 0 THEN <<>> ELSE WithGap(upto[i - 1], EndBefore(l, i), l[i].start)
  IN upto
AddedBehind(res, r) ==
  IF TouchesPred(res, 0, r) THEN [res EXCEPT ![Len(res)] = dounion(@, r)] ELSE Append(res, r)
WithLast(res, st) == IF st < MapSize THEN AddedBehind(res, cRange(st, MapSize - st)) ELSE res
inverseto(l) == WithLast(Gaps(l)[Len(l)], EndBefore(l, Len(l) + 1))

\* findAt: 1 for a number of the map, 0 for another; findpos, which asks for
\* findAt >= 0, says yes to all of them.
findAt(l, p) ==
  LET at == {i \in DOMAIN l : p - l[i].start < l[i].sz}
  IN IF at = {} THEN 0 ELSE IF p < l[Min(at)].start THEN 0 ELSE 1
Sizes(l) ==
  LET upto[i \in 0 .. Len(l)] == IF i = 0 THEN 0 ELSE upto[i - 1] + l[i].sz
  IN upto
power(l) == Sizes(l)[Len(l)]

MapInit == lst = <<>> /\ added = {} /\ adds = 0 /\ bridged = "no"
MapNext == \E s \in 0 .. MapSize - 1 : \E n \in 0 .. MapSize - s : addrange(cRange(s, n))
MapSpec == MapInit /\ [][MapNext]_mapVars

\* In whatever order ranges are added, the list has no number that was not added; and up to
\* a range that touches a range before it and one behind, it has all of them, its ranges are in
\* order and apart, so that their sizes add up, findAt finds the numbers and inverseto
\* is the complement.
MapHoldsWhatWasAdded ==
  /\ NumbersOf(lst) \subseteq added
  /\ bridged = "no" =>
       /\ NumbersOf(lst) = added
       /\ \A i \in 1 .. Len(lst) - 1 : EndOf(lst[i]) < lst[i + 1].start
       /\ power(lst) = Cardinality(added)
       /\ \A p \in 0 .. MapSize - 1 : findAt(lst, p) = 1 <=> p \in added
       /\ NumbersOf(inverseto(lst)) = (0 .. MapSize - 1) \ added
=============================================================================
