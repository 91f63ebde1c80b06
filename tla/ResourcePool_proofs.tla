------------------------ MODULE ResourcePool_proofs ------------------------
(***************************************************************************)
(* Theorems about ResourcePool, for all threads and numbers of calls.      *)
(***************************************************************************)
EXTENDS ResourcePool, SequenceTheorems, TLAPS

(***************************************************************************)
(* Sequences without repetitions.                                          *)
(***************************************************************************)
LEMMA NothingInEmpty == ToSet(<<>>) = {} /\ IsInjective(<<>>)
  BY DEF ToSet, IsInjective

LEMMA AppendOther ==
  ASSUME NEW S, NEW s \in Seq(S), NEW e \in S
  PROVE  /\ Append(s, e) \in Seq(S) /\ ToSet(Append(s, e)) = ToSet(s) \cup {e}
         /\ IsInjective(s) /\ e \notin ToSet(s) => IsInjective(Append(s, e))
  <1> DEFINE a == Append(s, e)
  <1>1. /\ a \in Seq(S) /\ Len(a) = Len(s) + 1
        /\ \A i \in 1 .. Len(s) : a[i] = s[i]
        /\ a[Len(s) + 1] = e
    BY AppendProperties
  <1>2. /\ Len(s) \in Nat /\ DOMAIN s = 1 .. Len(s) /\ DOMAIN a = 1 .. Len(s) + 1
    BY <1>1, LenProperties
  <1> HIDE DEF a
  <1> QED BY <1>1, <1>2 DEF ToSet, IsInjective

LEMMA RemoveOne ==
  ASSUME NEW S, NEW s \in Seq(S), NEW i \in 1 .. Len(s)
  PROVE  /\ RemoveAt(s, i) \in Seq(S)
         /\ IsInjective(s) => IsInjective(RemoveAt(s, i)) /\ ToSet(RemoveAt(s, i)) = ToSet(s) \ {s[i]}
  <1> DEFINE a == SubSeq(s, 1, i - 1)
             b == SubSeq(s, i + 1, Len(s))
  <1>1. Len(s) \in Nat /\ DOMAIN s = 1 .. Len(s) /\ \A k \in 1 .. Len(s) : s[k] \in S
    BY LenProperties, ElementOfSeq
  <1>2. /\ a \in Seq(S) /\ Len(a) = i - 1
        /\ \A k \in 1 .. i - 1 : a[k] = s[k]
    BY <1>1, SubSeqProperties
  <1>3. /\ b \in Seq(S) /\ Len(b) = Len(s) - i
        /\ \A k \in 1 .. Len(s) - i : b[k] = s[i + k]
    <2>1. i + 1 \in Int /\ Len(s) \in Int /\ \A k \in i + 1 .. Len(s) : s[k] \in S
      BY <1>1
    <2>2. /\ b \in Seq(S) /\ Len(b) = IF i + 1 <= Len(s) THEN Len(s) - (i + 1) + 1 ELSE 0
          /\ \A k \in 1 .. Len(s) - (i + 1) + 1 : b[k] = s[(i + 1) + k - 1]
      BY <2>1, SubSeqProperties
    <2> HIDE DEF b
    <2>3. Len(b) = Len(s) - i
      <3>1. Len(b) = IF i + 1 <= Len(s) THEN Len(s) - (i + 1) + 1 ELSE 0
        BY <2>2
      <3>2. Len(s) \in Nat /\ i \in Nat /\ i <= Len(s)
        BY <1>1
      <3> QED BY <3>1, <3>2
    <2>4. ASSUME NEW k \in 1 .. Len(s) - i PROVE b[k] = s[i + k]
      <3>1. k \in 1 .. Len(s) - (i + 1) + 1 /\ (i + 1) + k - 1 = i + k
        BY <1>1
      <3>2. b[k] = s[(i + 1) + k - 1]
        BY <2>2, <3>1
      <3> QED BY <3>1, <3>2
    <2> QED BY <2>2, <2>3, <2>4
  <1> HIDE DEF a, b
  <1>4. /\ a \o b \in Seq(S) /\ Len(a \o b) = Len(s) - 1
        /\ \A k \in 1 .. Len(s) - 1 : (a \o b)[k] = IF k <= i - 1 THEN s[k] ELSE s[k + 1]
    <2>1. /\ a \o b \in Seq(S) /\ Len(a \o b) = Len(a) + Len(b)
          /\ \A k \in 1 .. Len(a) + Len(b) : (a \o b)[k] = IF k <= Len(a) THEN a[k] ELSE b[k - Len(a)]
      BY <1>2, <1>3, ConcatProperties
    <2> QED BY <1>1, <1>2, <1>3, <2>1
  <1>5. PICK r \in Seq(S) : r = RemoveAt(s, i) /\ r = a \o b
    BY <1>4 DEF RemoveAt, a, b
  <1>6. /\ DOMAIN r = 1 .. Len(s) - 1
        /\ \A k \in 1 .. Len(s) - 1 : r[k] = IF k <= i - 1 THEN s[k] ELSE s[k + 1]
    BY <1>4, <1>5, LenProperties
  <1>7. IsInjective(s) => IsInjective(r)
    <2> SUFFICES ASSUME IsInjective(s), NEW j \in 1 .. Len(s) - 1, NEW k \in 1 .. Len(s) - 1, r[j] = r[k]
                 PROVE  j = k
      BY <1>6 DEF IsInjective
    <2> DEFINE at(n) == IF n <= i - 1 THEN n ELSE n + 1
    <2>1. at(j) \in 1 .. Len(s) /\ at(k) \in 1 .. Len(s) /\ s[at(j)] = r[j] /\ s[at(k)] = r[k]
      BY <1>1, <1>6
    <2>2. at(j) = at(k)
      BY <1>1, <2>1 DEF IsInjective
    <2> QED BY <1>1, <2>2
  <1>8. IsInjective(s) => ToSet(r) = ToSet(s) \ {s[i]}
    <2> SUFFICES ASSUME IsInjective(s) PROVE ToSet(r) = ToSet(s) \ {s[i]}
      OBVIOUS
    <2>1. ToSet(r) \subseteq ToSet(s) \ {s[i]}
      BY <1>1, <1>6 DEF ToSet, IsInjective
    <2>2. ASSUME NEW k \in 1 .. Len(s), s[k] # s[i] PROVE s[k] \in ToSet(r)
      <3>1. CASE k < i
        BY <1>1, <1>6, <3>1 DEF ToSet
      <3>2. CASE k > i
        <4>1. k - 1 \in 1 .. Len(s) - 1 /\ r[k - 1] = s[k]
          BY <1>1, <1>6, <3>2
        <4> QED BY <1>6, <4>1 DEF ToSet
      <3> QED BY <1>1, <2>2, <3>1, <3>2
    <2> QED BY <1>1, <2>1, <2>2 DEF ToSet
  <1> QED BY <1>5, <1>7, <1>8

\* What pop_back leaves is what is left without the last.
LEMMA DropLast ==
  ASSUME NEW S, NEW s \in Seq(S), s # <<>>
  PROVE  /\ SubSeq(s, 1, Len(s) - 1) \in Seq(S) /\ s[Len(s)] \in S /\ s[Len(s)] \in ToSet(s)
         /\ IsInjective(s) => /\ IsInjective(SubSeq(s, 1, Len(s) - 1))
                              /\ ToSet(SubSeq(s, 1, Len(s) - 1)) = ToSet(s) \ {s[Len(s)]}
  <1>1. Len(s) \in Nat \ {0} /\ DOMAIN s = 1 .. Len(s) /\ \A k \in 1 .. Len(s) : s[k] \in S
    BY LenProperties, ElementOfSeq, EmptySeq
  <1>2. PICK r \in Seq(S) : /\ r = SubSeq(s, 1, Len(s) - 1) /\ Len(r) = Len(s) - 1
                            /\ \A k \in 1 .. Len(s) - 1 : r[k] = s[k]
    <2>1. /\ SubSeq(s, 1, Len(s) - 1) \in Seq(S)
          /\ Len(SubSeq(s, 1, Len(s) - 1)) = Len(s) - 1
          /\ \A k \in 1 .. Len(s) - 1 : SubSeq(s, 1, Len(s) - 1)[k] = s[k]
      BY <1>1, SubSeqProperties
    <2> QED BY <2>1
  <1>3. DOMAIN r = 1 .. Len(s) - 1
    BY <1>2, LenProperties
  <1>4. IsInjective(s) => IsInjective(r) /\ ToSet(r) = ToSet(s) \ {s[Len(s)]}
    <2> SUFFICES ASSUME IsInjective(s) PROVE IsInjective(r) /\ ToSet(r) = ToSet(s) \ {s[Len(s)]}
      OBVIOUS
    <2>1. IsInjective(r)
      BY <1>1, <1>2, <1>3 DEF IsInjective
    <2>2. ToSet(r) \subseteq ToSet(s) \ {s[Len(s)]}
      BY <1>1, <1>2, <1>3 DEF ToSet, IsInjective
    <2>3. ASSUME NEW k \in 1 .. Len(s), s[k] # s[Len(s)] PROVE s[k] \in ToSet(r)
      <3>1. k \in 1 .. Len(s) - 1
        BY <1>1, <2>3
      <3> QED BY <1>2, <1>3, <3>1 DEF ToSet
    <2> QED BY <1>1, <2>1, <2>2, <2>3 DEF ToSet
  <1>5. s[Len(s)] \in S /\ s[Len(s)] \in ToSet(s)
    BY <1>1 DEF ToSet
  <1> QED BY <1>2, <1>4, <1>5

LEMMA OneElement ==
  ASSUME NEW S, NEW s \in Seq(S), Len(s) = 1, NEW e \in S
  PROVE  /\ s[1] \in S /\ DOMAIN s = {1}
         /\ [s EXCEPT ![1] = e] \in Seq(S) /\ Len([s EXCEPT ![1] = e]) = 1
         /\ DOMAIN [s EXCEPT ![1] = e] = {1} /\ [s EXCEPT ![1] = e][1] = e
  <1>1. DOMAIN s = {1} /\ 1 \in 1 .. Len(s)
    BY LenProperties
  <1>2. s[1] \in S
    BY <1>1, ElementOfSeq
  <1>3. [s EXCEPT ![1] = e] \in Seq(S) /\ Len([s EXCEPT ![1] = e]) = Len(s)
    BY <1>1, ExceptSeq
  <1> QED BY <1>1, <1>2, <1>3

-----------------------------------------------------------------------------
(***************************************************************************)
(* The one pool, and who is inside of its mutex.                           *)
(***************************************************************************)
Inside == {"take", "pop", "put"}
PoolTypes ==
  /\ made \in Nat /\ distrib \in {0, 1}
  /\ storage \in Seq(Seq(Nat)) /\ mutex \in Seq(PoolThreads \cup {NoThread})
  /\ Len(storage) = distrib /\ Len(mutex) = distrib
  /\ poolPc \in [PoolThreads -> {"idle", "test", "lock", "make", "enter"} \cup Inside]
  /\ want \in [PoolThreads -> {"take", "put"}] /\ using \in [PoolThreads -> {0, 1}]
  /\ found \in [PoolThreads -> Nat] /\ held \in [PoolThreads -> Seq(Nat)]

\* Whoever is beyond getmain found the pool, and one at most is inside.
OneInside ==
  /\ \A t \in PoolThreads : poolPc[t] \in {"enter"} \cup Inside => distrib = 1 /\ using[t] = 1
  /\ \A t \in PoolThreads : poolPc[t] \in Inside => mutex[1] = t
\* What a thread saw at the end of the storage is still there when it takes it.
StillThere ==
  \A t \in PoolThreads : poolPc[t] = "pop" =>
    IF found[t] = 0 THEN storage[1] = <<>>
    ELSE storage[1] # <<>> /\ found[t] = storage[1][Len(storage[1])]
NewOnes == \A t \in PoolThreads : poolPc[t] = "pop" /\ found[t] = 0 => made # 0

PoolInv == PoolTypes /\ OneInside /\ StillThere /\ NewOnes /\ ResourcesApart

LEMMA MutexChanges ==
  ASSUME PoolTypes, distrib = 1, NEW u \in PoolThreads \cup {NoThread}
  PROVE  /\ [mutex EXCEPT ![1] = u] \in Seq(PoolThreads \cup {NoThread})
         /\ Len([mutex EXCEPT ![1] = u]) = 1 /\ [mutex EXCEPT ![1] = u][1] = u
  <1>1. mutex \in Seq(PoolThreads \cup {NoThread}) /\ Len(mutex) = 1
    BY DEF PoolTypes
  <1> QED BY <1>1, OneElement

LEMMA PoolInvInit == PoolInit => PoolInv
  <1> SUFFICES ASSUME PoolInit PROVE PoolInv
    OBVIOUS
  <1> USE DEF PoolInit
  <1>1. PoolTypes
    BY DEF PoolTypes
  <1>2. OneInside /\ StillThere /\ NewOnes
    BY DEF OneInside, StillThere, NewOnes, Inside
  <1>3. ResourcesApart
    <2>1. InPools = {} /\ InHands = {} /\ BeingMade = {}
      BY NothingInEmpty DEF InPools, InHands, BeingMade
    <2> QED BY <2>1, NothingInEmpty DEF ResourcesApart
  <1> QED BY <1>1, <1>2, <1>3 DEF PoolInv

\* Steps that move no resource.
LEMMA NothingMoves ==
  ASSUME PoolInv, UNCHANGED <<storage, made, held>>,
         \A t \in PoolThreads : (poolPc'[t] = "pop" /\ found'[t] = 0) <=> (poolPc[t] = "pop" /\ found[t] = 0)
  PROVE  ResourcesApart'
  <1>1. InPools' = InPools /\ InHands' = InHands /\ BeingMade' = BeingMade
    BY DEF InPools, InHands, BeingMade
  <1> QED BY <1>1 DEF PoolInv, ResourcesApart

LEMMA CallStepKeepsPool ==
  ASSUME PoolInv, NEW t \in PoolThreads,
         AllocResource(t) \/ FreeResource(t) \/ Test(t) \/ Lock(t)
  PROVE  PoolInv'
  <1> USE DEF AllocResource, FreeResource, Test, Lock, PoolGoto
  <1>1. PoolTypes'
    BY DEF PoolInv, PoolTypes, Inside
  <1>2. OneInside' /\ StillThere' /\ NewOnes'
    BY DEF PoolInv, PoolTypes, OneInside, StillThere, NewOnes, Inside
  <1>3. ResourcesApart'
    BY NothingMoves DEF PoolInv, PoolTypes
  <1> QED BY <1>1, <1>2, <1>3 DEF PoolInv

\* A second thread that comes to make the pool finds that it is there.
LEMMA MakeKeepsPool ==
  ASSUME PoolInv, NEW t \in PoolThreads, Make(t)
  PROVE  PoolInv'
  <1> USE DEF PoolGoto
  <1>0. /\ poolPc' = [poolPc EXCEPT ![t] = "enter"] /\ using' = [using EXCEPT ![t] = distrib']
        /\ poolPc[t] = "make" /\ UNCHANGED <<made, want, found, held>>
    BY DEF Make
  <1>1. CASE distrib = 0
    <2>1. storage = <<>> /\ mutex = <<>>
      BY <1>1, EmptySeq DEF PoolInv, PoolTypes
    <2>2. storage' = <<<<>>>> /\ mutex' = <<NoThread>> /\ distrib' = 1
      BY <1>1, <2>1 DEF Make, Missing
    <2>3. PoolTypes'
      BY <1>0, <2>2 DEF PoolInv, PoolTypes
    <2>4. OneInside' /\ StillThere' /\ NewOnes'
      BY <1>0, <1>1, <2>2 DEF PoolInv, PoolTypes, OneInside, StillThere, NewOnes, Inside
    <2>5. InPools' = InPools /\ InHands' = InHands /\ BeingMade' = BeingMade
      BY <1>0, <2>1, <2>2, NothingInEmpty DEF InPools, InHands, BeingMade, PoolInv, PoolTypes
    <2>6. ResourcesApart'
      <3>1. Len(storage') = 1 /\ DOMAIN storage' = {1} /\ storage'[1] = <<>>
        BY <2>2
      <3>2. \A p \in DOMAIN storage' : IsInjective(storage'[p])
        BY <3>1, NothingInEmpty
      <3>3. \A u \in PoolThreads : held'[u] = held[u] /\ IsInjective(held[u])
        BY <1>0 DEF PoolInv, ResourcesApart
      <3>4. \A u, v \in PoolThreads : u # v => ToSet(held'[u]) \cap ToSet(held'[v]) = {}
        BY <3>3 DEF PoolInv, ResourcesApart
      <3>5. /\ InPools' \cup InHands' \cup BeingMade' = 1 .. made'
            /\ InPools' \cap InHands' = {} /\ BeingMade' \cap (InPools' \cup InHands') = {}
        BY <1>0, <2>5 DEF PoolInv, ResourcesApart
      <3>6. \A u \in PoolThreads : IsInjective(held'[u])
        BY <3>3
      <3>7. Len(storage') <= 1
        BY <3>1
      <3> QED BY <3>2, <3>4, <3>5, <3>6, <3>7 DEF ResourcesApart
    <2> QED BY <2>3, <2>4, <2>6 DEF PoolInv
  <1>2. CASE distrib = 1
    <2>1. UNCHANGED <<storage, mutex, distrib>>
      BY <1>2 DEF Make, Missing
    <2>2. PoolTypes'
      BY <1>0, <1>2, <2>1 DEF PoolInv, PoolTypes
    <2>3. OneInside' /\ StillThere' /\ NewOnes'
      BY <1>0, <1>2, <2>1 DEF PoolInv, PoolTypes, OneInside, StillThere, NewOnes, Inside
    <2>4. ResourcesApart'
      BY <1>0, <2>1, NothingMoves DEF PoolInv, PoolTypes
    <2> QED BY <2>2, <2>3, <2>4 DEF PoolInv
  <1> QED BY <1>1, <1>2 DEF PoolInv, PoolTypes

LEMMA EnterKeepsPool ==
  ASSUME PoolInv, NEW t \in PoolThreads, Enter(t)
  PROVE  PoolInv'
  <1> USE DEF Enter, PoolGoto
  <1>1. using[t] = 1 /\ distrib = 1 /\ mutex[1] = NoThread
    BY DEF PoolInv, OneInside, CanEnter
  <1>2. /\ mutex' \in Seq(PoolThreads \cup {NoThread}) /\ Len(mutex') = 1 /\ mutex'[1] = t
    <2>1. PICK u \in PoolThreads \cup {NoThread} : u = t /\ mutex' = [mutex EXCEPT ![1] = u]
      BY <1>1
    <2> QED BY <1>1, <2>1, MutexChanges DEF PoolInv
  <1>3. PoolTypes'
    BY <1>1, <1>2 DEF PoolInv, PoolTypes, Inside
  <1>4. \A u \in PoolThreads : poolPc[u] \notin Inside
    BY <1>1, PoolAssumption DEF PoolInv, OneInside
  <1>5. OneInside' /\ StillThere' /\ NewOnes'
    BY <1>1, <1>2, <1>4 DEF PoolInv, PoolTypes, OneInside, StillThere, NewOnes, Inside
  <1>6. ResourcesApart'
    BY <1>4, NothingMoves DEF PoolInv, PoolTypes, Inside
  <1> QED BY <1>3, <1>5, <1>6 DEF PoolInv

-----------------------------------------------------------------------------
(***************************************************************************)
(* The steps inside of the mutex.                                          *)
(***************************************************************************)
LEMMA AloneInside ==
  ASSUME PoolInv, NEW t \in PoolThreads, poolPc[t] \in Inside
  PROVE  /\ distrib = 1 /\ using[t] = 1 /\ Len(storage) = 1 /\ DOMAIN storage = {1}
         /\ storage[1] \in Seq(Nat) /\ InPools = ToSet(storage[1]) /\ IsInjective(storage[1])
         /\ \A u \in PoolThreads \ {t} : poolPc[u] \notin Inside
  <1>1. distrib = 1 /\ using[t] = 1 /\ Len(storage) = 1
    BY DEF PoolInv, PoolTypes, OneInside
  <1>2. DOMAIN storage = {1} /\ storage[1] \in Seq(Nat)
    BY <1>1, OneElement DEF PoolInv, PoolTypes
  <1>3. InPools = ToSet(storage[1])
    BY <1>2 DEF InPools
  <1>4. IsInjective(storage[1])
    BY <1>2 DEF PoolInv, ResourcesApart
  <1>5. \A u \in PoolThreads \ {t} : poolPc[u] \notin Inside
    BY DEF PoolInv, OneInside
  <1> QED BY <1>1, <1>2, <1>3, <1>4, <1>5

\* Resources that go from one to another of the pool, t's hands and the one that is being made.
LEMMA Moves ==
  ASSUME PoolInv, NEW t \in PoolThreads, distrib = 1, NEW s \in Seq(Nat), NEW h \in Seq(Nat),
         storage' = [storage EXCEPT ![1] = s], held' = [held EXCEPT ![t] = h], made' = made,
         IsInjective(s), IsInjective(h), ToSet(s) \cap ToSet(h) = {},
         BeingMade' = {},
         ToSet(s) \cup ToSet(h) = ToSet(storage[1]) \cup ToSet(held[t]) \cup BeingMade
  PROVE  ResourcesApart'
  <1> DEFINE Others == UNION {ToSet(held[u]) : u \in PoolThreads \ {t}}
  <1>1. DOMAIN storage = {1} /\ storage \in Seq(Seq(Nat)) /\ Len(storage) = 1
    BY LenProperties DEF PoolInv, PoolTypes
  <1>2. Len(storage') = 1 /\ DOMAIN storage' = {1} /\ storage'[1] = s
    BY <1>1, ExceptSeq
  <1>3. InPools = ToSet(storage[1]) /\ InPools' = ToSet(s)
    BY <1>1, <1>2 DEF InPools
  <1>4. held'[t] = h /\ \A u \in PoolThreads \ {t} : held'[u] = held[u]
    BY DEF PoolInv, PoolTypes
  <1>5. InHands = Others \cup ToSet(held[t]) /\ InHands' = Others \cup ToSet(h)
    BY <1>4 DEF InHands
  <1>6. Others \cap (InPools \cup ToSet(held[t]) \cup BeingMade) = {}
    <2>1. Others \subseteq InHands /\ Others \cap ToSet(held[t]) = {}
      <3>1. Others \subseteq InHands
        BY DEF InHands
      <3>2. \A u \in PoolThreads \ {t} : ToSet(held[u]) \cap ToSet(held[t]) = {}
        BY DEF PoolInv, ResourcesApart
      <3> QED BY <3>1, <3>2
    <2> QED BY <2>1 DEF PoolInv, ResourcesApart
  <1> HIDE DEF Others
  <1>7. InPools' \cup InHands' = 1 .. made
    BY <1>3, <1>5 DEF PoolInv, ResourcesApart
  <1>8. InPools' \cap InHands' = {} /\ Others \cap ToSet(h) = {}
    BY <1>3, <1>5, <1>6
  <1>9. \A u \in PoolThreads \ {t} : ToSet(held[u]) \subseteq Others
    BY DEF Others
  <1>10. \A u, v \in PoolThreads : u # v => ToSet(held'[u]) \cap ToSet(held'[v]) = {}
    BY <1>4, <1>8, <1>9 DEF PoolInv, ResourcesApart
  <1>11. \A u \in PoolThreads : IsInjective(held'[u])
    BY <1>4 DEF PoolInv, ResourcesApart
  <1>12. \A p \in DOMAIN storage' : IsInjective(storage'[p])
    <2> SUFFICES ASSUME NEW p \in DOMAIN storage' PROVE IsInjective(storage'[p])
      OBVIOUS
    <2>1. storage'[p] = s
      BY <1>2
    <2> QED BY ONLY <2>1, IsInjective(s)
  <1>13. /\ InPools' \cup InHands' \cup BeingMade' = 1 .. made'
         /\ InPools' \cap InHands' = {} /\ BeingMade' \cap (InPools' \cup InHands') = {}
    BY <1>7, <1>8
  <1>14. Len(storage') <= 1
    <2>1. Len(storage') = 1
      BY <1>2
    <2> QED BY ONLY <2>1
  <1> QED BY <1>10, <1>11, <1>12, <1>13, <1>14 DEF ResourcesApart

LEMMA PeekKeepsPool ==
  ASSUME PoolInv, NEW t \in PoolThreads, Peek(t)
  PROVE  PoolInv'
  <1>0. /\ poolPc[t] = "take" /\ poolPc' = [poolPc EXCEPT ![t] = "pop"]
        /\ UNCHANGED <<distrib, storage, general, mutex, want, using, held>>
    BY DEF Peek, PoolGoto
  <1>1. /\ distrib = 1 /\ using[t] = 1 /\ storage[1] \in Seq(Nat) /\ InPools = ToSet(storage[1])
        /\ \A u \in PoolThreads \ {t} : poolPc[u] \notin Inside
    BY <1>0, AloneInside DEF Inside
  <1>2. OneInside'
    BY <1>0, <1>1 DEF PoolInv, PoolTypes, OneInside, Inside
  <1>3. CASE storage[1] # <<>>
    <2>1. PICK r \in ToSet(storage[1]) : r = storage[1][Len(storage[1])]
      BY <1>1, <1>3, DropLast
    <2>2. r \in 1 .. made /\ made \in Nat
      BY <1>1 DEF PoolInv, PoolTypes, ResourcesApart
    <2>3. found' = [found EXCEPT ![t] = r] /\ made' = made
      BY <1>1, <1>3, <2>1 DEF Peek
    <2>4. PoolTypes'
      BY <1>0, <2>2, <2>3 DEF PoolInv, PoolTypes, Inside
    <2>5. StillThere' /\ NewOnes'
      BY <1>0, <1>1, <1>3, <2>1, <2>2, <2>3 DEF PoolInv, PoolTypes, StillThere, NewOnes, Inside
    <2>6. ResourcesApart'
      BY <1>0, <2>2, <2>3, NothingMoves DEF PoolInv, PoolTypes
    <2> QED BY <1>2, <2>4, <2>5, <2>6 DEF PoolInv
  <1>4. CASE storage[1] = <<>>
    <2>1. found' = [found EXCEPT ![t] = 0] /\ made' = made + 1 /\ made \in Nat
      BY <1>1, <1>4 DEF Peek, PoolInv, PoolTypes
    <2>2. PoolTypes'
      BY <1>0, <2>1 DEF PoolInv, PoolTypes, Inside
    <2>3. StillThere' /\ NewOnes'
      BY <1>0, <1>1, <1>4, <2>1 DEF PoolInv, PoolTypes, StillThere, NewOnes, Inside
    <2>4. BeingMade = {} /\ BeingMade' = {made + 1} /\ InPools' = InPools /\ InHands' = InHands
      BY <1>0, <1>1, <2>1 DEF BeingMade, InPools, InHands, PoolInv, PoolTypes, Inside
    <2>5. InPools \cup InHands = 1 .. made /\ made + 1 \notin 1 .. made
          /\ 1 .. made + 1 = 1 .. made \cup {made + 1}
      BY <2>1, <2>4 DEF PoolInv, ResourcesApart
    <2>6. ResourcesApart'
      BY <1>0, <2>1, <2>4, <2>5 DEF PoolInv, ResourcesApart
    <2> QED BY <1>2, <2>2, <2>3, <2>6 DEF PoolInv
  <1> QED BY <1>3, <1>4

\* Who leaves the mutex with s in the pool and h in hands.
LEMMA LeaveKeepsPool ==
  ASSUME PoolInv, NEW t \in PoolThreads, poolPc[t] \in {"pop", "put"},
         NEW s \in Seq(Nat), NEW h \in Seq(Nat),
         storage' = [storage EXCEPT ![1] = s], held' = [held EXCEPT ![t] = h],
         mutex' = [mutex EXCEPT ![using[t]] = NoThread], PoolGoto(t, "idle"),
         UNCHANGED <<distrib, made, general, want, using, found>>,
         IsInjective(s), IsInjective(h), ToSet(s) \cap ToSet(h) = {},
         ToSet(s) \cup ToSet(h) = ToSet(storage[1]) \cup ToSet(held[t]) \cup BeingMade
  PROVE  PoolInv'
  <1>1. /\ distrib = 1 /\ using[t] = 1 /\ Len(storage) = 1
        /\ \A u \in PoolThreads \ {t} : poolPc[u] \notin Inside
    BY AloneInside DEF Inside
  <1>2. poolPc' = [poolPc EXCEPT ![t] = "idle"] /\ BeingMade' = {}
    BY <1>1 DEF PoolGoto, BeingMade, PoolInv, PoolTypes, Inside
  <1>3. storage' \in Seq(Seq(Nat)) /\ Len(storage') = 1
    <2>1. storage \in Seq(Seq(Nat)) /\ Len(storage) = 1
      BY <1>1 DEF PoolInv, PoolTypes
    <2> QED BY <1>1, <2>1, OneElement
  <1>4. mutex' \in Seq(PoolThreads \cup {NoThread}) /\ Len(mutex') = 1
    <2>1. PICK u \in PoolThreads \cup {NoThread} : mutex' = [mutex EXCEPT ![1] = u]
      BY <1>1
    <2> QED BY <1>1, <2>1, MutexChanges DEF PoolInv
  <1>5. PoolTypes'
    BY <1>1, <1>2, <1>3, <1>4 DEF PoolInv, PoolTypes
  <1>6. OneInside' /\ StillThere' /\ NewOnes'
    BY <1>1, <1>2 DEF PoolInv, PoolTypes, OneInside, StillThere, NewOnes, Inside
  <1>7. ResourcesApart'
    BY <1>1, <1>2, Moves
  <1> QED BY <1>5, <1>6, <1>7 DEF PoolInv

LEMMA PopKeepsPool ==
  ASSUME PoolInv, NEW t \in PoolThreads, Pop(t)
  PROVE  PoolInv'
  <1>0. /\ poolPc[t] = "pop" /\ mutex' = [mutex EXCEPT ![using[t]] = NoThread] /\ PoolGoto(t, "idle")
        /\ UNCHANGED <<distrib, made, general, want, using, found>>
    BY DEF Pop
  <1>1. /\ distrib = 1 /\ using[t] = 1 /\ Len(storage) = 1 /\ storage[1] \in Seq(Nat)
        /\ InPools = ToSet(storage[1]) /\ IsInjective(storage[1])
        /\ \A u \in PoolThreads \ {t} : poolPc[u] \notin Inside
    BY <1>0, AloneInside DEF Inside
  <1>2. held[t] \in Seq(Nat) /\ IsInjective(held[t]) /\ ToSet(held[t]) \subseteq InHands /\ made \in Nat
    BY DEF PoolInv, PoolTypes, ResourcesApart, InHands
  <1>3. CASE found[t] = 0
    <2>1. BeingMade = {made} /\ made \notin ToSet(held[t]) /\ made \notin InPools
      BY <1>0, <1>2, <1>3 DEF BeingMade, PoolInv, ResourcesApart
    <2>2. PICK h \in Seq(Nat) : /\ h = Append(held[t], made) /\ ToSet(h) = ToSet(held[t]) \cup {made}
                                /\ IsInjective(h)
      BY <1>2, <2>1, AppendOther
    <2>3. held' = [held EXCEPT ![t] = h] /\ storage' = [storage EXCEPT ![1] = storage[1]]
      BY <1>1, <1>3, <2>2 DEF Pop, PoolInv, PoolTypes
    <2>4. storage[1] = <<>> /\ ToSet(storage[1]) = {}
      BY <1>0, <1>3, NothingInEmpty DEF PoolInv, StillThere
    <2> QED BY <1>0, <1>1, <2>1, <2>2, <2>3, <2>4, LeaveKeepsPool
  <1>4. CASE found[t] # 0
    <2>1. storage[1] # <<>> /\ found[t] = storage[1][Len(storage[1])]
      BY <1>0, <1>4 DEF PoolInv, StillThere
    <2>2. PICK s \in Seq(Nat) : /\ s = SubSeq(storage[1], 1, Len(storage[1]) - 1)
                                /\ IsInjective(s) /\ ToSet(s) = ToSet(storage[1]) \ {found[t]}
      <3>1. PICK last \in Nat : last = storage[1][Len(storage[1])]
        BY <1>1, <2>1, DropLast
      <3>2. /\ SubSeq(storage[1], 1, Len(storage[1]) - 1) \in Seq(Nat)
            /\ IsInjective(SubSeq(storage[1], 1, Len(storage[1]) - 1))
            /\ ToSet(SubSeq(storage[1], 1, Len(storage[1]) - 1)) = ToSet(storage[1]) \ {last}
        BY <1>1, <2>1, <3>1, DropLast
      <3> QED BY <2>1, <3>1, <3>2
    <2>3. found[t] \in ToSet(storage[1]) /\ found[t] \in Nat
      BY <1>1, <2>1, DropLast
    <2>4. BeingMade = {} /\ ToSet(storage[1]) \cap ToSet(held[t]) = {}
      BY <1>0, <1>1, <1>2, <1>4 DEF BeingMade, PoolInv, ResourcesApart, Inside
    <2>5. PICK h \in Seq(Nat) : /\ h = Append(held[t], found[t])
                                /\ ToSet(h) = ToSet(held[t]) \cup {found[t]} /\ IsInjective(h)
      BY <1>2, <2>3, <2>4, AppendOther
    <2>6. held' = [held EXCEPT ![t] = h] /\ storage' = [storage EXCEPT ![1] = s]
      BY <1>1, <1>4, <2>2, <2>5 DEF Pop, PoolInv, PoolTypes
    <2>7. ToSet(s) \cap ToSet(h) = {}
          /\ ToSet(s) \cup ToSet(h) = ToSet(storage[1]) \cup ToSet(held[t]) \cup BeingMade
      BY <2>2, <2>3, <2>4, <2>5
    <2> QED BY <1>0, <2>2, <2>5, <2>6, <2>7, LeaveKeepsPool
  <1> QED BY <1>3, <1>4

LEMMA PutKeepsPool ==
  ASSUME PoolInv, NEW t \in PoolThreads, Put(t)
  PROVE  PoolInv'
  <1>0. /\ poolPc[t] = "put" /\ mutex' = [mutex EXCEPT ![using[t]] = NoThread] /\ PoolGoto(t, "idle")
        /\ UNCHANGED <<distrib, made, general, want, using, found>>
    BY DEF Put
  <1>1. /\ distrib = 1 /\ using[t] = 1 /\ Len(storage) = 1 /\ storage[1] \in Seq(Nat)
        /\ InPools = ToSet(storage[1]) /\ IsInjective(storage[1])
        /\ \A u \in PoolThreads \ {t} : poolPc[u] \notin Inside
    BY <1>0, AloneInside DEF Inside
  <1>2. held[t] \in Seq(Nat) /\ IsInjective(held[t]) /\ ToSet(held[t]) \subseteq InHands
    BY DEF PoolInv, PoolTypes, ResourcesApart, InHands
  <1>3. PICK i \in 1 .. Len(held[t]) :
          /\ storage' = [storage EXCEPT ![1] = Append(@, held[t][i])]
          /\ held' = [held EXCEPT ![t] = RemoveAt(@, i)]
    BY <1>1 DEF Put
  <1>4. PICK r \in ToSet(held[t]) : r = held[t][i] /\ r \in Nat
    BY <1>2, LenProperties, ElementOfSeq DEF ToSet
  <1>5. BeingMade = {} /\ ToSet(storage[1]) \cap ToSet(held[t]) = {}
    BY <1>0, <1>1, <1>2 DEF BeingMade, PoolInv, ResourcesApart, Inside
  <1>6. PICK s \in Seq(Nat) : s = Append(storage[1], r) /\ ToSet(s) = ToSet(storage[1]) \cup {r} /\ IsInjective(s)
    BY <1>1, <1>4, <1>5, AppendOther
  <1>7. PICK h \in Seq(Nat) : h = RemoveAt(held[t], i) /\ IsInjective(h) /\ ToSet(h) = ToSet(held[t]) \ {r}
    BY <1>2, <1>4, RemoveOne
  <1>8. storage' = [storage EXCEPT ![1] = s] /\ held' = [held EXCEPT ![t] = h]
    BY <1>3, <1>4, <1>6, <1>7
  <1>9. ToSet(s) \cap ToSet(h) = {}
        /\ ToSet(s) \cup ToSet(h) = ToSet(storage[1]) \cup ToSet(held[t]) \cup BeingMade
    BY <1>4, <1>5, <1>6, <1>7
  <1> QED BY <1>0, <1>6, <1>7, <1>8, <1>9, LeaveKeepsPool

-----------------------------------------------------------------------------
(***************************************************************************)
(* The theorem.                                                            *)
(***************************************************************************)
LEMMA PoolInvNext == PoolInv /\ [PoolNext]_poolVars => PoolInv'
  <1> SUFFICES ASSUME PoolInv, [PoolNext]_poolVars PROVE PoolInv'
    OBVIOUS
  <1>1. ASSUME NEW t \in PoolThreads,
               AllocResource(t) \/ FreeResource(t) \/ Test(t) \/ Lock(t)
        PROVE  PoolInv'
    BY <1>1, CallStepKeepsPool
  <1>2. ASSUME NEW t \in PoolThreads, Make(t) \/ Enter(t) PROVE PoolInv'
    BY <1>2, MakeKeepsPool, EnterKeepsPool
  <1>3. ASSUME NEW t \in PoolThreads, Peek(t) \/ Pop(t) \/ Put(t) PROVE PoolInv'
    BY <1>3, PeekKeepsPool, PopKeepsPool, PutKeepsPool
  <1>4. CASE UNCHANGED poolVars
    <2>1. ResourcesApart'
      BY <1>4, NothingMoves DEF poolVars
    <2> QED BY <1>4, <2>1 DEF poolVars, PoolInv, PoolTypes, OneInside, StillThere, NewOnes
  <1> QED BY <1>1, <1>2, <1>3, <1>4 DEF PoolNext

\* No two threads ever have the same resource of the pool, none is in the pool while someone has
\* it, and none is lost (cResourceDistrib), however many threads come first at the same time.
THEOREM ResourcesCorrect == PoolSpec => []ResourcesApart
  <1>1. PoolInv => ResourcesApart
    BY DEF PoolInv
  <1> QED BY <1>1, PoolInvInit, PoolInvNext, PTL DEF PoolSpec
=============================================================================
