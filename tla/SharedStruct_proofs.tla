------------------------- MODULE SharedStruct_proofs -------------------------
(***************************************************************************)
(* Theorems about SharedStruct, for all threads, handles and structures.   *)
(*                                                                         *)
(* The handles of a structure are those its counter counts and the one     *)
(* each thread in the middle of a call has on the way.  The counter is at  *)
(* least the number of the former: that is what the steps preserve.        *)
(***************************************************************************)
EXTENDS SharedStruct, FiniteSetTheorems, TLAPS

OnTheWay(h) == \E t \in StructThreads : structPc[t] \in {"inc", "set"} /\ dst[t] = h
CountedHandles(s) == {h \in Users(s) : ~OnTheWay(h)}

\* A call works on handles of its own thread.
OwnHandles ==
  \A t \in StructThreads : structPc[t] # "idle" =>
    /\ dst[t] \in StructHandles /\ owner[dst[t]] = t
    /\ src[t] # NoHandle => src[t] \in StructHandles /\ owner[src[t]] = t
    /\ structPc[t] \in {"dec", "set"} /\ src[t] # NoHandle => fdata[src[t]] # fdata[dst[t]]
    /\ structPc[t] \in {"dec", "inc", "write"} => fdata[dst[t]] # NoStruct
\* Who is being copied into has the one that was copied beside it.
CopiesHaveSource ==
  \A t \in StructThreads : structPc[t] = "inc" =>
    \E h \in StructHandles : owner[h] = t /\ h # dst[t] /\ fdata[h] = fdata[dst[t]]
CounterCountsHandles == \A s \in Structs : refcnt[s] >= Cardinality(CountedHandles(s))
UsedWhileShown == \A s \in Structs : Users(s) # {} => life[s] = "used"
WriterIsAlone ==
  \A t \in StructThreads : structPc[t] = "write" => Sharers(fdata[dst[t]]) = {dst[t]}

StructInv ==
  /\ StructTypeOK /\ OwnHandles /\ CopiesHaveSource
  /\ CounterCountsHandles /\ UsedWhileShown /\ WriterIsAlone

LEMMA StructSetsFinite ==
  ASSUME NEW s \in Structs
  PROVE  /\ IsFiniteSet(Users(s)) /\ IsFiniteSet(CountedHandles(s)) /\ IsFiniteSet(Uncounted(s))
         /\ Cardinality(Users(s)) \in Nat /\ Cardinality(CountedHandles(s)) \in Nat
         /\ Cardinality(Uncounted(s)) \in Nat
  <1>1. Users(s) \subseteq StructHandles /\ CountedHandles(s) \subseteq StructHandles
        /\ Uncounted(s) \subseteq StructThreads
    BY DEF Users, CountedHandles, Uncounted
  <1>2. IsFiniteSet(StructHandles) /\ IsFiniteSet(StructThreads)
    BY SharedStructAssumption
  <1>3. IsFiniteSet(Users(s)) /\ IsFiniteSet(CountedHandles(s)) /\ IsFiniteSet(Uncounted(s))
    BY <1>1, <1>2, FS_Subset
  <1> QED BY <1>3, FS_CardinalityType

\* Every handle is counted or on the way, and every thread has one on the way at most.
LEMMA CountedAndUncounted ==
  ASSUME StructTypeOK, OwnHandles, NEW s \in Structs
  PROVE  Cardinality(Users(s)) = Cardinality(CountedHandles(s)) + Cardinality(Uncounted(s))
  <1> DEFINE Rest == {h \in Users(s) : OnTheWay(h)}
             f == [t \in Uncounted(s) |-> dst[t]]
  <1>1. f \in Bijection(Uncounted(s), Rest)
    <2>1. f \in [Uncounted(s) -> Rest]
      BY DEF Uncounted, OnTheWay, Users, OwnHandles
    <2>2. \A t, u \in Uncounted(s) : f[t] = f[u] => t = u
      BY DEF Uncounted, OwnHandles
    <2>3. \A h \in Rest : \E t \in Uncounted(s) : f[t] = h
      BY SharedStructAssumption DEF Uncounted, OnTheWay, Users
    <2> QED BY <2>1, <2>2, <2>3 DEF Bijection, Injection, Surjection, IsInjective
  <1>2. IsFiniteSet(Rest) /\ Cardinality(Rest) = Cardinality(Uncounted(s))
    BY <1>1, StructSetsFinite, FS_Bijection DEF ExistsBijection
  <1>3. Users(s) = CountedHandles(s) \cup Rest /\ CountedHandles(s) \cap Rest = {}
    BY DEF CountedHandles
  <1>4. Cardinality(CountedHandles(s) \cap Rest) = 0
    BY <1>3, FS_EmptySet
  <1>5. Cardinality(CountedHandles(s) \cup Rest)
          = Cardinality(CountedHandles(s)) + Cardinality(Rest) - Cardinality(CountedHandles(s) \cap Rest)
    BY <1>2, StructSetsFinite, FS_Union
  <1> HIDE DEF Rest
  <1> QED BY <1>2, <1>3, <1>4, <1>5, StructSetsFinite

LEMMA StructInvInit == StructInit => StructInv
  <1> SUFFICES ASSUME StructInit PROVE StructInv
    OBVIOUS
  <1>1. PICK s \in Structs, first \in SUBSET StructHandles, v \in Values :
          /\ fdata = [h \in StructHandles |-> IF h \in first THEN s ELSE NoStruct]
          /\ refcnt = [x \in Structs |-> IF x = s THEN Cardinality(first) ELSE 0]
          /\ life = [x \in Structs |-> IF x = s /\ first # {} THEN "used" ELSE "new"]
          /\ value = [x \in Structs |-> v]
    BY DEF StructInit
  <1>2. /\ structPc = [t \in StructThreads |-> "idle"]
        /\ dst = [t \in StructThreads |-> NoHandle] /\ src = [t \in StructThreads |-> NoHandle]
        /\ structCalls = [t \in StructThreads |-> 0]
    BY DEF StructInit
  <1>3. \A x \in Structs : Users(x) = (IF x = s THEN first ELSE {}) /\ CountedHandles(x) = Users(x)
    BY <1>1, <1>2, SharedStructAssumption DEF Users, CountedHandles, OnTheWay
  <1>4. Cardinality(first) \in Nat /\ Cardinality({}) = 0
    BY SharedStructAssumption, FS_Subset, FS_CardinalityType, FS_EmptySet
  <1>5. StructTypeOK
    BY <1>1, <1>2, <1>4, SharedStructAssumption DEF StructTypeOK
  <1>6. OwnHandles /\ CopiesHaveSource /\ WriterIsAlone
    BY <1>2 DEF OwnHandles, CopiesHaveSource, WriterIsAlone
  <1>7. CounterCountsHandles
    BY <1>1, <1>3, <1>4 DEF CounterCountsHandles
  <1>8. UsedWhileShown
    BY <1>1, <1>3 DEF UsedWhileShown
  <1> QED BY <1>5, <1>6, <1>7, <1>8 DEF StructInv

(***************************************************************************)
(* The steps.  What they do to the handles that are counted.               *)
(***************************************************************************)
\* A call begins: nobody shares, counts or shows more or less than before.
LEMMA BeginKeeps ==
  ASSUME StructInv, NEW t \in StructThreads, NEW d \in StructHandles, owner[d] = t,
         NEW s \in StructHandles \cup {NoHandle}, s # NoHandle => owner[s] = t /\ fdata[s] # fdata[d],
         NEW step \in {"dec", "set", "write", "clone"},
         BeginStructCall(t, step, d, s), UNCHANGED <<fdata, structVars>>,
         step \in {"dec", "write"} => fdata[d] # NoStruct,
         step = "set" => fdata[d] = NoStruct,
         step = "write" => Sharers(fdata[d]) = {d}
  PROVE  StructInv'
  <1> USE DEF StructInv, BeginStructCall, structVars
  <1>1. StructTypeOK'
    BY SharedStructAssumption DEF StructTypeOK
  <1>2. OwnHandles' /\ CopiesHaveSource'
    BY SharedStructAssumption DEF OwnHandles, CopiesHaveSource, StructTypeOK
  <1>3. \A x \in Structs : Users(x)' = Users(x) /\ CountedHandles(x)' = CountedHandles(x)
    BY SharedStructAssumption DEF Users, CountedHandles, OnTheWay, StructTypeOK
  <1>4. CounterCountsHandles' /\ UsedWhileShown'
    BY <1>3 DEF CounterCountsHandles, UsedWhileShown
  <1>5. \A x \in Structs : Sharers(x)' = Sharers(x)
    BY SharedStructAssumption DEF Users, Sharers, StructTypeOK
  <1>6. ASSUME NEW u \in StructThreads, structPc'[u] = "write"
        PROVE  Sharers(fdata[dst[u]])' = {dst'[u]}
    <2>1. CASE u = t
      <3>1. dst'[u] = d /\ step = "write" /\ fdata[d] \in Structs
        BY <1>6, <2>1 DEF StructTypeOK
      <3> QED BY <1>5, <3>1
    <2>2. CASE u # t
      <3>1. dst'[u] = dst[u] /\ structPc[u] = "write"
        BY <1>6, <2>2 DEF StructTypeOK
      <3>2. dst[u] \in StructHandles /\ fdata[dst[u]] # NoStruct
        BY <3>1 DEF OwnHandles
      <3>3. fdata[dst[u]] \in Structs
        BY <3>2 DEF StructTypeOK
      <3>4. Sharers(fdata[dst[u]]) = {dst[u]}
        BY <3>1 DEF WriterIsAlone
      <3> QED BY <1>5, <3>1, <3>3, <3>4
    <2> QED BY <2>1, <2>2
  <1> QED BY <1>1, <1>2, <1>4, <1>6 DEF WriterIsAlone

\* operator = on a structure: makeunique found the counter at most 1, so that no other
\* handle is counted, and one that is on the way would have a counted one beside it.
LEMMA UniqueIsAlone ==
  ASSUME StructInv, NEW t \in StructThreads, structPc[t] = "idle",
         NEW d \in StructHandles, owner[d] = t, fdata[d] # NoStruct, Unique(fdata[d])
  PROVE  Sharers(fdata[d]) = {d}
  <1> DEFINE s == fdata[d]
  <1>1. s \in Structs
    BY DEF StructInv, StructTypeOK
  <1>2. Cardinality(CountedHandles(s)) <= 1
    BY <1>1, StructSetsFinite DEF StructInv, StructTypeOK, CounterCountsHandles, Unique
  <1>3. d \in CountedHandles(s)
    BY DEF CountedHandles, Users, OnTheWay, StructInv, OwnHandles
  <1>4. CountedHandles(s) = {d}
    <2>1. Cardinality(CountedHandles(s)) # 0
      BY <1>1, <1>3, StructSetsFinite, FS_EmptySet
    <2>2. Cardinality(CountedHandles(s)) = 1
      BY <1>1, <1>2, <2>1, StructSetsFinite
    <2> QED BY <1>1, <1>3, <2>2, StructSetsFinite, FS_Singleton
  <1>5. ASSUME NEW h \in Sharers(s), h # d PROVE FALSE
    <2>1. h \in Users(s) /\ OnTheWay(h)
      BY <1>4, <1>5 DEF Sharers, CountedHandles
    <2>2. PICK u \in StructThreads : structPc[u] = "inc" /\ dst[u] = h
      BY <2>1, <1>5 DEF OnTheWay, Sharers
    <2>3. PICK k \in StructHandles : owner[k] = u /\ k # dst[u] /\ fdata[k] = s
      BY <2>1, <2>2 DEF StructInv, CopiesHaveSource, Users
    <2>4. k \in CountedHandles(s)
      BY <2>3 DEF CountedHandles, Users, OnTheWay, StructInv, OwnHandles
    <2> QED BY <1>4, <2>2, <2>3, <2>4
  <1>6. d \in Sharers(s)
    BY <1>3 DEF CountedHandles, Sharers, OnTheWay
  <1> QED BY <1>5, <1>6

\* A handle of a thread that writes in place is no one's to copy.
LEMMA OthersAreElsewhere ==
  ASSUME StructInv, NEW t \in StructThreads, structPc[t] = "write",
         NEW u \in StructThreads, u # t, NEW h \in StructHandles, owner[h] = u,
         structPc[u] = "set" => h # dst[u]
  PROVE  fdata[h] # fdata[dst[t]]
  <1> SUFFICES ASSUME fdata[h] = fdata[dst[t]] PROVE FALSE
    OBVIOUS
  <1>1. h \in Sharers(fdata[dst[t]])
    BY DEF Sharers, Users, StructInv, OwnHandles
  <1>2. h = dst[t] /\ owner[dst[t]] = t
    BY <1>1 DEF StructInv, WriterIsAlone, OwnHandles
  <1> QED BY <1>2

LEMMA CopyConstructKeeps ==
  ASSUME StructInv, NEW t \in StructThreads, NEW d \in StructHandles, owner[d] = t,
         NEW s \in StructHandles, owner[s] = t, CopyConstruct(t, d, s)
  PROVE  StructInv'
  <1> USE DEF StructInv, CopyConstruct, BeginStructCall, structVars
  <1>1. StructTypeOK'
    BY SharedStructAssumption DEF StructTypeOK
  <1>2. OwnHandles'
    BY SharedStructAssumption DEF OwnHandles, StructTypeOK
  <1>3. CopiesHaveSource'
    <2>1. ASSUME NEW u \in StructThreads, u # t, structPc[u] = "inc"
          PROVE  \E h \in StructHandles : owner[h] = u /\ h # dst[u] /\ fdata'[h] = fdata'[dst[u]]
      <3>1. PICK h \in StructHandles : owner[h] = u /\ h # dst[u] /\ fdata[h] = fdata[dst[u]]
        BY <2>1 DEF CopiesHaveSource
      <3>2. h # d /\ dst[u] # d
        BY <2>1, <3>1 DEF OwnHandles
      <3> QED BY <3>1, <3>2 DEF StructTypeOK
    <2>2. fdata'[s] = fdata'[d] /\ s # d /\ dst'[t] = d
      BY DEF StructTypeOK
    <2> QED BY <2>1, <2>2 DEF CopiesHaveSource, StructTypeOK
  <1>4. \A x \in Structs : CountedHandles(x)' = CountedHandles(x)
    BY SharedStructAssumption DEF Users, CountedHandles, OnTheWay, StructTypeOK
  <1>5. CounterCountsHandles'
    BY <1>4 DEF CounterCountsHandles
  <1>6. UsedWhileShown'
    BY DEF UsedWhileShown, Users, StructTypeOK
  <1>7. ASSUME NEW u \in StructThreads, structPc'[u] = "write"
        PROVE  Sharers(fdata[dst[u]])' = {dst'[u]}
    <2>1. u # t /\ structPc[u] = "write" /\ dst'[u] = dst[u] /\ dst[u] # d /\ dst[u] \in StructHandles
      BY <1>7 DEF StructTypeOK, OwnHandles
    <2>2. fdata[s] # fdata[dst[u]] /\ fdata'[dst[u]] = fdata[dst[u]] /\ fdata[dst[u]] # NoStruct
      BY <2>1, OthersAreElsewhere DEF StructTypeOK, OwnHandles
    <2>3. Sharers(fdata[dst[u]])' = Sharers(fdata[dst[u]])
      BY <2>1, <2>2 DEF Sharers, Users, StructTypeOK
    <2> QED BY <2>1, <2>3 DEF WriterIsAlone
  <1> QED BY <1>1, <1>2, <1>3, <1>5, <1>6, <1>7 DEF WriterIsAlone

\* The handle is counted no more.  It was, so that the structure is not freed.
LEMMA DecUseKeeps ==
  ASSUME StructInv, NEW t \in StructThreads, DecUse(t)
  PROVE  StructInv'
  <1> USE DEF StructInv, DecUse, StructGoto
  <1>1. PICK s \in Structs : s = fdata[dst[t]] /\ dst[t] \in StructHandles /\ owner[dst[t]] = t
    BY DEF StructTypeOK, OwnHandles
  <1>2. dst[t] \in CountedHandles(s)
    BY <1>1 DEF CountedHandles, Users, OnTheWay, OwnHandles
  <1>3. /\ CountedHandles(s)' = CountedHandles(s) \ {dst[t]}
        /\ \A x \in Structs \ {s} : CountedHandles(x)' = CountedHandles(x)
    BY <1>1 DEF CountedHandles, Users, OnTheWay, StructTypeOK
  <1>4. Cardinality(CountedHandles(s)') = Cardinality(CountedHandles(s)) - 1
    <2>1. IsFiniteSet(CountedHandles(s)) /\ Cardinality(CountedHandles(s)) \in Nat
      BY StructSetsFinite
    <2>2. Cardinality(CountedHandles(s) \ {dst[t]}) = Cardinality(CountedHandles(s)) - 1
      BY <1>2, <2>1, FS_RemoveElement
    <2> QED BY <1>3, <2>2
  <1>5. refcnt[s] >= 1
    <2>1. Cardinality(CountedHandles(s)) # 0
      BY <1>1, <1>2, StructSetsFinite, FS_EmptySet
    <2> QED BY <1>1, <2>1, StructSetsFinite DEF CounterCountsHandles, StructTypeOK
  <1>6. life' = life /\ refcnt' = [refcnt EXCEPT ![s] = @ - 1]
    BY <1>1, <1>5 DEF LastUse, StructTypeOK
  <1>7. StructTypeOK'
    BY <1>1, <1>6 DEF StructTypeOK
  <1>8. OwnHandles' /\ CopiesHaveSource'
    BY DEF OwnHandles, CopiesHaveSource, StructTypeOK
  <1>9. CounterCountsHandles'
    <2>1. ASSUME NEW x \in Structs PROVE refcnt'[x] >= Cardinality(CountedHandles(x)')
      <3>1. CASE x = s
        BY <1>4, <1>6, <3>1, StructSetsFinite DEF CounterCountsHandles, StructTypeOK
      <3>2. CASE x # s
        <4>1. CountedHandles(x)' = CountedHandles(x)
          BY <1>3, <3>2
        <4> QED BY <1>6, <3>2, <4>1 DEF CounterCountsHandles, StructTypeOK
      <3> QED BY <3>1, <3>2
    <2> QED BY <2>1 DEF CounterCountsHandles
  <1>10. UsedWhileShown'
    BY <1>6 DEF UsedWhileShown, Users
  <1>11. ASSUME NEW u \in StructThreads, structPc'[u] = "write"
         PROVE  Sharers(fdata[dst[u]])' = {dst'[u]}
    <2>1. u # t /\ structPc[u] = "write"
      BY <1>11 DEF StructTypeOK
    <2>2. dst[u] # dst[t] /\ Sharers(fdata[dst[u]]) = {dst[u]}
      BY <1>1, <2>1 DEF WriterIsAlone, OwnHandles
    <2>3. Sharers(fdata[dst[u]])' = Sharers(fdata[dst[u]]) \ {dst[t]}
      BY <1>1 DEF Sharers, Users, StructTypeOK
    <2> QED BY <2>2, <2>3
  <1> QED BY <1>7, <1>8, <1>9, <1>10, <1>11 DEF WriterIsAlone

LEMMA SetPointerKeeps ==
  ASSUME StructInv, NEW t \in StructThreads, SetPointer(t)
  PROVE  StructInv'
  <1> DEFINE s == IF src[t] = NoHandle THEN NoStruct ELSE fdata[src[t]]
  <1> USE DEF StructInv, SetPointer, StructGoto, structVars
  <1>1. /\ dst[t] \in StructHandles /\ owner[dst[t]] = t /\ s \in Structs \cup {NoStruct}
        /\ s # NoStruct => /\ src[t] \in StructHandles /\ owner[src[t]] = t
                           /\ src[t] # dst[t] /\ fdata[src[t]] = s
    BY DEF StructTypeOK, OwnHandles
  <1>2. StructTypeOK'
    BY <1>1 DEF StructTypeOK
  <1>3. OwnHandles'
    BY <1>1, SharedStructAssumption DEF OwnHandles, StructTypeOK
  <1>4. CopiesHaveSource'
    <2>1. ASSUME NEW u \in StructThreads, u # t, structPc[u] = "inc"
          PROVE  \E h \in StructHandles : owner[h] = u /\ h # dst[u] /\ fdata'[h] = fdata'[dst[u]]
      <3>1. PICK h \in StructHandles : owner[h] = u /\ h # dst[u] /\ fdata[h] = fdata[dst[u]]
        BY <2>1 DEF CopiesHaveSource
      <3>2. h # dst[t] /\ dst[u] # dst[t]
        BY <1>1, <2>1, <3>1 DEF OwnHandles
      <3> QED BY <3>1, <3>2 DEF StructTypeOK
    <2>2. s # NoStruct => fdata'[src[t]] = fdata'[dst[t]]
      BY <1>1 DEF StructTypeOK
    <2> QED BY <1>1, <2>1, <2>2 DEF CopiesHaveSource, StructTypeOK
  <1>5. \A x \in Structs : CountedHandles(x)' = CountedHandles(x)
    <2>1. \A h \in StructHandles \ {dst[t]} : fdata'[h] = fdata[h] /\ (OnTheWay(h)' <=> OnTheWay(h))
      BY <1>1 DEF OnTheWay, StructTypeOK
    <2>2. OnTheWay(dst[t])
      BY DEF OnTheWay
    <2>3. fdata'[dst[t]] = NoStruct \/ OnTheWay(dst[t])'
      BY <1>1 DEF OnTheWay, StructTypeOK
    <2> QED BY <2>1, <2>2, <2>3, SharedStructAssumption DEF CountedHandles, Users
  <1>6. CounterCountsHandles'
    BY <1>5 DEF CounterCountsHandles
  <1>7. UsedWhileShown'
    BY <1>1, SharedStructAssumption DEF UsedWhileShown, Users, StructTypeOK
  <1>8. ASSUME NEW u \in StructThreads, structPc'[u] = "write"
        PROVE  Sharers(fdata[dst[u]])' = {dst'[u]}
    <2>1. u # t /\ structPc[u] = "write" /\ dst[u] \in StructHandles /\ dst[u] # dst[t]
          /\ fdata[dst[u]] \in Structs
      BY <1>1, <1>8 DEF StructTypeOK, OwnHandles
    <2>2. fdata'[dst[u]] = fdata[dst[u]] /\ s # fdata[dst[u]]
      BY <1>1, <2>1, OthersAreElsewhere, SharedStructAssumption DEF StructTypeOK
    <2>3. Sharers(fdata[dst[u]])' = Sharers(fdata[dst[u]])
      BY <1>1, <2>1, <2>2 DEF Sharers, Users, StructTypeOK
    <2> QED BY <2>1, <2>3 DEF WriterIsAlone
  <1> QED BY <1>2, <1>3, <1>4, <1>6, <1>7, <1>8 DEF WriterIsAlone

LEMMA IncUseKeeps ==
  ASSUME StructInv, NEW t \in StructThreads, IncUse(t)
  PROVE  StructInv'
  <1> USE DEF StructInv, IncUse, StructGoto, Counted
  <1>1. PICK s \in Structs : s = fdata[dst[t]] /\ dst[t] \in StructHandles /\ owner[dst[t]] = t
    BY DEF StructTypeOK, OwnHandles
  <1>2. /\ CountedHandles(s)' = CountedHandles(s) \cup {dst[t]}
        /\ \A x \in Structs \ {s} : CountedHandles(x)' = CountedHandles(x)
    BY <1>1 DEF CountedHandles, Users, OnTheWay, StructTypeOK, OwnHandles
  <1>3. Cardinality(CountedHandles(s)') <= Cardinality(CountedHandles(s)) + 1
    <2>1. IsFiniteSet(CountedHandles(s)) /\ Cardinality(CountedHandles(s)) \in Nat
      BY StructSetsFinite
    <2>2. \/ Cardinality(CountedHandles(s) \cup {dst[t]}) = Cardinality(CountedHandles(s))
          \/ Cardinality(CountedHandles(s) \cup {dst[t]}) = Cardinality(CountedHandles(s)) + 1
      BY <2>1, FS_AddElement
    <2> QED BY <1>2, <2>1, <2>2
  <1>4. StructTypeOK'
    BY <1>1 DEF StructTypeOK
  <1>5. OwnHandles' /\ CopiesHaveSource'
    BY DEF OwnHandles, CopiesHaveSource, StructTypeOK
  <1>6. CounterCountsHandles'
    <2>1. ASSUME NEW x \in Structs PROVE refcnt'[x] >= Cardinality(CountedHandles(x)')
      <3>1. Cardinality(CountedHandles(s)') \in Nat
        <4>1. IsFiniteSet(CountedHandles(s) \cup {dst[t]})
          BY StructSetsFinite, FS_AddElement
        <4> QED BY <1>2, <4>1, FS_CardinalityType
      <3>2. CASE x = s
        BY <1>1, <1>3, <3>1, <3>2, StructSetsFinite DEF CounterCountsHandles, StructTypeOK
      <3>3. CASE x # s
        <4>1. CountedHandles(x)' = CountedHandles(x)
          BY <1>2, <3>3
        <4> QED BY <1>1, <3>3, <4>1 DEF CounterCountsHandles, StructTypeOK
      <3> QED BY <3>2, <3>3
    <2> QED BY <2>1 DEF CounterCountsHandles
  <1>7. UsedWhileShown'
    BY DEF UsedWhileShown, Users
  <1>8. WriterIsAlone'
    BY DEF WriterIsAlone, Sharers, Users, StructTypeOK
  <1> QED BY <1>4, <1>5, <1>6, <1>7, <1>8

LEMMA CloneKeeps ==
  ASSUME StructInv, NEW t \in StructThreads, Clone(t)
  PROVE  StructInv'
  <1> USE DEF StructInv, Clone, StructGoto
  <1>1. PICK s \in Structs :
          /\ life[s] = "new"
          /\ life' = [life EXCEPT ![s] = "used"] /\ refcnt' = [refcnt EXCEPT ![s] = 1]
          /\ value' = [value EXCEPT ![s] = IF fdata[dst[t]] = NoStruct THEN @ ELSE value[fdata[dst[t]]]]
          /\ fdata' = [fdata EXCEPT ![dst[t]] = s]
    BY DEF Clone
  <1>2. dst[t] \in StructHandles /\ owner[dst[t]] = t /\ Users(s) = {}
    BY <1>1 DEF OwnHandles, UsedWhileShown
  <1>3. StructTypeOK'
    BY <1>1, <1>2 DEF StructTypeOK
  <1>4. OwnHandles'
    BY <1>1, <1>2, SharedStructAssumption DEF OwnHandles, StructTypeOK
  <1>5. CopiesHaveSource'
    <2>1. ASSUME NEW u \in StructThreads, u # t, structPc[u] = "inc"
          PROVE  \E h \in StructHandles : owner[h] = u /\ h # dst[u] /\ fdata'[h] = fdata'[dst[u]]
      <3>1. PICK h \in StructHandles : owner[h] = u /\ h # dst[u] /\ fdata[h] = fdata[dst[u]]
        BY <2>1 DEF CopiesHaveSource
      <3>2. h # dst[t] /\ dst[u] # dst[t]
        BY <1>2, <2>1, <3>1 DEF OwnHandles
      <3> QED BY <1>1, <3>1, <3>2 DEF StructTypeOK
    <2> QED BY <2>1 DEF CopiesHaveSource, StructTypeOK
  <1>6. /\ CountedHandles(s)' \subseteq {dst[t]}
        /\ \A x \in Structs \ {s} : CountedHandles(x)' \subseteq CountedHandles(x)
    BY <1>1, <1>2 DEF CountedHandles, Users, OnTheWay, StructTypeOK
  <1>7. CounterCountsHandles'
    <2>1. Cardinality(CountedHandles(s)') <= 1 /\ Cardinality(CountedHandles(s)') \in Nat
      <3>1. IsFiniteSet({dst[t]}) /\ Cardinality({dst[t]}) = 1
        BY FS_Singleton
      <3>2. IsFiniteSet(CountedHandles(s)') /\ Cardinality(CountedHandles(s)') <= Cardinality({dst[t]})
        BY <1>6, <3>1, FS_Subset
      <3>3. Cardinality(CountedHandles(s)') \in Nat
        BY <3>2, FS_CardinalityType
      <3> QED BY <3>1, <3>2, <3>3
    <2>2. \A x \in Structs \ {s} : Cardinality(CountedHandles(x)') <= Cardinality(CountedHandles(x))
                                   /\ Cardinality(CountedHandles(x)') \in Nat
      BY <1>6, StructSetsFinite, FS_Subset, FS_CardinalityType
    <2> QED BY <1>1, <2>1, <2>2, StructSetsFinite DEF CounterCountsHandles, StructTypeOK
  <1>8. UsedWhileShown'
    BY <1>1, <1>2 DEF UsedWhileShown, Users, StructTypeOK
  <1>9. ASSUME NEW u \in StructThreads, structPc'[u] = "write"
        PROVE  Sharers(fdata[dst[u]])' = {dst'[u]}
    <2>1. CASE u = t
      <3>1. fdata'[dst[t]] = s /\ dst'[t] = dst[t]
        BY <1>1, <1>2 DEF StructTypeOK
      <3>2. Users(s)' = {dst[t]}
        BY <1>1, <1>2 DEF Users, StructTypeOK
      <3>3. ~ \E v \in StructThreads : structPc'[v] = "set" /\ dst'[v] = dst[t]
        BY <1>2 DEF OwnHandles, StructTypeOK
      <3> QED BY <2>1, <3>1, <3>2, <3>3 DEF Sharers
    <2>2. CASE u # t
      <3>1. structPc[u] = "write" /\ dst[u] \in StructHandles /\ dst[u] # dst[t]
            /\ fdata[dst[u]] \in Structs /\ dst[u] \in Users(fdata[dst[u]])
        BY <1>2, <1>9, <2>2 DEF StructTypeOK, OwnHandles, Users
      <3>2. fdata'[dst[u]] = fdata[dst[u]] /\ fdata[dst[u]] # s /\ fdata[dst[u]] # fdata[dst[t]]
        BY <1>1, <1>2, <2>2, <3>1, OthersAreElsewhere DEF StructTypeOK
      <3>3. Sharers(fdata[dst[u]])' = Sharers(fdata[dst[u]])
        BY <1>1, <1>2, <3>1, <3>2 DEF Sharers, Users, StructTypeOK
      <3> QED BY <3>1, <3>3 DEF WriterIsAlone
    <2> QED BY <2>1, <2>2
  <1> QED BY <1>3, <1>4, <1>5, <1>7, <1>8, <1>9 DEF WriterIsAlone

LEMMA WriteValueKeeps ==
  ASSUME StructInv, NEW t \in StructThreads, WriteValue(t)
  PROVE  StructInv'
  <1> USE DEF StructInv, WriteValue, StructGoto
  <1>1. StructTypeOK'
    BY DEF StructTypeOK, OwnHandles
  <1>2. OwnHandles' /\ CopiesHaveSource'
    BY DEF OwnHandles, CopiesHaveSource, StructTypeOK
  <1>3. \A x \in Structs : CountedHandles(x)' = CountedHandles(x)
    BY DEF CountedHandles, Users, OnTheWay, StructTypeOK
  <1>4. CounterCountsHandles' /\ UsedWhileShown'
    BY <1>3 DEF CounterCountsHandles, UsedWhileShown, Users
  <1>5. WriterIsAlone'
    BY DEF WriterIsAlone, Sharers, Users, StructTypeOK
  <1> QED BY <1>1, <1>2, <1>4, <1>5

LEMMA StructInvNext == StructInv /\ [StructNext]_sharedVars => StructInv'
  <1> SUFFICES ASSUME StructInv, [StructNext]_sharedVars PROVE StructInv'
    OBVIOUS
  <1>1. ASSUME NEW t \in StructThreads, NEW d \in StructHandles, NEW s \in StructHandles,
               owner[d] = t, owner[s] = t, CopyConstruct(t, d, s)
        PROVE  StructInv'
    BY <1>1, CopyConstructKeeps
  <1>2. ASSUME NEW t \in StructThreads, NEW d \in StructHandles, NEW s \in StructHandles,
               owner[d] = t, owner[s] = t, Assign(t, d, s)
        PROVE  StructInv'
    BY <1>2, BeginKeeps DEF Assign
  <1>3. ASSUME NEW t \in StructThreads, NEW d \in StructHandles, owner[d] = t, Clear(t, d)
        PROVE  StructInv'
    BY <1>3, BeginKeeps DEF Clear
  <1>4. ASSUME NEW t \in StructThreads, NEW d \in StructHandles, owner[d] = t, Write(t, d)
        PROVE  StructInv'
    BY <1>4, BeginKeeps, UniqueIsAlone DEF Write, BeginStructCall
  <1>5. ASSUME NEW t \in StructThreads,
               DecUse(t) \/ SetPointer(t) \/ IncUse(t) \/ Clone(t) \/ WriteValue(t)
        PROVE  StructInv'
    BY <1>5, DecUseKeeps, SetPointerKeeps, IncUseKeeps, CloneKeeps, WriteValueKeeps
  <1>6. CASE UNCHANGED sharedVars
    BY <1>6 DEF sharedVars, structVars, StructInv, StructTypeOK, OwnHandles, CopiesHaveSource,
                CounterCountsHandles, UsedWhileShown, WriterIsAlone,
                Users, Sharers, CountedHandles, OnTheWay
  <1> QED BY <1>1, <1>2, <1>3, <1>4, <1>5, <1>6 DEF StructNext

-----------------------------------------------------------------------------
(***************************************************************************)
(* The theorems.                                                           *)
(***************************************************************************)
LEMMA StructInvariant == StructSpec => []StructInv
  BY StructInvInit, StructInvNext, PTL DEF StructSpec

\* No handle is left without its structure: the counter covers the handles whatever the
\* threads do, so that _decuse frees none (rc_base_struct).
THEOREM CounterCorrect == StructSpec => []CounterCovers
  <1>1. StructInv => CounterCovers
    <2> SUFFICES ASSUME StructInv, NEW s \in Structs
                 PROVE  /\ refcnt[s] + Cardinality(Uncounted(s)) >= Cardinality(Users(s))
                        /\ Users(s) # {} => life[s] = "used"
      BY DEF CounterCovers
    <2>1. refcnt[s] \in Int /\ refcnt[s] >= Cardinality(CountedHandles(s))
      BY DEF StructInv, StructTypeOK, CounterCountsHandles
    <2>2. Cardinality(Users(s)) = Cardinality(CountedHandles(s)) + Cardinality(Uncounted(s))
      BY CountedAndUncounted DEF StructInv
    <2>3. Users(s) # {} => life[s] = "used"
      BY DEF StructInv, UsedWhileShown
    <2> QED BY <2>1, <2>2, <2>3, StructSetsFinite
  <1> QED BY <1>1, StructInvariant, PTL

\* Writing in place through a handle shows in no other one (operator = with makeunique).
THEOREM WritesOwnCorrect == StructSpec => WritesOwn
  <1> DEFINE A == \A s \in Structs : life[s] = "used" /\ value'[s] # value[s] => Cardinality(Sharers(s)) = 1
  <1>1. StructInv /\ [StructNext]_sharedVars => [A]_sharedVars
    <2> SUFFICES ASSUME StructInv, StructNext PROVE A
      OBVIOUS
    <2>1. ASSUME NEW t \in StructThreads, Clone(t) PROVE A
      BY <2>1 DEF Clone, StructInv, StructTypeOK
    <2>2. ASSUME NEW t \in StructThreads, WriteValue(t) PROVE A
      <3>1. dst[t] \in StructHandles /\ Sharers(fdata[dst[t]]) = {dst[t]}
        BY <2>2 DEF WriteValue, StructInv, OwnHandles, WriterIsAlone
      <3>2. Cardinality(Sharers(fdata[dst[t]])) = 1
        BY <3>1, FS_Singleton
      <3>3. \A s \in Structs : s # fdata[dst[t]] => value'[s] = value[s]
        BY <2>2 DEF WriteValue, StructInv, StructTypeOK
      <3> QED BY <3>2, <3>3
    <2>3. CASE value' = value
      BY <2>3
    <2> QED BY <2>1, <2>2, <2>3 DEF StructNext, CopyConstruct, Assign, Clear, Write,
                                    DecUse, SetPointer, IncUse, structVars
  <1> QED BY <1>1, StructInvariant, PTL DEF StructSpec, WritesOwn

=============================================================================
