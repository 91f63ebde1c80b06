---------------------------- MODULE BinMap_proofs ----------------------------
EXTENDS BinMap, FiniteSetTheorems, SequenceTheorems, WellFoundedInduction, TLAPS

LEMMA LeastNumber ==
  ASSUME NEW T, T \subseteq Nat, T # {}
  PROVE  \E m \in T : \A k \in T : m <= k
  <1>1. PICK R : R = OpToRel(<, Nat)
    OBVIOUS
  <1>2. IsWellFoundedOn(R, Nat)
    BY <1>1, NatLessThanWellFounded
  <1>3. PICK m \in T : \A k \in T : ~(<<k, m>> \in R)
    BY <1>2, WFMin
  <1>4. ASSUME NEW k \in T PROVE m <= k
    <2>1. <<k, m>> \notin R
      BY <1>3
    <2>2. ~(k < m)
      BY <1>1, <2>1 DEF OpToRel
    <2> QED BY <2>2
  <1> QED BY <1>4

LEMMA Induction ==
  ASSUME NEW n \in Nat, NEW G, 0 \in G, \A i \in 0 .. n - 1 : i \in G => i + 1 \in G
  PROVE  \A i \in 0 .. n : i \in G
  <1>1. PICK T : T = {i \in 0 .. n : i \notin G}
    OBVIOUS
  <1>2. ASSUME T # {} PROVE FALSE
    <2>1. PICK m \in T : \A k \in T : m <= k
      BY <1>1, <1>2, LeastNumber
    <2>2. m \in Nat /\ m # 0 /\ m <= n /\ m \notin G
      BY <1>1
    <2>3. m - 1 \notin T /\ m - 1 \in 0 .. n - 1
      BY <2>1, <2>2
    <2>4. m - 1 \in G
      BY <1>1, <2>3
    <2>5. (m - 1) + 1 \in G
      BY <2>3, <2>4
    <2> QED BY <2>2, <2>5
  <1> QED BY <1>1, <1>2

\* A recursion over the numbers up to n has a solution.
Solves(f, n, a, step) ==
  f[0] = a /\ \A i \in 1 .. n : f[i] = step[<<i, f[i - 1]>>]
LEMMA Recursion ==
  ASSUME NEW n \in Nat, NEW S, NEW a \in S, NEW step \in [(1 .. n) \X S -> S]
  PROVE  \E f \in [0 .. n -> S] : Solves(f, n, a, step)
  <1>1. PICK G : G = {k \in 0 .. n : \E f \in [0 .. k -> S] : Solves(f, k, a, step)}
    OBVIOUS
  <1>2. 0 \in G
    <2>1. PICK f : f = [i \in 0 .. 0 |-> a]
      OBVIOUS
    <2>2. f \in [0 .. 0 -> S] /\ Solves(f, 0, a, step)
      BY <2>1 DEF Solves
    <2> QED BY <1>1, <2>2
  <1>3. ASSUME NEW k \in 0 .. n - 1, k \in G PROVE k + 1 \in G
    <2>1. PICK f \in [0 .. k -> S] : Solves(f, k, a, step)
      BY <1>1, <1>3
    <2>2. PICK g : g = [i \in 0 .. k + 1 |-> IF i = k + 1 THEN step[<<k + 1, f[k]>>] ELSE f[i]]
      OBVIOUS
    <2>3. step[<<k + 1, f[k]>>] \in S
      OBVIOUS
    <2>4. g \in [0 .. k + 1 -> S]
      BY <2>2, <2>3
    <2>5. g[k + 1] = step[<<k + 1, f[k]>>] /\ \A i \in 0 .. k : g[i] = f[i]
      BY <2>2
    <2>6. Solves(g, k + 1, a, step)
      <3>1. g[0] = a
        BY <2>1, <2>5 DEF Solves
      <3>2. ASSUME NEW i \in 1 .. k PROVE g[i] = step[<<i, g[i - 1]>>]
        <4>1. i \in 0 .. k /\ i - 1 \in 0 .. k
          OBVIOUS
        <4>2. g[i] = f[i] /\ g[i - 1] = f[i - 1]
          BY <2>5, <4>1
        <4>3. f[i] = step[<<i, f[i - 1]>>]
          BY <2>1 DEF Solves
        <4> QED BY <4>2, <4>3
      <3>3. g[k + 1] = step[<<k + 1, g[(k + 1) - 1]>>]
        <4>1. (k + 1) - 1 = k /\ k \in 0 .. k
          OBVIOUS
        <4>2. g[(k + 1) - 1] = f[k]
          BY <2>5, <4>1
        <4> QED BY <2>5, <4>2
      <3>4. \A i \in 1 .. k + 1 : i \in 1 .. k \/ i = k + 1
        OBVIOUS
      <3> QED BY <3>1, <3>2, <3>3, <3>4 DEF Solves
    <2> QED BY <1>1, <2>4, <2>6
  <1>4. n \in G
    BY <1>2, <1>3, Induction
  <1> QED BY <1>1, <1>4

-----------------------------------------------------------------------------
(* Ranges and lists of them. *)

Ranges == [start : Nat, sz : Nat]
Apart(l) == \A i, j \in DOMAIN l : i < j => EndOf(l[i]) < l[j].start

LEMMA RangeIs ==
  ASSUME NEW r \in Ranges
  PROVE  /\ r.start \in Nat /\ r.sz \in Nat /\ EndOf(r) \in Nat /\ r.start <= EndOf(r)
         /\ \A p : p \in Numbers(r) <=> p \in Nat /\ r.start <= p /\ p < EndOf(r)
  <1>1. r.start \in Nat /\ r.sz \in Nat
    BY DEF Ranges
  <1>2. EndOf(r) = r.start + r.sz
    BY DEF EndOf
  <1>3. PICK s \in Nat, e \in Nat : s = r.start /\ e = EndOf(r) /\ s <= e
    BY <1>1, <1>2
  <1>4. Numbers(r) = s .. e - 1
    BY <1>3 DEF Numbers
  <1> QED BY <1>1, <1>3, <1>4

LEMMA RangeMade ==
  ASSUME NEW s \in Nat, NEW e \in Nat, s <= e
  PROVE  cRange(s, e - s) \in Ranges /\ cRange(s, e - s).start = s /\ EndOf(cRange(s, e - s)) = e
  <1>1. cRange(s, e - s) = [start |-> s, sz |-> e - s]
    BY DEF cRange
  <1>2. e - s \in Nat /\ s + (e - s) = e
    OBVIOUS
  <1> QED BY <1>1, <1>2 DEF Ranges, EndOf

LEMMA Least2 ==
  ASSUME NEW a \in Nat, NEW b \in Nat
  PROVE  /\ Min({a, b}) = (IF a <= b THEN a ELSE b)
         /\ Max({a, b}) = (IF a <= b THEN b ELSE a)
  BY DEF Min, Max

\* Ranges that touch are joined without a number between them.
LEMMA Union ==
  ASSUME NEW q \in Ranges, NEW r \in Ranges
  PROVE  /\ dounion(q, r) \in Ranges
         /\ dounion(q, r).start = (IF q.start <= r.start THEN q.start ELSE r.start)
         /\ EndOf(dounion(q, r)) = (IF EndOf(q) <= EndOf(r) THEN EndOf(r) ELSE EndOf(q))
         /\ isintersectWP(q, r) => Numbers(dounion(q, r)) = Numbers(q) \cup Numbers(r)
  <1>1. PICK qs \in Nat, qe \in Nat, rs \in Nat, re \in Nat :
          qs = q.start /\ qe = EndOf(q) /\ rs = r.start /\ re = EndOf(r) /\ qs <= qe /\ rs <= re
    BY RangeIs
  <1>2. PICK l \in Nat, h \in Nat : l = (IF qs <= rs THEN qs ELSE rs) /\ h = (IF qe <= re THEN re ELSE qe)
    BY <1>1
  <1>3. l <= h
    BY <1>1, <1>2
  <1>4. Min({q.start, r.start}) = l /\ Max({EndOf(q), EndOf(r)}) = h
    BY <1>1, <1>2, Least2
  <1>5. PICK u : u = dounion(q, r)
    OBVIOUS
  <1>6. u = cRange(l, h - l)
    BY <1>4, <1>5 DEF dounion
  <1>7. u \in Ranges /\ u.start = l /\ EndOf(u) = h
    BY <1>3, <1>6, RangeMade
  <1>8. ASSUME isintersectWP(q, r) PROVE Numbers(u) = Numbers(q) \cup Numbers(r)
    <2>1. (rs >= qs /\ rs <= qe) \/ (qs >= rs /\ qs <= re)
      BY <1>1, <1>8 DEF isintersectWP, isintersectWHP
    <2>2. \A p \in Nat : (l <= p /\ p < h) <=> (qs <= p /\ p < qe) \/ (rs <= p /\ p < re)
      BY <1>1, <1>2, <2>1
    <2>3. \A p : p \in Numbers(u) <=> p \in Nat /\ l <= p /\ p < h
      BY <1>7, RangeIs
    <2>4. \A p : p \in Numbers(q) <=> p \in Nat /\ qs <= p /\ p < qe
      BY <1>1, RangeIs
    <2>5. \A p : p \in Numbers(r) <=> p \in Nat /\ rs <= p /\ p < re
      BY <1>1, RangeIs
    <2> QED BY <2>2, <2>3, <2>4, <2>5
  <1> QED BY <1>1, <1>2, <1>5, <1>7, <1>8

\* Ranges touch when neither ends before the other begins.
LEMMA Touching ==
  ASSUME NEW q \in Ranges, NEW r \in Ranges
  PROVE  /\ isintersectWP(q, r) <=> ~(EndOf(q) < r.start) /\ ~(EndOf(r) < q.start)
         /\ isintersectWP(q, r) <=> isintersectWP(r, q)
  <1>1. PICK qs \in Nat, qe \in Nat, rs \in Nat, re \in Nat :
          qs = q.start /\ qe = EndOf(q) /\ rs = r.start /\ re = EndOf(r) /\ qs <= qe /\ rs <= re
    BY RangeIs
  <1> QED BY <1>1 DEF isintersectWP, isintersectWHP

LEMMA ListIs ==
  ASSUME NEW l \in Seq(Ranges)
  PROVE  /\ Len(l) \in Nat /\ DOMAIN l = 1 .. Len(l)
         /\ \A i \in 1 .. Len(l) : l[i] \in Ranges
         /\ \A p : p \in NumbersOf(l) <=> \E i \in 1 .. Len(l) : p \in Numbers(l[i])
  <1>1. Len(l) \in Nat /\ DOMAIN l = 1 .. Len(l) /\ \A i \in 1 .. Len(l) : l[i] \in Ranges
    BY LenProperties, ElementOfSeq
  <1> QED BY <1>1 DEF NumbersOf

LEMMA EmptyHasNone ==
  ASSUME NEW l \in Seq(Ranges), Len(l) = 0
  PROVE  NumbersOf(l) = {}
  <1>1. 1 .. Len(l) = {}
    OBVIOUS
  <1>2. \A p : p \notin NumbersOf(l)
    BY <1>1, ListIs
  <1> QED BY <1>2

LEMMA AppendHas ==
  ASSUME NEW l \in Seq(Ranges), NEW r \in Ranges
  PROVE  Append(l, r) \in Seq(Ranges) /\ NumbersOf(Append(l, r)) = NumbersOf(l) \cup Numbers(r)
  <1>1. PICK len \in Nat : len = Len(l)
    BY ListIs
  <1>2. PICK m : m = Append(l, r)
    OBVIOUS
  <1>3. m \in Seq(Ranges) /\ Len(m) = len + 1 /\ (\A i \in 1 .. len : m[i] = l[i]) /\ m[len + 1] = r
    BY <1>1, <1>2, AppendProperties
  <1>4. \A p : p \in NumbersOf(m) <=> \E i \in 1 .. len + 1 : p \in Numbers(m[i])
    BY <1>3, ListIs
  <1>5. \A p : p \in NumbersOf(l) <=> \E i \in 1 .. len : p \in Numbers(l[i])
    BY <1>1, ListIs
  <1>6. \A i : i \in 1 .. len + 1 <=> i \in 1 .. len \/ i = len + 1
    BY <1>1
  <1>7. \A p : p \in NumbersOf(m) <=> p \in NumbersOf(l) \/ p \in Numbers(r)
    BY <1>3, <1>4, <1>5, <1>6
  <1> QED BY <1>2, <1>3, <1>7

\* A list whose elements are given, is a list.
LEMMA ListMade ==
  ASSUME NEW n \in Nat, NEW l, l = [i \in 1 .. n |-> l[i]], \A i \in 1 .. n : l[i] \in Ranges
  PROVE  l \in Seq(Ranges) /\ Len(l) = n
  <1>1. l \in [1 .. n -> Ranges]
    OBVIOUS
  <1>2. l \in Seq(Ranges)
    BY <1>1, SeqDef
  <1> QED BY <1>1, <1>2, LenProperties

LEMMA FrontIs ==
  ASSUME NEW l \in Seq(Ranges), NEW c \in Int, 0 <= c, c <= Len(l)
  PROVE  SubSeq(l, 1, c) \in Seq(Ranges) /\ Len(SubSeq(l, 1, c)) = c
         /\ \A i \in 1 .. c : SubSeq(l, 1, c)[i] = l[i]
  <1>1. Len(l) \in Nat /\ \A i \in 1 .. c : l[i] \in Ranges
    BY ListIs
  <1>2. PICK u : u = SubSeq(l, 1, c)
    OBVIOUS
  <1>3. /\ u \in Seq(Ranges) /\ Len(u) = (IF 1 <= c THEN c - 1 + 1 ELSE 0)
        /\ \A i \in 1 .. c - 1 + 1 : u[i] = l[1 + i - 1]
    BY <1>1, <1>2, SubSeqProperties
  <1>4. Len(u) = c /\ \A i \in 1 .. c : u[i] = l[i]
    BY <1>3
  <1> QED BY <1>2, <1>3, <1>4

LEMMA BackIs ==
  ASSUME NEW l \in Seq(Ranges), NEW c \in 1 .. Len(l) + 1
  PROVE  SubSeq(l, c, Len(l)) \in Seq(Ranges) /\ Len(SubSeq(l, c, Len(l))) = (Len(l) + 1) - c
         /\ \A i \in 1 .. (Len(l) + 1) - c : SubSeq(l, c, Len(l))[i] = l[(c + i) - 1]
  <1>a. PICK e \in Nat : e = Len(l) /\ 1 <= c /\ c <= e + 1
    BY ListIs
  <1>b. PICK v : v = SubSeq(l, c, e)
    OBVIOUS
  <1>1. e = Len(l) /\ v = SubSeq(l, c, e) /\ 1 <= c /\ c <= e + 1
    BY <1>a, <1>b
  <1>2. \A i \in c .. e : l[i] \in Ranges
    BY <1>1, ListIs
  <1>3. /\ v \in Seq(Ranges) /\ Len(v) = (IF c <= e THEN e - c + 1 ELSE 0)
        /\ \A i \in 1 .. e - c + 1 : v[i] = l[c + i - 1]
    BY <1>1, <1>2, SubSeqProperties
  <1>4. Len(v) = (e + 1) - c
    BY <1>1, <1>3
  <1>5. ASSUME NEW i \in 1 .. (e + 1) - c PROVE v[i] = l[(c + i) - 1]
    <2>1. i \in 1 .. e - c + 1 /\ c + i - 1 = (c + i) - 1
      BY <1>1
    <2> QED BY <1>3, <2>1
  <1> QED BY <1>1, <1>3, <1>4, <1>5

\* Two lists behind each other.
LEMMA BehindIs ==
  ASSUME NEW u \in Seq(Ranges), NEW v \in Seq(Ranges), NEW a \in Nat, a = Len(u)
  PROVE  /\ u \o v \in Seq(Ranges) /\ Len(u \o v) = a + Len(v)
         /\ \A i \in 1 .. a + Len(v) : (u \o v)[i] = IF i <= a THEN u[i] ELSE v[i - a]
  BY ConcatProperties

LEMMA DeletedIs ==
  ASSUME NEW l \in Seq(Ranges), NEW a \in 1 .. Len(l) + 1, NEW n \in Nat, a + n <= Len(l) + 1
  PROVE  /\ Deleted(l, a, n) \in Seq(Ranges) /\ Len(Deleted(l, a, n)) = Len(l) - n
         /\ \A i \in 1 .. Len(l) - n : Deleted(l, a, n)[i] = IF i < a THEN l[i] ELSE l[i + n]
  <1>1. PICK len \in Nat, b \in Nat, c \in Nat : len = Len(l) /\ b = a - 1 /\ c = a + n
                 /\ 1 <= c /\ c <= len + 1 /\ b <= len
    BY ListIs
  <1>2. PICK u, v : u = SubSeq(l, 1, b) /\ v = SubSeq(l, c, len)
    OBVIOUS
  <1>3. u \in Seq(Ranges) /\ Len(u) = b /\ \A i \in 1 .. b : u[i] = l[i]
    BY <1>1, <1>2, FrontIs
  <1>4. c \in 1 .. Len(l) + 1
    BY <1>1
  <1>5. v \in Seq(Ranges) /\ Len(v) = (len + 1) - c /\ \A i \in 1 .. (len + 1) - c : v[i] = l[(c + i) - 1]
    BY <1>1, <1>2, <1>4, BackIs
  <1>6. PICK w : w = Deleted(l, a, n)
    OBVIOUS
  <1>7. w = u \o v
    BY <1>1, <1>2, <1>6 DEF Deleted
  <1>a. (len + 1) - c \in Nat /\ b + ((len + 1) - c) = len - n
    BY <1>1
  <1>8. PICK m \in Nat : m = Len(v) /\ m = (len + 1) - c /\ b + m = len - n
    BY <1>5, <1>a
  <1>b. /\ u \o v \in Seq(Ranges) /\ Len(u \o v) = b + Len(v)
        /\ \A i \in 1 .. b + Len(v) : (u \o v)[i] = IF i <= b THEN u[i] ELSE v[i - b]
    <2>1. u \in Seq(Ranges) /\ v \in Seq(Ranges) /\ b = Len(u)
      BY <1>3, <1>5
    <2> QED BY <2>1, BehindIs
  <1>9. /\ w \in Seq(Ranges) /\ Len(w) = b + m
        /\ \A i \in 1 .. b + m : w[i] = IF i <= b THEN u[i] ELSE v[i - b]
    BY <1>7, <1>8, <1>b
  <1>10. ASSUME NEW i \in 1 .. len - n PROVE w[i] = IF i < a THEN l[i] ELSE l[i + n]
    <2>1. CASE i < a
      <3>1. i \in 1 .. b /\ i \in 1 .. b + m /\ i <= b
        BY <1>1, <1>8, <2>1
      <3> QED BY <1>3, <1>9, <2>1, <3>1
    <2>2. CASE ~(i < a)
      <3>1. PICK k \in 1 .. m : k = i - b /\ (c + k) - 1 = i + n
        BY <1>1, <1>8, <2>2
      <3>2. w[i] = v[k]
        BY <1>1, <1>8, <1>9, <2>2, <3>1
      <3>3. v[k] = l[(c + k) - 1]
        BY <1>5, <1>8, <3>1
      <3> QED BY <2>2, <3>1, <3>2, <3>3
    <2> QED BY <2>1, <2>2
  <1> QED BY <1>1, <1>6, <1>8, <1>9, <1>10

-----------------------------------------------------------------------------
(* Every way addrange stores its range is one replacement in the list: the *)
(* n ranges from a on leave their places to u.                             *)

Replaced(m, l, a, n, u) ==
  /\ m \in Seq(Ranges) /\ Len(m) = (Len(l) - n) + 1
  /\ \A i \in 1 .. Len(m) :
       m[i] = IF i < a THEN l[i] ELSE IF i = a THEN u ELSE l[(i + n) - 1]

LEMMA JoinedReplaces ==
  ASSUME NEW l \in Seq(Ranges), NEW r \in Ranges,
         NEW a \in 1 .. Len(l), NEW n \in Nat, 1 <= n, a + n <= Len(l) + 1
  PROVE  Replaced(Joined(l, a, n, r), l, a, n, dounion(l[(a + n) - 1], r))
  <1>1. PICK len \in Nat, b \in Nat, k \in Nat, z \in Nat :
          len = Len(l) /\ b = a + 1 /\ k = n - 1 /\ z = (a + n) - 1 /\ z = a + n - 1 /\ 1 <= z /\ z <= len
    BY ListIs
  <1>2. b \in 1 .. Len(l) + 1 /\ b + k <= Len(l) + 1
    BY <1>1
  <1>3. PICK d : d = Deleted(l, b, k)
    OBVIOUS
  <1>a. /\ d \in Seq(Ranges) /\ Len(d) = Len(l) - k
        /\ \A i \in 1 .. Len(l) - k : d[i] = IF i < b THEN l[i] ELSE l[i + k]
    BY <1>2, <1>3, DeletedIs
  <1>4. d \in Seq(Ranges) /\ Len(d) = len - k /\ \A i \in 1 .. len - k : d[i] = IF i < b THEN l[i] ELSE l[i + k]
    BY <1>1, <1>a
  <1>5. PICK u \in Ranges : u = dounion(l[z], r)
    BY <1>1, ListIs, Union
  <1>6. PICK m : m = Joined(l, a, n, r)
    OBVIOUS
  <1>7. m = [d EXCEPT ![a] = u]
    BY <1>1, <1>3, <1>5, <1>6 DEF Joined
  <1>8. a \in 1 .. Len(d)
    BY <1>1, <1>4
  <1>9. m \in Seq(Ranges) /\ Len(m) = Len(d) /\ \A i \in 1 .. Len(d) : m[i] = IF i = a THEN u ELSE d[i]
    BY <1>4, <1>7, <1>8, ExceptSeq
  <1>10. len - k = (len - n) + 1
    BY <1>1
  <1>11. ASSUME NEW i \in 1 .. Len(m)
         PROVE  m[i] = IF i < a THEN l[i] ELSE IF i = a THEN u ELSE l[(i + n) - 1]
    <2>1. i \in 1 .. len - k
      BY <1>4, <1>9
    <2>2. (i < b <=> i <= a) /\ i + k = (i + n) - 1
      BY <1>1, <2>1
    <2>3. m[i] = IF i = a THEN u ELSE IF i <= a THEN l[i] ELSE l[(i + n) - 1]
      BY <1>4, <1>9, <2>1, <2>2
    <2> QED BY <2>1, <2>3
  <1> QED BY <1>1, <1>4, <1>5, <1>6, <1>9, <1>10, <1>11 DEF Replaced

LEMMA ExceptReplaces ==
  ASSUME NEW l \in Seq(Ranges), NEW u \in Ranges, NEW a \in 1 .. Len(l)
  PROVE  Replaced([l EXCEPT ![a] = u], l, a, 1, u)
  <1>1. Len(l) \in Nat
    BY ListIs
  <1>2. PICK m : m = [l EXCEPT ![a] = u]
    OBVIOUS
  <1>3. m \in Seq(Ranges) /\ Len(m) = Len(l) /\ \A i \in 1 .. Len(l) : m[i] = IF i = a THEN u ELSE l[i]
    BY <1>2, ExceptSeq
  <1>4. \A i \in 1 .. Len(l) : (i + 1) - 1 = i
    BY <1>1
  <1> QED BY <1>1, <1>2, <1>3, <1>4 DEF Replaced

LEMMA AppendReplaces ==
  ASSUME NEW l \in Seq(Ranges), NEW r \in Ranges
  PROVE  Replaced(Append(l, r), l, Len(l) + 1, 0, r)
  <1>1. Len(l) \in Nat
    BY ListIs
  <1>2. PICK m : m = Append(l, r)
    OBVIOUS
  <1>3. /\ m \in Seq(Ranges) /\ Len(m) = Len(l) + 1 /\ \A i \in 1 .. Len(l) : m[i] = l[i]
        /\ m[Len(l) + 1] = r
    BY <1>2, AppendProperties
  <1>4. (Len(l) - 0) + 1 = Len(l) + 1
    BY <1>1
  <1>5. ASSUME NEW i \in 1 .. Len(m)
        PROVE  m[i] = IF i < Len(l) + 1 THEN l[i] ELSE IF i = Len(l) + 1 THEN r ELSE l[(i + 0) - 1]
    BY <1>1, <1>3
  <1> QED BY <1>2, <1>3, <1>4, <1>5 DEF Replaced

LEMMA InsertReplaces ==
  ASSUME NEW l \in Seq(Ranges), NEW r \in Ranges, NEW a \in 1 .. Len(l)
  PROVE  Replaced(InsertAt(l, a, r), l, a, 0, r)
  <1>1. PICK len \in Nat, b \in Nat : len = Len(l) /\ b = a - 1 /\ b <= len /\ a <= len
    BY ListIs
  <1>2. PICK u, v, o, w, m : u = SubSeq(l, 1, b) /\ v = SubSeq(l, a, len) /\ o = <<r>> /\ w = u \o o
          /\ m = InsertAt(l, a, r)
    OBVIOUS
  <1>3. u \in Seq(Ranges) /\ Len(u) = b /\ \A i \in 1 .. b : u[i] = l[i]
    BY <1>1, <1>2, FrontIs
  <1>4. a \in 1 .. Len(l) + 1
    BY <1>1
  <1>5. v \in Seq(Ranges) /\ Len(v) = (len + 1) - a /\ \A i \in 1 .. (len + 1) - a : v[i] = l[(a + i) - 1]
    BY <1>1, <1>2, <1>4, BackIs
  <1>6. o \in Seq(Ranges) /\ Len(o) = 1 /\ o[1] = r
    BY <1>2
  <1>7. b + 1 = a
    BY <1>1
  <1>8. w \in Seq(Ranges) /\ Len(w) = a /\ \A i \in 1 .. a : w[i] = IF i <= b THEN u[i] ELSE o[i - b]
    <2>1. /\ u \o o \in Seq(Ranges) /\ Len(u \o o) = b + Len(o)
          /\ \A i \in 1 .. b + Len(o) : (u \o o)[i] = IF i <= b THEN u[i] ELSE o[i - b]
      BY <1>3, <1>6, BehindIs
    <2> QED BY <1>2, <1>6, <1>7, <2>1
  <1>9. m = w \o v
    BY <1>1, <1>2 DEF InsertAt
  <1>a. (len + 1) - a \in Nat /\ a + ((len + 1) - a) = len + 1
    BY <1>1
  <1>10. PICK k \in Nat : k = Len(v) /\ k = (len + 1) - a /\ a + k = len + 1
    BY <1>5, <1>a
  <1>11. /\ m \in Seq(Ranges) /\ Len(m) = a + k
         /\ \A i \in 1 .. a + k : m[i] = IF i <= a THEN w[i] ELSE v[i - a]
    <2>1. /\ w \o v \in Seq(Ranges) /\ Len(w \o v) = a + Len(v)
          /\ \A i \in 1 .. a + Len(v) : (w \o v)[i] = IF i <= a THEN w[i] ELSE v[i - a]
      BY <1>5, <1>8, BehindIs
    <2> QED BY <1>9, <1>10, <2>1
  <1>12. ASSUME NEW i \in 1 .. Len(m)
         PROVE  m[i] = IF i < a THEN l[i] ELSE IF i = a THEN r ELSE l[(i + 0) - 1]
    <2>1. i \in 1 .. a + k
      BY <1>11
    <2>2. CASE i < a
      <3>1. i \in 1 .. b /\ i \in 1 .. a
        BY <1>1, <2>1, <2>2
      <3> QED BY <1>3, <1>8, <1>11, <2>1, <2>2, <3>1
    <2>3. CASE i = a
      <3>1. ~(a <= b) /\ a - b = 1 /\ a \in 1 .. a /\ a <= a
        BY <1>1
      <3>2. w[a] = o[a - b]
        BY <1>8, <3>1
      <3>3. m[a] = w[a]
        BY <1>11, <2>1, <2>3, <3>1
      <3>4. ~(a < a)
        BY <1>1
      <3> QED BY <1>6, <2>3, <3>1, <3>2, <3>3, <3>4
    <2>4. CASE i > a
      <3>1. PICK j \in 1 .. (len + 1) - a : j = i - a /\ (a + j) - 1 = (i + 0) - 1
        BY <1>10, <2>1, <2>4
      <3>2. m[i] = v[j]
        BY <1>11, <2>1, <2>4, <3>1
      <3>3. v[j] = l[(i + 0) - 1]
        BY <1>5, <3>1
      <3>4. ~(i < a) /\ i # a
        BY <2>1, <2>4
      <3> QED BY <3>2, <3>3, <3>4
    <2> QED BY <2>1, <2>2, <2>3, <2>4
  <1>13. a + k = (len - 0) + 1
    BY <1>10
  <1> QED BY <1>1, <1>2, <1>11, <1>12, <1>13 DEF Replaced

\* u has the numbers of r and of the n ranges, and is apart from the others.
Fits(l, r, a, n, u) ==
  /\ \A p : p \in Numbers(u) <=> p \in Numbers(r) \/ \E i \in a .. (a + n) - 1 : p \in Numbers(l[i])
  /\ \A i \in 1 .. a - 1 : EndOf(l[i]) < u.start
  /\ \A i \in a + n .. Len(l) : EndOf(u) < l[i].start

LEMMA ReplacedHolds ==
  ASSUME NEW l \in Seq(Ranges), NEW r \in Ranges, NEW u \in Ranges, NEW m,
         NEW a \in 1 .. Len(l) + 1, NEW n \in Nat, a + n <= Len(l) + 1,
         Replaced(m, l, a, n, u), Apart(l), Fits(l, r, a, n, u)
  PROVE  Apart(m) /\ NumbersOf(m) = NumbersOf(l) \cup Numbers(r)
  <1>1. PICK len \in Nat, b \in Nat : len = Len(l) /\ b = (len - n) + 1 /\ a <= b
    BY ListIs
  <1>2. m \in Seq(Ranges) /\ Len(m) = b
    BY <1>1 DEF Replaced
  <1>3. DOMAIN m = 1 .. b /\ DOMAIN l = 1 .. len
    BY <1>1, <1>2, ListIs
  <1>4. \A i \in 1 .. b : m[i] = IF i < a THEN l[i] ELSE IF i = a THEN u ELSE l[(i + n) - 1]
    BY <1>2 DEF Replaced
  <1>5. \A i \in 1 .. a - 1 : i \in 1 .. b /\ i \in 1 .. len /\ m[i] = l[i]
    BY <1>1, <1>4
  <1>6. a \in 1 .. b /\ m[a] = u
    BY <1>1, <1>4
  <1>7. \A i \in a + 1 .. b : /\ i \in 1 .. b /\ m[i] = l[(i + n) - 1]
                              /\ (i + n) - 1 \in a + n .. len /\ (i + n) - 1 \in 1 .. len
    <2> SUFFICES ASSUME NEW i \in a + 1 .. b
                 PROVE  /\ i \in 1 .. b /\ m[i] = l[(i + n) - 1]
                        /\ (i + n) - 1 \in a + n .. len /\ (i + n) - 1 \in 1 .. len
      OBVIOUS
    <2>1. i \in 1 .. b /\ ~(i < a) /\ i # a
      BY <1>1
    <2>2. (i + n) - 1 \in a + n .. len /\ (i + n) - 1 \in 1 .. len
      BY <1>1
    <2> QED BY <1>4, <2>1, <2>2
  <1>8. \A i \in 1 .. b : i \in 1 .. a - 1 \/ i = a \/ i \in a + 1 .. b
    BY <1>1
  <1>9. ASSUME NEW i \in 1 .. b, NEW j \in 1 .. b, i < j PROVE EndOf(m[i]) < m[j].start
    <2>1. CASE i \in 1 .. a - 1 /\ j \in 1 .. a - 1
      BY <1>3, <1>5, <1>9, <2>1 DEF Apart
    <2>2. CASE i \in 1 .. a - 1 /\ j = a
      BY <1>5, <1>6, <2>2 DEF Fits
    <2>3. CASE i \in 1 .. a - 1 /\ j \in a + 1 .. b
      <3>1. PICK k \in 1 .. len : k = (j + n) - 1 /\ m[j] = l[k] /\ k \in a + n .. len
        BY <1>7, <2>3
      <3>2. i < k
        BY <2>3, <3>1
      <3>3. EndOf(l[i]) < l[k].start
        BY <1>3, <1>5, <2>3, <3>2 DEF Apart
      <3> QED BY <1>5, <2>3, <3>1, <3>3
    <2>4. CASE i = a /\ j \in a + 1 .. b
      BY <1>1, <1>6, <1>7, <2>4 DEF Fits
    <2>5. CASE i \in a + 1 .. b /\ j \in a + 1 .. b
      <3>1. PICK k \in 1 .. len : k = (j + n) - 1 /\ m[j] = l[k]
        BY <1>7, <2>5
      <3>2. PICK h \in 1 .. len : h = (i + n) - 1 /\ m[i] = l[h]
        BY <1>7, <2>5
      <3>3. h < k
        BY <1>9, <3>1, <3>2
      <3> QED BY <1>3, <3>1, <3>2, <3>3 DEF Apart
    <2>6. i \in 1 .. a - 1 \/ i = a \/ i \in a + 1 .. b
      BY <1>8
    <2>7. j \in 1 .. a - 1 \/ j = a \/ j \in a + 1 .. b
      BY <1>8
    <2>8. (i = a => j \in a + 1 .. b) /\ (i \in a + 1 .. b => j \in a + 1 .. b)
      BY <1>1, <1>9
    <2> QED BY <2>1, <2>2, <2>3, <2>4, <2>5, <2>6, <2>7, <2>8
  <1>10. Apart(m)
    BY <1>3, <1>9 DEF Apart
  <1>11. \A p : p \in NumbersOf(m) <=> \E i \in 1 .. b : p \in Numbers(m[i])
    BY <1>2, ListIs
  <1>12. \A p : p \in NumbersOf(l) <=> \E i \in 1 .. len : p \in Numbers(l[i])
    BY <1>1, ListIs
  <1>13. ASSUME NEW p \in NumbersOf(m) PROVE p \in NumbersOf(l) \cup Numbers(r)
    <2>1. PICK i \in 1 .. b : p \in Numbers(m[i])
      BY <1>11
    <2>2. CASE i \in 1 .. a - 1
      BY <1>5, <1>12, <2>1, <2>2
    <2>3. CASE i = a
      <3>1. CASE p \in Numbers(r)
        BY <3>1
      <3>2. CASE p \notin Numbers(r)
        <4>1. PICK j \in a .. (a + n) - 1 : p \in Numbers(l[j])
          BY <1>6, <2>1, <2>3, <3>2 DEF Fits
        <4>2. j \in 1 .. len
          BY <1>1
        <4> QED BY <1>12, <4>1, <4>2
      <3> QED BY <3>1, <3>2
    <2>4. CASE i \in a + 1 .. b
      BY <1>7, <1>12, <2>1, <2>4
    <2> QED BY <1>8, <2>2, <2>3, <2>4
  <1>14. ASSUME NEW p \in Numbers(r) PROVE p \in NumbersOf(m)
    BY <1>6, <1>11 DEF Fits
  <1>15. ASSUME NEW p \in NumbersOf(l) PROVE p \in NumbersOf(m)
    <2>1. PICK i \in 1 .. len : p \in Numbers(l[i])
      BY <1>12
    <2>2. CASE i < a
      <3>1. i \in 1 .. a - 1
        BY <2>2
      <3> QED BY <1>5, <1>11, <2>1, <3>1
    <2>3. CASE i \in a .. (a + n) - 1
      BY <1>6, <1>11, <2>1, <2>3 DEF Fits
    <2>4. CASE i >= a + n
      <3>1. PICK j \in a + 1 .. b : j = (i - n) + 1 /\ (j + n) - 1 = i
        BY <1>1, <2>4
      <3>2. j \in 1 .. b /\ m[j] = l[i]
        BY <1>7, <3>1
      <3> QED BY <1>11, <2>1, <3>2
    <2>5. i < a \/ i \in a .. (a + n) - 1 \/ i >= a + n
      BY <1>1
    <2> QED BY <2>2, <2>3, <2>4, <2>5
  <1> QED BY <1>10, <1>13, <1>14, <1>15

-----------------------------------------------------------------------------
(* Where addrange stores: from place a on, n ranges touch the new one.     *)

LEMMA MinIs ==
  ASSUME NEW T, T \subseteq Nat, T # {}
  PROVE  Min(T) \in T /\ \A k \in T : Min(T) <= k
  <1>1. PICK m \in T : \A k \in T : m <= k
    BY LeastNumber
  <1>2. \E x \in T : \A y \in T : x <= y
    BY <1>1
  <1> QED BY <1>2 DEF Min

PlaceOf(l, st) == IF st = 0 THEN Len(l) + 1 ELSE st
Place(l, r, a, n) ==
  /\ a \in 1 .. Len(l) + 1 /\ n \in Nat /\ a + n <= Len(l) + 1
  /\ \A i \in 1 .. a - 1 : l[i].start < r.start
  /\ a <= Len(l) => r.start <= l[a].start
  /\ \A i \in a .. (a + n) - 1 : isintersectWP(l[i], r)
  /\ a + n <= Len(l) => ~isintersectWP(l[a + n], r)

LEMMA FindloIs ==
  ASSUME NEW l \in Seq(Ranges), NEW r \in Ranges, NEW st, st = findlo(l, r)
  PROVE  /\ st \in 0 .. Len(l)
         /\ st # 0 => r.start <= l[st].start
         /\ \A i \in 1 .. PlaceOf(l, st) - 1 : l[i].start < r.start
  <1>1. PICK len \in Nat : len = Len(l) /\ DOMAIN l = 1 .. len
    BY ListIs
  <1>2. PICK at : at = {i \in 1 .. len : r.start <= l[i].start}
    OBVIOUS
  <1>3. st = IF at = {} THEN 0 ELSE Min(at)
    BY <1>1, <1>2 DEF findlo
  <1>4. \A i \in 1 .. len : i \notin at => l[i].start < r.start
    <2> SUFFICES ASSUME NEW i \in 1 .. len, i \notin at PROVE l[i].start < r.start
      OBVIOUS
    <2>1. l[i].start \in Nat /\ r.start \in Nat
      BY <1>1, ListIs, RangeIs
    <2>2. ~(r.start <= l[i].start)
      BY <1>2
    <2> QED BY <2>1, <2>2
  <1>5. CASE at = {}
    <2>1. st = 0 /\ PlaceOf(l, st) = len + 1
      BY <1>1, <1>3, <1>5 DEF PlaceOf
    <2>2. \A i \in 1 .. (len + 1) - 1 : i \in 1 .. len
      BY <1>1
    <2> QED BY <1>1, <1>4, <1>5, <2>1, <2>2
  <1>6. CASE at # {}
    <2>1. at \subseteq Nat
      BY <1>2
    <2>2. st \in at /\ \A k \in at : st <= k
      BY <1>3, <1>6, <2>1, MinIs
    <2>3. st \in 1 .. len /\ r.start <= l[st].start
      BY <1>2, <2>2
    <2>4. PlaceOf(l, st) = st
      BY <2>3 DEF PlaceOf
    <2>5. \A i \in 1 .. st - 1 : i \in 1 .. len /\ i \notin at
      BY <2>2, <2>3
    <2> QED BY <1>1, <1>4, <2>3, <2>4, <2>5
  <1> QED BY <1>5, <1>6

LEMMA TouchedIs ==
  ASSUME NEW l \in Seq(Ranges), NEW r \in Ranges, NEW st \in 1 .. Len(l), NEW n, n = Touched(l, st, r)
  PROVE  /\ n \in Nat /\ st + n <= Len(l) + 1
         /\ \A i \in st .. (st + n) - 1 : isintersectWP(l[i], r)
         /\ st + n <= Len(l) => ~isintersectWP(l[st + n], r)
  <1>a. Len(l) \in Nat /\ st >= 1 /\ st <= Len(l)
    BY ListIs
  <1>b. Len(l) - st + 1 \in Nat /\ st + (Len(l) - st + 1) = Len(l) + 1
    BY <1>a
  <1>1. PICK top \in Nat, len \in Nat : len = Len(l) /\ top = Len(l) - st + 1 /\ st + top = len + 1
    BY <1>a, <1>b
  <1>2. PICK free : free = {k \in 0 .. top : st + k <= len => ~isintersectWP(l[st + k], r)}
    OBVIOUS
  <1>3. top \in free
    BY <1>1, <1>2
  <1>d. free \subseteq Nat
    BY <1>2
  <1>c. free # {}
    BY <1>3
  <1>4. PICK m \in free : \A k \in free : m <= k
    BY <1>c, <1>d, LeastNumber
  <1>5. m \in 0 .. top /\ (st + m <= len => ~isintersectWP(l[st + m], r))
    BY <1>2, <1>4
  <1>6. ASSUME NEW k \in 0 .. m - 1 PROVE isintersectWP(l[st + k], r)
    <2>1. k \in 0 .. top /\ ~(m <= k)
      BY <1>1, <1>5
    <2>2. k \notin free
      BY <1>4, <2>1
    <2> QED BY <1>2, <2>1, <2>2
  <1>7. \E k \in 0 .. top : /\ \A i \in 0 .. k - 1 : isintersectWP(l[st + i], r)
                            /\ st + k <= len => ~isintersectWP(l[st + k], r)
    BY <1>5, <1>6
  <1>8. n = CHOOSE k \in 0 .. top : /\ \A i \in 0 .. k - 1 : isintersectWP(l[st + i], r)
                                    /\ st + k <= len => ~isintersectWP(l[st + k], r)
    <2>1. st # 0
      OBVIOUS
    <2> QED BY <1>1, <2>1 DEF Touched
  <1>9. /\ n \in 0 .. top /\ \A i \in 0 .. n - 1 : isintersectWP(l[st + i], r)
        /\ st + n <= len => ~isintersectWP(l[st + n], r)
    BY <1>7, <1>8
  <1>10. ASSUME NEW i \in st .. (st + n) - 1 PROVE isintersectWP(l[i], r)
    <2>1. PICK k \in 0 .. n - 1 : k = i - st /\ st + k = i
      BY <1>9
    <2> QED BY <1>9, <2>1
  <1>11. n \in Nat /\ st + n <= len + 1
    BY <1>1, <1>9
  <1> QED BY <1>1, <1>9, <1>10, <1>11

LEMMA PlaceIs ==
  ASSUME NEW l \in Seq(Ranges), NEW r \in Ranges, NEW st, st = findlo(l, r),
         NEW n, n = Touched(l, st, r), NEW a, a = PlaceOf(l, st)
  PROVE  /\ Place(l, r, a, n) /\ Pred(l, st) = a - 1
         /\ st \in 0 .. Len(l) /\ (st = 0 => n = 0)
  <1>1. PICK len \in Nat : len = Len(l)
    BY ListIs
  <1>2. /\ st \in 0 .. len /\ (st # 0 => r.start <= l[st].start)
        /\ \A i \in 1 .. a - 1 : l[i].start < r.start
    BY <1>1, FindloIs
  <1>3. CASE st = 0
    <2>1. a = len + 1 /\ n = 0
      BY <1>1, <1>3 DEF PlaceOf, Touched
    <2>2. a \in 1 .. Len(l) + 1 /\ n \in Nat /\ a + n <= Len(l) + 1 /\ ~(a <= Len(l)) /\ ~(a + n <= Len(l))
      BY <1>1, <2>1
    <2>3. a .. (a + n) - 1 = {}
      BY <1>1, <2>1
    <2>4. Pred(l, st) = len /\ len = a - 1
      BY <1>1, <1>3, <2>1 DEF Pred
    <2> QED BY <1>1, <1>2, <1>3, <2>1, <2>2, <2>3, <2>4 DEF Place
  <1>4. CASE st # 0
    <2>1. st \in 1 .. Len(l)
      BY <1>1, <1>2, <1>4
    <2>2. /\ n \in Nat /\ st + n <= Len(l) + 1
          /\ \A i \in st .. (st + n) - 1 : isintersectWP(l[i], r)
          /\ st + n <= Len(l) => ~isintersectWP(l[st + n], r)
      BY <2>1, TouchedIs
    <2>3. a = st /\ Pred(l, st) = a - 1
      BY <1>4 DEF PlaceOf, Pred
    <2>4. a \in 1 .. Len(l) + 1
      BY <1>1, <2>1, <2>3
    <2> QED BY <1>1, <1>2, <1>4, <2>2, <2>3, <2>4 DEF Place
  <1> QED BY <1>3, <1>4

\* The ranges around the place, when those of the list are apart.
LEMMA AroundPlace ==
  ASSUME NEW l \in Seq(Ranges), Apart(l), NEW r \in Ranges, NEW a, NEW n, Place(l, r, a, n)
  PROVE  /\ \A i \in a .. Len(l) : r.start <= l[i].start
         /\ \A i \in a + n .. Len(l) : EndOf(r) < l[i].start
         /\ \A i \in 1 .. a - 1 :
              \/ i = a - 1 /\ isintersectWP(l[i], r)
              \/ EndOf(l[i]) < r.start
  <1>1. PICK len \in Nat : len = Len(l) /\ DOMAIN l = 1 .. len
    BY ListIs
  <1>2. a \in 1 .. len + 1 /\ n \in Nat /\ a + n <= len + 1
    BY <1>1 DEF Place
  <1>3. \A i \in 1 .. len : /\ l[i] \in Ranges /\ l[i].start \in Nat /\ EndOf(l[i]) \in Nat
                            /\ l[i].start <= EndOf(l[i])
    BY <1>1, ListIs, RangeIs
  <1>4. r.start \in Nat /\ EndOf(r) \in Nat /\ r.start <= EndOf(r)
    BY RangeIs
  <1>5. \A i, j \in 1 .. len : i < j => EndOf(l[i]) < l[j].start
    BY <1>1 DEF Apart
  <1>6. ASSUME NEW i \in a .. len PROVE r.start <= l[i].start
    <2>1. a \in 1 .. len /\ i \in 1 .. len /\ r.start <= l[a].start
      BY <1>1, <1>2 DEF Place
    <2>2. a = i \/ a < i
      BY <2>1
    <2>3. CASE a < i
      <3>1. EndOf(l[a]) < l[i].start
        BY <1>5, <2>1, <2>3
      <3> QED BY <1>3, <1>4, <2>1, <3>1
    <2> QED BY <2>1, <2>2, <2>3
  <1>7. ASSUME NEW i \in a + n .. len PROVE EndOf(r) < l[i].start
    <2>1. PICK k \in 1 .. len : k = a + n /\ i \in 1 .. len /\ k \in a .. len
      BY <1>2
    <2>2. ~isintersectWP(l[k], r)
      BY <1>1, <2>1 DEF Place
    <2>3. EndOf(l[k]) < r.start \/ EndOf(r) < l[k].start
      BY <1>3, <2>1, <2>2, Touching
    <2>4. r.start <= l[k].start
      BY <1>6, <2>1
    <2>5. EndOf(r) < l[k].start
      BY <1>3, <1>4, <2>1, <2>3, <2>4
    <2>6. k = i \/ k < i
      BY <2>1
    <2>7. CASE k < i
      <3>1. EndOf(l[k]) < l[i].start
        BY <1>5, <2>1, <2>7
      <3> QED BY <1>3, <1>4, <2>1, <2>5, <3>1
    <2> QED BY <2>5, <2>6, <2>7
  <1>8. ASSUME NEW i \in 1 .. a - 1
        PROVE  (i = a - 1 /\ isintersectWP(l[i], r)) \/ EndOf(l[i]) < r.start
    <2>1. i \in 1 .. len /\ l[i].start < r.start
      BY <1>2 DEF Place
    <2>2. CASE i = a - 1
      <3>1. CASE ~isintersectWP(l[i], r)
        <4>1. EndOf(l[i]) < r.start \/ EndOf(r) < l[i].start
          BY <1>3, <2>1, <3>1, Touching
        <4> QED BY <1>3, <1>4, <2>1, <4>1
      <3> QED BY <2>2, <3>1
    <2>3. CASE i # a - 1
      <3>1. PICK j \in 1 .. len : j = a - 1 /\ i < j /\ j \in 1 .. a - 1
        BY <1>2, <2>3
      <3>2. EndOf(l[i]) < l[j].start
        BY <1>5, <2>1, <3>1
      <3>3. l[j].start < r.start
        BY <3>1 DEF Place
      <3>4. /\ EndOf(l[i]) \in Nat /\ l[j].start \in Nat
        BY <1>3, <2>1, <3>1
      <3> QED BY <1>4, <3>2, <3>3, <3>4
    <2> QED BY <2>2, <2>3
  <1> QED BY <1>1, <1>6, <1>7, <1>8

\* The range touches only the one before it.
LEMMA JoinBefore ==
  ASSUME NEW l \in Seq(Ranges), Apart(l), NEW r \in Ranges, NEW a, Place(l, r, a, 0),
         a # 1, isintersectWP(l[a - 1], r), NEW m, Replaced(m, l, a - 1, 1, dounion(l[a - 1], r))
  PROVE  Apart(m) /\ NumbersOf(m) = NumbersOf(l) \cup Numbers(r)
  <1>1. PICK len \in Nat : len = Len(l) /\ DOMAIN l = 1 .. len
    BY ListIs
  <1>2. PICK b \in 1 .. len : b = a - 1 /\ b + 1 = a
    BY <1>1 DEF Place
  <1>3. PICK q \in Ranges : q = l[b]
    BY <1>1, <1>2, ListIs
  <1>4. PICK u : u = dounion(q, r)
    OBVIOUS
  <1>5. isintersectWP(q, r)
    BY <1>2, <1>3
  <1>6. /\ u \in Ranges
        /\ u.start = (IF q.start <= r.start THEN q.start ELSE r.start)
        /\ EndOf(u) = (IF EndOf(q) <= EndOf(r) THEN EndOf(r) ELSE EndOf(q))
        /\ Numbers(u) = Numbers(q) \cup Numbers(r)
    BY <1>4, <1>5, Union
  <1>9. Replaced(m, l, b, 1, u)
    BY <1>2, <1>3, <1>4
  <1>10. q.start < r.start
    <2>1. b \in 1 .. a - 1
      BY <1>2
    <2> QED BY <1>3, <2>1 DEF Place
  <1>11. u.start = q.start
    BY <1>6, <1>10, RangeIs
  <1>12. \A i \in 1 .. b - 1 : EndOf(l[i]) < u.start
    BY <1>1, <1>3, <1>11 DEF Apart
  <1>13. ASSUME NEW i \in b + 1 .. Len(l) PROVE EndOf(u) < l[i].start
    <2>1. i \in 1 .. len /\ b < i /\ i \in a + 0 .. Len(l)
      BY <1>1, <1>2
    <2>2. EndOf(q) < l[i].start
      BY <1>1, <1>3, <2>1 DEF Apart
    <2>3. EndOf(r) < l[i].start
      BY <2>1, AroundPlace
    <2> QED BY <1>6, <2>2, <2>3
  <1>14. \A p : p \in Numbers(u) <=> p \in Numbers(r) \/ \E i \in b .. (b + 1) - 1 : p \in Numbers(l[i])
    <2>1. b .. (b + 1) - 1 = {b}
      OBVIOUS
    <2> QED BY <1>3, <1>6, <2>1
  <1>15. b \in 1 .. Len(l) + 1 /\ 1 \in Nat /\ b + 1 <= Len(l) + 1
    BY <1>1
  <1>16. Fits(l, r, b, 1, u)
    BY <1>12, <1>13, <1>14 DEF Fits
  <1>17. PICK n \in Nat : n = 1
    OBVIOUS
  <1>18. u \in Ranges /\ b \in 1 .. Len(l) + 1 /\ b + n <= Len(l) + 1
         /\ Replaced(m, l, b, n, u) /\ Fits(l, r, b, n, u)
    BY <1>6, <1>9, <1>15, <1>16, <1>17
  <1> QED BY <1>18, ReplacedHolds

\* It touches only ranges behind its start.
LEMMA JoinBehind ==
  ASSUME NEW l \in Seq(Ranges), Apart(l), NEW r \in Ranges, NEW a, NEW n, Place(l, r, a, n), n # 0,
         a # 1 => ~isintersectWP(l[a - 1], r), NEW m, m = Joined(l, a, n, r)
  PROVE  Apart(m) /\ NumbersOf(m) = NumbersOf(l) \cup Numbers(r)
  <1>1. PICK len \in Nat : len = Len(l) /\ DOMAIN l = 1 .. len
    BY ListIs
  <1>2. a \in 1 .. Len(l) /\ n \in Nat /\ 1 <= n /\ a + n <= Len(l) + 1
    BY <1>1 DEF Place
  <1>3. PICK z \in 1 .. len : z = (a + n) - 1 /\ z \in a .. (a + n) - 1 /\ z \in a .. Len(l)
    BY <1>1, <1>2
  <1>4. PICK q \in Ranges : q = l[z]
    BY <1>1, ListIs
  <1>5. PICK u : u = dounion(q, r)
    OBVIOUS
  <1>6. isintersectWP(q, r)
    BY <1>3, <1>4 DEF Place
  <1>7. /\ u \in Ranges
        /\ u.start = (IF q.start <= r.start THEN q.start ELSE r.start)
        /\ EndOf(u) = (IF EndOf(q) <= EndOf(r) THEN EndOf(r) ELSE EndOf(q))
        /\ Numbers(u) = Numbers(q) \cup Numbers(r)
    BY <1>5, <1>6, Union
  <1>8. Replaced(Joined(l, a, n, r), l, a, n, dounion(l[(a + n) - 1], r))
    BY <1>2, JoinedReplaces
  <1>9. Replaced(m, l, a, n, u)
    BY <1>3, <1>4, <1>5, <1>8
  <1>10. r.start <= q.start
    BY <1>3, <1>4, AroundPlace
  <1>11. u.start = r.start
    BY <1>7, <1>10, RangeIs
  <1>12. ASSUME NEW i \in 1 .. a - 1 PROVE EndOf(l[i]) < u.start
    <2>1. (i = a - 1 /\ isintersectWP(l[i], r)) \/ EndOf(l[i]) < r.start
      BY AroundPlace
    <2>2. a # 1
      BY <1>2
    <2> QED BY <1>11, <2>1, <2>2
  <1>13. ASSUME NEW i \in a + n .. Len(l) PROVE EndOf(u) < l[i].start
    <2>1. i \in 1 .. len /\ z < i
      BY <1>1, <1>2, <1>3
    <2>2. EndOf(q) < l[i].start
      BY <1>1, <1>4, <2>1 DEF Apart
    <2>3. EndOf(r) < l[i].start
      BY AroundPlace
    <2> QED BY <1>7, <2>2, <2>3
  <1>14. ASSUME NEW i \in a .. (a + n) - 1, i # z, NEW p \in Numbers(l[i]) PROVE p \in Numbers(r)
    <2>1. i \in 1 .. len /\ i < z /\ i \in a .. Len(l)
      BY <1>1, <1>2, <1>3, <1>14
    <2>2. PICK o \in Ranges : o = l[i]
      BY <1>1, <2>1, ListIs
    <2>3. p \in Nat /\ o.start <= p /\ p < EndOf(o)
      BY <1>14, <2>2, RangeIs
    <2>4. EndOf(o) < q.start
      BY <1>1, <1>4, <2>1, <2>2 DEF Apart
    <2>5. r.start <= o.start
      BY <2>1, <2>2, AroundPlace
    <2>6. ~(EndOf(r) < q.start)
      BY <1>6, Touching
    <2>7. /\ o.start \in Nat /\ EndOf(o) \in Nat /\ q.start \in Nat /\ r.start \in Nat /\ EndOf(r) \in Nat
      BY RangeIs
    <2>8. r.start <= p /\ p < EndOf(r)
      BY <2>3, <2>4, <2>5, <2>6, <2>7
    <2> QED BY <2>3, <2>8, RangeIs
  <1>15. \A p : p \in Numbers(u) <=> p \in Numbers(r) \/ \E i \in a .. (a + n) - 1 : p \in Numbers(l[i])
    BY <1>3, <1>4, <1>7, <1>14
  <1>16. a \in 1 .. Len(l) + 1
    BY <1>1, <1>2
  <1>17. Fits(l, r, a, n, u)
    BY <1>12, <1>13, <1>15 DEF Fits
  <1> QED BY <1>2, <1>7, <1>9, <1>16, <1>17, ReplacedHolds

\* It touches none, and gets a place of its own.
LEMMA PlaceOfItsOwn ==
  ASSUME NEW l \in Seq(Ranges), Apart(l), NEW r \in Ranges, NEW a, Place(l, r, a, 0),
         a # 1 => ~isintersectWP(l[a - 1], r), NEW m, Replaced(m, l, a, 0, r)
  PROVE  Apart(m) /\ NumbersOf(m) = NumbersOf(l) \cup Numbers(r)
  <1>1. a \in 1 .. Len(l) + 1 /\ 0 \in Nat /\ a + 0 <= Len(l) + 1
    BY DEF Place
  <1>2. a \in Nat
    BY <1>1
  <1>3. ASSUME NEW i \in 1 .. a - 1 PROVE EndOf(l[i]) < r.start
    <2>1. (i = a - 1 /\ isintersectWP(l[i], r)) \/ EndOf(l[i]) < r.start
      BY AroundPlace
    <2>2. a # 1
      BY <1>2
    <2> QED BY <2>1, <2>2
  <1>4. \A i \in a + 0 .. Len(l) : EndOf(r) < l[i].start
    BY AroundPlace
  <1>5. \A p : p \in Numbers(r) <=> p \in Numbers(r) \/ \E i \in a .. (a + 0) - 1 : p \in Numbers(l[i])
    <2>1. a .. (a + 0) - 1 = {}
      BY <1>2
    <2> QED BY <2>1
  <1>6. Fits(l, r, a, 0, r)
    BY <1>3, <1>4, <1>5 DEF Fits
  <1> QED BY <1>1, <1>6, ReplacedHolds

-----------------------------------------------------------------------------
(* Whatever addrange does, also to a list that is no longer in order, each *)
(* range it leaves is one of the list's, the new one, or a union of them.  *)

Made(x, l, r) ==
  \/ \E j \in 1 .. Len(l) : x = l[j]
  \/ \E j \in 1 .. Len(l) : isintersectWP(l[j], r) /\ x = dounion(l[j], r)
  \/ x = r
MadeOf(m, l, r) == m \in Seq(Ranges) /\ \A i \in 1 .. Len(m) : Made(m[i], l, r)

LEMMA ReplacedIsMade ==
  ASSUME NEW l \in Seq(Ranges), NEW r \in Ranges, NEW u, Made(u, l, r), NEW m,
         NEW a \in 1 .. Len(l) + 1, NEW n \in Nat, a + n <= Len(l) + 1, Replaced(m, l, a, n, u)
  PROVE  MadeOf(m, l, r)
  <1>1. PICK len \in Nat, b \in Nat : len = Len(l) /\ b = (len - n) + 1 /\ a <= b
    BY ListIs
  <1>2. m \in Seq(Ranges) /\ Len(m) = b
    BY <1>1 DEF Replaced
  <1>3. \A i \in 1 .. b : m[i] = IF i < a THEN l[i] ELSE IF i = a THEN u ELSE l[(i + n) - 1]
    BY <1>2 DEF Replaced
  <1>4. ASSUME NEW i \in 1 .. b PROVE Made(m[i], l, r)
    <2>1. CASE i < a
      <3>1. i \in 1 .. Len(l)
        BY <1>1, <2>1
      <3> QED BY <1>3, <2>1, <3>1 DEF Made
    <2>2. CASE i = a
      BY <1>3, <2>2
    <2>3. CASE i > a
      <3>1. (i + n) - 1 \in 1 .. Len(l)
        BY <1>1, <2>3
      <3> QED BY <1>3, <2>3, <3>1 DEF Made
    <2> QED BY <2>1, <2>2, <2>3
  <1> QED BY <1>2, <1>4 DEF MadeOf

LEMMA JoinedBothIsMade ==
  ASSUME NEW l \in Seq(Ranges), NEW r \in Ranges, NEW st, NEW n,
         Place(l, r, st, n), Pred(l, st) = st - 1, st # 1, isintersectWP(l[st - 1], r),
         n # 0, st + n <= Len(l), NEW m, m = JoinedBoth(l, st, n, r)
  PROVE  MadeOf(m, l, r)
  <1>1. PICK len \in Nat, b \in Nat, c \in Nat, z \in Nat :
          /\ len = Len(l) /\ b = st + 1 /\ c = st - 1 /\ z = st + n - 1 /\ st \in Nat /\ n \in Nat
          /\ 1 <= c /\ c < st /\ st <= z /\ z <= len /\ z = (st + n) - 1 /\ st + n <= len
    <2>1. st \in 1 .. Len(l) + 1 /\ n \in Nat /\ Len(l) \in Nat
      BY ListIs DEF Place
    <2> QED BY <2>1
  <1>2. c \in 1 .. Len(l) /\ z \in 1 .. Len(l) /\ z \in st .. (st + n) - 1
    BY <1>1
  <1>3. b \in 1 .. Len(l) + 1 /\ b + n <= Len(l) + 1
    BY <1>1
  <1>4. PICK d : d = Deleted(l, b, n)
    OBVIOUS
  <1>a. n \in Nat
    BY <1>1
  <1>b. /\ d \in Seq(Ranges) /\ Len(d) = Len(l) - n
        /\ \A i \in 1 .. Len(l) - n : d[i] = IF i < b THEN l[i] ELSE l[i + n]
    BY <1>3, <1>4, <1>a, DeletedIs
  <1>5. d \in Seq(Ranges) /\ Len(d) = len - n /\ \A i \in 1 .. len - n : d[i] = IF i < b THEN l[i] ELSE l[i + n]
    BY <1>1, <1>b
  <1>6. c \in 1 .. Len(d) /\ st \in 1 .. Len(d)
    BY <1>1, <1>5
  <1>7. d[c] = l[c]
    BY <1>1, <1>5, <1>6
  <1>8. PICK x \in Ranges : x = dounion(l[c], r)
    BY <1>2, ListIs, Union
  <1>9. PICK y \in Ranges : y = dounion(l[z], r)
    BY <1>2, ListIs, Union
  <1>10. isintersectWP(l[c], r) /\ isintersectWP(l[z], r)
    BY <1>1, <1>2 DEF Place
  <1>11. Made(x, l, r) /\ Made(y, l, r)
    BY <1>2, <1>8, <1>9, <1>10 DEF Made
  <1>12. m = [d EXCEPT ![c] = dounion(@, r), ![st] = dounion(l[z], r)]
    BY <1>1, <1>4 DEF JoinedBoth
  <1>13. PICK e : e = [d EXCEPT ![c] = x]
    OBVIOUS
  <1>14. e \in Seq(Ranges) /\ Len(e) = Len(d) /\ \A i \in 1 .. Len(d) : e[i] = IF i = c THEN x ELSE d[i]
    BY <1>5, <1>6, <1>13, ExceptSeq
  <1>15. [d EXCEPT ![c] = dounion(@, r)] = e
    BY <1>6, <1>7, <1>8, <1>13
  <1>16. m = [e EXCEPT ![st] = y]
    BY <1>9, <1>12, <1>15
  <1>17. st \in 1 .. Len(e)
    BY <1>6, <1>14
  <1>18. m \in Seq(Ranges) /\ Len(m) = Len(e) /\ \A i \in 1 .. Len(e) : m[i] = IF i = st THEN y ELSE e[i]
    BY <1>14, <1>16, <1>17, ExceptSeq
  <1>19. ASSUME NEW i \in 1 .. Len(m) PROVE Made(m[i], l, r)
    <2>1. i \in 1 .. len - n
      BY <1>5, <1>14, <1>18
    <2>2. i \in 1 .. Len(l) /\ i + n \in 1 .. Len(l)
      BY <1>1, <2>1
    <2>3. m[i] = IF i = st THEN y ELSE IF i = c THEN x ELSE d[i]
      BY <1>14, <1>18
    <2>4. d[i] = l[i] \/ d[i] = l[i + n]
      BY <1>5, <2>1
    <2>5. Made(d[i], l, r)
      BY <2>2, <2>4 DEF Made
    <2> QED BY <1>11, <2>3, <2>5
  <1> QED BY <1>18, <1>19 DEF MadeOf

\* So no number comes in that was not added, and none past the end of the map.
LEMMA MadeKeeps ==
  ASSUME NEW l \in Seq(Ranges), NEW r \in Ranges, NEW m, MadeOf(m, l, r),
         NEW top \in Nat, EndOf(r) <= top, \A i \in 1 .. Len(l) : EndOf(l[i]) <= top
  PROVE  /\ NumbersOf(m) \subseteq NumbersOf(l) \cup Numbers(r)
         /\ \A i \in 1 .. Len(m) : EndOf(m[i]) <= top
  <1>1. m \in Seq(Ranges) /\ \A i \in 1 .. Len(m) : Made(m[i], l, r)
    BY DEF MadeOf
  <1>2. \A p : p \in NumbersOf(m) <=> \E i \in 1 .. Len(m) : p \in Numbers(m[i])
    BY <1>1, ListIs
  <1>3. \A p : p \in NumbersOf(l) <=> \E i \in 1 .. Len(l) : p \in Numbers(l[i])
    BY ListIs
  <1>4. \A j \in 1 .. Len(l) : l[j] \in Ranges
    BY ListIs
  <1>5. ASSUME NEW i \in 1 .. Len(m)
        PROVE  Numbers(m[i]) \subseteq NumbersOf(l) \cup Numbers(r) /\ EndOf(m[i]) <= top
    <2>1. CASE \E j \in 1 .. Len(l) : m[i] = l[j]
      BY <1>3, <2>1
    <2>2. CASE \E j \in 1 .. Len(l) : isintersectWP(l[j], r) /\ m[i] = dounion(l[j], r)
      <3>1. PICK j \in 1 .. Len(l) : isintersectWP(l[j], r) /\ m[i] = dounion(l[j], r)
        BY <2>2
      <3>2. PICK q \in Ranges : q = l[j]
        BY <1>4
      <3>3. Numbers(m[i]) = Numbers(q) \cup Numbers(r)
        BY <3>1, <3>2, Union
      <3>4. EndOf(m[i]) = (IF EndOf(q) <= EndOf(r) THEN EndOf(r) ELSE EndOf(q))
        BY <3>1, <3>2, Union
      <3> QED BY <1>3, <3>2, <3>3, <3>4
    <2>3. CASE m[i] = r
      BY <2>3
    <2> QED BY <1>1, <2>1, <2>2, <2>3 DEF Made
  <1> QED BY <1>2, <1>5

-----------------------------------------------------------------------------
(* The invariant.                                                          *)

InOrder == bridged = "no" => NumbersOf(lst) = added /\ Apart(lst)
MapInv ==
  /\ lst \in Seq(Ranges) /\ \A i \in 1 .. Len(lst) : EndOf(lst[i]) <= MapSize
  /\ added \subseteq 0 .. MapSize - 1
  /\ NumbersOf(lst) \subseteq added
  /\ InOrder

LEMMA MapInitial == ASSUME MapInit PROVE MapInv
  <1>1. lst \in Seq(Ranges) /\ Len(lst) = 0
    BY EmptySeq DEF MapInit
  <1>2. NumbersOf(lst) = {}
    BY <1>1, EmptyHasNone
  <1>3. Apart(lst)
    BY <1>1, ListIs DEF Apart
  <1>4. added = {}
    BY DEF MapInit
  <1>6. 1 .. Len(lst) = {}
    BY <1>1
  <1> QED BY <1>1, <1>2, <1>3, <1>4, <1>6 DEF MapInv, InOrder

\* Which of the five ways addrange took, in terms of the place found.
LEMMA WhatWasStored ==
  ASSUME MapInv, NEW r \in Ranges, addrange(r)
  PROVE  /\ added' = added \cup Numbers(r)
         /\ \/ lst' = <<>> /\ bridged' = "overrun"
            \/ MadeOf(lst', lst, r) /\ bridged' = "yes"
            \/ /\ MadeOf(lst', lst, r) /\ bridged' = bridged
               /\ Apart(lst) => Apart(lst') /\ NumbersOf(lst') = NumbersOf(lst) \cup Numbers(r)
  <1>1. lst \in Seq(Ranges)
    BY DEF MapInv
  <1>2. PICK l \in Seq(Ranges) : l = lst
    BY <1>1
  <1>3. PICK st, n, a : st = findlo(l, r) /\ n = Touched(l, st, r) /\ a = PlaceOf(l, st)
    OBVIOUS
  <1>4. Place(l, r, a, n) /\ Pred(l, st) = a - 1 /\ st \in 0 .. Len(l) /\ (st = 0 => n = 0)
    BY <1>3, PlaceIs
  <1>5. PICK len \in Nat : len = Len(l)
    BY ListIs
  <1>6. /\ a \in 1 .. Len(l) + 1 /\ n \in Nat /\ a + n <= Len(l) + 1
        /\ (st # 0 => a = st) /\ (st = 0 => a = len + 1)
    BY <1>3, <1>4, <1>5 DEF Place, PlaceOf
  <1>7. TouchesPred(l, st, r) <=> a # 1 /\ isintersectWP(l[a - 1], r)
    <2>1. a - 1 # 0 <=> a # 1
      BY <1>6
    <2> QED BY <1>4, <2>1 DEF TouchesPred
  <1>8. added' = added \cup Numbers(r)
    BY DEF addrange
  <1>9. CASE TouchesPred(l, st, r) /\ n # 0 /\ st + n <= Len(l) /\ bridged' = "yes" /\ lst' = JoinedBoth(l, st, n, r)
    <2>1. st = a
      BY <1>4, <1>6, <1>9
    <2>2. Place(l, r, st, n) /\ Pred(l, st) = st - 1 /\ st # 1 /\ isintersectWP(l[st - 1], r)
      BY <1>4, <1>7, <1>9, <2>1
    <2>3. MadeOf(JoinedBoth(l, st, n, r), l, r)
      BY <1>9, <2>2, JoinedBothIsMade
    <2> QED BY <1>2, <1>8, <1>9, <2>3
  <1>10. CASE lst' = <<>> /\ bridged' = "overrun"
    BY <1>8, <1>10
  <1>11. CASE TouchesPred(l, st, r) /\ n = 0 /\ lst' = [l EXCEPT ![Pred(l, st)] = dounion(@, r)] /\ bridged' = bridged
    <2>1. PICK b \in 1 .. Len(l) : b = a - 1
      BY <1>5, <1>6, <1>7, <1>11
    <2>2. PICK u \in Ranges : u = dounion(l[b], r)
      BY ListIs, Union
    <2>3. PICK m : m = [l EXCEPT ![b] = u]
      OBVIOUS
    <2>4. Replaced(m, l, b, 1, u)
      BY <2>3, ExceptReplaces
    <2>5. lst' = m
      BY <1>4, <1>11, <2>1, <2>2, <2>3
    <2>6. isintersectWP(l[b], r) /\ a # 1 /\ Place(l, r, a, 0)
      BY <1>4, <1>7, <1>11, <2>1
    <2>7. Made(u, l, r)
      BY <2>2, <2>6 DEF Made
    <2>8. b \in 1 .. Len(l) + 1 /\ 1 \in Nat /\ b + 1 <= Len(l) + 1
      BY <1>5
    <2>9. MadeOf(m, l, r)
      BY <2>4, <2>7, <2>8, ReplacedIsMade
    <2>10. Replaced(m, l, a - 1, 1, dounion(l[a - 1], r)) /\ isintersectWP(l[a - 1], r)
      BY <2>1, <2>2, <2>4, <2>6
    <2>11. ASSUME Apart(l) PROVE Apart(m) /\ NumbersOf(m) = NumbersOf(l) \cup Numbers(r)
      BY <2>6, <2>10, <2>11, JoinBefore
    <2> QED BY <1>2, <1>8, <1>11, <2>5, <2>9, <2>11
  <1>12. CASE ~TouchesPred(l, st, r) /\ n # 0 /\ lst' = Joined(l, st, n, r) /\ bridged' = bridged
    <2>1. st = a /\ a \in 1 .. Len(l) /\ 1 <= n
      BY <1>4, <1>5, <1>6, <1>12
    <2>2. PICK m : m = Joined(l, a, n, r)
      OBVIOUS
    <2>3. lst' = m
      BY <1>12, <2>1, <2>2
    <2>4. PICK z \in 1 .. Len(l) : z = (a + n) - 1 /\ z \in a .. (a + n) - 1
      BY <1>5, <1>6, <2>1
    <2>5. PICK u : u = dounion(l[z], r)
      OBVIOUS
    <2>6. Replaced(m, l, a, n, u)
      <3>1. Replaced(Joined(l, a, n, r), l, a, n, dounion(l[(a + n) - 1], r))
        BY <1>6, <2>1, JoinedReplaces
      <3> QED BY <2>2, <2>4, <2>5, <3>1
    <2>7. isintersectWP(l[z], r)
      BY <1>4, <2>4 DEF Place
    <2>8. Made(u, l, r)
      BY <2>5, <2>7 DEF Made
    <2>9. MadeOf(m, l, r)
      BY <1>6, <2>6, <2>8, ReplacedIsMade
    <2>10. a # 1 => ~isintersectWP(l[a - 1], r)
      BY <1>7, <1>12
    <2>11. ASSUME Apart(l) PROVE Apart(m) /\ NumbersOf(m) = NumbersOf(l) \cup Numbers(r)
      BY <1>4, <1>12, <2>2, <2>10, <2>11, JoinBehind
    <2> QED BY <1>2, <1>8, <1>12, <2>3, <2>9, <2>11
  <1>13. CASE ~TouchesPred(l, st, r) /\ n = 0 /\ bridged' = bridged
              /\ lst' = IF st = 0 THEN Append(l, r) ELSE InsertAt(l, st, r)
    <2>1. PICK m : m = IF st = 0 THEN Append(l, r) ELSE InsertAt(l, st, r)
      OBVIOUS
    <2>2. Replaced(m, l, a, 0, r)
      <3>1. CASE st = 0
        <4>1. a = Len(l) + 1
          BY <1>5, <1>6, <3>1
        <4>2. Replaced(Append(l, r), l, Len(l) + 1, 0, r)
          BY AppendReplaces
        <4> QED BY <2>1, <3>1, <4>1, <4>2
      <3>2. CASE st # 0
        <4>1. st \in 1 .. Len(l) /\ a = st
          BY <1>4, <1>5, <1>6, <3>2
        <4>2. Replaced(InsertAt(l, st, r), l, st, 0, r)
          BY <4>1, InsertReplaces
        <4> QED BY <2>1, <3>2, <4>1, <4>2
      <3> QED BY <3>1, <3>2
    <2>3. Made(r, l, r)
      BY DEF Made
    <2>4. 0 \in Nat /\ a + 0 <= Len(l) + 1
      BY <1>6, <1>13
    <2>5. MadeOf(m, l, r)
      BY <1>6, <2>2, <2>3, <2>4, ReplacedIsMade
    <2>6. a # 1 => ~isintersectWP(l[a - 1], r)
      BY <1>7, <1>13
    <2>7. Place(l, r, a, 0)
      BY <1>4, <1>13
    <2>8. ASSUME Apart(l) PROVE Apart(m) /\ NumbersOf(m) = NumbersOf(l) \cup Numbers(r)
      BY <2>2, <2>6, <2>7, <2>8, PlaceOfItsOwn
    <2>9. lst' = m
      BY <1>13, <2>1
    <2> QED BY <1>2, <1>8, <1>13, <2>5, <2>8, <2>9
  <1>14. n > 0 <=> n # 0
    BY <1>6
  <1>15. \/ TouchesPred(l, st, r) /\ n # 0 /\ st + n <= Len(l) /\ bridged' = "yes" /\ lst' = JoinedBoth(l, st, n, r)
         \/ lst' = <<>> /\ bridged' = "overrun"
         \/ TouchesPred(l, st, r) /\ n = 0 /\ lst' = [l EXCEPT ![Pred(l, st)] = dounion(@, r)] /\ bridged' = bridged
         \/ ~TouchesPred(l, st, r) /\ n # 0 /\ lst' = Joined(l, st, n, r) /\ bridged' = bridged
         \/ ~TouchesPred(l, st, r) /\ n = 0 /\ bridged' = bridged
              /\ lst' = IF st = 0 THEN Append(l, r) ELSE InsertAt(l, st, r)
    BY <1>2, <1>3, <1>14, ZenonT(60) DEF addrange
  <1> QED BY <1>9, <1>10, <1>11, <1>12, <1>13, <1>15

LEMMA AddKeeps ==
  ASSUME MapInv, NEW r \in Ranges, EndOf(r) <= MapSize, addrange(r)
  PROVE  MapInv'
  <1>1. MapSize \in Nat
    BY MapAssumption
  <1>2. /\ lst \in Seq(Ranges) /\ \A i \in 1 .. Len(lst) : EndOf(lst[i]) <= MapSize
        /\ added \subseteq 0 .. MapSize - 1 /\ NumbersOf(lst) \subseteq added
        /\ bridged = "no" => NumbersOf(lst) = added /\ Apart(lst)
    BY DEF MapInv, InOrder
  <1>3. added' = added \cup Numbers(r)
    BY WhatWasStored
  <1>4. added' \subseteq 0 .. MapSize - 1
    <2>1. \A p \in Numbers(r) : p \in 0 .. MapSize - 1
      BY <1>1, RangeIs
    <2> QED BY <1>2, <1>3, <2>1
  <1>5. CASE lst' = <<>> /\ bridged' = "overrun"
    <2>1. lst' \in Seq(Ranges) /\ Len(lst') = 0
      BY <1>5, EmptySeq
    <2>2. NumbersOf(lst') = {}
      BY <2>1, EmptyHasNone
    <2>3. 1 .. Len(lst') = {}
      BY <2>1
    <2>4. bridged' # "no" /\ NumbersOf(lst') \subseteq added'
      BY <1>5, <2>2
    <2> QED BY <1>4, <2>1, <2>3, <2>4 DEF MapInv, InOrder
  <1>6. CASE MadeOf(lst', lst, r)
    <2>1. /\ NumbersOf(lst') \subseteq NumbersOf(lst) \cup Numbers(r)
          /\ \A i \in 1 .. Len(lst') : EndOf(lst'[i]) <= MapSize
      BY <1>1, <1>2, <1>6, MadeKeeps
    <2>2. lst' \in Seq(Ranges)
      BY <1>6 DEF MadeOf
    <2>3. NumbersOf(lst') \subseteq added'
      BY <1>2, <1>3, <2>1
    <2>4. ASSUME bridged' = "no" PROVE NumbersOf(lst') = added' /\ Apart(lst')
      <3>1. /\ bridged' = bridged
            /\ Apart(lst) => Apart(lst') /\ NumbersOf(lst') = NumbersOf(lst) \cup Numbers(r)
        BY <2>4, WhatWasStored
      <3> QED BY <1>2, <1>3, <2>4, <3>1
    <2> QED BY <1>4, <2>1, <2>2, <2>3, <2>4 DEF MapInv, InOrder
  <1> QED BY <1>5, <1>6, WhatWasStored

LEMMA MapInvHolds == MapSpec => []MapInv
  <1>1. ASSUME MapInv, MapNext PROVE MapInv'
    <2>a. PICK s \in 0 .. MapSize - 1 : \E n \in 0 .. MapSize - s : addrange(cRange(s, n))
      BY <1>1 DEF MapNext
    <2>1. PICK n \in 0 .. MapSize - s : addrange(cRange(s, n))
      BY <2>a
    <2>2. PICK r : r = cRange(s, n)
      OBVIOUS
    <2>3. MapSize \in Nat /\ s \in Nat /\ n \in Nat /\ s + n <= MapSize
      BY MapAssumption
    <2>4. r = [start |-> s, sz |-> n]
      BY <2>2, <2>3 DEF cRange
    <2>5. r \in Ranges /\ EndOf(r) <= MapSize
      BY <2>3, <2>4 DEF Ranges, EndOf
    <2>6. addrange(r)
      BY <2>1, <2>2
    <2> QED BY <1>1, <2>5, <2>6, AddKeeps
  <1>2. ASSUME MapInv, UNCHANGED mapVars PROVE MapInv'
    BY <1>2 DEF MapInv, InOrder, mapVars
  <1>3. MapInit => MapInv
    BY MapInitial
  <1>4. MapInv /\ [MapNext]_mapVars => MapInv'
    BY <1>1, <1>2
  <1> QED BY <1>3, <1>4, PTL DEF MapSpec

-----------------------------------------------------------------------------
(* What is read from a list of ranges in order and apart.                  *)

\* findAt looks for the first range that ends behind the number.
LEMMA FindAtIs ==
  ASSUME NEW l \in Seq(Ranges), Apart(l), NEW p \in Nat
  PROVE  findAt(l, p) = 1 <=> p \in NumbersOf(l)
  <1>1. PICK len \in Nat : len = Len(l) /\ DOMAIN l = 1 .. len
    BY ListIs
  <1>2. \A i \in 1 .. len : /\ l[i] \in Ranges /\ l[i].start \in Nat /\ EndOf(l[i]) \in Nat /\ l[i].sz \in Nat
                            /\ l[i].start <= EndOf(l[i])
                            /\ p \in Numbers(l[i]) <=> l[i].start <= p /\ p < EndOf(l[i])
    BY <1>1, ListIs, RangeIs
  <1>3. PICK at : at = {i \in 1 .. len : p - l[i].start < l[i].sz}
    OBVIOUS
  <1>4. ASSUME NEW i \in 1 .. len PROVE i \in at <=> p < EndOf(l[i])
    <2>1. EndOf(l[i]) = l[i].start + l[i].sz
      BY DEF EndOf
    <2>2. p - l[i].start < l[i].sz <=> p < l[i].start + l[i].sz
      BY <1>2
    <2> QED BY <1>3, <2>1, <2>2
  <1>5. p \in NumbersOf(l) <=> \E i \in 1 .. len : p \in Numbers(l[i])
    BY <1>1, ListIs
  <1>6. findAt(l, p) = IF at = {} THEN 0 ELSE IF p < l[Min(at)].start THEN 0 ELSE 1
    BY <1>1, <1>3 DEF findAt
  <1>7. CASE at = {}
    BY <1>2, <1>4, <1>5, <1>6, <1>7
  <1>8. CASE at # {}
    <2>1. at \subseteq Nat
      BY <1>3
    <2>2. PICK m : m = Min(at)
      OBVIOUS
    <2>3. m \in at /\ \A k \in at : m <= k
      BY <1>8, <2>1, <2>2, MinIs
    <2>4. m \in 1 .. len /\ p < EndOf(l[m])
      BY <1>3, <1>4, <2>3
    <2>5. CASE p < l[m].start
      <3>1. ASSUME NEW i \in 1 .. len PROVE p \notin Numbers(l[i])
        <4>1. CASE i < m
          <5>1. i \notin at
            BY <2>3, <2>4, <4>1
          <5> QED BY <1>2, <1>4, <5>1
        <4>2. CASE m < i
          <5>1. EndOf(l[m]) < l[i].start
            BY <1>1, <2>4, <4>2 DEF Apart
          <5> QED BY <1>2, <2>4, <2>5, <5>1
        <4>3. CASE i = m
          BY <1>2, <2>5, <4>3
        <4> QED BY <2>4, <4>1, <4>2, <4>3
      <3> QED BY <1>5, <1>6, <1>8, <2>2, <2>5, <3>1
    <2>6. CASE ~(p < l[m].start)
      <3>1. p \in Numbers(l[m])
        BY <1>2, <2>4, <2>6
      <3> QED BY <1>5, <1>6, <1>8, <2>2, <2>4, <2>6, <3>1
    <2> QED BY <2>5, <2>6
  <1> QED BY <1>7, <1>8

\* power adds the sizes up.
LEMMA SizesAre ==
  ASSUME NEW l \in Seq(Ranges)
  PROVE  /\ Sizes(l) \in [0 .. Len(l) -> Nat] /\ Sizes(l)[0] = 0
         /\ \A i \in 1 .. Len(l) : Sizes(l)[i] = Sizes(l)[i - 1] + l[i].sz
  <1>1. PICK len \in Nat : len = Len(l)
    BY ListIs
  <1>2. \A i \in 1 .. len : l[i].sz \in Nat
    BY <1>1, ListIs, RangeIs
  <1>3. PICK step : step = [x \in (1 .. len) \X Nat |-> x[2] + l[x[1]].sz]
    OBVIOUS
  <1>4. step \in [(1 .. len) \X Nat -> Nat]
    BY <1>2, <1>3
  <1>5. PICK f \in [0 .. len -> Nat] : Solves(f, len, 0, step)
    BY <1>4, Recursion
  <1>6. \A i \in 1 .. len : i - 1 \in 0 .. len /\ f[i - 1] \in Nat
    OBVIOUS
  <1>7. \A i \in 1 .. len : f[i] = f[i - 1] + l[i].sz
    BY <1>3, <1>5, <1>6 DEF Solves
  <1>8. f[0] = 0
    BY <1>5 DEF Solves
  <1>9. f = [i \in 0 .. len |-> IF i = 0 THEN 0 ELSE f[i - 1] + l[i].sz]
    BY <1>7, <1>8
  <1>10. \E g : g = [i \in 0 .. len |-> IF i = 0 THEN 0 ELSE g[i - 1] + l[i].sz]
    BY <1>9
  <1>11. PICK h : h = Sizes(l)
    OBVIOUS
  <1>12. h = CHOOSE g : g = [i \in 0 .. len |-> IF i = 0 THEN 0 ELSE g[i - 1] + l[i].sz]
    BY <1>1, <1>11 DEF Sizes
  <1>13. h = [i \in 0 .. len |-> IF i = 0 THEN 0 ELSE h[i - 1] + l[i].sz]
    BY <1>10, <1>12
  <1>14. h[0] = 0 /\ \A i \in 1 .. len : h[i] = h[i - 1] + l[i].sz
    BY <1>13
  <1>15. \A i \in 0 .. len : h[i] \in Nat
    <2>1. PICK G : G = {i \in 0 .. len : h[i] \in Nat}
      OBVIOUS
    <2>2. 0 \in G
      BY <1>14, <2>1
    <2>3. ASSUME NEW i \in 0 .. len - 1, i \in G PROVE i + 1 \in G
      <3>1. i + 1 \in 1 .. len /\ (i + 1) - 1 = i
        OBVIOUS
      <3>2. h[i + 1] = h[i] + l[i + 1].sz
        BY <1>14, <3>1
      <3>3. h[i] \in Nat /\ l[i + 1].sz \in Nat
        BY <1>2, <2>1, <2>3, <3>1
      <3>4. h[i + 1] \in Nat
        <4>1. PICK x \in Nat, y \in Nat : x = h[i] /\ y = l[i + 1].sz
          BY <3>3
        <4>2. x + y \in Nat
          OBVIOUS
        <4> QED BY <3>2, <4>1, <4>2
      <3>5. i + 1 \in 0 .. len
        BY <3>1
      <3> QED BY <2>1, <3>4, <3>5
    <2>4. \A i \in 0 .. len : i \in G
      BY <2>2, <2>3, Induction
    <2> QED BY <2>1, <2>4
  <1> QED BY <1>1, <1>11, <1>13, <1>14, <1>15

LEMMA RangeCardinality ==
  ASSUME NEW r \in Ranges
  PROVE  IsFiniteSet(Numbers(r)) /\ Cardinality(Numbers(r)) = r.sz
  <1>1. PICK b \in Nat, n \in Nat : b = r.start /\ n = r.sz
    BY DEF Ranges
  <1>2. PICK e \in Int : e = b + n - 1 /\ (b > e <=> n = 0) /\ e - b + 1 = n
    OBVIOUS
  <1>3. EndOf(r) - 1 = e
    BY <1>1, <1>2 DEF EndOf
  <1>a. Numbers(r) = b .. e
    BY <1>1, <1>3 DEF Numbers
  <1>4. IsFiniteSet(b .. e) /\ Cardinality(b .. e) = IF b > e THEN 0 ELSE e - b + 1
    BY FS_Interval
  <1> QED BY <1>1, <1>2, <1>4, <1>a

LEMMA PowerIs ==
  ASSUME NEW l \in Seq(Ranges), Apart(l)
  PROVE  power(l) = Cardinality(NumbersOf(l))
  <1>1. PICK len \in Nat : len = Len(l) /\ DOMAIN l = 1 .. len
    BY ListIs
  <1>2. PICK f : f = Sizes(l)
    OBVIOUS
  <1>3. f \in [0 .. len -> Nat] /\ f[0] = 0 /\ \A i \in 1 .. len : f[i] = f[i - 1] + l[i].sz
    BY <1>1, <1>2, SizesAre
  <1>4. PICK upto : upto = [k \in 0 .. len |-> {p \in Nat : \E i \in 1 .. k : p \in Numbers(l[i])}]
    OBVIOUS
  <1>5. PICK G : G = {k \in 0 .. len : IsFiniteSet(upto[k]) /\ Cardinality(upto[k]) = f[k]}
    OBVIOUS
  <1>6. 0 \in G
    <2>1. upto[0] = {}
      BY <1>4
    <2>2. IsFiniteSet(upto[0]) /\ Cardinality(upto[0]) = 0
      BY <2>1, FS_EmptySet
    <2>3. 0 \in 0 .. len /\ f[0] = 0
      BY <1>1, <1>3
    <2> QED BY <1>5, <2>2, <2>3
  <1>7. ASSUME NEW k \in 0 .. len - 1, k \in G PROVE k + 1 \in G
    <2>1. PICK j \in 1 .. len : j = k + 1 /\ j - 1 = k
      BY <1>1
    <2>2. PICK q \in Ranges : q = l[j]
      BY <1>1, ListIs
    <2>3. \A p \in Numbers(q) : p \in Nat
      BY RangeIs
    <2>4. \A i : i \in 1 .. j <=> i \in 1 .. k \/ i = j
      BY <2>1
    <2>5. j \in 0 .. len /\ k \in 0 .. len
      BY <2>1
    <2>6. upto[j] = {p \in Nat : \E i \in 1 .. j : p \in Numbers(l[i])}
      BY <1>4, <2>5
    <2>7. upto[k] = {p \in Nat : \E i \in 1 .. k : p \in Numbers(l[i])}
      BY <1>4, <2>5
    <2>8. upto[j] = upto[k] \cup Numbers(q)
      BY <2>2, <2>3, <2>4, <2>6, <2>7
    <2>9. ASSUME NEW p \in upto[k] PROVE p \notin Numbers(q)
      <3>1. PICK i \in 1 .. k : p \in Numbers(l[i])
        BY <2>7, <2>9
      <3>2. i \in 1 .. len /\ i < j
        BY <2>1
      <3>3. EndOf(l[i]) < q.start
        BY <1>1, <2>2, <3>2 DEF Apart
      <3>4. PICK o \in Ranges : o = l[i]
        BY <1>1, <3>2, ListIs
      <3>5. p \in Nat /\ p < EndOf(o)
        BY <3>1, <3>4, RangeIs
      <3>6. ~(q.start <= p)
        <4>1. EndOf(o) \in Nat /\ q.start \in Nat
          BY RangeIs
        <4> QED BY <3>3, <3>4, <3>5, <4>1
      <3> QED BY <3>6, RangeIs
    <2>10. upto[k] \cap Numbers(q) = {}
      BY <2>9
    <2>11. IsFiniteSet(upto[k]) /\ Cardinality(upto[k]) = f[k]
      BY <1>5, <1>7
    <2>12. PICK c \in Nat, d \in Nat : c = f[k] /\ d = q.sz
      BY <1>3, <2>5, RangeIs
    <2>13. IsFiniteSet(Numbers(q)) /\ Cardinality(Numbers(q)) = d
      BY <2>12, RangeCardinality
    <2>14. /\ IsFiniteSet(upto[k] \cup Numbers(q))
           /\ Cardinality(upto[k] \cup Numbers(q))
                = Cardinality(upto[k]) + Cardinality(Numbers(q)) - Cardinality(upto[k] \cap Numbers(q))
      BY <2>11, <2>13, FS_Union
    <2>15. Cardinality(upto[k] \cap Numbers(q)) = 0
      BY <2>10, FS_EmptySet
    <2>16. IsFiniteSet(upto[j]) /\ Cardinality(upto[j]) = c + d
      BY <2>8, <2>11, <2>12, <2>13, <2>14, <2>15
    <2>17. f[j] = c + d
      BY <1>3, <2>1, <2>2, <2>12
    <2> QED BY <1>5, <2>1, <2>5, <2>16, <2>17
  <1>a. \A k \in 0 .. len - 1 : k \in G => k + 1 \in G
    BY <1>7
  <1>b. \A k \in 0 .. len : k \in G
    BY <1>1, <1>6, <1>a, Induction
  <1>c. len \in 0 .. len
    BY <1>1
  <1>8. len \in G
    BY <1>b, <1>c
  <1>9. ASSUME NEW p PROVE p \in upto[len] <=> p \in NumbersOf(l)
    <2>1. p \in NumbersOf(l) <=> \E i \in 1 .. len : p \in Numbers(l[i])
      BY <1>1, ListIs
    <2>2. \A i \in 1 .. len : p \in Numbers(l[i]) => p \in Nat
      BY <1>1, ListIs, RangeIs
    <2>3. upto[len] = {x \in Nat : \E i \in 1 .. len : x \in Numbers(l[i])}
      BY <1>4
    <2> QED BY <2>1, <2>2, <2>3
  <1>10. upto[len] = NumbersOf(l)
    BY <1>9
  <1>11. power(l) = f[len]
    BY <1>1, <1>2 DEF power
  <1> QED BY <1>5, <1>8, <1>10, <1>11

-----------------------------------------------------------------------------
(* inverseto: the gaps in front of the ranges, and behind the last.        *)

Begin(l, k) == IF k = 0 THEN 0 ELSE IF k <= Len(l) THEN l[k].start ELSE MapSize
Free(l, k, p) == p \in Nat /\ p < Begin(l, k) /\ \A i \in 1 .. Len(l) : i <= k => p \notin Numbers(l[i])

LEMMA WithGapIs ==
  ASSUME NEW res \in Seq(Ranges), NEW b \in Nat, NEW e \in Nat, NEW m, m = WithGap(res, b, e)
  PROVE  /\ m \in Seq(Ranges)
         /\ \A p : p \in NumbersOf(m) <=> p \in NumbersOf(res) \/ (p \in Nat /\ b <= p /\ p < e)
  <1>1. CASE b < e
    <2>1. PICK r : r = cRange(b, e - b)
      OBVIOUS
    <2>2. r \in Ranges /\ r.start = b /\ EndOf(r) = e
      BY <1>1, <2>1, RangeMade
    <2>3. m = Append(res, r)
      BY <1>1, <2>1 DEF WithGap
    <2>4. m \in Seq(Ranges) /\ NumbersOf(m) = NumbersOf(res) \cup Numbers(r)
      BY <2>2, <2>3, AppendHas
    <2>5. \A p : p \in Numbers(r) <=> p \in Nat /\ b <= p /\ p < e
      BY <2>2, RangeIs
    <2> QED BY <2>4, <2>5
  <1>2. CASE ~(b < e)
    <2>1. m = res
      BY <1>2 DEF WithGap
    <2>2. \A p \in Nat : ~(b <= p /\ p < e)
      BY <1>2
    <2> QED BY <2>1, <2>2
  <1> QED BY <1>1, <1>2

\* With the gap in front of the next range, the numbers up to this range are complete.
LEMMA GapStep ==
  ASSUME NEW l \in Seq(Ranges), Apart(l), \A i \in 1 .. Len(l) : EndOf(l[i]) <= MapSize,
         NEW k \in 0 .. Len(l), NEW res \in Seq(Ranges),
         \A p : p \in NumbersOf(res) <=> Free(l, k, p),
         NEW m, m = WithGap(res, EndBefore(l, k + 1), Begin(l, k + 1))
  PROVE  m \in Seq(Ranges) /\ \A p : p \in NumbersOf(m) <=> Free(l, k + 1, p)
  <1>1. PICK len \in Nat : len = Len(l) /\ DOMAIN l = 1 .. len
    BY ListIs
  <1>2. \A i \in 1 .. len : /\ l[i] \in Ranges /\ l[i].start \in Nat /\ EndOf(l[i]) \in Nat
                            /\ l[i].start <= EndOf(l[i]) /\ EndOf(l[i]) <= MapSize
                            /\ \A p : p \in Numbers(l[i]) <=> p \in Nat /\ l[i].start <= p /\ p < EndOf(l[i])
    BY <1>1, ListIs, RangeIs
  <1>3. \A i, j \in 1 .. len : i < j => EndOf(l[i]) < l[j].start
    BY <1>1 DEF Apart
  <1>4. MapSize \in Nat
    BY MapAssumption
  <1>5. PICK j \in Nat : j = k + 1 /\ j - 1 = k /\ j # 0 /\ k \in Nat /\ k <= len
    BY <1>1
  <1>6. PICK b : b = EndBefore(l, j)
    OBVIOUS
  <1>7. b = IF k = 0 THEN 0 ELSE EndOf(l[k])
    <2>1. j = 1 <=> k = 0
      BY <1>5
    <2> QED BY <1>5, <1>6, <2>1 DEF EndBefore
  <1>8. b \in Nat
    <2>1. k # 0 => k \in 1 .. len
      BY <1>5
    <2> QED BY <1>2, <1>7, <2>1
  <1>9. PICK e : e = Begin(l, j)
    OBVIOUS
  <1>10. e = IF j <= len THEN l[j].start ELSE MapSize
    BY <1>1, <1>5, <1>9 DEF Begin
  <1>11. e \in Nat
    <2>1. j <= len => j \in 1 .. len
      BY <1>5
    <2> QED BY <1>2, <1>4, <1>10, <2>1
  <1>12. m = WithGap(res, b, e)
    BY <1>5, <1>6, <1>9
  <1>13. /\ m \in Seq(Ranges)
         /\ \A p : p \in NumbersOf(m) <=> p \in NumbersOf(res) \/ (p \in Nat /\ b <= p /\ p < e)
    BY <1>8, <1>11, <1>12, WithGapIs
  <1>14. ASSUME NEW i \in 1 .. len, i <= k PROVE EndOf(l[i]) <= b
    <2>1. k \in 1 .. len /\ k # 0 /\ b = EndOf(l[k])
      BY <1>5, <1>7, <1>14
    <2>2. CASE i = k
      BY <1>2, <2>1, <2>2
    <2>3. CASE i < k
      <3>1. EndOf(l[i]) < l[k].start
        BY <1>3, <2>1, <2>3
      <3> QED BY <1>2, <2>1, <3>1
    <2> QED BY <1>5, <1>14, <2>2, <2>3
  <1>15. \A p \in Nat : p \in Numbers(l[j]) /\ j \in 1 .. len => e <= p
    <2> SUFFICES ASSUME NEW p \in Nat, p \in Numbers(l[j]), j \in 1 .. len PROVE e <= p
      OBVIOUS
    <2>1. e = l[j].start
      BY <1>10
    <2> QED BY <1>2, <2>1
  <1>16. b <= e
    <2>1. CASE k = 0
      BY <1>7, <1>11, <2>1
    <2>2. CASE k # 0
      <3>1. k \in 1 .. len /\ b = EndOf(l[k])
        BY <1>5, <1>7, <2>2
      <3>2. CASE j <= len
        <4>1. j \in 1 .. len /\ k < j
          BY <1>5, <3>2
        <4>2. EndOf(l[k]) < l[j].start
          BY <1>3, <3>1, <4>1
        <4> QED BY <1>2, <1>10, <3>1, <3>2, <4>1, <4>2
      <3>3. CASE ~(j <= len)
        BY <1>2, <1>10, <3>1, <3>3
      <3> QED BY <3>2, <3>3
    <2> QED BY <2>1, <2>2
  <1>17. PICK c : c = Begin(l, k)
    OBVIOUS
  <1>18. c = IF k = 0 THEN 0 ELSE l[k].start
    BY <1>1, <1>5, <1>17 DEF Begin
  <1>19. c \in Nat /\ c <= b
    <2>1. k # 0 => k \in 1 .. len
      BY <1>5
    <2> QED BY <1>2, <1>7, <1>18, <2>1
  <1>20. ASSUME NEW p PROVE p \in NumbersOf(m) <=> Free(l, j, p)
    <2>1. Free(l, k, p) <=> p \in Nat /\ p < c /\ \A i \in 1 .. len : i <= k => p \notin Numbers(l[i])
      BY <1>1, <1>17 DEF Free
    <2>2. Free(l, j, p) <=> p \in Nat /\ p < e /\ \A i \in 1 .. len : i <= j => p \notin Numbers(l[i])
      BY <1>1, <1>9 DEF Free
    <2>3. p \in NumbersOf(m) <=> Free(l, k, p) \/ (p \in Nat /\ b <= p /\ p < e)
      BY <1>13
    <2>4. \A i \in 1 .. len : i <= j <=> i <= k \/ i = j
      BY <1>5
    <2>5. ASSUME p \in Nat, b <= p, p < e PROVE Free(l, j, p)
      <3>1. ASSUME NEW i \in 1 .. len, i <= j PROVE p \notin Numbers(l[i])
        <4>1. CASE i <= k
          <5>1. EndOf(l[i]) <= b
            BY <1>14, <4>1
          <5>2. EndOf(l[i]) \in Nat /\ (p \in Numbers(l[i]) => p < EndOf(l[i]))
            BY <1>2
          <5>3. ~(p < EndOf(l[i]))
            BY <1>8, <2>5, <5>1, <5>2
          <5> QED BY <5>2, <5>3
        <4>2. CASE i = j
          BY <1>11, <1>15, <2>5, <4>2
        <4> QED BY <2>4, <3>1, <4>1, <4>2
      <3> QED BY <2>2, <2>5, <3>1
    <2>6. ASSUME Free(l, k, p) PROVE Free(l, j, p)
      <3>1. p \in Nat /\ p < e
        BY <1>8, <1>11, <1>16, <1>19, <2>1, <2>6
      <3>2. ASSUME j \in 1 .. len PROVE p \notin Numbers(l[j])
        <4>1. ~(e <= p)
          BY <1>11, <3>1
        <4> QED BY <1>15, <3>1, <3>2, <4>1
      <3> QED BY <2>1, <2>2, <2>4, <2>6, <3>1, <3>2
    <2>7. ASSUME Free(l, j, p), ~(b <= p) PROVE Free(l, k, p)
      <3>1. p \in Nat /\ \A i \in 1 .. len : i <= j => p \notin Numbers(l[i])
        BY <2>2, <2>7
      <3>2. \A i \in 1 .. len : i <= k => p \notin Numbers(l[i])
        BY <2>4, <3>1
      <3>3. p < c
        <4>1. CASE k = 0
          BY <1>7, <2>7, <3>1, <4>1
        <4>2. CASE k # 0
          <5>1. k \in 1 .. len /\ k <= k /\ b = EndOf(l[k]) /\ c = l[k].start
            BY <1>5, <1>7, <1>18, <4>2
          <5>2. p \notin Numbers(l[k])
            BY <3>2, <5>1
          <5>3. p < b
            BY <1>8, <2>7, <3>1
          <5>4. p \in Numbers(l[k]) <=> p \in Nat /\ c <= p /\ p < b
            BY <1>2, <5>1
          <5>5. ~(c <= p)
            BY <3>1, <5>2, <5>3, <5>4
          <5> QED BY <1>19, <3>1, <5>5
        <4> QED BY <4>1, <4>2
      <3> QED BY <2>1, <3>1, <3>2, <3>3
    <2>8. Free(l, j, p) => p \in Nat /\ p < e
      BY <2>2
    <2> QED BY <2>3, <2>5, <2>6, <2>7, <2>8
  <1> QED BY <1>5, <1>13, <1>20

LEMMA GapsAre ==
  ASSUME NEW l \in Seq(Ranges)
  PROVE  /\ Gaps(l)[0] = <<>>
         /\ \A i \in 1 .. Len(l) : Gaps(l)[i] = WithGap(Gaps(l)[i - 1], EndBefore(l, i), l[i].start)
  <1>1. PICK len \in Nat : len = Len(l)
    BY ListIs
  <1>2. \A i \in 1 .. len : l[i].start \in Nat /\ EndOf(l[i]) \in Nat
    BY <1>1, ListIs, RangeIs
  <1>3. ASSUME NEW i \in 1 .. len PROVE EndBefore(l, i) \in Nat
    <2>1. i # 1 => i - 1 \in 1 .. len
      OBVIOUS
    <2> QED BY <1>2, <2>1 DEF EndBefore
  <1>4. PICK S, step : S = Seq(Ranges)
          /\ step = [x \in (1 .. len) \X S |-> WithGap(x[2], EndBefore(l, x[1]), l[x[1]].start)]
    OBVIOUS
  <1>5. ASSUME NEW i \in 1 .. len, NEW res \in S PROVE WithGap(res, EndBefore(l, i), l[i].start) \in S
    BY <1>2, <1>3, <1>4, WithGapIs
  <1>6. step \in [(1 .. len) \X S -> S]
    BY <1>4, <1>5
  <1>7. PICK a : a = <<>> /\ a \in S
    BY <1>4, EmptySeq
  <1>8. PICK f \in [0 .. len -> S] : Solves(f, len, a, step)
    BY <1>6, <1>7, Recursion
  <1>9. \A i \in 1 .. len : i - 1 \in 0 .. len /\ f[i - 1] \in S
    OBVIOUS
  <1>10. \A i \in 1 .. len : f[i] = WithGap(f[i - 1], EndBefore(l, i), l[i].start)
    <2> SUFFICES ASSUME NEW i \in 1 .. len PROVE f[i] = WithGap(f[i - 1], EndBefore(l, i), l[i].start)
      OBVIOUS
    <2>1. f[i] = step[<<i, f[i - 1]>>]
      BY <1>8 DEF Solves
    <2>2. <<i, f[i - 1]>> \in (1 .. len) \X S
      BY <1>9
    <2>3. step[<<i, f[i - 1]>>] = WithGap(f[i - 1], EndBefore(l, i), l[i].start)
      BY <1>4, <2>2
    <2> QED BY <2>1, <2>3
  <1>11. f[0] = <<>>
    BY <1>7, <1>8 DEF Solves
  <1>12. f = [i \in 0 .. len |-> IF i = 0 THEN <<>> ELSE WithGap(f[i - 1], EndBefore(l, i), l[i].start)]
    BY <1>10, <1>11
  <1>13. \E g : g = [i \in 0 .. len |-> IF i = 0 THEN <<>> ELSE WithGap(g[i - 1], EndBefore(l, i), l[i].start)]
    BY <1>12
  <1>14. PICK h : h = Gaps(l)
    OBVIOUS
  <1>15. h = CHOOSE g : g = [i \in 0 .. len |->
                 IF i = 0 THEN <<>> ELSE WithGap(g[i - 1], EndBefore(l, i), l[i].start)]
    BY <1>1, <1>14 DEF Gaps
  <1>16. h = [i \in 0 .. len |-> IF i = 0 THEN <<>> ELSE WithGap(h[i - 1], EndBefore(l, i), l[i].start)]
    BY <1>13, <1>15
  <1> QED BY <1>1, <1>14, <1>16

LEMMA WithLastIs ==
  ASSUME NEW res \in Seq(Ranges), NEW b \in Nat, NEW m, m = WithLast(res, b)
  PROVE  \A p : p \in NumbersOf(m) <=> p \in NumbersOf(res) \/ (p \in Nat /\ b <= p /\ p < MapSize)
  <1>1. PICK e \in Nat : e = MapSize
    BY MapAssumption
  <1>2. CASE ~(b < e)
    <2>1. m = res
      BY <1>1, <1>2 DEF WithLast
    <2>2. \A p \in Nat : ~(b <= p /\ p < e)
      BY <1>2
    <2> QED BY <1>1, <2>1, <2>2
  <1>3. CASE b < e
    <2>1. PICK r : r = cRange(b, e - b)
      OBVIOUS
    <2>2. r \in Ranges /\ r.start = b /\ EndOf(r) = e
      BY <1>3, <2>1, RangeMade
    <2>3. \A p : p \in Numbers(r) <=> p \in Nat /\ b <= p /\ p < e
      BY <2>2, RangeIs
    <2>4. m = AddedBehind(res, r)
      BY <1>1, <1>3, <2>1 DEF WithLast
    <2>5. NumbersOf(m) = NumbersOf(res) \cup Numbers(r)
      <3>1. CASE ~TouchesPred(res, 0, r)
        <4>1. m = Append(res, r)
          BY <2>4, <3>1 DEF AddedBehind
        <4> QED BY <2>2, <4>1, AppendHas
      <3>2. CASE TouchesPred(res, 0, r)
        <4>1. PICK len \in Nat : len = Len(res)
          BY ListIs
        <4>2. len # 0 /\ isintersectWP(res[len], r)
          BY <3>2, <4>1 DEF TouchesPred, Pred
        <4>3. len \in 1 .. len /\ len \in 1 .. Len(res)
          BY <4>1, <4>2
        <4>4. PICK q \in Ranges : q = res[len]
          BY <4>3, ListIs
        <4>5. PICK u : u = dounion(q, r)
          OBVIOUS
        <4>6. u \in Ranges /\ Numbers(u) = Numbers(q) \cup Numbers(r)
          BY <2>2, <4>2, <4>4, <4>5, Union
        <4>7. m = [res EXCEPT ![len] = u]
          BY <2>4, <3>2, <4>1, <4>4, <4>5 DEF AddedBehind
        <4>8. /\ m \in Seq(Ranges) /\ Len(m) = Len(res)
              /\ \A i \in 1 .. Len(res) : m[i] = IF i = len THEN u ELSE res[i]
          BY <4>3, <4>6, <4>7, ExceptSeq
        <4>9. \A p : p \in NumbersOf(m) <=> \E i \in 1 .. len : p \in Numbers(m[i])
          BY <4>1, <4>8, ListIs
        <4>10. \A p : p \in NumbersOf(res) <=> \E i \in 1 .. len : p \in Numbers(res[i])
          BY <4>1, ListIs
        <4>11. \A i \in 1 .. len : m[i] = IF i = len THEN u ELSE res[i]
          BY <4>1, <4>8
        <4>12. ASSUME NEW p PROVE p \in NumbersOf(m) <=> p \in NumbersOf(res) \/ p \in Numbers(r)
          BY <4>3, <4>4, <4>6, <4>9, <4>10, <4>11
        <4> QED BY <4>12
      <3> QED BY <3>1, <3>2
    <2> QED BY <1>1, <2>3, <2>5
  <1> QED BY <1>2, <1>3

LEMMA InverseIs ==
  ASSUME NEW l \in Seq(Ranges), Apart(l), \A i \in 1 .. Len(l) : EndOf(l[i]) <= MapSize
  PROVE  \A p : p \in NumbersOf(inverseto(l)) <=> p \in Nat /\ p < MapSize /\ p \notin NumbersOf(l)
  <1>1. PICK len \in Nat : len = Len(l)
    BY ListIs
  <1>2. PICK h : h = Gaps(l)
    OBVIOUS
  <1>3. h[0] = <<>> /\ \A i \in 1 .. len : h[i] = WithGap(h[i - 1], EndBefore(l, i), l[i].start)
    BY <1>1, <1>2, GapsAre
  <1>4. PICK G : G = {k \in 0 .. len : h[k] \in Seq(Ranges) /\ \A p : p \in NumbersOf(h[k]) <=> Free(l, k, p)}
    OBVIOUS
  <1>5. 0 \in G
    <2>1. h[0] \in Seq(Ranges) /\ Len(h[0]) = 0
      BY <1>3, EmptySeq
    <2>2. NumbersOf(h[0]) = {}
      BY <2>1, EmptyHasNone
    <2>3. ASSUME NEW p PROVE ~Free(l, 0, p)
      BY DEF Free, Begin
    <2>4. 0 \in 0 .. len
      BY <1>1
    <2> QED BY <1>4, <2>1, <2>2, <2>3, <2>4
  <1>6. ASSUME NEW k \in 0 .. len - 1, k \in G PROVE k + 1 \in G
    <2>1. k + 1 \in 1 .. len /\ (k + 1) - 1 = k /\ k \in 0 .. Len(l) /\ k + 1 # 0 /\ k + 1 <= Len(l)
      BY <1>1
    <2>2. h[k] \in Seq(Ranges) /\ \A p : p \in NumbersOf(h[k]) <=> Free(l, k, p)
      BY <1>4, <1>6
    <2>3. l[k + 1].start = Begin(l, k + 1)
      BY <2>1 DEF Begin
    <2>4. h[k + 1] = WithGap(h[k], EndBefore(l, k + 1), Begin(l, k + 1))
      BY <1>3, <2>1, <2>3
    <2>5. h[k + 1] \in Seq(Ranges) /\ \A p : p \in NumbersOf(h[k + 1]) <=> Free(l, k + 1, p)
      BY <2>1, <2>2, <2>4, GapStep
    <2>6. k + 1 \in 0 .. len
      BY <2>1
    <2> QED BY <1>4, <2>5, <2>6
  <1>7. \A k \in 0 .. len - 1 : k \in G => k + 1 \in G
    BY <1>6
  <1>8. \A k \in 0 .. len : k \in G
    BY <1>1, <1>5, <1>7, Induction
  <1>9. len \in 0 .. len /\ len \in 0 .. Len(l) /\ len + 1 # 0 /\ ~(len + 1 <= Len(l)) /\ len + 1 \in Nat
    BY <1>1
  <1>10. h[len] \in Seq(Ranges) /\ \A p : p \in NumbersOf(h[len]) <=> Free(l, len, p)
    BY <1>4, <1>8, <1>9
  <1>11. PICK m : m = inverseto(l)
    OBVIOUS
  <1>12. Begin(l, len + 1) = MapSize
    BY <1>9 DEF Begin
  <1>a. PICK b : b = EndBefore(l, len + 1)
    OBVIOUS
  <1>b. b \in Nat
    <2>1. len + 1 = 1 <=> len = 0
      BY <1>1
    <2>2. (len + 1) - 1 = len /\ (len # 0 => len \in 1 .. Len(l))
      BY <1>1
    <2>3. len # 0 => EndOf(l[len]) \in Nat
      BY <2>2, ListIs, RangeIs
    <2> QED BY <1>a, <2>1, <2>2, <2>3 DEF EndBefore
  <1>c. PICK w : w = WithGap(h[len], EndBefore(l, len + 1), Begin(l, len + 1))
    OBVIOUS
  <1>d. \A p : p \in NumbersOf(w) <=> Free(l, len + 1, p)
    BY <1>9, <1>10, <1>c, GapStep
  <1>e. PICK e \in Nat : e = MapSize
    BY MapAssumption
  <1>f. w = WithGap(h[len], b, e)
    BY <1>12, <1>a, <1>c, <1>e
  <1>g. \A p : p \in NumbersOf(w) <=> p \in NumbersOf(h[len]) \/ (p \in Nat /\ b <= p /\ p < e)
    <2>1. PICK res \in Seq(Ranges) : res = h[len]
      BY <1>10
    <2>2. w = WithGap(res, b, e)
      BY <1>f, <2>1
    <2>3. \A p : p \in NumbersOf(w) <=> p \in NumbersOf(res) \/ (p \in Nat /\ b <= p /\ p < e)
      BY <1>b, <2>2, WithGapIs
    <2> QED BY <2>1, <2>3
  <1>13. m = WithLast(h[len], b)
    BY <1>1, <1>2, <1>11, <1>a DEF inverseto
  <1>h. \A p : p \in NumbersOf(m) <=> p \in NumbersOf(h[len]) \/ (p \in Nat /\ b <= p /\ p < MapSize)
    BY <1>10, <1>13, <1>b, WithLastIs
  <1>14. \A p : p \in NumbersOf(m) <=> Free(l, len + 1, p)
    BY <1>d, <1>e, <1>g, <1>h
  <1>15. ASSUME NEW p PROVE Free(l, len + 1, p) <=> p \in Nat /\ p < MapSize /\ p \notin NumbersOf(l)
    <2>1. p \in NumbersOf(l) <=> \E i \in 1 .. len : p \in Numbers(l[i])
      BY <1>1, ListIs
    <2>2. \A i \in 1 .. len : i <= len + 1
      BY <1>1
    <2>3. Free(l, len + 1, p) <=> p \in Nat /\ p < MapSize /\ \A i \in 1 .. len : p \notin Numbers(l[i])
      BY <1>1, <1>12, <2>2 DEF Free
    <2> QED BY <2>1, <2>3
  <1> QED BY <1>11, <1>14, <1>15

-----------------------------------------------------------------------------
LEMMA MapInvMeans == ASSUME MapInv PROVE MapHoldsWhatWasAdded
  <1>1. /\ lst \in Seq(Ranges) /\ \A i \in 1 .. Len(lst) : EndOf(lst[i]) <= MapSize
        /\ added \subseteq 0 .. MapSize - 1 /\ NumbersOf(lst) \subseteq added
        /\ bridged = "no" => NumbersOf(lst) = added /\ Apart(lst)
    BY DEF MapInv, InOrder
  <1>2. ASSUME bridged = "no"
        PROVE  /\ NumbersOf(lst) = added
               /\ \A i \in 1 .. Len(lst) - 1 : EndOf(lst[i]) < lst[i + 1].start
               /\ power(lst) = Cardinality(added)
               /\ \A p \in 0 .. MapSize - 1 : findAt(lst, p) = 1 <=> p \in added
               /\ NumbersOf(inverseto(lst)) = (0 .. MapSize - 1) \ added
    <2>1. NumbersOf(lst) = added /\ Apart(lst)
      BY <1>1, <1>2
    <2>2. Len(lst) \in Nat /\ DOMAIN lst = 1 .. Len(lst)
      BY <1>1, ListIs
    <2>3. ASSUME NEW i \in 1 .. Len(lst) - 1 PROVE EndOf(lst[i]) < lst[i + 1].start
      <3>1. i \in DOMAIN lst /\ i + 1 \in DOMAIN lst /\ i < i + 1
        BY <2>2
      <3> QED BY <2>1, <3>1 DEF Apart
    <2>4. power(lst) = Cardinality(added)
      BY <1>1, <2>1, PowerIs
    <2>5. \A p \in 0 .. MapSize - 1 : findAt(lst, p) = 1 <=> p \in added
      <3> SUFFICES ASSUME NEW p \in 0 .. MapSize - 1 PROVE findAt(lst, p) = 1 <=> p \in added
        OBVIOUS
      <3>1. p \in Nat
        OBVIOUS
      <3> QED BY <1>1, <2>1, <3>1, FindAtIs
    <2>6. \A p : p \in NumbersOf(inverseto(lst)) <=> p \in Nat /\ p < MapSize /\ p \notin added
      BY <1>1, <2>1, InverseIs
    <2>7. \A p : p \in 0 .. MapSize - 1 <=> p \in Nat /\ p < MapSize
      BY MapAssumption
    <2> QED BY <2>1, <2>3, <2>4, <2>5, <2>6, <2>7
  <1> QED BY <1>1, <1>2 DEF MapHoldsWhatWasAdded

\* In whatever order ranges are added, to a map of any size: the list never has a number that was not
\* added; and up to a range that touches one before it and one behind (or to the erasing of elements
\* behind the vector) it has all of them, in ranges in order and apart, power counts them, findAt finds
\* them and no others, and inverseto is the complement (tb_binmap.cpp).
THEOREM BinMapCorrect == MapSpec => []MapHoldsWhatWasAdded
  <1>1. MapInv => MapHoldsWhatWasAdded
    BY MapInvMeans
  <1> QED BY <1>1, MapInvHolds, PTL
=============================================================================
