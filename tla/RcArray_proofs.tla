--------------------------- MODULE RcArray_proofs ---------------------------
(***************************************************************************)
(* Theorems about RcArray: the blocks stay consistent, no operation        *)
(* touches an object that is not there, what is lost or written past a     *)
(* block has one of two causes, and the arrays behave as the sequences of  *)
(* ArraySem, for any number of arrays and any sizes.  RcInv is the         *)
(* inductive invariant; the lemmas follow the operations of the code from  *)
(* rc_string_header up, first for the objects in the cells, then, from     *)
(* "What the cells hold" on, for the values that are in them.              *)
(***************************************************************************)
EXTENDS RcArray, FiniteSetTheorems, SequenceTheorems, TLAPS

CellValues == Values \cup {Zero, Raw}
CellArrays == UNION {[0 .. c - 1 -> CellValues] : c \in Nat}
Headers == [refcnt : Nat, countchars : Nat, fdata : CellArrays]
States == [heap : [Blocks -> Headers], faults : SUBSET Faults,
           fstorage : Blocks \cup {Null}, sdata : Nat, fsize : Nat]

\* The cells of block b that hold objects are X; a string has no objects.
Live(s, b, X) == HasLifetime => \A i \in Cells(s, b) : s.heap[b].fdata[i] # Raw <=> i \in X
\* What can be constructed: an object is never Raw.
Objects(vs) == vs \in Seq(CellValues) /\ (HasLifetime => \A i \in 1 .. Len(vs) : vs[i] # Raw)

SameView(s, t) == t.fstorage = s.fstorage /\ t.sdata = s.sdata /\ t.fsize = s.fsize
\* From s to t only the blocks b and c have changed, and no block its cells or references.
AltersBoth(s, t, b, c) ==
  /\ t \in States /\ SameView(s, t)
  /\ \A d \in Blocks : d # b /\ d # c => t.heap[d] = s.heap[d]
  /\ \A d \in Blocks : t.heap[d].refcnt = s.heap[d].refcnt /\ Cells(t, d) = Cells(s, d)
Alters(s, t, b) == AltersBoth(s, t, b, b)
SameCount(s, t, b) == t.heap[b].countchars = s.heap[b].countchars

Count(s) == s.heap[s.fstorage].countchars
End(s) == s.sdata + s.fsize

\* Beside the array itself r[b] references to block b are held.
Counted(s, r) ==
  /\ r \in [Blocks -> Nat]
  /\ \A b \in Blocks : s.heap[b].refcnt = r[b] + IF s.fstorage = b THEN 1 ELSE 0
BlockSound(s, b) ==
  Live(s, b, 0 .. s.heap[b].countchars - 1) /\ s.heap[b].countchars <= freserve(s, b)
InView(s) == End(s) <= IF s.fstorage = Null THEN Len(Literal) ELSE Count(s)
Sound(s, r) ==
  s \in States /\ Counted(s, r) /\ InView(s) /\ \A b \in Blocks : BlockSound(s, b)
\* The array has its block for itself; the cells X of it hold objects.
Owner(s, r, X) ==
  /\ s \in States /\ Counted(s, r) /\ s.fstorage \in Blocks /\ r[s.fstorage] = 0
  /\ Live(s, s.fstorage, X)
  /\ \A b \in Blocks : b # s.fstorage => BlockSound(s, b)
\* A block of others keeps its cells.
Untouched(s, t, r) ==
  \A b \in Blocks : r[b] > 0 => /\ t.heap[b].fdata = s.heap[b].fdata
                                /\ t.heap[b].countchars = s.heap[b].countchars
\* The faults an operation may add: that it wrote past a block, that it lost objects, or none.
Harmless(s, t) == s.faults \subseteq t.faults /\ t.faults \subseteq s.faults \cup {"overrun"}
Lossy(s, t) == s.faults \subseteq t.faults /\ t.faults \subseteq s.faults \cup {"lost"}
Quiet(s, t) == t.faults \subseteq s.faults
\* The block has the cells for n elements, and for a string's zero.
Fits(s, n) == s.sdata + n + eAddZeroE <= freserve(s, s.fstorage)
\* There is a block for a new storage.
Room(s, r) == \E b \in Blocks : r[b] = 0 /\ b # s.fstorage

-----------------------------------------------------------------------------
(* Cells. *)

LEMMA CellsAre ==
  ASSUME NEW s \in States, NEW b \in Blocks
  PROVE  /\ s.heap[b] \in Headers
         /\ freserve(s, b) \in Nat /\ Cells(s, b) = 0 .. freserve(s, b) - 1
         /\ s.heap[b].fdata \in [Cells(s, b) -> CellValues]
  <1>1. s.heap[b] \in Headers /\ s.heap[b].fdata \in CellArrays
    BY DEF States, Headers
  <1>2. PICK c \in Nat : s.heap[b].fdata \in [0 .. c - 1 -> CellValues]
    BY <1>1 DEF CellArrays
  <1>3. Cells(s, b) = 0 .. c - 1
    BY <1>2 DEF Cells
  <1>4. Cardinality(0 .. c - 1) = c
    BY FS_Interval
  <1> QED BY <1>1, <1>2, <1>3, <1>4 DEF freserve

LEMMA SetCellsEffect ==
  ASSUME NEW s \in States, NEW b \in Blocks, NEW f \in [Cells(s, b) -> CellValues], NEW fault \in SUBSET Faults
  PROVE  /\ Alters(s, SetCells(s, b, f, fault), b) /\ SameCount(s, SetCells(s, b, f, fault), b)
         /\ SetCells(s, b, f, fault).heap[b].fdata = f
         /\ SetCells(s, b, f, fault).faults = s.faults \cup fault
  <1>1. f \in CellArrays
    BY CellsAre DEF CellArrays
  <1> DEFINE t == SetCells(s, b, f, fault)
  <1>2. /\ t.heap = [s.heap EXCEPT ![b] = [s.heap[b] EXCEPT !.fdata = f]]
        /\ t.faults = s.faults \cup fault /\ SameView(s, t)
    <2>1. t.heap = [s.heap EXCEPT ![b] = [s.heap[b] EXCEPT !.fdata = f]]
      BY DEF SetCells, States
    <2>2. t.faults = s.faults \cup fault
      BY DEF SetCells, States
    <2>3. SameView(s, t)
      BY DEF SetCells, States, SameView
    <2> QED BY <2>1, <2>2, <2>3
  <1>3. s.heap[b] \in Headers /\ [s.heap[b] EXCEPT !.fdata = f] \in Headers
    BY <1>1 DEF States, Headers
  <1>4. t.heap \in [Blocks -> Headers]
    BY <1>2, <1>3 DEF States
  <1>5. t \in States
    BY <1>2, <1>4 DEF States, SameView, SetCells
  <1>6. t.heap[b].fdata = f /\ t.heap[b].refcnt = s.heap[b].refcnt /\ SameCount(s, t, b)
    BY <1>2, <1>3 DEF SameCount, States, Headers
  <1>7. \A c \in Blocks \ {b} : t.heap[c] = s.heap[c]
    BY <1>2 DEF States
  <1>8. \A c \in Blocks : t.heap[c].refcnt = s.heap[c].refcnt /\ Cells(t, c) = Cells(s, c)
    BY <1>6, <1>7 DEF Cells
  <1> QED BY <1>2, <1>5, <1>6, <1>7, <1>8 DEF Alters, AltersBoth

LEMMA SetCellsOnly ==
  ASSUME NEW s \in States, NEW b \in Blocks, NEW f \in [Cells(s, b) -> CellValues]
  PROVE  /\ Alters(s, SetCells(s, b, f, {}), b) /\ SameCount(s, SetCells(s, b, f, {}), b)
         /\ SetCells(s, b, f, {}).heap[b].fdata = f
         /\ SetCells(s, b, f, {}).faults = s.faults
  <1>1. PICK none \in SUBSET Faults : none = {} OBVIOUS
  <1>2. s.faults \cup none = s.faults
    BY <1>1
  <1>3. /\ Alters(s, SetCells(s, b, f, none), b) /\ SameCount(s, SetCells(s, b, f, none), b)
        /\ SetCells(s, b, f, none).heap[b].fdata = f
        /\ SetCells(s, b, f, none).faults = s.faults \cup none
    BY SetCellsEffect
  <1> QED BY <1>1, <1>2, <1>3

LEMMA ValueNotRaw == ASSUME NEW v \in Values \cup {Zero} PROVE v # Raw /\ v \in CellValues
  BY ValuesAssumption DEF CellValues

LEMMA ConstructorArray ==
  ASSUME NEW s \in States, NEW b \in Blocks, NEW at \in Nat, NEW vs, Objects(vs), NEW X, Live(s, b, X),
         HasLifetime => (at .. at + Len(vs) - 1) \cap X = {}
  PROVE  LET t == constructorarray(s, b, at, vs) IN
         /\ Alters(s, t, b) /\ SameCount(s, t, b)
         /\ Live(t, b, X \cup (at .. at + Len(vs) - 1))
         /\ t.faults = s.faults \cup Fault("overrun", ~(at .. at + Len(vs) - 1 \subseteq Cells(s, b)))
  <1> DEFINE new == at .. at + Len(vs) - 1
             f == [i \in Cells(s, b) |-> IF i \in new THEN vs[i - at + 1] ELSE Cell(s, b, i)]
             fault == Fault("overrun", ~(new \subseteq Cells(s, b)))
             t == constructorarray(s, b, at, vs)
  <1>1. Len(vs) \in Nat /\ \A i \in new : i - at + 1 \in 1 .. Len(vs) /\ vs[i - at + 1] \in CellValues
    BY DEF Objects
  <1>2. \A i \in Cells(s, b) : Cell(s, b, i) = s.heap[b].fdata[i] /\ Cell(s, b, i) \in CellValues
    BY CellsAre DEF Cell
  <1>3. f \in [Cells(s, b) -> CellValues]
    BY <1>1, <1>2
  <1>4. Fault("construct", HasLifetime /\ \E i \in new : Cell(s, b, i) # Raw) = {}
    BY DEF Fault, Live, Cell
  <1>5. t = SetCells(s, b, f, fault)
    BY <1>4 DEF constructorarray
  <1>6. fault \in SUBSET Faults
    BY DEF Fault, Faults
  <1>7. HasLifetime => \A i \in Cells(s, b) : f[i] # Raw <=> i \in X \cup new
    BY <1>1, <1>2 DEF Live, Objects
  <1> HIDE DEF f, fault, t
  <1>8. /\ Alters(s, t, b) /\ SameCount(s, t, b) /\ t.heap[b].fdata = f /\ t.faults = s.faults \cup fault
    BY <1>3, <1>5, <1>6, SetCellsEffect
  <1>9. Live(t, b, X \cup new)
    BY <1>7, <1>8 DEF Live, Alters, AltersBoth
  <1> QED BY <1>8, <1>9 DEF fault, t

LEMMA CopyData ==
  ASSUME NEW s \in States, NEW b \in Blocks, NEW at \in Nat, NEW vs, Objects(vs), NEW X, Live(s, b, X),
         HasLifetime => at .. at + Len(vs) - 1 \subseteq X
  PROVE  LET t == copydata(s, b, at, vs) IN
         /\ Alters(s, t, b) /\ SameCount(s, t, b)
         /\ Live(t, b, X)
         /\ t.faults = s.faults \cup Fault("overrun", ~(at .. at + Len(vs) - 1 \subseteq Cells(s, b)))
  <1> DEFINE over == at .. at + Len(vs) - 1
             f == [i \in Cells(s, b) |-> IF i \in over THEN vs[i - at + 1] ELSE Cell(s, b, i)]
             fault == Fault("overrun", ~(over \subseteq Cells(s, b)))
             t == copydata(s, b, at, vs)
  <1>1. Len(vs) \in Nat /\ \A i \in over : i - at + 1 \in 1 .. Len(vs) /\ vs[i - at + 1] \in CellValues
    BY DEF Objects
  <1>2. \A i \in Cells(s, b) : Cell(s, b, i) = s.heap[b].fdata[i] /\ Cell(s, b, i) \in CellValues
    BY CellsAre DEF Cell
  <1>3. f \in [Cells(s, b) -> CellValues]
    BY <1>1, <1>2
  <1>4. Fault("move", HasLifetime /\ \E i \in over \cap Cells(s, b) : Cell(s, b, i) = Raw) = {}
    BY DEF Fault, Live, Cell
  <1>5. t = SetCells(s, b, f, fault)
    BY <1>4 DEF copydata
  <1>6. fault \in SUBSET Faults
    BY DEF Fault, Faults
  <1>7. HasLifetime => \A i \in Cells(s, b) : f[i] # Raw <=> i \in X
    BY <1>1, <1>2 DEF Live, Objects
  <1> HIDE DEF f, fault, t
  <1>8. /\ Alters(s, t, b) /\ SameCount(s, t, b) /\ t.heap[b].fdata = f /\ t.faults = s.faults \cup fault
    BY <1>3, <1>5, <1>6, SetCellsEffect
  <1>9. Live(t, b, X)
    BY <1>7, <1>8 DEF Live, Alters, AltersBoth
  <1> QED BY <1>8, <1>9 DEF fault, t

LEMMA DestructorArray ==
  ASSUME NEW s \in States, NEW b \in Blocks, NEW from \in Nat, NEW to \in Nat, NEW X, Live(s, b, X),
         HasLifetime => from .. to - 1 \subseteq X /\ from .. to - 1 \subseteq Cells(s, b)
  PROVE  LET t == destructorarray(s, b, from, to) IN
         /\ Alters(s, t, b) /\ SameCount(s, t, b)
         /\ Live(t, b, X \ (from .. to - 1))
         /\ t.faults = s.faults
  <1> DEFINE old == from .. to - 1
             f == [i \in Cells(s, b) |-> IF i \in old THEN Raw ELSE Cell(s, b, i)]
             t == destructorarray(s, b, from, to)
  <1>1. CASE ~HasLifetime
    BY <1>1 DEF destructorarray, Live, Alters, AltersBoth, SameView, SameCount
  <1>2. CASE HasLifetime
    <2>1. \A i \in Cells(s, b) : Cell(s, b, i) = s.heap[b].fdata[i] /\ Cell(s, b, i) \in CellValues
      BY CellsAre DEF Cell
    <2>2. f \in [Cells(s, b) -> CellValues]
      BY <2>1 DEF CellValues
    <2>3. Fault("destruct", \E i \in old : Cell(s, b, i) = Raw) = {}
      BY <1>2, <2>1 DEF Fault, Live
    <2>4. t = SetCells(s, b, f, {})
      BY <1>2, <2>3 DEF destructorarray
    <2>5. \A i \in Cells(s, b) : f[i] # Raw <=> i \in X \ old
      BY <1>2, <2>1 DEF Live
    <2> HIDE DEF f, t
    <2>6. /\ Alters(s, t, b) /\ SameCount(s, t, b) /\ t.heap[b].fdata = f /\ t.faults = s.faults
      BY <2>2, <2>4, SetCellsOnly
    <2>7. Live(t, b, X \ old)
      BY <2>5, <2>6 DEF Live, Alters, AltersBoth
    <2> QED BY <2>6, <2>7 DEF t
  <1> QED BY <1>1, <1>2

Put(t, b, dst, n, vs) ==
  SetCells(t, b, [i \in Cells(t, b) |-> IF i \in dst .. dst + n - 1 THEN vs[i - dst + 1]
                                        ELSE t.heap[b].fdata[i]], {})

\* The objects of block c move to cells of block b, which may be the same block.
CanMove(s, b, dst, c, src, n, destIsInit, X, Y) ==
  /\ s \in States /\ b \in Blocks /\ c \in Blocks /\ dst \in Nat /\ src \in Nat /\ n \in Nat
  /\ destIsInit \in BOOLEAN /\ Live(s, b, X) /\ Live(s, c, Y) /\ (b = c => X = Y)
  /\ HasLifetime => /\ src .. src + n - 1 \subseteq Y \cap Cells(s, c)
                    /\ \A i \in dst .. dst + n - 1 : i \in Cells(s, b)
                    /\ \A i \in (dst .. dst + n - 1) \ (IF b = c THEN src .. src + n - 1 ELSE {}) :
                         i \in X <=> destIsInit = TRUE
MovedAs(s, t, b, dst, c, src, n, X, Y) ==
  /\ AltersBoth(s, t, b, c) /\ SameCount(s, t, b) /\ SameCount(s, t, c)
  /\ Live(t, b, (IF b = c THEN X \ (src .. src + n - 1) ELSE X) \cup (dst .. dst + n - 1))
  /\ b # c => Live(t, c, Y \ (src .. src + n - 1))
  /\ t.faults = s.faults

LEMMA MoveData ==
  ASSUME NEW s, NEW b, NEW c, NEW dst, NEW src, NEW n, NEW destIsInit, NEW X, NEW Y,
         CanMove(s, b, dst, c, src, n, destIsInit, X, Y)
  PROVE  MovedAs(s, movedataX(s, b, dst, c, src, n, destIsInit), b, dst, c, src, n, X, Y)
  <1> USE DEF CanMove
  <1> DEFINE from == src .. src + n - 1
             to   == dst .. dst + n - 1
             left == IF b = c THEN from \ to ELSE from
             taken == IF b = c THEN to \ from ELSE to
             vs   == [i \in 1 .. n |-> Cell(s, c, src + i - 1)]
             void == IF HasLifetime THEN Raw ELSE Zero
             f == [i \in Cells(s, c) |-> IF i \in left THEN void ELSE Cell(s, c, i)]
             u == SetCells(s, c, f, {})
             g == [i \in Cells(u, b) |-> IF i \in to THEN vs[i - dst + 1] ELSE u.heap[b].fdata[i]]
             t == movedataX(s, b, dst, c, src, n, destIsInit)
  <1>1. \A d \in Blocks : \A i : Cell(s, d, i) \in CellValues
    BY CellsAre DEF Cell, CellValues
  <1>2. HasLifetime => /\ \A i \in 1 .. n : vs[i] # Raw
                       /\ \A i \in taken : Cell(s, b, i) # Raw <=> destIsInit = TRUE
    <2>1. HasLifetime => \A i \in 1 .. n : src + i - 1 \in from OBVIOUS
    <2>2. HasLifetime => \A i \in from : Cell(s, c, i) # Raw
      BY DEF Cell, Live
    <2>3. HasLifetime => \A i \in taken : Cell(s, b, i) # Raw <=> i \in X
      BY DEF Cell, Live
    <2> QED BY <2>1, <2>2, <2>3
  <1>3. Fault("move", HasLifetime /\ (\/ \E i \in 1 .. n : vs[i] = Raw
                                      \/ \E i \in taken : (Cell(s, b, i) # Raw) # destIsInit)) = {}
    <2>1. CASE destIsInit = TRUE
      BY <1>2, <2>1 DEF Fault
    <2>2. CASE destIsInit = FALSE
      BY <1>2, <2>2 DEF Fault
    <2> QED BY <2>1, <2>2
  <1>4. t = SetCells(u, b, g, {})
    <2> DEFINE fault == Fault("move", HasLifetime /\ (\/ \E i \in 1 .. n : vs[i] = Raw
                                                      \/ \E i \in taken : (Cell(s, b, i) # Raw) # destIsInit))
               v == SetCells(s, c, f, fault)
    <2>1. t = Put(v, b, dst, n, vs)
      BY DEF movedataX, Put
    <2>2. v = u
      BY <1>3
    <2> HIDE DEF v, u
    <2>3. t = Put(u, b, dst, n, vs)
      BY <2>1, <2>2
    <2> QED BY <2>3 DEF Put
  <1>5. f \in [Cells(s, c) -> CellValues]
    BY <1>1 DEF CellValues
  <1>6. /\ Alters(s, u, c) /\ SameCount(s, u, c) /\ u.heap[c].fdata = f /\ u.faults = s.faults
    BY <1>5, SetCellsOnly
  <1>7. \A i \in to : i - dst + 1 \in 1 .. n /\ vs[i - dst + 1] = Cell(s, c, src + (i - dst + 1) - 1) OBVIOUS
  <1>8. g \in [Cells(u, b) -> CellValues]
    <2>1. u.heap[b].fdata \in [Cells(u, b) -> CellValues]
      BY <1>6, CellsAre DEF Alters, AltersBoth
    <2> QED BY <1>1, <1>7, <2>1
  <1>9. /\ Alters(u, t, b) /\ SameCount(u, t, b) /\ t.heap[b].fdata = g /\ t.faults = u.faults
    <2> HIDE DEF g, u, t
    <2> QED BY <1>4, <1>6, <1>8, SetCellsOnly DEF Alters, AltersBoth
  <1>10. AltersBoth(s, t, b, c)
    BY <1>6, <1>9 DEF Alters, AltersBoth, SameView
  <1>11. HasLifetime => \A i \in Cells(s, c) : f[i] # Raw <=> i \in Y \ left
    BY DEF Live, Cell
  <1>12. HasLifetime => \A i \in Cells(u, b) :
           u.heap[b].fdata[i] # Raw <=> i \in (IF b = c THEN X \ left ELSE X)
    BY <1>6, <1>11 DEF Alters, AltersBoth, Live
  <1>13. HasLifetime => \A i \in Cells(u, b) : g[i] # Raw <=> i \in (IF b = c THEN X \ left ELSE X) \cup to
    BY <1>2, <1>7, <1>12
  <1>14. Live(t, b, (IF b = c THEN X \ from ELSE X) \cup to)
    BY <1>9, <1>13 DEF Live, Alters, AltersBoth
  <1>15. ASSUME b # c PROVE Live(t, c, Y \ from)
    <2>1. t.heap[c] = u.heap[c]
      BY <1>9, <1>15 DEF Alters, AltersBoth
    <2>2. t.heap[c].fdata = f /\ Cells(t, c) = Cells(s, c) /\ left = from
      BY <1>6, <1>15, <2>1 DEF Cells
    <2> HIDE DEF f, t
    <2> QED BY <1>11, <2>2 DEF Live
  <1>16. SameCount(s, t, b) /\ SameCount(s, t, c)
    BY <1>6, <1>9 DEF SameCount, Alters, AltersBoth
  <1> HIDE DEF t
  <1> QED BY <1>6, <1>9, <1>10, <1>14, <1>15, <1>16 DEF t, MovedAs

-----------------------------------------------------------------------------
(* Sizes, references and blocks. *)

LEMMA SetSize ==
  ASSUME NEW s \in States, NEW b \in Blocks, NEW n \in Nat
  PROVE  LET t == set_size(s, b, n) IN
         /\ Alters(s, t, b) /\ t.heap[b].countchars = n /\ t.faults = s.faults
         /\ \A c \in Blocks : t.heap[c].fdata = s.heap[c].fdata
  <1> DEFINE t == set_size(s, b, n)
  <1>1. t.heap = [s.heap EXCEPT ![b] = [s.heap[b] EXCEPT !.countchars = n]]
    BY DEF set_size, States
  <1>2. t.faults = s.faults /\ SameView(s, t)
    BY DEF set_size, States, SameView
  <1>3. s.heap[b] \in Headers /\ [s.heap[b] EXCEPT !.countchars = n] \in Headers
    BY DEF States, Headers
  <1>4. t.heap \in [Blocks -> Headers]
    BY <1>1, <1>3 DEF States
  <1>5. t \in States
    BY <1>2, <1>4 DEF States, SameView, set_size
  <1>6. t.heap[b].fdata = s.heap[b].fdata /\ t.heap[b].refcnt = s.heap[b].refcnt /\ t.heap[b].countchars = n
    BY <1>1, <1>3 DEF States, Headers
  <1>7. \A c \in Blocks : c # b => t.heap[c] = s.heap[c]
    BY <1>1 DEF States
  <1>8. \A c \in Blocks : t.heap[c].refcnt = s.heap[c].refcnt /\ Cells(t, c) = Cells(s, c)
    BY <1>6, <1>7 DEF Cells
  <1> QED BY <1>2, <1>5, <1>6, <1>7, <1>8 DEF Alters, AltersBoth

CanConstruct(s, b, at, vs, X) ==
  /\ s \in States /\ b \in Blocks /\ at \in Nat /\ Objects(vs) /\ Live(s, b, X)
  /\ HasLifetime => (at .. at + Len(vs) - 1) \cap X = {}
HasConstructed(s, t, b, at, n, X) ==
  /\ Alters(s, t, b)
  /\ t.heap[b].countchars = Larger(s.heap[b].countchars, at + n)
  /\ Live(t, b, X \cup (at .. at + n - 1))
  /\ t.faults = s.faults \cup Fault("overrun", ~(at .. at + n - 1 \subseteq Cells(s, b)))

LEMMA ConstructedFrom ==
  ASSUME NEW s, NEW b, NEW at, NEW vs, NEW X, CanConstruct(s, b, at, vs, X)
  PROVE  HasConstructed(s, ConstructFrom(s, b, at, vs), b, at, Len(vs), X)
  <1>0. /\ s \in States /\ b \in Blocks /\ at \in Nat /\ Objects(vs) /\ Live(s, b, X)
        /\ HasLifetime => (at .. at + Len(vs) - 1) \cap X = {}
    BY DEF CanConstruct
  <1>1. PICK u : u = constructorarray(s, b, at, vs) OBVIOUS
  <1>2. /\ Alters(s, u, b) /\ SameCount(s, u, b)
        /\ Live(u, b, X \cup (at .. at + Len(vs) - 1))
        /\ u.faults = s.faults \cup Fault("overrun", ~(at .. at + Len(vs) - 1 \subseteq Cells(s, b)))
    BY <1>0, <1>1, ConstructorArray
  <1>3. PICK n \in Nat : n = Larger(s.heap[b].countchars, at + Len(vs))
    BY <1>0, CellsAre DEF Objects, Headers, Larger
  <1>4. PICK t : t = set_size(u, b, n) OBVIOUS
  <1>5. /\ Alters(u, t, b) /\ t.heap[b].countchars = n /\ t.faults = u.faults
        /\ \A c \in Blocks : t.heap[c].fdata = u.heap[c].fdata
    <2>1. u \in States
      BY <1>2 DEF Alters, AltersBoth
    <2> QED BY <1>0, <1>4, <2>1, SetSize
  <1>6. Alters(s, t, b) /\ Live(t, b, X \cup (at .. at + Len(vs) - 1))
    BY <1>0, <1>2, <1>5 DEF Alters, AltersBoth, SameView, Live
  <1>7. t = ConstructFrom(s, b, at, vs)
    BY <1>1, <1>3, <1>4 DEF ConstructFrom
  <1> QED BY <1>2, <1>3, <1>5, <1>6, <1>7 DEF HasConstructed

LEMMA DestructedFrom ==
  ASSUME NEW s \in States, NEW b \in Blocks, NEW n \in Nat, NEW X, Live(s, b, X),
         HasLifetime => n .. s.heap[b].countchars - 1 \subseteq X \cap Cells(s, b)
  PROVE  LET t == DestructFrom(s, b, n) IN
         /\ Alters(s, t, b) /\ t.heap[b].countchars = n
         /\ Live(t, b, X \ (n .. s.heap[b].countchars - 1))
         /\ t.faults = s.faults
  <1>0. PICK m \in Nat : m = s.heap[b].countchars
    BY CellsAre DEF Headers
  <1>1. PICK u : u = IF n < m THEN destructorarray(s, b, n, m) ELSE s OBVIOUS
  <1>2. /\ Alters(s, u, b) /\ u.faults = s.faults
        /\ Live(u, b, X \ (n .. m - 1))
    <2>1. CASE n < m
      <3>1. HasLifetime => n .. m - 1 \subseteq X /\ n .. m - 1 \subseteq Cells(s, b)
        BY <1>0
      <3>2. u = destructorarray(s, b, n, m)
        BY <1>1, <2>1
      <3>3. PICK v : v = destructorarray(s, b, n, m) OBVIOUS
      <3>4. Alters(s, v, b) /\ v.faults = s.faults /\ Live(v, b, X \ (n .. m - 1))
        BY <3>1, <3>3, DestructorArray
      <3> QED BY <3>2, <3>3, <3>4
    <2>2. CASE ~(n < m)
      BY <1>0, <1>1, <2>2 DEF Alters, AltersBoth, SameView, Live
    <2> QED BY <2>1, <2>2
  <1>3. PICK t : t = set_size(u, b, n) OBVIOUS
  <1>4. /\ Alters(u, t, b) /\ t.heap[b].countchars = n /\ t.faults = u.faults
        /\ \A c \in Blocks : t.heap[c].fdata = u.heap[c].fdata
    BY <1>2, <1>3, SetSize DEF Alters, AltersBoth
  <1>5. Alters(s, t, b) /\ Live(t, b, X \ (n .. m - 1))
    BY <1>2, <1>4 DEF Alters, AltersBoth, SameView, Live
  <1>6. t = DestructFrom(s, b, n)
    BY <1>0, <1>1, <1>3 DEF DestructFrom
  <1> QED BY <1>0, <1>2, <1>4, <1>5, <1>6

\* From s to t block b gets a new header and nothing else changes but the faults.
Reheads(s, t, b) ==
  /\ t \in States /\ SameView(s, t)
  /\ \A c \in Blocks : c # b => t.heap[c] = s.heap[c]
SameCells(s, t, b) ==
  t.heap[b].fdata = s.heap[b].fdata /\ t.heap[b].countchars = s.heap[b].countchars

Rehead(s, b, r, fault) == [s EXCEPT !.heap[b] = r, !.faults = @ \cup fault]

LEMMA Reheaded ==
  ASSUME NEW s \in States, NEW b \in Blocks, NEW r \in Headers, NEW fault \in SUBSET Faults
  PROVE  LET t == Rehead(s, b, r, fault) IN
         Reheads(s, t, b) /\ t.heap[b] = r /\ t.faults = s.faults \cup fault
  <1> DEFINE t == Rehead(s, b, r, fault)
  <1> USE DEF Rehead
  <1>1. t.heap = [s.heap EXCEPT ![b] = r]
    BY DEF States
  <1>2. t.faults = s.faults \cup fault /\ SameView(s, t)
    BY DEF States, SameView
  <1>3. t.heap \in [Blocks -> Headers]
    BY <1>1 DEF States
  <1>4. t \in States
    BY <1>2, <1>3 DEF States, SameView
  <1> QED BY <1>1, <1>2, <1>4 DEF Reheads, States

LEMMA InUse ==
  ASSUME NEW s \in States, NEW b \in Blocks
  PROVE  LET t == incuse(s, b) IN
         /\ Reheads(s, t, b) /\ SameCells(s, t, b) /\ t.faults = s.faults
         /\ t.heap[b].refcnt = s.heap[b].refcnt + 1
  <1> DEFINE t == incuse(s, b)
             r == [s.heap[b] EXCEPT !.refcnt = @ + 1]
  <1>1. s.heap[b] \in Headers /\ r \in Headers
    BY DEF States, Headers
  <1>2. t.heap = [s.heap EXCEPT ![b] = r]
    BY DEF incuse, States
  <1>3. t.faults = s.faults /\ SameView(s, t)
    BY DEF incuse, States, SameView
  <1>4. t.heap \in [Blocks -> Headers]
    BY <1>1, <1>2 DEF States
  <1>5. t \in States
    BY <1>3, <1>4 DEF States, SameView, incuse
  <1>6. t.heap[b] = r /\ \A c \in Blocks : c # b => t.heap[c] = s.heap[c]
    BY <1>2 DEF States
  <1> QED BY <1>1, <1>3, <1>5, <1>6 DEF Reheads, SameCells, Headers

LEMMA FreedIs == Freed \in Headers /\ DOMAIN Freed.fdata = {}
  <1>1. <<>> \in [0 .. 0 - 1 -> CellValues] /\ DOMAIN <<>> = {}
    <2>1. 0 .. 0 - 1 = {} OBVIOUS
    <2>2. <<>> \in Seq(CellValues) /\ Len(<<>>) = 0 OBVIOUS
    <2>3. <<>> \in [1 .. 0 -> CellValues] /\ 1 .. 0 = {} /\ DOMAIN <<>> = 1 .. 0
      BY <2>2, LenProperties
    <2> QED BY <2>1, <2>3
  <1>2. <<>> \in CellArrays
    BY <1>1 DEF CellArrays
  <1> QED BY <1>1, <1>2 DEF Freed, Headers

LEMMA LastUse ==
  ASSUME NEW s \in States, NEW b \in Blocks, s.heap[b].refcnt <= 1, NEW X, Live(s, b, X),
         HasLifetime => 0 .. s.heap[b].countchars - 1 \subseteq X \cap Cells(s, b)
  PROVE  LET t == decuse(s, b) IN
         /\ Reheads(s, t, b) /\ t.heap[b] = Freed
         /\ s.faults \subseteq t.faults /\ t.faults \subseteq s.faults \cup {"lost"}
         /\ (HasLifetime => X \subseteq 0 .. s.heap[b].countchars - 1) => Quiet(s, t)
  <1>1. PICK m \in Nat : m = s.heap[b].countchars
    BY CellsAre DEF Headers
  <1>2. PICK u : u = destructorarray(s, b, 0, m) OBVIOUS
  <1>3. Alters(s, u, b) /\ u.faults = s.faults /\ Live(u, b, X \ (0 .. m - 1))
    <2>1. PICK none \in Nat : none = 0 OBVIOUS
    <2>2. u = destructorarray(s, b, none, m) /\ (HasLifetime => none .. m - 1 \subseteq X /\ none .. m - 1 \subseteq Cells(s, b))
      BY <1>1, <1>2, <2>1
    <2> QED BY <2>1, <2>2, DestructorArray
  <1>4. PICK fault \in SUBSET {"lost"} :
          fault = Fault("lost", HasLifetime /\ \E i \in Cells(u, b) : Cell(u, b, i) # Raw)
    BY DEF Fault
  <1>5. PICK t : t = freed(u, b) OBVIOUS
  <1>6. t = Rehead(u, b, Freed, fault)
    BY <1>4, <1>5 DEF freed, Rehead
  <1>7. fault \in SUBSET Faults /\ u \in States
    BY <1>3, <1>4 DEF Faults, Alters, AltersBoth
  <1>8. Reheads(u, t, b) /\ t.heap[b] = Freed /\ t.faults = u.faults \cup fault
    BY <1>6, <1>7, FreedIs, Reheaded
  <1>9. t = decuse(s, b)
    BY <1>1, <1>2, <1>5 DEF decuse
  <1>10. Reheads(s, t, b)
    BY <1>3, <1>8 DEF Reheads, Alters, AltersBoth, SameView
  <1>11. ASSUME HasLifetime => X \subseteq 0 .. s.heap[b].countchars - 1 PROVE Quiet(s, t)
    <2>1. HasLifetime => X \ (0 .. m - 1) = {}
      BY <1>1, <1>11
    <2>2. HasLifetime => \A i \in Cells(u, b) : Cell(u, b, i) = Raw
      BY <1>3, <2>1 DEF Live, Cell
    <2>3. fault = {}
      BY <1>4, <2>2 DEF Fault
    <2> QED BY <1>3, <1>8, <2>3 DEF Quiet
  <1> QED BY <1>3, <1>8, <1>9, <1>10, <1>11

LEMMA LessUse ==
  ASSUME NEW s \in States, NEW b \in Blocks, s.heap[b].refcnt > 1
  PROVE  LET t == decuse(s, b) IN
         /\ Reheads(s, t, b) /\ SameCells(s, t, b) /\ t.faults = s.faults
         /\ t.heap[b].refcnt = s.heap[b].refcnt - 1
  <1> DEFINE t == decuse(s, b)
             r == [s.heap[b] EXCEPT !.refcnt = @ - 1]
  <1>1. s.heap[b] \in Headers /\ r \in Headers
    BY DEF States, Headers
  <1>2. t = [s EXCEPT !.heap[b].refcnt = @ - 1]
    BY <1>1 DEF decuse, Headers
  <1>3. t.heap = [s.heap EXCEPT ![b] = r]
    BY <1>2 DEF States
  <1>4. t.faults = s.faults /\ SameView(s, t)
    BY <1>2 DEF States, SameView
  <1>5. t.heap \in [Blocks -> Headers]
    BY <1>1, <1>3 DEF States
  <1>6. t \in States
    BY <1>2, <1>4, <1>5 DEF States, SameView
  <1>7. t.heap[b] = r /\ \A c \in Blocks : c # b => t.heap[c] = s.heap[c]
    BY <1>3 DEF States
  <1> QED BY <1>1, <1>4, <1>6, <1>7 DEF Reheads, SameCells, Headers

LEMMA Made ==
  ASSUME NEW s \in States, NEW b \in Blocks, NEW cnt \in Nat, NEW cap \in Nat
  PROVE  LET t == MakeStorage(s, b, cnt, cap) IN
         /\ Reheads(s, t, b) /\ t.faults = s.faults
         /\ t.heap[b].refcnt = 1 /\ t.heap[b].countchars = cnt
         /\ Cells(t, b) = 0 .. cap - 1 /\ freserve(t, b) = cap
         /\ Live(t, b, {})
  <1> DEFINE t == MakeStorage(s, b, cnt, cap)
             f == [i \in 0 .. cap - 1 |-> Raw]
             r == [refcnt |-> 1, countchars |-> cnt, fdata |-> f]
  <1>1. f \in CellArrays
    BY DEF CellArrays, CellValues
  <1>2. r \in Headers
    BY <1>1 DEF Headers
  <1>3. t.heap = [s.heap EXCEPT ![b] = r]
    BY DEF MakeStorage, States
  <1>4. t.faults = s.faults /\ SameView(s, t)
    BY DEF MakeStorage, States, SameView
  <1>5. t.heap \in [Blocks -> Headers]
    BY <1>2, <1>3 DEF States
  <1>6. t \in States
    BY <1>4, <1>5 DEF States, SameView, MakeStorage
  <1>7. t.heap[b] = r /\ \A c \in Blocks : c # b => t.heap[c] = s.heap[c]
    BY <1>3 DEF States
  <1>8. Cells(t, b) = 0 .. cap - 1 /\ freserve(t, b) = cap
    BY <1>7, FS_Interval DEF Cells, freserve
  <1>9. Live(t, b, {})
    BY <1>7, <1>8 DEF Live, Cells
  <1> QED BY <1>4, <1>6, <1>7, <1>8, <1>9 DEF Reheads

-----------------------------------------------------------------------------
(* The array's own block. *)

LEMMA Unique ==
  ASSUME NEW s \in States, NEW r, Counted(s, r)
  PROVE  /\ isUnique(s) <=> s.fstorage \in Blocks /\ r[s.fstorage] = 0
         /\ isUnique(s) \in BOOLEAN
         /\ s.fstorage = Null \/ s.fstorage \in Blocks
         /\ s.sdata \in Nat /\ s.fsize \in Nat /\ End(s) \in Nat
         /\ s.fstorage \in Blocks => Count(s) \in Nat
  BY NullAssumption, CellsAre DEF Counted, isUnique, Storage, States, End, Count, Headers

LEMMA SoundOwner ==
  ASSUME NEW s, NEW r, Sound(s, r), isUnique(s)
  PROVE  Owner(s, r, 0 .. Count(s) - 1) /\ End(s) <= Count(s) /\ Count(s) <= freserve(s, s.fstorage)
  BY Unique, NullAssumption DEF Sound, Owner, BlockSound, InView, Count

LEMMA OwnerSound ==
  ASSUME NEW s, NEW r, Owner(s, r, 0 .. Count(s) - 1), End(s) <= Count(s), Count(s) <= freserve(s, s.fstorage)
  PROVE  Sound(s, r)
  BY NullAssumption DEF Sound, Owner, BlockSound, InView, Count

LEMMA OwnerUnique ==
  ASSUME NEW s, NEW r, NEW X, Owner(s, r, X)
  PROVE  isUnique(s) /\ s.sdata \in Nat /\ s.fsize \in Nat /\ End(s) \in Nat /\ Count(s) \in Nat
  BY Unique DEF Owner

LEMMA SameBlock ==
  ASSUME NEW s, NEW t, NEW b, t.heap[b] = s.heap[b], BlockSound(s, b)
  PROVE  BlockSound(t, b)
  BY DEF BlockSound, Live, Cells, freserve

\* What changes only the array's own block leaves it the owner.
LEMMA OwnerKept ==
  ASSUME NEW s, NEW r, NEW X, Owner(s, r, X), NEW t, Alters(s, t, s.fstorage), NEW Y, Live(t, s.fstorage, Y)
  PROVE  /\ Owner(t, r, Y) /\ Untouched(s, t, r) /\ freserve(t, t.fstorage) = freserve(s, s.fstorage)
         /\ SameView(s, t) /\ End(t) = End(s) /\ Cells(t, t.fstorage) = Cells(s, s.fstorage)
  <1>1. t \in States /\ SameView(s, t) /\ \A d \in Blocks : d # s.fstorage => t.heap[d] = s.heap[d]
    BY DEF Alters, AltersBoth
  <1>2. Counted(t, r)
    BY <1>1 DEF Counted, Alters, AltersBoth, SameView, Owner
  <1>3. \A b \in Blocks : b # s.fstorage => BlockSound(t, b)
    BY <1>1, SameBlock DEF Owner
  <1>4. Cells(t, s.fstorage) = Cells(s, s.fstorage)
    BY DEF Alters, AltersBoth, Owner
  <1>5. Untouched(s, t, r)
    BY <1>1 DEF Untouched, Owner
  <1> QED BY <1>1, <1>2, <1>3, <1>4, <1>5 DEF Owner, SameView, freserve, End

LEMMA Resized ==
  ASSUME NEW s \in States, NEW n \in Nat
  PROVE  LET t == [s EXCEPT !.fsize = n] IN
         /\ t \in States /\ t.heap = s.heap /\ t.faults = s.faults
         /\ t.fstorage = s.fstorage /\ t.sdata = s.sdata /\ t.fsize = n
  BY DEF States

LEMMA OwnerResized ==
  ASSUME NEW s, NEW r, NEW X, Owner(s, r, X), NEW n \in Nat
  PROVE  LET t == [s EXCEPT !.fsize = n] IN
         /\ Owner(t, r, X) /\ t.fstorage = s.fstorage /\ t.sdata = s.sdata /\ t.fsize = n
         /\ t.heap = s.heap /\ t.faults = s.faults
  <1> DEFINE t == [s EXCEPT !.fsize = n]
  <1>1. /\ t \in States /\ t.heap = s.heap /\ t.faults = s.faults
        /\ t.fstorage = s.fstorage /\ t.sdata = s.sdata /\ t.fsize = n
    BY Resized DEF Owner
  <1> HIDE DEF t
  <1>2. \A b \in Blocks : b # s.fstorage => BlockSound(t, b)
    BY <1>1, SameBlock DEF Owner
  <1>3. Counted(t, r) /\ Live(t, t.fstorage, X)
    BY <1>1 DEF Owner, Counted, Live, Cells
  <1> QED BY <1>1, <1>2, <1>3 DEF Owner, t

\* DestructStorageAtEnd.
LEMMA Trimmed ==
  ASSUME NEW s, NEW r, NEW X, Owner(s, r, X),
         HasLifetime => End(s) .. Count(s) - 1 \subseteq X \cap Cells(s, s.fstorage)
  PROVE  LET t == DestructStorageAtEnd(s) IN
         /\ Alters(s, t, s.fstorage) /\ t.faults = s.faults /\ Count(t) = End(s)
         /\ Owner(t, r, X \ (End(s) .. Count(s) - 1)) /\ Untouched(s, t, r)
         /\ freserve(t, t.fstorage) = freserve(s, s.fstorage)
  <1>1. PICK e \in Nat : e = End(s) /\ e = s.sdata + s.fsize
    BY OwnerUnique DEF End
  <1>2. PICK b \in Blocks : b = s.fstorage
    BY DEF Owner
  <1>3. PICK t : t = DestructFrom(s, b, e) OBVIOUS
  <1>4. t = DestructStorageAtEnd(s)
    BY <1>1, <1>2, <1>3, OwnerUnique DEF DestructStorageAtEnd
  <1>5. /\ Alters(s, t, b) /\ t.heap[b].countchars = e /\ t.faults = s.faults
        /\ Live(t, b, X \ (e .. s.heap[b].countchars - 1))
    <2>1. s \in States /\ Live(s, b, X)
      BY <1>2 DEF Owner
    <2>2. HasLifetime => e .. s.heap[b].countchars - 1 \subseteq X \cap Cells(s, b)
      BY <1>1, <1>2 DEF Count
    <2> QED BY <1>3, <2>1, <2>2, DestructedFrom
  <1>6. PICK Y : Y = X \ (e .. s.heap[b].countchars - 1) OBVIOUS
  <1>7. /\ Owner(t, r, Y) /\ Untouched(s, t, r) /\ freserve(t, t.fstorage) = freserve(s, s.fstorage)
        /\ SameView(s, t)
    BY <1>2, <1>5, <1>6, OwnerKept
  <1> QED BY <1>1, <1>2, <1>4, <1>5, <1>6, <1>7 DEF Count, SameView

\* putzero_toend.
LEMMA ZeroPut ==
  ASSUME NEW s, NEW r, NEW X, Owner(s, r, X)
  PROVE  LET t == putzero_toend(s) IN
         /\ Alters(s, t, s.fstorage) /\ Count(t) = Count(s) /\ Harmless(s, t)
         /\ Owner(t, r, X) /\ Untouched(s, t, r)
         /\ freserve(t, t.fstorage) = freserve(s, s.fstorage)
         /\ Fits(s, s.fsize) => Quiet(s, t)
  <1>1. CASE kind # "string"
    BY <1>1 DEF putzero_toend, Alters, AltersBoth, SameView, Harmless, Quiet, Untouched, Owner
  <1>2. CASE kind = "string"
    <2>1. PICK at \in Nat : at = s.sdata + s.fsize
      BY OwnerUnique
    <2>2. PICK vs : vs = <<Zero>> OBVIOUS
    <2>3. Objects(vs)
      BY <1>2, <2>2 DEF Objects, HasLifetime, CellValues
    <2>4. PICK b \in Blocks : b = s.fstorage
      BY DEF Owner
    <2>5. PICK t : t = constructorarray(s, b, at, vs) /\ t = putzero_toend(s)
      BY <1>2, <2>1, <2>2, <2>4 DEF putzero_toend
    <2>6. ~HasLifetime /\ s \in States /\ Live(s, b, X)
      BY <1>2 DEF HasLifetime, Owner, Live
    <2>7. /\ Alters(s, t, b) /\ SameCount(s, t, b)
          /\ t.faults = s.faults \cup Fault("overrun", ~(at .. at + Len(vs) - 1 \subseteq Cells(s, b)))
      <3>1. HasLifetime => (at .. at + Len(vs) - 1) \cap X = {}
        BY <2>6
      <3>2. s \in States /\ Live(s, b, X)
        BY <2>6
      <3>3. t = constructorarray(s, b, at, vs)
        BY <2>5
      <3> QED BY <2>3, <3>1, <3>2, <3>3, ConstructorArray
    <2>8. Live(t, b, X)
      BY <2>6 DEF Live
    <2>9. /\ Owner(t, r, X) /\ Untouched(s, t, r) /\ freserve(t, t.fstorage) = freserve(s, s.fstorage)
          /\ SameView(s, t)
      BY <2>4, <2>7, <2>8, OwnerKept
    <2>10. Harmless(s, t)
      BY <2>7 DEF Harmless, Fault
    <2>11. ASSUME Fits(s, s.fsize) PROVE Quiet(s, t)
      <3>1. at + 1 <= freserve(s, b)
        BY <1>2, <2>1, <2>4, <2>11 DEF Fits, eAddZeroE
      <3>2. freserve(s, b) \in Nat /\ Cells(s, b) = 0 .. freserve(s, b) - 1
        BY <2>6, CellsAre
      <3>3. Len(vs) = 1
        BY <2>2
      <3>4. at .. at + Len(vs) - 1 \subseteq Cells(s, b)
        BY <3>1, <3>2, <3>3
      <3> QED BY <2>7, <3>4 DEF Fault, Quiet
    <2> QED BY <2>4, <2>5, <2>7, <2>9, <2>10, <2>11 DEF Count, SameCount, SameView
  <1> QED BY <1>1, <1>2

\* set_fsize, of an array that has its block for itself and of one that does not.
LEMMA SizeSet ==
  ASSUME NEW s, NEW r, NEW X, Owner(s, r, X), NEW n \in Nat,
         HasLifetime => s.sdata + n .. Count(s) - 1 \subseteq X \cap Cells(s, s.fstorage)
  PROVE  LET t == set_fsize(s, n) IN
         /\ t.fstorage = s.fstorage /\ t.sdata = s.sdata /\ t.fsize = n /\ Count(t) = s.sdata + n
         /\ Harmless(s, t) /\ Owner(t, r, X \ (s.sdata + n .. Count(s) - 1)) /\ Untouched(s, t, r)
         /\ freserve(t, t.fstorage) = freserve(s, s.fstorage)
         /\ Cells(t, t.fstorage) = Cells(s, s.fstorage)
         /\ Fits(s, n) => Quiet(s, t)
  <1>1. PICK u : u = [s EXCEPT !.fsize = n] OBVIOUS
  <1>2. /\ Owner(u, r, X) /\ u.fstorage = s.fstorage /\ u.sdata = s.sdata /\ u.fsize = n
        /\ u.heap = s.heap /\ u.faults = s.faults
    BY <1>1, OwnerResized
  <1>3. End(u) = s.sdata + n /\ Count(u) = Count(s) /\ Cells(u, u.fstorage) = Cells(s, s.fstorage)
    BY <1>2 DEF End, Count, Cells
  <1>4. PICK v : v = DestructStorageAtEnd(u) OBVIOUS
  <1>5. PICK Y : Y = X \ (s.sdata + n .. Count(s) - 1) OBVIOUS
  <1>6. /\ Alters(u, v, u.fstorage) /\ v.faults = u.faults /\ Count(v) = End(u)
        /\ Owner(v, r, Y) /\ Untouched(u, v, r)
        /\ freserve(v, v.fstorage) = freserve(u, u.fstorage)
    BY <1>2, <1>3, <1>4, <1>5, Trimmed
  <1>7. PICK t : t = putzero_toend(v) OBVIOUS
  <1>8. /\ Alters(v, t, v.fstorage) /\ Count(t) = Count(v) /\ Harmless(v, t)
        /\ Owner(t, r, Y) /\ Untouched(v, t, r)
        /\ freserve(t, t.fstorage) = freserve(v, v.fstorage)
        /\ Fits(v, v.fsize) => Quiet(v, t)
    BY <1>6, <1>7, ZeroPut
  <1>9. t = set_fsize(s, n)
    <2>1. isUnique(s)
      BY OwnerUnique
    <2> QED BY <1>1, <1>4, <1>7, <2>1 DEF set_fsize
  <1>10. SameView(u, v) /\ SameView(v, t)
    BY <1>6, <1>8 DEF Alters, AltersBoth
  <1>11. Untouched(s, t, r)
    BY <1>2, <1>6, <1>8 DEF Untouched
  <1>12. Harmless(s, t)
    BY <1>2, <1>6, <1>8 DEF Harmless
  <1>13. Cells(t, t.fstorage) = Cells(s, s.fstorage)
    BY <1>2, <1>3, <1>6, <1>8, <1>10 DEF Alters, AltersBoth, SameView, Owner
  <1>14. t.fstorage = s.fstorage /\ t.sdata = s.sdata /\ t.fsize = n
    BY <1>2, <1>10 DEF SameView
  <1>15. Count(t) = s.sdata + n
    BY <1>3, <1>6, <1>8
  <1>16. freserve(t, t.fstorage) = freserve(s, s.fstorage)
    BY <1>13 DEF freserve
  <1>17. ASSUME Fits(s, n) PROVE Quiet(s, t)
    <2>1. v.sdata = s.sdata /\ v.fsize = n
      BY <1>2, <1>10 DEF SameView
    <2>2. freserve(v, v.fstorage) = freserve(s, s.fstorage)
      BY <1>8, <1>16
    <2>3. Fits(v, v.fsize)
      BY <1>17, <2>1, <2>2 DEF Fits
    <2> QED BY <1>2, <1>6, <1>8, <2>3 DEF Quiet
  <1> QED BY <1>5, <1>8, <1>9, <1>11, <1>12, <1>13, <1>14, <1>15, <1>16, <1>17

LEMMA SharedSizeSet ==
  ASSUME NEW s, NEW r, Sound(s, r), ~isUnique(s), NEW n \in Nat, n <= s.fsize
  PROVE  LET t == set_fsize(s, n) IN
         /\ Sound(t, r) /\ Untouched(s, t, r) /\ t.faults = s.faults
         /\ t.fstorage = s.fstorage /\ t.sdata = s.sdata /\ t.fsize = n /\ t.heap = s.heap
  <1>1. PICK t : t = [s EXCEPT !.fsize = n] /\ t = set_fsize(s, n)
    BY DEF set_fsize
  <1>2. /\ t \in States /\ t.heap = s.heap /\ t.faults = s.faults
        /\ t.fstorage = s.fstorage /\ t.sdata = s.sdata /\ t.fsize = n
    BY <1>1, Resized DEF Sound
  <1>3. Counted(t, r) /\ Untouched(s, t, r)
    BY <1>2 DEF Sound, Counted, Untouched
  <1>4. \A b \in Blocks : BlockSound(t, b)
    BY <1>2, SameBlock DEF Sound
  <1>5. InView(t)
    <2>1. s.sdata \in Nat /\ s.fsize \in Nat
      BY DEF Sound, States
    <2>2. (s.fstorage # Null => Count(s) \in Nat) /\ Len(Literal) \in Nat
      BY Unique, ValuesAssumption, LenProperties DEF Sound
    <2> QED BY <1>2, <2>1, <2>2 DEF InView, Sound, End, Count
  <1> QED BY <1>1, <1>2, <1>3, <1>4, <1>5 DEF Sound

\* The objects behind the end of an array are destroyed; it stays what it is.
LEMMA SoundTrimmed ==
  ASSUME NEW s, NEW r, Sound(s, r)
  PROVE  LET t == DestructStorageAtEnd(s) IN
         /\ Sound(t, r) /\ Untouched(s, t, r) /\ t.faults = s.faults /\ SameView(s, t)
         /\ isUnique(s) => Owner(t, r, 0 .. End(s) - 1) /\ Count(t) = End(s)
         /\ s.fstorage # Null => freserve(t, t.fstorage) = freserve(s, s.fstorage)
  <1>1. CASE ~isUnique(s)
    BY <1>1 DEF DestructStorageAtEnd, Untouched, SameView
  <1>2. CASE isUnique(s)
    <2>1. /\ Owner(s, r, 0 .. Count(s) - 1) /\ End(s) <= Count(s) /\ Count(s) <= freserve(s, s.fstorage)
          /\ End(s) \in Nat /\ Count(s) \in Nat /\ freserve(s, s.fstorage) \in Nat
          /\ Cells(s, s.fstorage) = 0 .. freserve(s, s.fstorage) - 1
      BY <1>2, SoundOwner, OwnerUnique, CellsAre DEF Owner
    <2>2. PICK X : X = 0 .. Count(s) - 1 OBVIOUS
    <2>3. End(s) .. Count(s) - 1 \subseteq X \cap Cells(s, s.fstorage)
      BY <2>1, <2>2
    <2>4. PICK t : t = DestructStorageAtEnd(s) OBVIOUS
    <2>5. /\ Alters(s, t, s.fstorage) /\ t.faults = s.faults /\ Count(t) = End(s)
          /\ Owner(t, r, X \ (End(s) .. Count(s) - 1)) /\ Untouched(s, t, r)
          /\ freserve(t, t.fstorage) = freserve(s, s.fstorage)
      BY <2>1, <2>2, <2>3, <2>4, Trimmed
    <2>6. X \ (End(s) .. Count(s) - 1) = 0 .. End(s) - 1
      BY <2>1, <2>2
    <2>7. SameView(s, t) /\ End(t) = End(s)
      BY <2>5 DEF Alters, AltersBoth, SameView, End
    <2>8. Owner(t, r, 0 .. End(s) - 1)
      BY <2>5, <2>6
    <2>9. End(t) <= Count(t) /\ Count(t) <= freserve(t, t.fstorage)
      BY <2>1, <2>5, <2>7
    <2>10. Sound(t, r)
      BY <2>5, <2>8, <2>9, OwnerSound
    <2> QED BY <2>4, <2>5, <2>7, <2>8, <2>10
  <1> QED BY <1>1, <1>2

LEMMA Defaults ==
  ASSUME NEW n \in Nat
  PROVE  Objects([i \in 1 .. n |-> Zero]) /\ Len([i \in 1 .. n |-> Zero]) = n
  <1>1. PICK vs \in [1 .. n -> CellValues] : vs = [i \in 1 .. n |-> Zero]
    BY DEF CellValues
  <1>2. vs \in Seq(CellValues) /\ Len(vs) = n
    BY <1>1
  <1>3. \A i \in 1 .. n : vs[i] # Raw
    BY <1>1, ValuesAssumption
  <1> QED BY <1>1, <1>2, <1>3 DEF Objects

\* The new elements of a resize in place: the cells hold the old ones only, or all of them.
GrownBy(s, r, t, n, opts) ==
  /\ t.fstorage = s.fstorage /\ t.sdata = s.sdata /\ t.fsize = n /\ Count(t) = End(t)
  /\ Harmless(s, t) /\ Untouched(s, t, r) /\ freserve(t, t.fstorage) = freserve(s, s.fstorage)
  /\ Fits(s, n) => Quiet(s, t)
  /\ "NoNew" \in opts => Owner(t, r, 0 .. End(s) - 1)
  /\ "NoNew" \notin opts =>
       /\ Owner(t, r, 0 .. End(t) - 1)
       /\ "overrun" \notin t.faults /\ s.fsize < n => End(t) <= freserve(t, t.fstorage)

LEMMA GrownHere ==
  ASSUME NEW s, NEW r, NEW opts, NEW n \in Nat, s.fsize <= n,
         Owner(s, r, 0 .. End(s) - 1), Count(s) = End(s)
  PROVE  GrownBy(s, r, GrowHere(s, n, opts), n, opts)
  <1>1. PICK b \in Blocks : b = s.fstorage
    BY DEF Owner
  <1>2. PICK at \in Nat : at = s.sdata + s.fsize
    BY OwnerUnique
  <1>3. PICK k \in Nat : k = n - s.fsize
    BY OwnerUnique
  <1>4. PICK vs : vs = [i \in 1 .. k |-> Zero] OBVIOUS
  <1>5. Objects(vs) /\ Len(vs) = k
    BY <1>4, Defaults
  <1>6. PICK m \in Nat : m = s.sdata + n
    BY OwnerUnique
  <1>7. at + k = m /\ at <= m /\ End(s) = at /\ (s.fsize < n => 0 < k)
    BY <1>2, <1>3, <1>6, OwnerUnique DEF End
  <1>8. PICK u : u = IF "NoNew" \in opts THEN s ELSE ConstructFor(s, b, at, k) OBVIOUS
  <1>9. PICK t : t = set_fsize(u, n) OBVIOUS
  <1>9a. t = GrowHere(s, n, opts)
    BY <1>1, <1>2, <1>3, <1>8, <1>9 DEF GrowHere
  <1>9b. PICK O : O = 0 .. at - 1 OBVIOUS
  <1>10. CASE "NoNew" \in opts
    <2>1. HasLifetime => s.sdata + n .. Count(s) - 1 \subseteq O \cap Cells(s, s.fstorage)
      BY <1>6, <1>7
    <2>2. u = s /\ Owner(s, r, O)
      BY <1>7, <1>8, <1>9b, <1>10
    <2>3. PICK Y : Y = O \ (s.sdata + n .. Count(s) - 1) OBVIOUS
    <2>4. /\ t.fstorage = s.fstorage /\ t.sdata = s.sdata /\ t.fsize = n /\ Count(t) = s.sdata + n
          /\ Harmless(s, t) /\ Owner(t, r, Y) /\ Untouched(s, t, r)
          /\ freserve(t, t.fstorage) = freserve(s, s.fstorage) /\ (Fits(s, n) => Quiet(s, t))
      BY <1>9, <2>1, <2>2, <2>3, SizeSet
    <2>5. Y = 0 .. End(s) - 1
      BY <1>6, <1>7, <1>9b, <2>3
    <2> QED BY <1>9a, <1>10, <2>4, <2>5 DEF End, GrownBy
  <1>11. CASE "NoNew" \notin opts
    <2>1. HasLifetime => (at .. at + Len(vs) - 1) \cap O = {}
      BY <1>5, <1>9b
    <2>2. s \in States /\ Live(s, b, O)
      BY <1>1, <1>7, <1>9b DEF Owner
    <2>3. u = ConstructFrom(s, b, at, vs)
      BY <1>4, <1>8, <1>11 DEF ConstructFor
    <2>4. PICK X : X = O \cup (at .. at + Len(vs) - 1) OBVIOUS
    <2>5. /\ Alters(s, u, b)
          /\ u.heap[b].countchars = Larger(s.heap[b].countchars, at + Len(vs))
          /\ Live(u, b, X)
          /\ u.faults = s.faults \cup Fault("overrun", ~(at .. at + Len(vs) - 1 \subseteq Cells(s, b)))
      <3>1. CanConstruct(s, b, at, vs, O)
        BY <1>5, <2>1, <2>2 DEF CanConstruct
      <3>2. HasConstructed(s, u, b, at, Len(vs), O)
        BY <2>3, <3>1, ConstructedFrom
      <3> QED BY <2>4, <3>2 DEF HasConstructed
    <2>6. X = 0 .. m - 1
      BY <1>5, <1>7, <1>9b, <2>4
    <2>7. Owner(s, r, O)
      BY <1>7, <1>9b
    <2>8. /\ Owner(u, r, X) /\ Untouched(s, u, r) /\ freserve(u, u.fstorage) = freserve(s, s.fstorage)
          /\ SameView(s, u)
      BY <1>1, <2>5, <2>7, OwnerKept
    <2>9. Count(u) = m /\ u.sdata + n = m
      BY <1>1, <1>5, <1>6, <1>7, <2>5, <2>8 DEF Count, Larger, SameView
    <2>10. HasLifetime => u.sdata + n .. Count(u) - 1 \subseteq X \cap Cells(u, u.fstorage)
      BY <2>9
    <2>11. PICK Y : Y = X \ (u.sdata + n .. Count(u) - 1) OBVIOUS
    <2>12. /\ t.fstorage = u.fstorage /\ t.sdata = u.sdata /\ t.fsize = n /\ Count(t) = u.sdata + n
           /\ Harmless(u, t) /\ Owner(t, r, Y) /\ Untouched(u, t, r)
           /\ freserve(t, t.fstorage) = freserve(u, u.fstorage) /\ (Fits(u, n) => Quiet(u, t))
      BY <1>9, <2>8, <2>10, <2>11, SizeSet
    <2>13. Y = 0 .. m - 1
      BY <2>6, <2>9, <2>11
    <2>14. Harmless(s, t)
      BY <2>5, <2>12 DEF Harmless, Fault
    <2>15. Untouched(s, t, r)
      BY <2>8, <2>12 DEF Untouched
    <2>16. End(t) = m /\ Count(t) = m
      BY <2>9, <2>12 DEF End
    <2>17. ASSUME "overrun" \notin t.faults, s.fsize < n PROVE End(t) <= freserve(t, t.fstorage)
      <3>1. at .. at + Len(vs) - 1 \subseteq Cells(s, b)
        BY <2>5, <2>12, <2>17 DEF Fault, Harmless
      <3>2. m - 1 \in Cells(s, b)
        BY <1>5, <1>7, <2>17, <3>1
      <3>3. freserve(s, b) \in Nat /\ Cells(s, b) = 0 .. freserve(s, b) - 1
        BY <2>2, CellsAre
      <3>4. freserve(t, t.fstorage) = freserve(s, b)
        BY <1>1, <2>8, <2>12
      <3> QED BY <2>16, <3>2, <3>3, <3>4
    <2>18. Owner(t, r, 0 .. End(t) - 1)
      BY <2>12, <2>13, <2>16
    <2>19. /\ t.fstorage = s.fstorage /\ t.sdata = s.sdata /\ t.fsize = n
           /\ freserve(t, t.fstorage) = freserve(s, s.fstorage)
      BY <2>8, <2>12 DEF SameView
    <2>20. ASSUME Fits(s, n) PROVE Quiet(s, t)
      <3>1. Fits(u, n)
        BY <2>8, <2>20 DEF Fits, SameView
      <3>2. m + eAddZeroE <= freserve(s, b) /\ freserve(s, b) \in Nat /\ Cells(s, b) = 0 .. freserve(s, b) - 1
        BY <1>1, <1>6, <2>2, <2>20, CellsAre DEF Fits
      <3>3. m <= freserve(s, b)
        BY <3>2 DEF eAddZeroE
      <3>4. at .. at + Len(vs) - 1 \subseteq Cells(s, b)
        BY <1>5, <1>7, <3>2, <3>3
      <3>5. u.faults = s.faults
        BY <2>5, <3>4 DEF Fault
      <3> QED BY <2>12, <3>1, <3>5 DEF Quiet
    <2> QED BY <1>9a, <1>11, <2>14, <2>15, <2>16, <2>17, <2>18, <2>19, <2>20 DEF GrownBy
  <1> QED BY <1>10, <1>11

CanCopy(s, b, at, vs, X) ==
  /\ s \in States /\ b \in Blocks /\ at \in Nat /\ Objects(vs) /\ Live(s, b, X)
  /\ HasLifetime => at .. at + Len(vs) - 1 \subseteq X
HasCopied(s, t, b, at, n, X) ==
  /\ Alters(s, t, b) /\ SameCount(s, t, b) /\ Live(t, b, X)
  /\ t.faults = s.faults \cup Fault("overrun", ~(at .. at + n - 1 \subseteq Cells(s, b)))

LEMMA CopiedOver ==
  ASSUME NEW s, NEW b, NEW at, NEW vs, NEW X, CanCopy(s, b, at, vs, X)
  PROVE  HasCopied(s, copydata(s, b, at, vs), b, at, Len(vs), X)
  BY CopyData DEF CanCopy, HasCopied

\* movedataX, within a block and from one to another.
CanMoveDown(s, b, dst, src, n, X) ==
  /\ s \in States /\ b \in Blocks /\ dst \in Nat /\ src \in Nat /\ n \in Nat /\ Live(s, b, X)
  /\ HasLifetime => /\ src .. src + n - 1 \subseteq X \cap Cells(s, b)
                    /\ dst .. dst + n - 1 \subseteq Cells(s, b)
                    /\ (dst .. dst + n - 1) \ (src .. src + n - 1) \subseteq X
HasMoved(s, t, b, dst, src, n, X) ==
  /\ Alters(s, t, b) /\ SameCount(s, t, b) /\ t.faults = s.faults
  /\ Live(t, b, (X \ (src .. src + n - 1)) \cup (dst .. dst + n - 1))

LEMMA MovedDown ==
  ASSUME NEW s, NEW b, NEW dst, NEW src, NEW n, NEW X, CanMoveDown(s, b, dst, src, n, X)
  PROVE  HasMoved(s, movedataX(s, b, dst, b, src, n, TRUE), b, dst, src, n, X)
  <1>1. CanMove(s, b, dst, b, src, n, TRUE, X, X)
    BY DEF CanMoveDown, CanMove
  <1>2. MovedAs(s, movedataX(s, b, dst, b, src, n, TRUE), b, dst, b, src, n, X, X)
    BY <1>1, MoveData
  <1> QED BY <1>1, <1>2 DEF MovedAs, HasMoved, Alters

CanMoveUp(s, b, dst, src, n, X) ==
  /\ s \in States /\ b \in Blocks /\ dst \in Nat /\ src \in Nat /\ n \in Nat /\ Live(s, b, X)
  /\ HasLifetime => /\ src .. src + n - 1 \subseteq X \cap Cells(s, b)
                    /\ dst .. dst + n - 1 \subseteq Cells(s, b)
                    /\ ((dst .. dst + n - 1) \ (src .. src + n - 1)) \cap X = {}

LEMMA MovedUp ==
  ASSUME NEW s, NEW b, NEW dst, NEW src, NEW n, NEW X, CanMoveUp(s, b, dst, src, n, X)
  PROVE  HasMoved(s, movedataX(s, b, dst, b, src, n, FALSE), b, dst, src, n, X)
  <1>1. CanMove(s, b, dst, b, src, n, FALSE, X, X)
    BY DEF CanMoveUp, CanMove
  <1>2. MovedAs(s, movedataX(s, b, dst, b, src, n, FALSE), b, dst, b, src, n, X, X)
    BY <1>1, MoveData
  <1> QED BY <1>1, <1>2 DEF MovedAs, HasMoved, Alters

CanMoveOut(s, b, dst, c, src, n, X, Y) ==
  /\ s \in States /\ b \in Blocks /\ c \in Blocks /\ b # c /\ dst \in Nat /\ src \in Nat /\ n \in Nat
  /\ Live(s, b, X) /\ Live(s, c, Y)
  /\ HasLifetime => /\ src .. src + n - 1 \subseteq Y \cap Cells(s, c)
                    /\ dst .. dst + n - 1 \subseteq Cells(s, b)
                    /\ (dst .. dst + n - 1) \cap X = {}
HasMovedOut(s, t, b, dst, c, src, n, X, Y) ==
  /\ AltersBoth(s, t, b, c) /\ SameCount(s, t, b) /\ SameCount(s, t, c) /\ t.faults = s.faults
  /\ Live(t, b, X \cup (dst .. dst + n - 1)) /\ Live(t, c, Y \ (src .. src + n - 1))

LEMMA MovedOut ==
  ASSUME NEW s, NEW b, NEW dst, NEW c, NEW src, NEW n, NEW X, NEW Y, CanMoveOut(s, b, dst, c, src, n, X, Y)
  PROVE  HasMovedOut(s, movedataX(s, b, dst, c, src, n, FALSE), b, dst, c, src, n, X, Y)
  <1>1. CanMove(s, b, dst, c, src, n, FALSE, X, Y)
    BY DEF CanMoveOut, CanMove
  <1>2. MovedAs(s, movedataX(s, b, dst, c, src, n, FALSE), b, dst, c, src, n, X, Y)
    BY <1>1, MoveData
  <1> QED BY <1>1, <1>2 DEF MovedAs, HasMovedOut, CanMoveOut

LEMMA SetSmaller ==
  ASSUME NEW s, NEW r, Sound(s, r), isUnique(s), NEW n \in Nat, n <= s.fsize
  PROVE  LET t == set_fsize(s, n) IN
         /\ Sound(t, r) /\ Untouched(s, t, r) /\ Harmless(s, t)
         /\ t.fstorage = s.fstorage /\ t.sdata = s.sdata /\ t.fsize = n /\ Count(t) = End(t)
         /\ Owner(t, r, 0 .. End(t) - 1) /\ (n < s.fsize => Quiet(s, t))
  <1>1. /\ Owner(s, r, 0 .. Count(s) - 1) /\ End(s) <= Count(s) /\ Count(s) <= freserve(s, s.fstorage)
        /\ s.sdata \in Nat /\ s.fsize \in Nat /\ Count(s) \in Nat /\ freserve(s, s.fstorage) \in Nat
        /\ Cells(s, s.fstorage) = 0 .. freserve(s, s.fstorage) - 1
    BY SoundOwner, OwnerUnique, CellsAre DEF Owner
  <1>2. PICK X : X = 0 .. Count(s) - 1 OBVIOUS
  <1>3. PICK e \in Nat : e = s.sdata + n /\ e <= Count(s)
    BY <1>1 DEF End
  <1>4. HasLifetime => s.sdata + n .. Count(s) - 1 \subseteq X \cap Cells(s, s.fstorage)
    BY <1>1, <1>2, <1>3
  <1>5. PICK t : t = set_fsize(s, n) OBVIOUS
  <1>6. Owner(s, r, X)
    BY <1>1, <1>2
  <1>7. /\ t.fstorage = s.fstorage /\ t.sdata = s.sdata /\ t.fsize = n /\ Count(t) = s.sdata + n
        /\ Harmless(s, t) /\ Owner(t, r, X \ (s.sdata + n .. Count(s) - 1)) /\ Untouched(s, t, r)
        /\ freserve(t, t.fstorage) = freserve(s, s.fstorage) /\ (Fits(s, n) => Quiet(s, t))
    BY <1>4, <1>5, <1>6, SizeSet
  <1>8. X \ (s.sdata + n .. Count(s) - 1) = 0 .. e - 1
    BY <1>1, <1>2, <1>3
  <1>9. End(t) = e /\ Count(t) = e /\ e <= freserve(t, t.fstorage)
    BY <1>1, <1>3, <1>7 DEF End
  <1>10. Owner(t, r, 0 .. e - 1)
    BY <1>7, <1>8
  <1>11. Sound(t, r)
    BY <1>9, <1>10, OwnerSound
  <1>12. n < s.fsize => Fits(s, n)
    BY <1>1 DEF End, Fits, eAddZeroE
  <1> QED BY <1>5, <1>7, <1>9, <1>10, <1>11, <1>12

-----------------------------------------------------------------------------
(* repack. *)

LEMMA Shifted ==
  ASSUME NEW s, NEW r, NEW X, Owner(s, r, X), NEW n \in Nat
  PROVE  LET t == [s EXCEPT !.sdata = n] IN
         /\ Owner(t, r, X) /\ t.fstorage = s.fstorage /\ t.sdata = n /\ t.fsize = s.fsize
         /\ t.heap = s.heap /\ t.faults = s.faults
  <1> DEFINE t == [s EXCEPT !.sdata = n]
  <1>1. /\ t \in States /\ t.heap = s.heap /\ t.faults = s.faults
        /\ t.fstorage = s.fstorage /\ t.sdata = n /\ t.fsize = s.fsize
    BY DEF Owner, States
  <1> HIDE DEF t
  <1>2. \A b \in Blocks : b # s.fstorage => BlockSound(t, b)
    BY <1>1, SameBlock DEF Owner
  <1>3. Counted(t, r) /\ Live(t, t.fstorage, X)
    BY <1>1 DEF Owner, Counted, Live, Cells
  <1> QED BY <1>1, <1>2, <1>3 DEF Owner, t

\* The elements at the front, the rest of the block without objects.
MovedToFront(s) ==
  DestructStorageAtEnd(
    [set_size(movedataX(DestructStorageAtEnd(s), s.fstorage, 0, s.fstorage, s.sdata, s.fsize, TRUE),
              s.fstorage, s.sdata) EXCEPT !.sdata = 0])

LEMMA MovedFront ==
  ASSUME NEW s, NEW r, Sound(s, r), isUnique(s)
  PROVE  LET t == MovedToFront(s) IN
         /\ Sound(t, r) /\ Untouched(s, t, r) /\ t.faults = s.faults
         /\ t.fstorage = s.fstorage /\ t.sdata = 0 /\ t.fsize = s.fsize /\ Count(t) = End(t)
         /\ freserve(t, t.fstorage) = freserve(s, s.fstorage)
  <1>1. PICK b \in Blocks : b = s.fstorage
    BY Unique DEF Sound
  <1>2. PICK at \in Nat, n \in Nat : at = s.sdata /\ n = s.fsize
    BY Unique DEF Sound
  <1>3. PICK e \in Nat : e = at + n /\ e = End(s)
    BY <1>2 DEF End
  <1>4. /\ End(s) <= Count(s) /\ Count(s) <= freserve(s, b) /\ Count(s) \in Nat /\ freserve(s, b) \in Nat
        /\ Cells(s, b) = 0 .. freserve(s, b) - 1
    BY <1>1, SoundOwner, OwnerUnique, CellsAre DEF Owner
  <1>5. PICK u : u = DestructStorageAtEnd(s) OBVIOUS
  <1>6. /\ Sound(u, r) /\ Untouched(s, u, r) /\ u.faults = s.faults /\ SameView(s, u)
        /\ Owner(u, r, 0 .. e - 1) /\ Count(u) = e
        /\ freserve(u, u.fstorage) = freserve(s, s.fstorage)
    BY <1>1, <1>3, <1>5, SoundTrimmed, NullAssumption
  <1>7. Cells(u, b) = Cells(s, b)
    BY <1>1, <1>4, <1>6, CellsAre DEF SameView, Owner
  <1>8. PICK X : X = 0 .. e - 1 OBVIOUS
  <1>9. CanMoveDown(u, b, 0, at, n, X)
    <2>1. u \in States /\ Live(u, b, X)
      BY <1>1, <1>6, <1>8 DEF Owner, SameView
    <2>2. at .. at + n - 1 \subseteq X \cap Cells(u, b)
      BY <1>3, <1>4, <1>7, <1>8
    <2>3. 0 .. 0 + n - 1 \subseteq Cells(u, b)
      BY <1>3, <1>4, <1>7
    <2>4. (0 .. 0 + n - 1) \ (at .. at + n - 1) \subseteq X
      BY <1>3, <1>8
    <2> QED BY <2>1, <2>2, <2>3, <2>4 DEF CanMoveDown
  <1>10. PICK v : v = movedataX(u, b, 0, b, at, n, TRUE) OBVIOUS
  <1>11. HasMoved(u, v, b, 0, at, n, X)
    BY <1>9, <1>10, MovedDown
  <1>12. PICK m \in Nat : m = Larger(at, n)
    BY DEF Larger
  <1>13. (X \ (at .. at + n - 1)) \cup (0 .. 0 + n - 1) = 0 .. m - 1
    BY <1>3, <1>8, <1>12 DEF Larger
  <1>14. PICK w : w = set_size(v, b, at) OBVIOUS
  <1>15. v \in States /\ Alters(u, v, b) /\ v.faults = u.faults /\ Live(v, b, 0 .. m - 1)
    BY <1>11, <1>13 DEF HasMoved, Alters, AltersBoth
  <1>16. /\ Alters(v, w, b) /\ w.heap[b].countchars = at /\ w.faults = v.faults
         /\ \A c \in Blocks : w.heap[c].fdata = v.heap[c].fdata
    BY <1>14, <1>15, SetSize
  <1>17. Alters(u, w, b) /\ Live(w, b, 0 .. m - 1)
    BY <1>15, <1>16 DEF Alters, AltersBoth, SameView, Live
  <1>18. Owner(u, r, X)
    BY <1>6, <1>8
  <1>19. /\ Owner(w, r, 0 .. m - 1) /\ Untouched(u, w, r) /\ freserve(w, w.fstorage) = freserve(u, u.fstorage)
         /\ SameView(u, w)
    BY <1>1, <1>6, <1>17, <1>18, OwnerKept DEF SameView
  <1>20. PICK x : x = [w EXCEPT !.sdata = 0] OBVIOUS
  <1>21. PICK M : M = 0 .. m - 1 OBVIOUS
  <1>22. /\ Owner(x, r, M) /\ x.fstorage = w.fstorage /\ x.sdata = 0 /\ x.fsize = w.fsize
         /\ x.heap = w.heap /\ x.faults = w.faults
    BY <1>19, <1>20, <1>21, Shifted
  <1>23. End(x) = n /\ Count(x) = at /\ x.fstorage = b
    BY <1>1, <1>2, <1>6, <1>16, <1>19, <1>22 DEF End, Count, SameView
  <1>24. Cells(x, b) = Cells(s, b)
    BY <1>7, <1>17, <1>22 DEF Cells, Alters, AltersBoth
  <1>25. HasLifetime => End(x) .. Count(x) - 1 \subseteq M \cap Cells(x, x.fstorage)
    BY <1>3, <1>4, <1>12, <1>21, <1>23, <1>24 DEF Larger
  <1>26. PICK t : t = DestructStorageAtEnd(x) OBVIOUS
  <1>27. /\ Alters(x, t, x.fstorage) /\ t.faults = x.faults /\ Count(t) = End(x)
         /\ Owner(t, r, M \ (End(x) .. Count(x) - 1)) /\ Untouched(x, t, r)
         /\ freserve(t, t.fstorage) = freserve(x, x.fstorage)
    BY <1>22, <1>25, <1>26, Trimmed
  <1>28. M \ (End(x) .. Count(x) - 1) = 0 .. n - 1
    BY <1>12, <1>21, <1>23 DEF Larger
  <1>29. t = MovedToFront(s)
    BY <1>1, <1>2, <1>5, <1>10, <1>14, <1>20, <1>26 DEF MovedToFront
  <1>30. /\ t.fstorage = s.fstorage /\ t.sdata = 0 /\ t.fsize = s.fsize /\ End(t) = n /\ Count(t) = n
         /\ freserve(t, t.fstorage) = freserve(s, b)
    <2>1. SameView(x, t)
      BY <1>27 DEF Alters, AltersBoth
    <2>2. t.fstorage = b /\ t.sdata = 0 /\ t.fsize = n
      BY <1>2, <1>6, <1>19, <1>22, <1>23, <2>1 DEF SameView
    <2>3. freserve(t, t.fstorage) = freserve(s, b)
      BY <1>23, <1>24, <1>27 DEF freserve
    <2> QED BY <1>1, <1>2, <1>23, <1>27, <2>2, <2>3 DEF End
  <1>31. Owner(t, r, 0 .. n - 1)
    BY <1>27, <1>28
  <1>32. Sound(t, r)
    <2>1. End(t) <= Count(t) /\ Count(t) <= freserve(t, t.fstorage)
      BY <1>2, <1>3, <1>4, <1>30
    <2> QED BY <1>30, <1>31, <2>1, OwnerSound
  <1>33. Untouched(s, t, r)
    BY <1>6, <1>19, <1>22, <1>27 DEF Untouched
  <1>34. t.faults = s.faults
    BY <1>6, <1>15, <1>16, <1>22, <1>27
  <1> QED BY <1>1, <1>29, <1>30, <1>32, <1>33, <1>34

LEMMA Repacked ==
  ASSUME NEW s, NEW r, Sound(s, r), isUnique(s)
  PROVE  LET t == repack(s) IN
         /\ Sound(t, r) /\ Untouched(s, t, r) /\ t.faults = s.faults
         /\ t.fstorage = s.fstorage /\ t.fsize = s.fsize
         /\ freserve(t, t.fstorage) = freserve(s, s.fstorage)
         /\ \/ t = s /\ (s.fsize = 0 \/ s.sdata = 0)
            \/ t.sdata = 0 /\ Count(t) = End(t)
  <1>1. startshift(s) = s.sdata
    BY DEF startshift, isUnique
  <1>2. CASE s.fsize = 0 \/ s.sdata = 0
    <2>1. repack(s) = s
      BY <1>1, <1>2 DEF repack
    <2> QED BY <1>2, <2>1 DEF Untouched
  <1>3. CASE ~(s.fsize = 0 \/ s.sdata = 0)
    <2>1. repack(s) = MovedToFront(s)
      BY <1>1, <1>3 DEF repack, MovedToFront
    <2> QED BY <2>1, MovedFront
  <1> QED BY <1>2, <1>3

-----------------------------------------------------------------------------
(* What is read, and how a block is left. *)

\* The k elements from the one at from that p points at are objects.
CanRead(s, p, from, k, X) ==
  /\ s \in States /\ from \in Nat /\ k \in Nat /\ p.sdata \in Nat
  /\ IF p.fstorage = Null
       THEN p.data \in Seq(Values \cup {Zero}) /\ p.sdata + from + k <= Len(p.data)
       ELSE /\ p.fstorage \in Blocks /\ Live(s, p.fstorage, X)
            /\ HasLifetime => p.sdata + from .. p.sdata + from + k - 1 \subseteq X \cap Cells(s, p.fstorage)

LEMMA ReadObjects ==
  ASSUME NEW s, NEW p, NEW from, NEW k, NEW X, CanRead(s, p, from, k, X)
  PROVE  Objects(Read(s, p, from, k)) /\ Len(Read(s, p, from, k)) = k
  <1> DEFINE at(j) == IF p.fstorage = Null THEN p.data[p.sdata + from + j]
                      ELSE Cell(s, p.fstorage, p.sdata + from + j - 1)
  <1>1. s \in States /\ from \in Nat /\ k \in Nat /\ p.sdata \in Nat
    BY DEF CanRead
  <1>2. ASSUME NEW j \in 1 .. k PROVE at(j) \in CellValues /\ (HasLifetime => at(j) # Raw)
    <2>1. CASE p.fstorage = Null
      <3>1. p.data \in Seq(Values \cup {Zero}) /\ p.sdata + from + j \in 1 .. Len(p.data)
        BY <1>1, <2>1 DEF CanRead
      <3>2. p.data[p.sdata + from + j] \in Values \cup {Zero}
        BY <3>1, ElementOfSeq
      <3> QED BY <2>1, <3>2, ValueNotRaw
    <2>2. CASE p.fstorage # Null
      <3>1. p.fstorage \in Blocks /\ Live(s, p.fstorage, X)
        BY <2>2 DEF CanRead
      <3>2. Cell(s, p.fstorage, p.sdata + from + j - 1) \in CellValues
        BY <1>1, <3>1, CellsAre DEF Cell, CellValues
      <3>3. p.sdata + from + j - 1 \in p.sdata + from .. p.sdata + from + k - 1
        BY <1>1
      <3>4. HasLifetime => p.sdata + from + j - 1 \in X \cap Cells(s, p.fstorage)
        BY <2>2, <3>3 DEF CanRead
      <3>5. HasLifetime => Cell(s, p.fstorage, p.sdata + from + j - 1) # Raw
        BY <3>1, <3>4 DEF Live, Cell
      <3> QED BY <2>2, <3>2, <3>5
    <2> QED BY <2>1, <2>2
  <1> HIDE DEF at
  <1>3. PICK vs \in [1 .. k -> CellValues] : vs = [j \in 1 .. k |-> at(j)]
    BY <1>2
  <1>4. vs = Read(s, p, from, k)
    BY <1>3 DEF Read, at
  <1>5. vs \in Seq(CellValues) /\ Len(vs) = k
    BY <1>1, <1>3
  <1>6. HasLifetime => \A j \in 1 .. k : vs[j] # Raw
    BY <1>2, <1>3
  <1> QED BY <1>4, <1>5, <1>6 DEF Objects

\* The last reference to block b may go: the cells its countchars names are objects.
Disposable(s, b) ==
  s.heap[b].refcnt <= 1 =>
    \E X : Live(s, b, X) /\ (HasLifetime => 0 .. s.heap[b].countchars - 1 \subseteq X \cap Cells(s, b))

LEMMA SoundDisposable ==
  ASSUME NEW s \in States, NEW b \in Blocks, BlockSound(s, b)
  PROVE  Disposable(s, b)
  <1>1. PICK X : X = 0 .. s.heap[b].countchars - 1 OBVIOUS
  <1>2. s.heap[b].countchars \in Nat /\ freserve(s, b) \in Nat /\ Cells(s, b) = 0 .. freserve(s, b) - 1
    BY CellsAre DEF Headers
  <1>3. 0 .. s.heap[b].countchars - 1 \subseteq X \cap Cells(s, b) /\ Live(s, b, X)
    BY <1>1, <1>2 DEF BlockSound
  <1> QED BY <1>3 DEF Disposable

LEMMA Left ==
  ASSUME NEW s \in States, NEW b \in Blocks, s.heap[b].refcnt > 0, Disposable(s, b)
  PROVE  LET t == decuse(s, b) IN
         /\ Reheads(s, t, b) /\ Lossy(s, t) /\ t.heap[b].refcnt = s.heap[b].refcnt - 1
         /\ s.heap[b].refcnt > 1 => SameCells(s, t, b)
         /\ s.heap[b].refcnt <= 1 => BlockSound(t, b)
         /\ BlockSound(s, b) => Quiet(s, t)
  <1>1. s.heap[b].refcnt \in Nat
    BY CellsAre DEF Headers
  <1>2. CASE s.heap[b].refcnt > 1
    BY <1>1, <1>2, LessUse DEF Lossy, Quiet
  <1>3. CASE s.heap[b].refcnt <= 1
    <2>1. PICK X : Live(s, b, X) /\ (HasLifetime => 0 .. s.heap[b].countchars - 1 \subseteq X \cap Cells(s, b))
      BY <1>3 DEF Disposable
    <2>2. PICK t : t = decuse(s, b) OBVIOUS
    <2>3. /\ Reheads(s, t, b) /\ t.heap[b] = Freed
          /\ s.faults \subseteq t.faults /\ t.faults \subseteq s.faults \cup {"lost"}
      BY <1>3, <2>1, <2>2, LastUse
    <2>4. t \in States /\ Cells(t, b) = {}
      BY <2>3, FreedIs DEF Cells, Reheads
    <2>5. freserve(t, b) = 0
      BY <2>4, FS_EmptySet DEF freserve
    <2>6. t.heap[b].countchars = 0 /\ t.heap[b].refcnt = 0
      BY <2>3 DEF Freed
    <2>7. BlockSound(t, b)
      BY <2>4, <2>5, <2>6 DEF BlockSound, Live
    <2>8. s.heap[b].refcnt = 1
      BY <1>1, <1>3
    <2>9. ASSUME BlockSound(s, b) PROVE Quiet(s, t)
      <3>1. PICK Y : Y = 0 .. s.heap[b].countchars - 1 OBVIOUS
      <3>2. s.heap[b].countchars \in Nat /\ freserve(s, b) \in Nat /\ Cells(s, b) = 0 .. freserve(s, b) - 1
        BY CellsAre DEF Headers
      <3>3. 0 .. s.heap[b].countchars - 1 \subseteq Y \cap Cells(s, b) /\ Live(s, b, Y)
        BY <2>9, <3>1, <3>2 DEF BlockSound
      <3>4. Y \subseteq 0 .. s.heap[b].countchars - 1
        BY <3>1
      <3> QED BY <1>3, <2>2, <3>3, <3>4, LastUse
    <2> QED BY <2>2, <2>3, <2>6, <2>7, <2>8, <2>9 DEF Lossy
  <1> QED BY <1>1, <1>2, <1>3

-----------------------------------------------------------------------------
(* makenew. *)

Plus(s, r) == [b \in Blocks |-> r[b] + IF s.fstorage = b THEN 1 ELSE 0]

LEMMA FreeBlock ==
  ASSUME NEW s, NEW r, Sound(s, r), Room(s, r)
  PROVE  Free(s) \in Blocks /\ s.heap[Free(s)].refcnt = 0 /\ r[Free(s)] = 0 /\ Free(s) # s.fstorage
  <1>1. PICK c \in Blocks : s.heap[c].refcnt = 0
    BY DEF Sound, Counted, Room
  <1>2. Free(s) \in Blocks /\ s.heap[Free(s)].refcnt = 0
    BY <1>1 DEF Free
  <1>3. r[Free(s)] \in Nat /\ 0 = r[Free(s)] + IF s.fstorage = Free(s) THEN 1 ELSE 0
    BY <1>2 DEF Sound, Counted
  <1> QED BY <1>2, <1>3

\* From s on: block b is new, of cap cells and cnt elements, and holds the objects X; the old
\* block can be left.
Filled(s, r, v, b, X, cnt, cap) ==
  /\ v \in States /\ SameView(s, v) /\ v.faults = s.faults
  /\ b \in Blocks /\ b # s.fstorage /\ r[b] = 0 /\ cnt \in Nat /\ cap \in Nat
  /\ v.heap[b].refcnt = 1 /\ v.heap[b].countchars = cnt /\ Live(v, b, X)
  /\ Cells(v, b) = 0 .. cap - 1 /\ freserve(v, b) = cap
  /\ \A c \in Blocks : c # b => v.heap[c].refcnt = s.heap[c].refcnt
  /\ \A c \in Blocks : c # b /\ c # s.fstorage => v.heap[c] = s.heap[c]
  /\ s.fstorage \in Blocks => Disposable(v, s.fstorage)
  /\ s.fstorage \in Blocks /\ r[s.fstorage] > 0 => v.heap[s.fstorage] = s.heap[s.fstorage]

LEMMA NewStorage ==
  ASSUME NEW s, NEW r, Sound(s, r), NEW b \in Blocks, b # s.fstorage, r[b] = 0,
         NEW cnt \in Nat, NEW cap \in Nat
  PROVE  LET v == MakeStorage(s, b, cnt, cap) IN
         /\ Filled(s, r, v, b, {}, cnt, cap)
         /\ \A c \in Blocks : c # b => v.heap[c] = s.heap[c]
  <1>1. PICK v : v = MakeStorage(s, b, cnt, cap) OBVIOUS
  <1>2. /\ Reheads(s, v, b) /\ v.faults = s.faults
        /\ v.heap[b].refcnt = 1 /\ v.heap[b].countchars = cnt
        /\ Cells(v, b) = 0 .. cap - 1 /\ freserve(v, b) = cap
        /\ Live(v, b, {})
    BY <1>1, Made DEF Sound
  <1>3. v \in States /\ SameView(s, v) /\ \A c \in Blocks : c # b => v.heap[c] = s.heap[c]
    BY <1>2 DEF Reheads
  <1>4. s.fstorage \in Blocks => Disposable(v, s.fstorage)
    <2> SUFFICES ASSUME s.fstorage \in Blocks PROVE Disposable(v, s.fstorage) OBVIOUS
    <2>1. BlockSound(s, s.fstorage) /\ v.heap[s.fstorage] = s.heap[s.fstorage]
      BY <1>3 DEF Sound
    <2>2. BlockSound(v, s.fstorage)
      BY <2>1, SameBlock
    <2> QED BY <1>3, <2>2, SoundDisposable
  <1> QED BY <1>1, <1>2, <1>3, <1>4 DEF Filled

\* The array has its block for itself and shows the first objects of it, not all.
Prefix(s) == isUnique(s) /\ s.sdata = 0 /\ s.fsize < Count(s)
\* Nothing is left in the old block when n elements are taken from it.
Spared(s, n) == isUnique(s) => s.fsize <= n /\ ~Prefix(s)

\* fillNew, of the first n elements.
LEMMA FilledNew ==
  ASSUME NEW s, NEW r, Sound(s, r), NEW u, NEW b, NEW cnt, NEW cap, Filled(s, r, u, b, {}, cnt, cap),
         \A c \in Blocks : c # b => u.heap[c] = s.heap[c],
         NEW opts, NEW n \in Nat, n <= s.fsize, n <= cnt, cnt <= cap
  PROVE  /\ "NoCopy" \notin opts => Filled(s, r, fillNew(u, b, n, opts), b, 0 .. n - 1, cnt, cap)
         /\ "NoCopy" \in opts => fillNew(u, b, n, opts) = u
         /\ s.fstorage \in Blocks /\ ("NoCopy" \in opts \/ Spared(s, n)) => BlockSound(fillNew(u, b, n, opts), s.fstorage)
  <1>0. /\ s \in States /\ u \in States /\ SameView(s, u) /\ b \in Blocks /\ b # s.fstorage
        /\ cnt \in Nat /\ cap \in Nat /\ s.sdata \in Nat /\ s.fsize \in Nat
        /\ (s.fstorage = Null \/ s.fstorage \in Blocks)
    BY Unique DEF Sound, Filled
  <1>0a. s.fstorage \in Blocks => BlockSound(u, s.fstorage)
    BY <1>0, SameBlock DEF Sound
  <1>1. CASE "NoCopy" \in opts
    BY <1>0a, <1>1 DEF fillNew
  <1>2. CASE "NoCopy" \notin opts /\ s.fsize = 0
    <2>1. fillNew(u, b, n, opts) = u
      BY <1>0, <1>2 DEF fillNew, SameView
    <2>2. 0 .. n - 1 = {}
      BY <1>2
    <2> QED BY <1>0a, <1>2, <2>1, <2>2
  <1>3. CASE "NoCopy" \notin opts /\ s.fsize # 0 /\ MI_ISMOVED /\ isUnique(u) /\ ~isSlice(u)
    <2>1. PICK o \in Blocks : o = s.fstorage /\ o # b
      BY <1>0, <1>3 DEF isUnique, SameView
    <2>2. PICK at \in Nat : at = s.sdata
      BY <1>0
    <2>3. BlockSound(u, o) /\ o = u.fstorage /\ u.sdata = at
      BY <1>0, <2>1, <2>2, SameBlock DEF Sound, SameView
    <2>4. PICK e \in Nat, c \in Nat : /\ e = u.heap[o].countchars /\ c = freserve(u, o) /\ e <= c
                                      /\ Cells(u, o) = 0 .. c - 1 /\ at + s.fsize <= e
      <3>1. u.heap[o].countchars \in Nat /\ freserve(u, o) \in Nat /\ Cells(u, o) = 0 .. freserve(u, o) - 1
        BY <1>0, CellsAre DEF Headers
      <3>2. at + s.fsize <= u.heap[o].countchars
        BY <2>1, <2>2, NullAssumption DEF Sound, InView, Count, End
      <3> QED BY <2>3, <3>1, <3>2 DEF BlockSound
    <2>5. PICK Y : Y = 0 .. e - 1 OBVIOUS
    <2>6. CanMoveOut(u, b, 0, o, at, n, {}, Y)
      <3>1. Live(u, b, {}) /\ Live(u, o, Y)
        BY <2>3, <2>4, <2>5 DEF BlockSound, Filled
      <3>2. at .. at + n - 1 \subseteq Y \cap Cells(u, o)
        <4>1. at + n <= e
          <5>1. PICK z \in Nat : z = s.fsize /\ n <= z
            BY <1>0
          <5>2. at + z <= e
            BY <2>4, <5>1
          <5> QED BY <5>1, <5>2
        <4>2. at .. at + n - 1 \subseteq 0 .. e - 1 /\ 0 .. e - 1 \subseteq 0 .. c - 1
          BY <2>4, <4>1
        <4> QED BY <2>4, <2>5, <4>2
      <3>3. 0 .. 0 + n - 1 \subseteq Cells(u, b)
        BY <1>0 DEF Filled
      <3> QED BY <1>0, <2>1, <3>1, <3>2, <3>3 DEF CanMoveOut
    <2>7. PICK v : v = movedataX(u, b, 0, o, at, n, FALSE) OBVIOUS
    <2>8. HasMovedOut(u, v, b, 0, o, at, n, {}, Y)
      BY <2>6, <2>7, MovedOut
    <2>9. PICK w : w = set_size(v, o, at) OBVIOUS
    <2>10. v \in States
      BY <2>8 DEF HasMovedOut, AltersBoth
    <2>11. /\ Alters(v, w, o) /\ w.heap[o].countchars = at /\ w.faults = v.faults
           /\ \A d \in Blocks : w.heap[d].fdata = v.heap[d].fdata
      BY <2>9, <2>10, SetSize
    <2>12. w = fillNew(u, b, n, opts)
      BY <1>0, <1>3, <2>2, <2>3, <2>7, <2>9 DEF fillNew, SameView
    <2>13. AltersBoth(u, w, b, o) /\ w.heap[b].countchars = u.heap[b].countchars
      <3>1. AltersBoth(u, v, b, o) /\ v.heap[b].countchars = u.heap[b].countchars
        BY <2>8 DEF HasMovedOut, SameCount
      <3>2. w.heap[b] = v.heap[b]
        BY <1>0, <2>1, <2>11 DEF Alters, AltersBoth
      <3>3. AltersBoth(u, w, b, o)
        BY <2>11, <3>1 DEF Alters, AltersBoth, SameView
      <3> QED BY <3>1, <3>2, <3>3
    <2>14. Live(w, b, 0 .. n - 1)
      <3>1. Live(v, b, {} \cup (0 .. 0 + n - 1)) /\ {} \cup (0 .. 0 + n - 1) = 0 .. n - 1
        BY <2>8 DEF HasMovedOut
      <3>2. Live(v, b, 0 .. n - 1)
        BY <3>1
      <3>3. w.heap[b].fdata = v.heap[b].fdata
        BY <1>0, <2>11
      <3> QED BY <3>2, <3>3 DEF Live, Cells
    <2>15. Disposable(w, o)
      <3>1. PICK X : X = Y \ (at .. at + n - 1) OBVIOUS
      <3>2. Live(w, o, X)
        BY <2>8, <2>11, <3>1 DEF HasMovedOut, Live, Cells
      <3>3. Cells(w, o) = Cells(u, o)
        BY <2>13 DEF AltersBoth
      <3>4. 0 .. at - 1 \subseteq X \cap Cells(w, o)
        <4>1. at <= e
          BY <1>0, <2>4
        <4>2. 0 .. at - 1 \subseteq 0 .. e - 1 /\ 0 .. at - 1 \subseteq 0 .. c - 1
          BY <2>4, <4>1
        <4>3. (0 .. at - 1) \cap (at .. at + n - 1) = {} OBVIOUS
        <4> QED BY <2>4, <2>5, <3>1, <3>3, <4>2, <4>3
      <3>5. 0 .. w.heap[o].countchars - 1 \subseteq X \cap Cells(w, o)
        BY <2>11, <3>4
      <3> QED BY <3>2, <3>5 DEF Disposable
    <2>16. r[o] = 0
      <3>1. u.heap[o].refcnt = 1 /\ u.heap[o] = s.heap[o]
        BY <1>3, <2>1, <2>3 DEF isUnique, Storage
      <3>2. r[o] \in Nat /\ 1 = r[o] + 1
        BY <2>1, <3>1 DEF Sound, Counted
      <3> QED BY <3>2
    <2>17. /\ \A d \in Blocks : d # b => w.heap[d].refcnt = s.heap[d].refcnt
           /\ \A d \in Blocks : d # b /\ d # s.fstorage => w.heap[d] = s.heap[d]
      BY <2>1, <2>13 DEF AltersBoth
    <2>18. /\ w \in States /\ SameView(s, w) /\ w.faults = s.faults
           /\ w.heap[b].refcnt = 1 /\ w.heap[b].countchars = cnt
           /\ Cells(w, b) = 0 .. cap - 1 /\ freserve(w, b) = cap
      BY <2>8, <2>11, <2>13 DEF AltersBoth, Filled, SameView, HasMovedOut, freserve
    <2>19. Filled(s, r, w, b, 0 .. n - 1, cnt, cap)
      BY <1>0, <2>1, <2>14, <2>15, <2>16, <2>17, <2>18 DEF Filled
    <2>20. ASSUME Spared(s, n) PROVE BlockSound(w, o)
      <3>1. isUnique(s) /\ Count(s) = e
        BY <1>3, <2>1, <2>3, <2>4 DEF isUnique, Storage, Count
      <3>2. s.fsize <= n /\ ~(at = 0 /\ s.fsize < e)
        BY <2>2, <2>20, <3>1 DEF Spared, Prefix
      <3>3. at = 0 \/ e = s.fsize
        BY <1>0, <1>3, <2>1, <2>3, <2>4, NullAssumption DEF isSlice, Storage, SameView
      <3>4. at = 0 /\ n = e
        <4>1. PICK z \in Nat : z = s.fsize /\ n <= z /\ at + z <= e
          BY <1>0, <2>4
        <4> QED BY <3>2, <3>3, <4>1
      <3>5. Live(w, o, Y \ (at .. at + n - 1)) /\ Y \ (at .. at + n - 1) = {}
        BY <2>5, <2>8, <2>11, <3>4 DEF HasMovedOut, Live, Cells
      <3>6. w.heap[o].countchars = 0 /\ 0 .. 0 - 1 = {} /\ freserve(w, o) \in Nat
        BY <2>11, <2>18, <3>4, CellsAre
      <3>7. Live(w, o, 0 .. w.heap[o].countchars - 1)
        BY <3>5, <3>6
      <3> QED BY <3>6, <3>7 DEF BlockSound
    <2> QED BY <1>3, <2>1, <2>12, <2>19, <2>20
  <1>4. CASE "NoCopy" \notin opts /\ s.fsize # 0 /\ ~(MI_ISMOVED /\ isUnique(u) /\ ~isSlice(u))
    <2>1. PICK p : p = Pointer(u) OBVIOUS
    <2>2. p.fstorage = s.fstorage /\ p.sdata = s.sdata /\ p.data = Literal
      BY <1>0, <2>1 DEF Pointer, SameView
    <2>3. PICK Y : Y = 0 .. Count(s) - 1 OBVIOUS
    <2>4. CanRead(u, p, 0, n, Y)
      <3>1. CASE s.fstorage = Null
        <4>1. Literal \in Seq(Values \cup {Zero}) /\ Len(Literal) \in Nat
          BY ValuesAssumption, LenProperties
        <4>2. s.sdata + s.fsize <= Len(Literal)
          BY <3>1 DEF Sound, InView, End
        <4> QED BY <1>0, <2>2, <3>1, <4>1, <4>2 DEF CanRead
      <3>2. CASE s.fstorage # Null
        <4>1. /\ s.fstorage \in Blocks /\ u.heap[s.fstorage] = s.heap[s.fstorage]
              /\ BlockSound(u, s.fstorage) /\ u.heap[s.fstorage].countchars = Count(s)
          BY <1>0, <3>2, SameBlock DEF Sound, Count
        <4>2. /\ Count(s) \in Nat /\ freserve(u, s.fstorage) \in Nat
              /\ Cells(u, s.fstorage) = 0 .. freserve(u, s.fstorage) - 1
          BY <1>0, <4>1, CellsAre DEF Headers
        <4>3. s.sdata + s.fsize <= Count(s) /\ Count(s) <= freserve(u, s.fstorage)
          BY <3>2, <4>1 DEF Sound, InView, End, BlockSound
        <4>4. s.sdata + 0 .. s.sdata + 0 + n - 1 \subseteq Y \cap Cells(u, s.fstorage)
          BY <1>0, <2>3, <4>2, <4>3
        <4>5. Live(u, s.fstorage, Y)
          BY <2>3, <4>1 DEF BlockSound
        <4> QED BY <1>0, <2>2, <3>2, <4>1, <4>4, <4>5 DEF CanRead
      <3> QED BY <3>1, <3>2
    <2>5. PICK vs : vs = View(u, 0, n) OBVIOUS
    <2>6. Objects(vs) /\ Len(vs) = n
      BY <2>1, <2>4, <2>5, ReadObjects DEF View
    <2>7. CanConstruct(u, b, 0, vs, {})
      BY <1>0, <2>6 DEF CanConstruct, Filled
    <2>8. PICK w : w = ConstructFrom(u, b, 0, vs) OBVIOUS
    <2>9. HasConstructed(u, w, b, 0, n, {})
      BY <2>6, <2>7, <2>8, ConstructedFrom
    <2>10. w = fillNew(u, b, n, opts)
      BY <1>0, <1>4, <2>5, <2>8 DEF fillNew, SameView
    <2>11. Larger(u.heap[b].countchars, 0 + n) = cnt
      BY <1>0 DEF Larger, Filled
    <2>12. 0 .. 0 + n - 1 \subseteq Cells(u, b)
      BY <1>0 DEF Filled
    <2>13. /\ Alters(u, w, b) /\ w.heap[b].countchars = cnt /\ w.faults = u.faults \cup {}
      BY <2>9, <2>11, <2>12 DEF HasConstructed, Fault
    <2>14. Live(w, b, 0 .. n - 1)
      <3>1. Live(w, b, {} \cup (0 .. 0 + n - 1)) /\ {} \cup (0 .. 0 + n - 1) = 0 .. n - 1
        BY <2>9 DEF HasConstructed
      <3> QED BY <3>1
    <2>15. \A d \in Blocks : d # b => w.heap[d] = s.heap[d]
      BY <2>13 DEF Alters, AltersBoth
    <2>16. s.fstorage \in Blocks => Disposable(w, s.fstorage)
      <3> SUFFICES ASSUME s.fstorage \in Blocks PROVE Disposable(w, s.fstorage) OBVIOUS
      <3>1. BlockSound(s, s.fstorage) /\ w.heap[s.fstorage] = s.heap[s.fstorage]
        BY <1>0, <2>15 DEF Sound
      <3>2. BlockSound(w, s.fstorage) /\ w \in States
        BY <2>13, <3>1, SameBlock DEF Alters, AltersBoth
      <3> QED BY <3>2, SoundDisposable
    <2>17. /\ w \in States /\ SameView(s, w) /\ w.faults = s.faults
           /\ w.heap[b].refcnt = 1
           /\ Cells(w, b) = 0 .. cap - 1 /\ freserve(w, b) = cap
      BY <2>13 DEF Alters, AltersBoth, Filled, SameView, freserve
    <2>18. Filled(s, r, w, b, 0 .. n - 1, cnt, cap)
      BY <1>0, <2>13, <2>14, <2>15, <2>16, <2>17 DEF Filled
    <2>19. s.fstorage \in Blocks => BlockSound(w, s.fstorage)
      BY <1>0, <2>15, SameBlock DEF Sound
    <2> QED BY <1>4, <2>10, <2>18, <2>19
  <1> QED BY <1>1, <1>2, <1>3, <1>4

\* The references the array's old block has when a new one is taken.
After(s, r, opts) == IF "NoDecUse" \in opts THEN Plus(s, r) ELSE r

LEMMA Moved ==
  ASSUME NEW w \in States, NEW b \in Blocks
  PROVE  LET x == [reset_nodone(w) EXCEPT !.fstorage = b] IN
         /\ x \in States /\ x.heap = w.heap /\ x.faults = w.faults
         /\ x.fstorage = b /\ x.sdata = 0 /\ x.fsize = 0
  BY DEF reset_nodone, States

LEMMA SameCellsSound ==
  ASSUME NEW s, NEW t, NEW b, SameCells(s, t, b), BlockSound(s, b)
  PROVE  BlockSound(t, b)
  BY DEF SameCells, BlockSound, Live, Cells, freserve

LEMMA TakenNew ==
  ASSUME NEW s, NEW r, Sound(s, r), NEW v, NEW b, NEW X, NEW cnt, NEW cap, Filled(s, r, v, b, X, cnt, cap),
         cnt + eAddZeroE <= cap, NEW opts, "NoDecUse" \in opts => \A c \in Blocks : c # b => v.heap[c] = s.heap[c]
  PROVE  LET t == takeNew(v, b, cnt, opts) IN
         /\ Owner(t, After(s, r, opts), X) /\ Untouched(s, t, After(s, r, opts)) /\ Lossy(s, t)
         /\ t.fstorage = b /\ t.sdata = 0 /\ t.fsize = cnt /\ Count(t) = cnt /\ freserve(t, b) = cap
         /\ Cells(t, b) = 0 .. cap - 1
         /\ "NoDecUse" \in opts \/ (s.fstorage \in Blocks => BlockSound(v, s.fstorage)) => Quiet(s, t)
  <1>1. PICK R : R = After(s, r, opts) OBVIOUS
  <1>2. PICK w : w = IF "NoDecUse" \in opts \/ s.fstorage = Null THEN v ELSE decuse(v, s.fstorage) OBVIOUS
  <1>3. PICK x : x = [reset_nodone(w) EXCEPT !.fstorage = b] OBVIOUS
  <1>4. PICK t : t = set_fsize(x, cnt) OBVIOUS
  <1>5. /\ v \in States /\ SameView(s, v) /\ v.faults = s.faults
        /\ b \in Blocks /\ b # s.fstorage /\ r[b] = 0 /\ cnt \in Nat /\ cap \in Nat
        /\ v.heap[b].refcnt = 1 /\ v.heap[b].countchars = cnt /\ Live(v, b, X)
        /\ Cells(v, b) = 0 .. cap - 1 /\ freserve(v, b) = cap
    BY DEF Filled
  <1>6. t = takeNew(v, b, cnt, opts)
    <2>1. v.fstorage = s.fstorage
      BY <1>5 DEF SameView
    <2>2. CASE "NoDecUse" \in opts
      BY <1>2, <1>3, <1>4, <2>1, <2>2 DEF takeNew
    <2>3. CASE "NoDecUse" \notin opts
      <3>1. done(v) = reset_nodone(w)
        BY <1>2, <2>1, <2>3 DEF done
      <3> QED BY <1>3, <1>4, <2>3, <3>1 DEF takeNew
    <2> QED BY <2>2, <2>3
  <1>7. R \in [Blocks -> Nat] /\ R[b] = 0
    BY <1>1, <1>5 DEF After, Plus, Sound, Counted
  <1>8. /\ w \in States /\ w.heap[b] = v.heap[b] /\ Lossy(s, w)
        /\ \A c \in Blocks : c # b =>
             w.heap[c].refcnt = R[c] /\ BlockSound(w, c) /\ (R[c] > 0 => SameCells(s, w, c))
        /\ "NoDecUse" \in opts \/ (s.fstorage \in Blocks => BlockSound(v, s.fstorage)) => Quiet(s, w)
    <2>1. CASE "NoDecUse" \in opts \/ s.fstorage = Null
      <3>1. w = v /\ \A c \in Blocks : c # b => w.heap[c] = s.heap[c]
        BY <1>2, <2>1, NullAssumption DEF Filled
      <3>2. \A c \in Blocks : s.heap[c].refcnt = R[c]
        BY <1>1, <2>1, NullAssumption DEF After, Plus, Sound, Counted
      <3>3. \A c \in Blocks : c # b => BlockSound(w, c)
        BY <3>1, SameBlock DEF Sound
      <3> QED BY <1>5, <3>1, <3>2, <3>3 DEF Lossy, Quiet, SameCells
    <2>2. CASE ~("NoDecUse" \in opts \/ s.fstorage = Null)
      <3>1. PICK o \in Blocks : o = s.fstorage /\ o # b
        BY <1>5, <2>2, Unique DEF Sound
      <3>2. w = decuse(v, o) /\ R = r
        BY <1>1, <1>2, <2>2, <3>1 DEF After
      <3>3. v.heap[o].refcnt = r[o] + 1 /\ r[o] \in Nat /\ Disposable(v, o)
        BY <3>1 DEF Filled, Sound, Counted
      <3>4. v.heap[o].refcnt > 0
        BY <3>3
      <3>5. /\ Reheads(v, w, o) /\ Lossy(v, w) /\ w.heap[o].refcnt = v.heap[o].refcnt - 1
            /\ v.heap[o].refcnt > 1 => SameCells(v, w, o)
            /\ v.heap[o].refcnt <= 1 => BlockSound(w, o)
            /\ BlockSound(v, o) => Quiet(v, w)
        BY <1>5, <3>2, <3>3, <3>4, Left
      <3>6. \A c \in Blocks : c # b /\ c # o => w.heap[c] = s.heap[c] /\ s.heap[c].refcnt = r[c]
        BY <3>1, <3>5 DEF Reheads, Filled, Sound, Counted
      <3>7. \A c \in Blocks : c # b /\ c # o => BlockSound(w, c)
        BY <3>6, SameBlock DEF Sound
      <3>8. r[o] > 0 => SameCells(s, w, o)
        BY <3>1, <3>3, <3>5 DEF Filled, SameCells
      <3>9. BlockSound(w, o)
        <4>1. CASE r[o] = 0
          BY <3>3, <3>5, <4>1
        <4>2. CASE r[o] > 0
          BY <3>8, <4>2, SameCellsSound DEF Sound
        <4> QED BY <3>3, <4>1, <4>2
      <3>10. w \in States /\ w.heap[b] = v.heap[b] /\ Lossy(s, w)
        BY <1>5, <3>1, <3>5 DEF Reheads, Lossy
      <3>11. w.heap[o].refcnt = r[o]
        BY <3>3, <3>5
      <3>12. BlockSound(v, o) => Quiet(s, w)
        BY <1>5, <3>5 DEF Quiet
      <3> QED BY <2>2, <3>1, <3>2, <3>6, <3>7, <3>8, <3>9, <3>10, <3>11, <3>12 DEF SameCells
    <2> QED BY <2>1, <2>2
  <1>9. /\ x \in States /\ x.heap = w.heap /\ x.faults = w.faults
        /\ x.fstorage = b /\ x.sdata = 0 /\ x.fsize = 0
    BY <1>3, <1>5, <1>8, Moved
  <1>10. Owner(x, R, X)
    <2>1. Counted(x, R)
      BY <1>5, <1>7, <1>8, <1>9 DEF Counted
    <2>2. Live(x, b, X)
      BY <1>5, <1>8, <1>9 DEF Live, Cells
    <2>3. \A c \in Blocks : c # b => BlockSound(x, c)
      BY <1>8, <1>9, SameBlock
    <2> QED BY <1>5, <1>7, <1>9, <2>1, <2>2, <2>3 DEF Owner
  <1>11. Count(x) = cnt /\ Cells(x, b) = 0 .. cap - 1 /\ freserve(x, b) = cap
    BY <1>5, <1>8, <1>9 DEF Count, Cells, freserve
  <1>12. HasLifetime => x.sdata + cnt .. Count(x) - 1 \subseteq X \cap Cells(x, x.fstorage)
    BY <1>5, <1>9, <1>11
  <1>13. cnt \in Nat
    BY <1>5
  <1>14. /\ t.fstorage = x.fstorage /\ t.sdata = x.sdata /\ t.fsize = cnt /\ Count(t) = x.sdata + cnt
         /\ Harmless(x, t) /\ Owner(t, R, X \ (x.sdata + cnt .. Count(x) - 1)) /\ Untouched(x, t, R)
         /\ freserve(t, t.fstorage) = freserve(x, x.fstorage)
         /\ Cells(t, t.fstorage) = Cells(x, x.fstorage)
         /\ Fits(x, cnt) => Quiet(x, t)
    BY <1>4, <1>10, <1>12, <1>13, SizeSet
  <1>15. X \ (x.sdata + cnt .. Count(x) - 1) = X
    BY <1>5, <1>9, <1>11
  <1>16. Untouched(s, t, R)
    BY <1>7, <1>8, <1>9, <1>14 DEF Untouched, SameCells
  <1>18. /\ t.fstorage = b /\ t.sdata = 0 /\ t.fsize = cnt /\ Count(t) = cnt /\ freserve(t, b) = cap
         /\ Cells(t, b) = 0 .. cap - 1
    BY <1>5, <1>9, <1>11, <1>14
  <1>19. Owner(t, R, X)
    BY <1>14, <1>15
  <1>20. Quiet(w, t)
    <2>1. x.sdata + cnt + eAddZeroE = cnt + eAddZeroE
      BY <1>5, <1>9 DEF eAddZeroE
    <2>2. Fits(x, cnt)
      BY <1>9, <1>11, <2>1 DEF Fits
    <2> QED BY <1>9, <1>14, <2>2 DEF Quiet
  <1>17. Lossy(s, t)
    BY <1>8, <1>9, <1>14, <1>20 DEF Harmless, Lossy, Quiet
  <1>21. "NoDecUse" \in opts \/ (s.fstorage \in Blocks => BlockSound(v, s.fstorage)) => Quiet(s, t)
    BY <1>8, <1>20 DEF Quiet
  <1> QED BY <1>1, <1>6, <1>16, <1>17, <1>18, <1>19, <1>21

LEMMA Capacities ==
  ASSUME NEW capa \in Nat, NEW opts
  PROVE  LET wanted == capa + eAddZeroE
             cap == IF "Increase" \in opts THEN capacity_newsz(wanted) ELSE wanted
         IN  wanted \in Nat /\ eAddZeroE \in Nat /\ cap \in Nat /\ wanted <= cap
  <1>1. PICK n \in Nat : n = capa + eAddZeroE
    BY DEF eAddZeroE
  <1>2. (n * 25) \div 100 \in Nat OBVIOUS
  <1>3. capacity_newsz(n) \in Nat /\ n <= capacity_newsz(n)
    BY <1>2, SizesAssumption DEF capacity_newsz, Larger
  <1> QED BY <1>1, <1>3 DEF eAddZeroE

\* The new storage b with what is kept of the old one.
RenewedAs(s, r, cnt, capa, opts, t, b, n, cap) ==
  /\ b = Free(s) /\ n = Smaller(s.fsize, cnt) /\ n \in Nat /\ n <= cnt /\ n <= s.fsize
  /\ cap \in Nat /\ capa + eAddZeroE <= cap /\ b # s.fstorage /\ b \in Blocks
  /\ t = takeNew(fillNew(newStorage(s, b, cnt, capa + eAddZeroE, opts), b, n, opts), b, cnt, opts)
  /\ Owner(t, After(s, r, opts), IF "NoCopy" \in opts THEN {} ELSE 0 .. n - 1)
  /\ Untouched(s, t, After(s, r, opts)) /\ Lossy(s, t)
  /\ t.fstorage = b /\ t.sdata = 0 /\ t.fsize = cnt /\ Count(t) = cnt /\ freserve(t, b) = cap
  /\ Cells(t, b) = 0 .. cap - 1
  /\ "NoCopy" \in opts \/ Spared(s, cnt) => Quiet(s, t)

LEMMA Renewed ==
  ASSUME NEW s, NEW r, Sound(s, r), Room(s, r), NEW cnt \in Nat, NEW capa \in Nat, cnt <= capa, NEW opts,
         "NoDecUse" \in opts => "NoCopy" \in opts
  PROVE  \E t, b, n, cap : RenewedAs(s, r, cnt, capa, opts, t, b, n, cap)
  <1>1. PICK b : b = Free(s) OBVIOUS
  <1>2. b \in Blocks /\ r[b] = 0 /\ b # s.fstorage
    BY <1>1, FreeBlock
  <1>3. PICK n \in Nat : n = Smaller(s.fsize, cnt) /\ n <= cnt /\ n <= s.fsize
    BY Unique DEF Smaller, Sound
  <1>4. PICK wanted \in Nat, cap \in Nat :
          /\ wanted = capa + eAddZeroE /\ wanted <= cap /\ capa <= wanted
          /\ cap = IF "Increase" \in opts THEN capacity_newsz(wanted) ELSE wanted
    BY Capacities
  <1>5. PICK u : u = MakeStorage(s, b, cnt, cap) OBVIOUS
  <1>6. Filled(s, r, u, b, {}, cnt, cap) /\ \A c \in Blocks : c # b => u.heap[c] = s.heap[c]
    BY <1>2, <1>5, NewStorage
  <1>7. u = newStorage(s, b, cnt, capa + eAddZeroE, opts)
    BY <1>4, <1>5 DEF newStorage
  <1>8. PICK v : v = fillNew(u, b, n, opts) OBVIOUS
  <1>9. PICK X : X = IF "NoCopy" \in opts THEN {} ELSE 0 .. n - 1 OBVIOUS
  <1>10. cnt <= cap
    BY <1>4
  <1>11. /\ Filled(s, r, v, b, X, cnt, cap) /\ ("NoCopy" \in opts => v = u)
         /\ s.fstorage \in Blocks /\ ("NoCopy" \in opts \/ Spared(s, n)) => BlockSound(v, s.fstorage)
    BY <1>3, <1>6, <1>8, <1>9, <1>10, FilledNew
  <1>12. PICK t : t = takeNew(v, b, cnt, opts) OBVIOUS
  <1>14a. cnt + eAddZeroE <= cap
    BY <1>4 DEF eAddZeroE
  <1>13. /\ Owner(t, After(s, r, opts), X) /\ Untouched(s, t, After(s, r, opts)) /\ Lossy(s, t)
         /\ t.fstorage = b /\ t.sdata = 0 /\ t.fsize = cnt /\ Count(t) = cnt /\ freserve(t, b) = cap
         /\ Cells(t, b) = 0 .. cap - 1
         /\ "NoDecUse" \in opts \/ (s.fstorage \in Blocks => BlockSound(v, s.fstorage)) => Quiet(s, t)
    BY <1>6, <1>11, <1>12, <1>14a, TakenNew
  <1>14. capa + eAddZeroE <= cap
    BY <1>4
  <1>14b. Spared(s, cnt) => Spared(s, n)
    BY <1>3, Unique DEF Spared, Smaller, Sound
  <1>14c. "NoCopy" \in opts \/ Spared(s, cnt) => Quiet(s, t)
    BY <1>11, <1>13, <1>14b
  <1>15. RenewedAs(s, r, cnt, capa, opts, t, b, n, cap)
    BY <1>1, <1>2, <1>3, <1>7, <1>8, <1>9, <1>12, <1>13, <1>14, <1>14c DEF RenewedAs
  <1> QED BY <1>15

\* makenew of an empty storage.
EmptyAs(s, r, t, cnt, capa) ==
  /\ Owner(t, r, {}) /\ Untouched(s, t, r) /\ Harmless(s, t) /\ Quiet(s, t)
  /\ t.fstorage # s.fstorage /\ t.sdata = 0 /\ t.fsize = cnt /\ Count(t) = cnt
  /\ capa + eAddZeroE <= freserve(t, t.fstorage) /\ freserve(t, t.fstorage) \in Nat
  /\ Cells(t, t.fstorage) = 0 .. freserve(t, t.fstorage) - 1

LEMMA MadeEmpty ==
  ASSUME NEW s, NEW r, Sound(s, r), Room(s, r), NEW cnt \in Nat, NEW capa \in Nat, cnt <= capa, NEW opts,
         "NoCopy" \in opts, "NoNew" \in opts
  PROVE  EmptyAs(s, After(s, r, opts), makenew(s, cnt, capa, opts), cnt, capa)
  <1>0. PICK t, b, n, cap : RenewedAs(s, r, cnt, capa, opts, t, b, n, cap)
    BY Renewed
  <1>1.    /\ b = Free(s) /\ n = Smaller(s.fsize, cnt) /\ n \in Nat /\ n <= cnt /\ n <= s.fsize
           /\ cap \in Nat /\ capa + eAddZeroE <= cap /\ b # s.fstorage /\ b \in Blocks
           /\ t = takeNew(fillNew(newStorage(s, b, cnt, capa + eAddZeroE, opts), b, n, opts), b, cnt, opts)
           /\ Owner(t, After(s, r, opts), {})
           /\ Untouched(s, t, After(s, r, opts)) /\ Lossy(s, t) /\ Quiet(s, t)
           /\ t.fstorage = b /\ t.sdata = 0 /\ t.fsize = cnt /\ Count(t) = cnt /\ freserve(t, b) = cap
           /\ Cells(t, b) = 0 .. cap - 1
    BY <1>0 DEF RenewedAs
  <1>2. t = makenew(s, cnt, capa, opts)
    BY <1>1 DEF makenew
  <1>3. EmptyAs(s, After(s, r, opts), t, cnt, capa)
    BY <1>1 DEF EmptyAs, Harmless, Lossy, Quiet
  <1> QED BY <1>2, <1>3

\* makenew that keeps the elements, and constructs those that are missing.
LEMMA MadeNew ==
  ASSUME NEW s, NEW r, Sound(s, r), Room(s, r), NEW cnt \in Nat, NEW capa \in Nat, cnt <= capa, NEW opts,
         "NoCopy" \notin opts, "NoNew" \notin opts, "NoDecUse" \notin opts
  PROVE  LET t == makenew(s, cnt, capa, opts) IN
         /\ Sound(t, r) /\ Untouched(s, t, r) /\ Lossy(s, t)
         /\ t.fstorage \in Blocks /\ t.sdata = 0 /\ t.fsize = cnt /\ t.fstorage # s.fstorage
         /\ Spared(s, cnt) => Quiet(s, t)
  <1>0. PICK u, b, n, cap : RenewedAs(s, r, cnt, capa, opts, u, b, n, cap)
    BY Renewed
  <1>1.    /\ b = Free(s) /\ n = Smaller(s.fsize, cnt) /\ n \in Nat /\ n <= cnt /\ n <= s.fsize
           /\ cap \in Nat /\ capa + eAddZeroE <= cap /\ b # s.fstorage /\ b \in Blocks
           /\ u = takeNew(fillNew(newStorage(s, b, cnt, capa + eAddZeroE, opts), b, n, opts), b, cnt, opts)
           /\ Owner(u, r, 0 .. n - 1) /\ Untouched(s, u, r) /\ Lossy(s, u)
           /\ u.fstorage = b /\ u.sdata = 0 /\ u.fsize = cnt /\ Count(u) = cnt /\ freserve(u, b) = cap
           /\ Cells(u, b) = 0 .. cap - 1
           /\ Spared(s, cnt) => Quiet(s, u)
    BY <1>0 DEF RenewedAs, After
  <1>2. cnt <= cap /\ s.fsize \in Nat
    BY <1>1, Unique DEF Sound, eAddZeroE
  <1>3. CASE cnt > s.fsize
    <2>1. PICK at \in Nat, k \in Nat : at = s.fsize /\ k = cnt - s.fsize /\ k > 0
      BY <1>2, <1>3
    <2>2. n = at /\ at + k = cnt
      BY <1>1, <1>3, <2>1 DEF Smaller
    <2>3. PICK vs : vs = [i \in 1 .. k |-> Zero] OBVIOUS
    <2>4. Objects(vs) /\ Len(vs) = k
      BY <2>3, Defaults
    <2>5. PICK X : X = 0 .. at - 1 OBVIOUS
    <2>6. CanConstruct(u, b, at, vs, X)
      <3>1. (at .. at + Len(vs) - 1) \cap X = {}
        BY <2>4, <2>5
      <3>2. u \in States /\ Live(u, b, X)
        BY <1>1, <2>2, <2>5 DEF Owner
      <3>3. Objects(vs)
        BY <2>4
      <3> QED BY <1>1, <3>1, <3>2, <3>3 DEF CanConstruct
    <2>7. PICK t : t = ConstructFrom(u, b, at, vs) OBVIOUS
    <2>8. HasConstructed(u, t, b, at, k, X)
      BY <2>4, <2>6, <2>7, ConstructedFrom
    <2>9. X \cup (at .. at + k - 1) = 0 .. cnt - 1
      BY <2>2, <2>5
    <2>10. at .. at + k - 1 \subseteq Cells(u, b)
      BY <1>1, <1>2, <2>2
    <2>11. /\ Alters(u, t, b) /\ t.heap[b].countchars = cnt /\ t.faults = u.faults \cup {}
           /\ Live(t, b, 0 .. cnt - 1)
      <3>1. Larger(u.heap[b].countchars, at + k) = cnt
        BY <1>1, <2>2 DEF Larger, Count
      <3> QED BY <2>8, <2>9, <2>10, <3>1 DEF HasConstructed, Fault
    <2>12. Owner(u, r, X)
      BY <1>1, <2>2, <2>5
    <2>13. /\ Owner(t, r, 0 .. cnt - 1) /\ Untouched(u, t, r) /\ freserve(t, t.fstorage) = freserve(u, u.fstorage)
           /\ SameView(u, t) /\ End(t) = End(u)
      BY <1>1, <2>11, <2>12, OwnerKept
    <2>14. /\ t.fstorage = b /\ t.sdata = 0 /\ t.fsize = cnt /\ Count(t) = cnt /\ End(t) = cnt
           /\ freserve(t, t.fstorage) = cap
      BY <1>1, <2>11, <2>13 DEF SameView, Count, End
    <2>15. Sound(t, r)
      BY <1>2, <2>13, <2>14, OwnerSound
    <2>16. t = makenew(s, cnt, capa, opts)
      BY <1>1, <1>3, <2>1, <2>3, <2>7 DEF makenew, ConstructFor
    <2>17. Untouched(s, t, r) /\ Lossy(s, t)
      BY <1>1, <2>11, <2>13 DEF Untouched, Lossy
    <2>18. Spared(s, cnt) => Quiet(s, t)
      BY <1>1, <2>11 DEF Quiet
    <2> QED BY <1>1, <2>14, <2>15, <2>16, <2>17, <2>18
  <1>4. CASE ~(cnt > s.fsize)
    <2>1. u = makenew(s, cnt, capa, opts)
      BY <1>1, <1>4 DEF makenew
    <2>2. n = cnt
      BY <1>1, <1>2, <1>4 DEF Smaller
    <2>3. End(u) = cnt /\ Count(u) = cnt /\ Count(u) <= freserve(u, u.fstorage)
      BY <1>1, <1>2 DEF End
    <2>4. Sound(u, r)
      <3>1. Owner(u, r, 0 .. Count(u) - 1)
        BY <1>1, <2>2, <2>3
      <3> QED BY <2>3, <3>1, OwnerSound
    <2> QED BY <1>1, <2>1, <2>4
  <1> QED BY <1>3, <1>4

-----------------------------------------------------------------------------
(* doresize. *)

\* The array as it is before it grows in its block.
Ready(s, n) == LET u == DestructStorageAtEnd(s) IN IF n <= capacity(s) THEN u ELSE repack(u)
InPlace(s, n) == isUnique(s) /\ freserve(s, s.fstorage) > 0 /\ n <= startshift(s) + capacity(s)

\* An empty slice that begins inside a block it owns.
Hollow(s) == isUnique(s) /\ s.fsize = 0 /\ s.sdata > 0

LEMMA MadeReady ==
  ASSUME NEW s, NEW r, Sound(s, r), NEW n \in Nat, s.fsize < n, InPlace(s, n)
  PROVE  LET t == Ready(s, n) IN
         /\ Sound(t, r) /\ Untouched(s, t, r) /\ t.faults = s.faults
         /\ t.fstorage = s.fstorage /\ t.fsize = s.fsize
         /\ freserve(t, t.fstorage) = freserve(s, s.fstorage)
         /\ isUnique(t) /\ Owner(t, r, 0 .. End(t) - 1) /\ Count(t) = End(t)
         /\ s.sdata = 0 => t.sdata = 0
         /\ Fits(t, n) \/ Hollow(s)
  <1>1. PICK u : u = DestructStorageAtEnd(s) OBVIOUS
  <1>2. isUnique(s) /\ s.fstorage \in Blocks /\ s.fstorage # Null /\ s.sdata \in Nat /\ s.fsize \in Nat
    BY Unique, NullAssumption DEF InPlace, Sound
  <1>3. /\ Sound(u, r) /\ Untouched(s, u, r) /\ u.faults = s.faults /\ SameView(s, u)
        /\ Owner(u, r, 0 .. End(s) - 1) /\ Count(u) = End(s)
        /\ freserve(u, u.fstorage) = freserve(s, s.fstorage)
    BY <1>1, <1>2, SoundTrimmed
  <1>4. isUnique(u) /\ u.fstorage = s.fstorage /\ u.sdata = s.sdata /\ u.fsize = s.fsize /\ End(u) = End(s)
    BY <1>3, OwnerUnique DEF SameView, End
  <1>5. PICK c \in Nat, e \in {0, 1} :
          /\ c = freserve(s, s.fstorage) /\ e = eAddZeroE
          /\ s.sdata + s.fsize <= c
    <2>1. freserve(s, s.fstorage) \in Nat /\ Count(s) \in Nat
      BY <1>2, CellsAre DEF Sound, Count, Headers
    <2>2. End(s) <= Count(s) /\ Count(s) <= freserve(s, s.fstorage)
      BY <1>2, SoundOwner
    <2> QED BY <1>2, <2>1, <2>2 DEF End, eAddZeroE
  <1>6. startshift(s) = s.sdata /\ capacity(s) = IF c - s.sdata = 0 THEN 0 ELSE c - s.sdata - e
    BY <1>2, <1>5 DEF startshift, capacity
  <1>7. CASE n <= capacity(s)
    <2>1. Ready(s, n) = u
      BY <1>1, <1>7 DEF Ready
    <2>2. s.sdata + n + e <= c
      BY <1>2, <1>5, <1>6, <1>7
    <2>3. Fits(u, n)
      BY <1>3, <1>4, <1>5, <2>2 DEF Fits
    <2> QED BY <1>3, <1>4, <2>1, <2>3
  <1>8. CASE ~(n <= capacity(s))
    <2>1. PICK t : t = repack(u) /\ t = Ready(s, n)
      BY <1>1, <1>8 DEF Ready
    <2>2. /\ Sound(t, r) /\ Untouched(u, t, r) /\ t.faults = u.faults
          /\ t.fstorage = u.fstorage /\ t.fsize = u.fsize
          /\ freserve(t, t.fstorage) = freserve(u, u.fstorage)
          /\ \/ t = u /\ (u.fsize = 0 \/ u.sdata = 0)
             \/ t.sdata = 0 /\ Count(t) = End(t)
      BY <1>3, <1>4, <2>1, Repacked
    <2>3. isUnique(t)
      <3>1. t.fstorage \in Blocks /\ r[t.fstorage] = 0
        BY <1>3, <1>4, <2>2 DEF Owner
      <3> QED BY <2>2, <3>1, Unique DEF Sound
    <2>4. Count(t) = End(t)
      BY <1>3, <1>4, <2>2
    <2>5. Owner(t, r, 0 .. End(t) - 1)
      BY <2>2, <2>3, <2>4, SoundOwner
    <2>6. n <= s.sdata + capacity(s)
      BY <1>6 DEF InPlace
    <2>7. Fits(t, n) \/ Hollow(s)
      <3> SUFFICES ASSUME ~Hollow(s) PROVE Fits(t, n) OBVIOUS
      <3>0. c > 0 /\ (s.fsize # 0 \/ s.sdata = 0)
        BY <1>2, <1>5 DEF Hollow, InPlace
      <3>1. c - s.sdata # 0 /\ s.sdata # 0 /\ n + e <= c
        BY <1>2, <1>5, <1>6, <1>8, <2>6, <3>0
      <3>2. t.sdata = 0
        BY <1>4, <2>2, <3>0, <3>1
      <3> QED BY <1>3, <1>5, <2>2, <3>1, <3>2 DEF Fits
    <2>8. s.sdata = 0 => t.sdata = 0
      BY <1>4, <2>2
    <2>9. Untouched(s, t, r)
      BY <1>3, <2>2 DEF Untouched
    <2> QED BY <1>3, <1>4, <2>1, <2>2, <2>3, <2>4, <2>5, <2>7, <2>8, <2>9
  <1> QED BY <1>7, <1>8

\* A resize in place: n elements are claimed, and constructed but for "NoNew".
GrownAs(s, r, t, n, opts) ==
  /\ t.fstorage = s.fstorage /\ t.fsize = n /\ Count(t) = End(t) /\ Harmless(s, t) /\ Untouched(s, t, r)
  /\ "NoNew" \in opts => Owner(t, r, 0 .. t.sdata + s.fsize - 1)
  /\ "NoNew" \notin opts =>
       Owner(t, r, 0 .. End(t) - 1) /\ ("overrun" \notin t.faults => End(t) <= freserve(t, t.fstorage))
  /\ s.sdata = 0 => t.sdata = 0
  /\ (Fits(t, n) /\ Quiet(s, t)) \/ Hollow(s)

LEMMA GrownInPlace ==
  ASSUME NEW s, NEW r, Sound(s, r), NEW n \in Nat, s.fsize < n, InPlace(s, n), NEW opts
  PROVE  GrownAs(s, r, doresize(s, n, opts), n, opts)
  <1>1. PICK u : u = Ready(s, n) OBVIOUS
  <1>2. /\ Sound(u, r) /\ Untouched(s, u, r) /\ u.faults = s.faults
        /\ u.fstorage = s.fstorage /\ u.fsize = s.fsize
        /\ freserve(u, u.fstorage) = freserve(s, s.fstorage)
        /\ isUnique(u) /\ Owner(u, r, 0 .. End(u) - 1) /\ Count(u) = End(u)
        /\ s.sdata = 0 => u.sdata = 0
        /\ Fits(u, n) \/ Hollow(s)
    BY <1>1, MadeReady
  <1>3. PICK t : t = GrowHere(u, n, opts) OBVIOUS
  <1>4. s.fsize \in Nat
    BY Unique DEF Sound
  <1>5. u.fsize <= n
    BY <1>2, <1>4
  <1>6. /\ t.fstorage = u.fstorage /\ t.sdata = u.sdata /\ t.fsize = n /\ Count(t) = End(t)
        /\ Harmless(u, t) /\ Untouched(u, t, r) /\ freserve(t, t.fstorage) = freserve(u, u.fstorage)
        /\ Fits(u, n) => Quiet(u, t)
        /\ "NoNew" \in opts => Owner(t, r, 0 .. End(u) - 1)
        /\ "NoNew" \notin opts =>
             /\ Owner(t, r, 0 .. End(t) - 1)
             /\ "overrun" \notin t.faults /\ u.fsize < n => End(t) <= freserve(t, t.fstorage)
    <2>1. GrownBy(u, r, t, n, opts)
      BY <1>2, <1>3, <1>5, GrownHere
    <2> QED BY <2>1 DEF GrownBy
  <1>7. t = doresize(s, n, opts)
    <2>1. doresize(s, n, opts) = GrowHere(IF n <= capacity(s) THEN DestructStorageAtEnd(s)
                                          ELSE repack(DestructStorageAtEnd(s)), n, opts)
      BY <1>4 DEF doresize, InPlace
    <2> QED BY <1>1, <1>3, <2>1 DEF Ready
  <1>8. End(u) = t.sdata + s.fsize
    <2>1. t.sdata = u.sdata /\ s.fsize = u.fsize
      BY <1>2, <1>6
    <2>2. End(u) = u.sdata + u.fsize
      BY DEF End
    <2> QED BY <2>1, <2>2
  <1>9. (Fits(t, n) /\ Quiet(s, t)) \/ Hollow(s)
    BY <1>2, <1>6 DEF Fits, Quiet
  <1>10. Harmless(s, t) /\ Untouched(s, t, r)
    BY <1>2, <1>6 DEF Harmless, Untouched
  <1>11. "NoNew" \in opts => Owner(t, r, 0 .. t.sdata + s.fsize - 1)
    <2>1. PICK X : X = 0 .. End(u) - 1 OBVIOUS
    <2>2. "NoNew" \in opts => Owner(t, r, X)
      BY <1>6, <2>1
    <2>3. t.sdata \in Nat /\ s.fsize \in Nat /\ End(u) \in Nat
      BY <1>2, <1>4, <1>6, OwnerUnique
    <2>4. X = 0 .. t.sdata + s.fsize - 1
      BY <1>8, <2>1, <2>3
    <2> QED BY <2>2, <2>4
  <1> QED BY <1>2, <1>6, <1>7, <1>9, <1>10, <1>11 DEF GrownAs

\* What an operation makes of a sound array: unless it wrote past its block it is sound again, and
\* the blocks of others are as they were; it writes past it only where an empty slice grows.
Contained(s, t) == Harmless(s, t) /\ (Quiet(s, t) \/ Hollow(s))
Fine(s, r, t, n) ==
  /\ t \in States /\ Contained(s, t) /\ t.fsize = n
  /\ "overrun" \notin t.faults => Sound(t, r) /\ Untouched(s, t, r)

LEMMA FineIs ==
  ASSUME NEW s, NEW r, NEW t, NEW n, Sound(t, r), Untouched(s, t, r), Contained(s, t), t.fsize = n
  PROVE  Fine(s, r, t, n)
  BY DEF Fine, Sound

LEMMA TrimmedRoom ==
  ASSUME NEW s, NEW r, Sound(s, r), Room(s, r), NEW place
  PROVE  LET u == IF place THEN DestructStorageAtEnd(s) ELSE s IN
         /\ Sound(u, r) /\ Room(u, r) /\ Untouched(s, u, r) /\ u.faults = s.faults /\ SameView(s, u)
  <1>1. CASE place
    <2>1. PICK u : u = DestructStorageAtEnd(s) OBVIOUS
    <2>2. Sound(u, r) /\ Untouched(s, u, r) /\ u.faults = s.faults /\ SameView(s, u)
      BY <2>1, SoundTrimmed
    <2>3. Room(u, r)
      BY <2>2 DEF Room, SameView
    <2> QED BY <1>1, <2>1, <2>2, <2>3
  <1>2. CASE ~place
    BY <1>2 DEF Untouched, SameView
  <1> QED BY <1>1, <1>2

LEMMA TrimmedSpared ==
  ASSUME NEW s, NEW r, Sound(s, r), NEW n \in Nat, isUnique(s) => s.fsize <= n
  PROVE  LET u == IF isUnique(s) /\ freserve(s, s.fstorage) > 0 THEN DestructStorageAtEnd(s) ELSE s IN
         Spared(u, n)
  <1>1. CASE isUnique(s) /\ freserve(s, s.fstorage) > 0
    <2>1. PICK u : u = DestructStorageAtEnd(s) OBVIOUS
    <2>2. SameView(s, u) /\ Count(u) = End(s)
      BY <1>1, <2>1, SoundTrimmed
    <2>3. s.fsize \in Nat
      BY Unique DEF Sound
    <2>4. Spared(u, n)
      BY <1>1, <2>2, <2>3 DEF Spared, Prefix, SameView, End
    <2> QED BY <1>1, <2>1, <2>4
  <1>2. CASE isUnique(s) /\ ~(freserve(s, s.fstorage) > 0)
    <2>1. /\ End(s) <= Count(s) /\ Count(s) <= freserve(s, s.fstorage)
          /\ Count(s) \in Nat /\ s.fsize \in Nat /\ s.sdata \in Nat /\ freserve(s, s.fstorage) \in Nat
      BY <1>2, SoundOwner, OwnerUnique, CellsAre DEF Owner
    <2>2. ~(s.fsize < Count(s))
      BY <1>2, <2>1 DEF End
    <2> QED BY <1>2, <2>2 DEF Spared, Prefix
  <1>3. CASE ~isUnique(s)
    BY <1>3 DEF Spared
  <1> QED BY <1>1, <1>2, <1>3

LEMMA QuietContained ==
  ASSUME NEW s, NEW t, Quiet(s, t), s.faults \subseteq t.faults
  PROVE  Contained(s, t)
  BY DEF Quiet, Contained, Harmless

\* resize.
LEMMA ResizedUnique ==
  ASSUME NEW s, NEW r, Sound(s, r), Room(s, r), NEW n \in Nat, NEW opts,
         "Unique" \in opts, "NoCopy" \notin opts, "NoNew" \notin opts, "NoDecUse" \notin opts
  PROVE  Fine(s, r, doresize(s, n, opts), n)
  <1>1. PICK t : t = doresize(s, n, opts) OBVIOUS
  <1>2. s \in States /\ s.fsize \in Nat /\ s.sdata \in Nat /\ startshift(s) + capacity(s) \in Int
    <2>1. s \in States /\ s.fsize \in Nat /\ s.sdata \in Nat /\ (s.fstorage = Null \/ s.fstorage \in Blocks)
      BY Unique DEF Sound
    <2>2. s.fstorage # Null => freserve(s, s.fstorage) \in Nat
      BY <2>1, CellsAre
    <2> QED BY <2>1, <2>2 DEF startshift, capacity, eAddZeroE
  <1>3. CASE n = s.fsize /\ isUnique(s)
    <2>1. t = s
      BY <1>1, <1>3 DEF doresize
    <2>2. Fine(s, r, s, n)
      BY <1>3 DEF Fine, Contained, Quiet, Harmless, Untouched, Sound
    <2> QED BY <1>1, <2>1, <2>2
  <1>4. CASE n # s.fsize /\ n = 0
    <2>1. t = DestructStorageAtEnd(set_fsize(s, 0))
      BY <1>1, <1>2, <1>4 DEF doresize
    <2>2. PICK u : u = set_fsize(s, n) OBVIOUS
    <2>3. n <= s.fsize
      BY <1>2, <1>4
    <2>4. Sound(u, r) /\ Untouched(s, u, r) /\ Harmless(s, u) /\ Quiet(s, u) /\ u.fsize = n
      <3>1. CASE isUnique(s)
        BY <1>2, <1>4, <2>2, <2>3, <3>1, SetSmaller
      <3>2. CASE ~isUnique(s)
        BY <2>2, <2>3, <3>2, SharedSizeSet DEF Harmless, Quiet
      <3> QED BY <3>1, <3>2
    <2>5. PICK v : v = DestructStorageAtEnd(u) OBVIOUS
    <2>6. Sound(v, r) /\ Untouched(u, v, r) /\ v.faults = u.faults /\ SameView(u, v)
      BY <2>4, <2>5, SoundTrimmed
    <2>7. v = t
      BY <1>4, <2>1, <2>2, <2>5
    <2>8. Untouched(s, v, r) /\ Contained(s, v) /\ v.fsize = n
      BY <2>4, <2>6 DEF Untouched, Contained, Quiet, Harmless, SameView
    <2>9. Fine(s, r, v, n)
      BY <2>6, <2>8, FineIs
    <2> QED BY <1>1, <2>7, <2>9
  <1>5. CASE 0 < n /\ n < s.fsize /\ isUnique(s)
    <2>1. t = set_fsize(s, n)
      BY <1>1, <1>2, <1>5 DEF doresize
    <2>2. n <= s.fsize
      BY <1>2, <1>5
    <2>3. Sound(t, r) /\ Untouched(s, t, r) /\ Harmless(s, t) /\ Quiet(s, t) /\ t.fsize = n
      BY <1>5, <2>1, <2>2, SetSmaller
    <2>4. Fine(s, r, t, n)
      BY <2>3, FineIs DEF Contained
    <2> QED BY <1>1, <2>4
  <1>6. CASE n > s.fsize /\ InPlace(s, n)
    <2>1. s.fsize < n /\ InPlace(s, n)
      BY <1>2, <1>6
    <2>2. GrownAs(s, r, t, n, opts)
      BY <1>1, <2>1, GrownInPlace
    <2>3. t \in States /\ t.fsize = n /\ Contained(s, t) /\ Untouched(s, t, r)
      BY <2>2 DEF GrownAs, Owner, Contained
    <2>4. ASSUME "overrun" \notin t.faults PROVE Sound(t, r)
      <3>1. Owner(t, r, 0 .. Count(t) - 1) /\ Count(t) <= freserve(t, t.fstorage) /\ Count(t) = End(t)
        BY <2>2, <2>4 DEF GrownAs
      <3>2. End(t) <= Count(t)
        BY <3>1, OwnerUnique
      <3> QED BY <3>1, <3>2, OwnerSound
    <2>5. Fine(s, r, t, n)
      BY <2>3, <2>4 DEF Fine
    <2> QED BY <1>1, <2>5
  <1>7. CASE /\ ~(n = s.fsize /\ isUnique(s)) /\ ~(n # s.fsize /\ n = 0)
             /\ ~(0 < n /\ n < s.fsize /\ isUnique(s)) /\ ~(n > s.fsize /\ InPlace(s, n))
    <2>1. PICK place : place = (isUnique(s) /\ freserve(s, s.fstorage) > 0) OBVIOUS
    <2>2. PICK u : u = IF place THEN DestructStorageAtEnd(s) ELSE s OBVIOUS
    <2>3. t = makenew(u, n, n, opts)
      BY <1>1, <1>2, <1>7, <2>1, <2>2 DEF doresize, InPlace
    <2>4. Sound(u, r) /\ Room(u, r) /\ Untouched(s, u, r) /\ u.faults = s.faults /\ SameView(s, u)
      BY <2>2, TrimmedRoom
    <2>5. n <= n OBVIOUS
    <2>5a. isUnique(s) => s.fsize <= n
      BY <1>2, <1>7
    <2>5b. Spared(u, n)
      BY <2>1, <2>2, <2>5a, TrimmedSpared
    <2>6. Sound(t, r) /\ Untouched(u, t, r) /\ Lossy(u, t) /\ Quiet(u, t) /\ t.fsize = n
      BY <2>3, <2>4, <2>5, <2>5b, MadeNew
    <2>7. Untouched(s, t, r) /\ Contained(s, t)
      BY <2>4, <2>6 DEF Untouched, Contained, Harmless, Lossy, Quiet
    <2>8. Fine(s, r, t, n)
      BY <2>6, <2>7, FineIs
    <2> QED BY <1>1, <2>8
  <1> QED BY <1>3, <1>4, <1>5, <1>6, <1>7

-----------------------------------------------------------------------------
(* Data put into the array's own block. *)

\* The array has its block for itself, and its objects are all the block's objects.
Settled(s, r, t, n) ==
  /\ Contained(s, t) /\ Untouched(s, t, r) /\ t.fsize = n /\ Count(t) = End(t)
  /\ Owner(t, r, 0 .. End(t) - 1)
  /\ "overrun" \notin t.faults => End(t) <= freserve(t, t.fstorage)

LEMMA SettledFine ==
  ASSUME NEW s, NEW r, NEW t, NEW n, Settled(s, r, t, n)
  PROVE  Fine(s, r, t, n)
  <1>1. t \in States /\ Contained(s, t) /\ t.fsize = n /\ Untouched(s, t, r)
    BY DEF Settled, Owner
  <1>2. ASSUME "overrun" \notin t.faults PROVE Sound(t, r)
    <2>1. Owner(t, r, 0 .. Count(t) - 1) /\ Count(t) <= freserve(t, t.fstorage) /\ Count(t) = End(t)
      BY <1>2 DEF Settled
    <2>2. End(t) <= Count(t)
      BY <2>1, OwnerUnique
    <2> QED BY <2>1, <2>2, OwnerSound
  <1> QED BY <1>1, <1>2 DEF Fine

\* The n elements p points at are no block's, or a block's that others use.
Readable(s, r, p, n) ==
  /\ p.sdata \in Nat /\ n \in Nat
  /\ IF p.fstorage = Null THEN p.data \in Seq(Values \cup {Zero}) /\ p.sdata + n <= Len(p.data)
     ELSE /\ p.fstorage \in Blocks /\ r[p.fstorage] > 0 /\ BlockSound(s, p.fstorage)
          /\ p.sdata + n <= s.heap[p.fstorage].countchars

LEMMA ReadableKept ==
  ASSUME NEW s, NEW r, NEW p, NEW n, Readable(s, r, p, n), NEW t, Untouched(s, t, r)
  PROVE  Readable(t, r, p, n)
  <1>1. CASE p.fstorage = Null
    BY <1>1 DEF Readable
  <1>2. CASE p.fstorage # Null
    <2>1. p.fstorage \in Blocks /\ r[p.fstorage] > 0 /\ BlockSound(s, p.fstorage)
      BY <1>2 DEF Readable
    <2>2. SameCells(s, t, p.fstorage)
      BY <2>1 DEF Untouched, SameCells
    <2>3. BlockSound(t, p.fstorage)
      BY <2>1, <2>2, SameCellsSound
    <2> QED BY <1>2, <2>1, <2>2, <2>3 DEF Readable, SameCells
  <1> QED BY <1>1, <1>2

LEMMA ReadableObjects ==
  ASSUME NEW s \in States, NEW r, NEW p, NEW n, Readable(s, r, p, n), NEW from \in Nat, NEW k \in Nat, from + k <= n
  PROVE  Objects(Read(s, p, from, k)) /\ Len(Read(s, p, from, k)) = k
  <1>1. n \in Nat /\ p.sdata \in Nat
    BY DEF Readable
  <1>2. CASE p.fstorage = Null
    <2>1. p.data \in Seq(Values \cup {Zero}) /\ p.sdata + n <= Len(p.data)
      BY <1>2 DEF Readable
    <2>2. Len(p.data) \in Nat
      BY <2>1, LenProperties
    <2>3. CanRead(s, p, from, k, {})
      BY <1>1, <1>2, <2>1, <2>2 DEF CanRead
    <2> QED BY <2>3, ReadObjects
  <1>3. CASE p.fstorage # Null
    <2>1. PICK b \in Blocks : b = p.fstorage
      BY <1>3 DEF Readable
    <2>2. PICK c \in Nat, f \in Nat : c = s.heap[b].countchars /\ f = freserve(s, b) /\ Cells(s, b) = 0 .. f - 1
      BY CellsAre DEF Headers
    <2>3. BlockSound(s, b) /\ p.sdata + n <= c
      BY <1>3, <2>1, <2>2 DEF Readable
    <2>4. PICK X : X = 0 .. c - 1 OBVIOUS
    <2>5. Live(s, b, X) /\ c <= f
      BY <2>2, <2>3, <2>4 DEF BlockSound
    <2>6. p.sdata + from + k <= c
      BY <1>1, <2>3
    <2>7. p.sdata + from .. p.sdata + from + k - 1 \subseteq X \cap Cells(s, b)
      <3>1. PICK lo \in Nat, hi \in Int : lo = p.sdata + from /\ hi = p.sdata + from + k - 1 /\ hi < c
        BY <1>1, <2>6
      <3>2. lo .. hi \subseteq 0 .. c - 1 /\ 0 .. c - 1 \subseteq 0 .. f - 1
        BY <2>5, <3>1
      <3> QED BY <2>2, <2>4, <3>1, <3>2
    <2>8. CanRead(s, p, from, k, X)
      BY <1>1, <1>3, <2>1, <2>5, <2>7 DEF CanRead
    <2> QED BY <2>8, ReadObjects
  <1> QED BY <1>2, <1>3

\* PutOver: over the objects at at, then behind them where none are.
CanPut(s, r, at, p, over, n, X) ==
  /\ Owner(s, r, X) /\ Readable(s, r, p, n)
  /\ at \in Nat /\ over \in Nat /\ over <= n /\ at + n <= Count(s)
  /\ at .. at + over - 1 \subseteq X /\ (at + over .. at + n - 1) \cap X = {}
HasPut(s, r, t, at, over, n, X) ==
  /\ Owner(t, r, X \cup (at + over .. at + n - 1))
  /\ SameView(s, t) /\ Count(t) = Count(s) /\ Untouched(s, t, r) /\ Harmless(s, t)
  /\ freserve(t, t.fstorage) = freserve(s, s.fstorage)
  /\ "overrun" \notin t.faults => at + over .. at + n - 1 \subseteq Cells(s, s.fstorage)
  /\ at + n <= freserve(s, s.fstorage) => Quiet(s, t)

LEMMA PutOverIs ==
  ASSUME NEW s, NEW r, NEW at, NEW p, NEW over, NEW n, NEW X, CanPut(s, r, at, p, over, n, X)
  PROVE  HasPut(s, r, PutOver(s, at, p, over, n), at, over, n, X)
  <1>1. /\ s \in States /\ at \in Nat /\ over \in Nat /\ n \in Nat /\ over <= n /\ at + n <= Count(s) /\ Count(s) \in Nat
        /\ at .. at + over - 1 \subseteq X /\ (at + over .. at + n - 1) \cap X = {}
        /\ Owner(s, r, X) /\ Readable(s, r, p, n)
    BY OwnerUnique DEF CanPut, Readable, Owner
  <1>2. PICK b \in Blocks : b = s.fstorage
    BY <1>1 DEF Owner
  <1>3. PICK k \in Nat : k = n - over
    BY <1>1
  <1>4. PICK vs : vs = Read(s, p, 0, over) OBVIOUS
  <1>5. PICK ws : ws = Read(s, p, over, k) OBVIOUS
  <1>6. Objects(vs) /\ Len(vs) = over
    <2>1. 0 + over <= n
      BY <1>1
    <2> QED BY <1>1, <1>4, <2>1, ReadableObjects
  <1>7. Objects(ws) /\ Len(ws) = k
    <2>1. over + k <= n
      BY <1>1, <1>3
    <2> QED BY <1>1, <1>5, <2>1, ReadableObjects
  <1>8. PICK u : u = copydata(s, b, at, vs) OBVIOUS
  <1>9. CanCopy(s, b, at, vs, X)
    <2>1. Live(s, b, X)
      BY <1>1, <1>2 DEF Owner
    <2>2. at .. at + Len(vs) - 1 \subseteq X
      BY <1>1, <1>6
    <2>3. Objects(vs)
      BY <1>6
    <2> QED BY <1>1, <2>1, <2>2, <2>3 DEF CanCopy
  <1>10. HasCopied(s, u, b, at, over, X)
    BY <1>6, <1>8, <1>9, CopiedOver
  <1>11. Alters(s, u, b) /\ SameCount(s, u, b) /\ Live(u, b, X) /\ u.faults \subseteq s.faults \cup {"overrun"} /\ s.faults \subseteq u.faults
    BY <1>10 DEF HasCopied, Fault
  <1>12. PICK at2 \in Nat : at2 = at + over
    BY <1>1
  <1>13. PICK t : t = ConstructFrom(u, b, at2, ws) OBVIOUS
  <1>14. CanConstruct(u, b, at2, ws, X)
    <2>1. (at2 .. at2 + Len(ws) - 1) \cap X = {}
      <3>1. at2 + Len(ws) - 1 = at + n - 1
        BY <1>1, <1>3, <1>7, <1>12
      <3> QED BY <1>1, <1>12, <3>1
    <2>2. u \in States
      BY <1>11 DEF Alters, AltersBoth
    <2>3. Objects(ws)
      BY <1>7
    <2> QED BY <1>11, <2>1, <2>2, <2>3 DEF CanConstruct
  <1>15. HasConstructed(u, t, b, at2, k, X)
    BY <1>7, <1>13, <1>14, ConstructedFrom
  <1>16. at2 .. at2 + k - 1 = at + over .. at + n - 1
    BY <1>1, <1>3, <1>12
  <1>17. PICK Y : Y = X \cup (at2 .. at2 + k - 1) OBVIOUS
  <1>18. /\ Alters(u, t, b) /\ Live(t, b, Y)
         /\ u.faults \subseteq t.faults /\ t.faults \subseteq u.faults \cup {"overrun"}
         /\ t.heap[b].countchars = Count(s)
    <2>1. u.heap[b].countchars = Count(s)
      BY <1>2, <1>11 DEF SameCount, Count
    <2>2. at2 + k <= Count(s)
      BY <1>1, <1>3, <1>12
    <2>3. Larger(Count(s), at2 + k) = Count(s)
      BY <1>1, <2>2 DEF Larger
    <2> QED BY <1>15, <1>17, <2>1, <2>3 DEF HasConstructed, Fault
  <1>19. Alters(s, t, b)
    BY <1>11, <1>18 DEF Alters, AltersBoth, SameView
  <1>20. /\ Owner(t, r, Y) /\ Untouched(s, t, r) /\ freserve(t, t.fstorage) = freserve(s, s.fstorage)
         /\ SameView(s, t) /\ Cells(t, t.fstorage) = Cells(s, s.fstorage)
    BY <1>1, <1>2, <1>18, <1>19, OwnerKept
  <1>21. Harmless(s, t)
    BY <1>11, <1>18 DEF Harmless
  <1>22. Count(t) = Count(s)
    BY <1>2, <1>18, <1>20 DEF Count, SameView
  <1>23. ASSUME "overrun" \notin t.faults PROVE at2 .. at2 + k - 1 \subseteq Cells(s, b)
    <2>1. at2 .. at2 + k - 1 \subseteq Cells(u, b)
      BY <1>15, <1>23 DEF HasConstructed, Fault
    <2> QED BY <1>11, <2>1 DEF Alters, AltersBoth
  <1>23a. ASSUME at + n <= freserve(s, s.fstorage) PROVE Quiet(s, t)
    <2>1. PICK f \in Nat : f = freserve(s, b) /\ Cells(s, b) = 0 .. f - 1 /\ at + n <= f
      BY <1>1, <1>2, <1>23a, CellsAre
    <2>2. at .. at + over - 1 \subseteq Cells(s, b) /\ at2 .. at2 + k - 1 \subseteq Cells(s, b)
      BY <1>1, <1>3, <1>12, <2>1
    <2>3. Cells(u, b) = Cells(s, b)
      BY <1>11 DEF Alters, AltersBoth
    <2>4. u.faults \subseteq s.faults
      BY <1>10, <2>2 DEF HasCopied, Fault
    <2>5. t.faults \subseteq u.faults
      BY <1>15, <2>2, <2>3 DEF HasConstructed, Fault
    <2> QED BY <2>4, <2>5 DEF Quiet
  <1>24. t = PutOver(s, at, p, over, n)
    BY <1>2, <1>3, <1>4, <1>5, <1>8, <1>12, <1>13 DEF PutOver
  <1>25. HasPut(s, r, t, at, over, n, X)
    BY <1>2, <1>16, <1>17, <1>20, <1>21, <1>22, <1>23, <1>23a DEF HasPut
  <1> QED BY <1>24, <1>25

\* A resize to be written over: the first elements of the old block are still there.
Remaining(s, t, n) == IF t.fstorage = s.fstorage THEN Smaller(s.fsize, n) ELSE 0
OverAs(s, r, t, n) ==
  /\ Owner(t, r, 0 .. Remaining(s, t, n) - 1) /\ Untouched(s, t, r) /\ Harmless(s, t) /\ Quiet(s, t)
  /\ t.fsize = n /\ t.sdata = 0 /\ Count(t) = n
  /\ n <= freserve(t, t.fstorage)

LEMMA ResizedOver ==
  ASSUME NEW s, NEW r, Sound(s, r), Room(s, r), NEW n \in Nat, 0 < n, NEW opts,
         "Unique" \in opts, "NoCopy" \in opts, "NoNew" \in opts, "NoDecUse" \notin opts,
         isUnique(s) => s.sdata = 0 /\ Count(s) = s.fsize
  PROVE  OverAs(s, r, doresize(s, n, opts), n)
  <1>1. PICK t : t = doresize(s, n, opts) OBVIOUS
  <1>2. s \in States /\ s.fsize \in Nat /\ s.sdata \in Nat /\ startshift(s) + capacity(s) \in Int
    <2>1. s \in States /\ s.fsize \in Nat /\ s.sdata \in Nat /\ (s.fstorage = Null \/ s.fstorage \in Blocks)
      BY Unique DEF Sound
    <2>2. s.fstorage # Null => freserve(s, s.fstorage) \in Nat
      BY <2>1, CellsAre
    <2> QED BY <2>1, <2>2 DEF startshift, capacity, eAddZeroE
  <1>3. CASE n = s.fsize /\ isUnique(s)
    <2>1. t = s
      BY <1>1, <1>3 DEF doresize
    <2>2. Remaining(s, s, n) = n
      BY <1>3 DEF Remaining, Smaller
    <2>3. Owner(s, r, 0 .. Count(s) - 1) /\ Count(s) <= freserve(s, s.fstorage)
      BY <1>3, SoundOwner
    <2>4. Owner(s, r, 0 .. n - 1) /\ s.sdata = 0 /\ Count(s) = n /\ n <= freserve(s, s.fstorage)
      BY <1>3, <2>3
    <2>5. OverAs(s, r, s, n)
      BY <1>3, <2>2, <2>4 DEF OverAs, Untouched, Harmless, Quiet
    <2> QED BY <1>1, <2>1, <2>5
  <1>4. CASE n < s.fsize /\ isUnique(s)
    <2>1. t = set_fsize(s, n)
      BY <1>1, <1>2, <1>4 DEF doresize
    <2>2. n <= s.fsize
      BY <1>2, <1>4
    <2>3. /\ Sound(t, r) /\ Untouched(s, t, r) /\ Harmless(s, t)
          /\ t.fstorage = s.fstorage /\ t.sdata = s.sdata /\ t.fsize = n /\ Count(t) = End(t)
          /\ Owner(t, r, 0 .. End(t) - 1) /\ Quiet(s, t)
      BY <1>4, <2>1, <2>2, SetSmaller
    <2>4. End(t) = n /\ t.sdata = 0
      BY <1>2, <1>4, <2>3 DEF End
    <2>5. Remaining(s, t, n) = n
      BY <1>2, <2>2, <2>3 DEF Remaining, Smaller
    <2>6. Owner(t, r, 0 .. n - 1)
      BY <2>3, <2>4
    <2>7. n <= freserve(t, t.fstorage)
      <3>1. isUnique(t)
        BY <2>6, OwnerUnique
      <3> QED BY <2>3, <2>4, <3>1, SoundOwner
    <2>8. OverAs(s, r, t, n)
      BY <2>3, <2>4, <2>5, <2>6, <2>7 DEF OverAs
    <2> QED BY <1>1, <2>8
  <1>5. CASE n > s.fsize /\ InPlace(s, n)
    <2>1. s.fsize < n /\ InPlace(s, n)
      BY <1>2, <1>5
    <2>2. GrownAs(s, r, t, n, opts)
      BY <1>1, <2>1, GrownInPlace
    <2>3. s.sdata = 0
      BY <1>5 DEF InPlace
    <2>4. /\ t.fstorage = s.fstorage /\ t.fsize = n /\ Count(t) = End(t) /\ Harmless(s, t) /\ Untouched(s, t, r)
          /\ Owner(t, r, 0 .. t.sdata + s.fsize - 1) /\ t.sdata = 0
          /\ Fits(t, n) /\ Quiet(s, t)
      BY <2>2, <2>3 DEF GrownAs, Hollow
    <2>5. End(t) = n
      BY <2>4 DEF End
    <2>6. Remaining(s, t, n) = s.fsize
      BY <1>2, <2>1, <2>4 DEF Remaining, Smaller
    <2>7. t.sdata + s.fsize - 1 = s.fsize - 1
      BY <1>2, <2>4
    <2>8. Owner(t, r, 0 .. s.fsize - 1)
      BY <2>4, <2>7
    <2>8a. n <= freserve(t, t.fstorage)
      <3>1. t.sdata + n + eAddZeroE <= freserve(t, t.fstorage)
        BY <2>4 DEF Fits
      <3>2. freserve(t, t.fstorage) \in Nat /\ eAddZeroE \in Nat /\ t.sdata = 0
        BY <2>4, CellsAre DEF Owner, eAddZeroE
      <3> QED BY <3>1, <3>2
    <2>9. OverAs(s, r, t, n)
      BY <1>2, <2>1, <2>4, <2>5, <2>6, <2>8, <2>8a DEF OverAs
    <2> QED BY <1>1, <2>9
  <1>6. CASE /\ ~(n = s.fsize /\ isUnique(s)) /\ ~(n < s.fsize /\ isUnique(s)) /\ ~(n > s.fsize /\ InPlace(s, n))
    <2>1. PICK place : place = (isUnique(s) /\ freserve(s, s.fstorage) > 0) OBVIOUS
    <2>2. PICK u : u = IF place THEN DestructStorageAtEnd(s) ELSE s OBVIOUS
    <2>3. t = makenew(u, n, n, opts)
      <3>1. /\ ~(n = s.fsize /\ isUnique(s)) /\ ~(n # s.fsize /\ n = 0)
            /\ ~(0 < n /\ n < s.fsize /\ isUnique(s)) /\ ~(n > s.fsize /\ InPlace(s, n))
        BY <1>2, <1>6
      <3> QED BY <1>1, <1>2, <2>1, <2>2, <3>1 DEF doresize, InPlace
    <2>4. Sound(u, r) /\ Room(u, r) /\ Untouched(s, u, r) /\ u.faults = s.faults /\ SameView(s, u)
      BY <2>2, TrimmedRoom
    <2>5. n <= n OBVIOUS
    <2>6. After(u, r, opts) = r
      BY DEF After
    <2>7. EmptyAs(u, r, t, n, n)
      BY <2>3, <2>4, <2>5, <2>6, MadeEmpty
    <2>8. Remaining(s, t, n) = 0 /\ 0 .. 0 - 1 = {}
      BY <2>4, <2>7 DEF Remaining, SameView, EmptyAs
    <2>9. Owner(t, r, {}) /\ Untouched(s, t, r) /\ Harmless(s, t) /\ Quiet(s, t)
      BY <2>4, <2>7 DEF Untouched, Harmless, EmptyAs, Quiet
    <2>9a. n <= freserve(t, t.fstorage)
      <3>1. n + eAddZeroE <= freserve(t, t.fstorage) /\ freserve(t, t.fstorage) \in Nat /\ eAddZeroE \in Nat
        BY <2>7 DEF EmptyAs, eAddZeroE
      <3> QED BY <3>1
    <2>10. OverAs(s, r, t, n)
      BY <2>7, <2>8, <2>9, <2>9a DEF OverAs, EmptyAs
    <2> QED BY <1>1, <2>10
  <1> QED BY <1>2, <1>3, <1>4, <1>5, <1>6

\* Refill: the data over what remains.
LEMMA Refilled ==
  ASSUME NEW s, NEW r, Sound(s, r), Room(s, r), NEW p, NEW n \in Nat, 0 < n, Readable(s, r, p, n),
         isUnique(s) => s.sdata = 0 /\ Count(s) = s.fsize
  PROVE  Settled(s, r, Refill(s, p, n), n) /\ Quiet(s, Refill(s, p, n))
  <1>1. PICK opts : opts = {"NoCopy", "NoNew", "Unique"} OBVIOUS
  <1>2. PICK u : u = doresize(s, n, opts) OBVIOUS
  <1>3. OverAs(s, r, u, n)
    <2>1. "Unique" \in opts /\ "NoCopy" \in opts /\ "NoNew" \in opts /\ "NoDecUse" \notin opts
      BY <1>1
    <2> QED BY <1>2, <2>1, ResizedOver
  <1>4. PICK over \in Nat : over = Remaining(s, u, n) /\ over <= n
    BY Unique DEF Remaining, Smaller, Sound
  <1>5. PICK X : X = 0 .. over - 1 OBVIOUS
  <1>6. /\ Owner(u, r, X) /\ Untouched(s, u, r) /\ Harmless(s, u) /\ Quiet(s, u)
        /\ u.fsize = n /\ u.sdata = 0 /\ Count(u) = n /\ n <= freserve(u, u.fstorage)
    BY <1>3, <1>4, <1>5 DEF OverAs
  <1>7. PICK at \in Nat : at = 0 OBVIOUS
  <1>8. PICK t : t = PutOver(u, at, p, over, n) OBVIOUS
  <1>9. CanPut(u, r, at, p, over, n, X)
    <2>1. Readable(u, r, p, n)
      BY <1>6, ReadableKept
    <2>2. at .. at + over - 1 \subseteq X /\ (at + over .. at + n - 1) \cap X = {} /\ at + n <= Count(u)
      BY <1>4, <1>5, <1>6, <1>7
    <2> QED BY <1>4, <1>6, <2>1, <2>2 DEF CanPut
  <1>10. HasPut(u, r, t, at, over, n, X)
    BY <1>8, <1>9, PutOverIs
  <1>11. X \cup (at + over .. at + n - 1) = 0 .. n - 1
    BY <1>4, <1>5, <1>7
  <1>12. /\ Owner(t, r, 0 .. n - 1) /\ SameView(u, t) /\ Count(t) = n
         /\ Untouched(s, t, r) /\ Harmless(s, t)
    BY <1>6, <1>10, <1>11 DEF HasPut, Untouched, Harmless
  <1>13. End(t) = n /\ t.fsize = n
    BY <1>6, <1>12 DEF SameView, End
  <1>14. Quiet(s, t) /\ Contained(s, t) /\ n <= freserve(t, t.fstorage)
    <2>1. at + n <= freserve(u, u.fstorage)
      BY <1>6, <1>7
    <2>2. Quiet(u, t) /\ freserve(t, t.fstorage) = freserve(u, u.fstorage)
      BY <1>10, <2>1 DEF HasPut
    <2> QED BY <1>6, <1>12, <2>2 DEF Quiet, Contained
  <1>15. t = Refill(s, p, n)
    BY <1>1, <1>2, <1>4, <1>6, <1>7, <1>8 DEF Refill, Remaining
  <1>16. Settled(s, r, t, n)
    BY <1>12, <1>13, <1>14 DEF Settled
  <1> QED BY <1>14, <1>15, <1>16

-----------------------------------------------------------------------------
(* A reference more, a reference less. *)

More(r, b) == [r EXCEPT ![b] = @ + 1]
Less(r, b) == [r EXCEPT ![b] = @ - 1]

LEMMA MoreLess ==
  ASSUME NEW r \in [Blocks -> Nat], NEW b \in Blocks
  PROVE  /\ More(r, b) \in [Blocks -> Nat] /\ More(r, b)[b] = r[b] + 1
         /\ \A c \in Blocks : c # b => More(r, b)[c] = r[c]
         /\ Less(More(r, b), b) = r
         /\ r[b] > 0 => Less(r, b) \in [Blocks -> Nat] /\ Less(r, b)[b] = r[b] - 1
         /\ \A c \in Blocks : c # b => Less(r, b)[c] = r[c]
  <1>1. r[b] \in Nat /\ r[b] + 1 \in Nat /\ (r[b] + 1) - 1 = r[b] /\ (r[b] > 0 => r[b] - 1 \in Nat) OBVIOUS
  <1>2. PICK m : m = More(r, b) OBVIOUS
  <1>3. m \in [Blocks -> Nat] /\ m[b] = r[b] + 1 /\ \A c \in Blocks : c # b => m[c] = r[c]
    BY <1>1, <1>2 DEF More
  <1>4. Less(m, b) = r
    BY <1>1, <1>3 DEF Less
  <1>5. /\ r[b] > 0 => Less(r, b) \in [Blocks -> Nat] /\ Less(r, b)[b] = r[b] - 1
        /\ \A c \in Blocks : c # b => Less(r, b)[c] = r[c]
    BY <1>1 DEF Less
  <1> QED BY <1>2, <1>3, <1>4, <1>5

LEMMA PlusMore ==
  ASSUME NEW s, NEW r \in [Blocks -> Nat], s.fstorage \in Blocks
  PROVE  Plus(s, r) = More(r, s.fstorage)
  <1>1. \A b \in Blocks : s.fstorage # b => r[b] + 0 = r[b] OBVIOUS
  <1> QED BY <1>1 DEF Plus, More

\* From s to t only references have changed.
SameBlocks(s, t) == SameView(s, t) /\ t.faults = s.faults /\ \A b \in Blocks : SameCells(s, t, b)

LEMMA Used ==
  ASSUME NEW s, NEW r, Sound(s, r), NEW b \in Blocks
  PROVE  LET t == incuse(s, b) IN Sound(t, More(r, b)) /\ SameBlocks(s, t)
  <1>1. PICK t : t = incuse(s, b) OBVIOUS
  <1>2. s \in States /\ r \in [Blocks -> Nat] /\ \A c \in Blocks : s.heap[c].refcnt = r[c] + IF s.fstorage = c THEN 1 ELSE 0
    BY DEF Sound, Counted
  <1>3. /\ Reheads(s, t, b) /\ SameCells(s, t, b) /\ t.faults = s.faults
        /\ t.heap[b].refcnt = s.heap[b].refcnt + 1
    BY <1>1, <1>2, InUse
  <1>4. PICK m : m = More(r, b) OBVIOUS
  <1>5. m \in [Blocks -> Nat] /\ m[b] = r[b] + 1 /\ \A c \in Blocks : c # b => m[c] = r[c]
    BY <1>2, <1>4, MoreLess
  <1>6. SameBlocks(s, t) /\ t \in States
    BY <1>3 DEF Reheads, SameBlocks, SameCells
  <1>7. Counted(t, m)
    <2>1. t.fstorage = s.fstorage
      BY <1>6 DEF SameBlocks, SameView
    <2>2. \A c \in Blocks : c # b => t.heap[c].refcnt = m[c] + IF t.fstorage = c THEN 1 ELSE 0
      BY <1>2, <1>3, <1>5, <2>1 DEF Reheads
    <2>3. t.heap[b].refcnt = m[b] + IF t.fstorage = b THEN 1 ELSE 0
      <3>1. PICK k \in Nat, e \in {0, 1} : k = r[b] /\ e = IF s.fstorage = b THEN 1 ELSE 0
        BY <1>2
      <3>2. s.heap[b].refcnt = k + e
        BY <1>2, <3>1
      <3>3. (k + e) + 1 = (k + 1) + e
        BY <3>1
      <3> QED BY <1>3, <1>5, <2>1, <3>1, <3>2, <3>3
    <2> QED BY <1>5, <2>2, <2>3 DEF Counted
  <1>8. \A c \in Blocks : BlockSound(t, c)
    BY <1>6, SameCellsSound DEF SameBlocks, Sound
  <1>9. InView(t)
    <2>1. s.fstorage \in Blocks \/ s.fstorage = Null
      BY <1>2 DEF States
    <2> QED BY <1>6, <2>1 DEF Sound, InView, End, Count, SameBlocks, SameView, SameCells
  <1> QED BY <1>1, <1>4, <1>6, <1>7, <1>8, <1>9 DEF Sound

\* The array has its block for itself; a reference to another block b may go.
OwnerBeside(s, r, X, b) == Owner(s, r, X) /\ b \in Blocks /\ r[b] > 0
LeftAs(s, t, r, X) ==
  /\ Owner(t, r, X) /\ SameView(s, t) /\ Count(t) = Count(s)
  /\ freserve(t, t.fstorage) = freserve(s, s.fstorage) /\ t.faults = s.faults /\ Untouched(s, t, r)

LEMMA LeftBlock ==
  ASSUME NEW s, NEW r, NEW X, NEW b, OwnerBeside(s, r, X, b)
  PROVE  LeftAs(s, decuse(s, b), Less(r, b), X)
  <1>1. /\ s \in States /\ Counted(s, r) /\ s.fstorage \in Blocks /\ r[s.fstorage] = 0
        /\ Live(s, s.fstorage, X) /\ b \in Blocks /\ r[b] > 0
        /\ \A c \in Blocks : c # s.fstorage => BlockSound(s, c)
    BY DEF OwnerBeside, Owner
  <1>2. /\ r \in [Blocks -> Nat] /\ b # s.fstorage
        /\ \A c \in Blocks : s.heap[c].refcnt = r[c] + IF s.fstorage = c THEN 1 ELSE 0
    BY <1>1 DEF Counted
  <1>3. s.heap[b].refcnt = r[b] /\ s.heap[b].refcnt > 0 /\ BlockSound(s, b)
    BY <1>1, <1>2
  <1>3a. Disposable(s, b)
    BY <1>1, <1>3, SoundDisposable
  <1>4. PICK t : t = decuse(s, b) OBVIOUS
  <1>5. /\ Reheads(s, t, b) /\ Lossy(s, t) /\ Quiet(s, t) /\ t.heap[b].refcnt = s.heap[b].refcnt - 1
        /\ s.heap[b].refcnt > 1 => SameCells(s, t, b)
        /\ s.heap[b].refcnt <= 1 => BlockSound(t, b)
    BY <1>1, <1>3, <1>3a, <1>4, Left
  <1>6. PICK l : l = Less(r, b) OBVIOUS
  <1>7. l \in [Blocks -> Nat] /\ l[b] = r[b] - 1 /\ \A c \in Blocks : c # b => l[c] = r[c]
    BY <1>1, <1>2, <1>6, MoreLess
  <1>8. t \in States /\ SameView(s, t) /\ \A c \in Blocks : c # b => t.heap[c] = s.heap[c]
    BY <1>5 DEF Reheads
  <1>9. t.fstorage = s.fstorage /\ t.heap[s.fstorage] = s.heap[s.fstorage]
    BY <1>1, <1>2, <1>8 DEF SameView
  <1>10. Counted(t, l)
    <2>1. t.heap[b].refcnt = l[b] + IF t.fstorage = b THEN 1 ELSE 0
      <3>1. t.heap[b].refcnt = l[b]
        BY <1>3, <1>5, <1>7
      <3>2. t.fstorage # b /\ l[b] \in Nat
        BY <1>1, <1>2, <1>7, <1>9
      <3> QED BY <3>1, <3>2
    <2>2. \A c \in Blocks : c # b => t.heap[c].refcnt = l[c] + IF t.fstorage = c THEN 1 ELSE 0
      BY <1>2, <1>7, <1>8, <1>9
    <2> QED BY <1>7, <2>1, <2>2 DEF Counted
  <1>11. BlockSound(t, b)
    <2>1. CASE r[b] > 1
      BY <1>1, <1>3, <1>5, <2>1, SameCellsSound
    <2>2. CASE ~(r[b] > 1)
      BY <1>1, <1>2, <1>3, <1>5, <2>2
    <2> QED BY <2>1, <2>2
  <1>12. \A c \in Blocks : c # s.fstorage /\ c # b => BlockSound(t, c)
    BY <1>1, <1>8, SameBlock
  <1>13. Live(t, t.fstorage, X) /\ Count(t) = Count(s) /\ freserve(t, t.fstorage) = freserve(s, s.fstorage)
    BY <1>1, <1>9 DEF Live, Cells, Count, freserve
  <1>14. Owner(t, l, X)
    BY <1>1, <1>2, <1>7, <1>8, <1>9, <1>10, <1>11, <1>12, <1>13 DEF Owner
  <1>15. Untouched(s, t, l)
    <2>1. l[b] > 0 => SameCells(s, t, b)
      BY <1>1, <1>2, <1>3, <1>5, <1>7
    <2> QED BY <1>8, <2>1 DEF Untouched, SameCells
  <1>16. t.faults = s.faults
    BY <1>5 DEF Lossy, Quiet
  <1> QED BY <1>4, <1>6, <1>8, <1>13, <1>14, <1>15, <1>16 DEF LeftAs

\* done.
DoneAs(s, r, t) ==
  /\ Sound(t, r) /\ t.faults = s.faults /\ Untouched(s, t, r)
  /\ t.fstorage = Null /\ t.sdata = 0 /\ t.fsize = 0

LEMMA EmptyView ==
  ASSUME NEW s \in States
  PROVE  LET t == reset_nodone(s) IN
         /\ t \in States /\ t.heap = s.heap /\ t.faults = s.faults
         /\ t.fstorage = Null /\ t.sdata = 0 /\ t.fsize = 0
  BY DEF reset_nodone, States

LEMMA Done ==
  ASSUME NEW s, NEW r, Sound(s, r)
  PROVE  DoneAs(s, r, done(s))
  <1>1. PICK w : w = IF s.fstorage = Null THEN s ELSE decuse(s, s.fstorage) OBVIOUS
  <1>2. PICK t : t = reset_nodone(w) OBVIOUS
  <1>3. /\ w \in States /\ w.faults = s.faults
        /\ \A c \in Blocks : w.heap[c].refcnt = r[c] /\ BlockSound(w, c) /\ (r[c] > 0 => SameCells(s, w, c))
    <2>1. CASE s.fstorage = Null
      <3>1. \A c \in Blocks : s.heap[c].refcnt = r[c]
        BY <2>1, NullAssumption DEF Sound, Counted
      <3> QED BY <1>1, <2>1, <3>1 DEF Sound, SameCells
    <2>2. CASE s.fstorage # Null
      <3>1. PICK o \in Blocks : o = s.fstorage
        BY <2>2, Unique DEF Sound
      <3>2. w = decuse(s, o)
        BY <1>1, <2>2, <3>1
      <3>3. s.heap[o].refcnt = r[o] + 1 /\ r[o] \in Nat /\ s \in States /\ BlockSound(s, o)
        BY <3>1 DEF Sound, Counted
      <3>4. s.heap[o].refcnt > 0 /\ Disposable(s, o)
        BY <3>3, SoundDisposable
      <3>5. /\ Reheads(s, w, o) /\ Lossy(s, w) /\ Quiet(s, w) /\ w.heap[o].refcnt = s.heap[o].refcnt - 1
            /\ s.heap[o].refcnt > 1 => SameCells(s, w, o)
            /\ s.heap[o].refcnt <= 1 => BlockSound(w, o)
        BY <3>2, <3>3, <3>4, Left
      <3>6. \A c \in Blocks : c # o => w.heap[c] = s.heap[c] /\ s.heap[c].refcnt = r[c]
        BY <3>1, <3>5 DEF Reheads, Sound, Counted
      <3>7. \A c \in Blocks : c # o => BlockSound(w, c)
        BY <3>6, SameBlock DEF Sound
      <3>8. r[o] > 0 => SameCells(s, w, o)
        BY <3>3, <3>5
      <3>9. BlockSound(w, o)
        <4>1. CASE r[o] = 0
          BY <3>3, <3>5, <4>1
        <4>2. CASE r[o] > 0
          BY <3>3, <3>8, <4>2, SameCellsSound
        <4> QED BY <3>3, <4>1, <4>2
      <3>10. w.heap[o].refcnt = r[o] /\ w \in States
        BY <3>3, <3>5 DEF Reheads
      <3>11. w.faults = s.faults
        BY <3>5 DEF Lossy, Quiet
      <3> QED BY <3>6, <3>7, <3>8, <3>9, <3>10, <3>11 DEF SameCells
    <2> QED BY <2>1, <2>2
  <1>4. /\ t \in States /\ t.heap = w.heap /\ t.faults = w.faults
        /\ t.fstorage = Null /\ t.sdata = 0 /\ t.fsize = 0
    BY <1>2, <1>3, EmptyView
  <1>5. Counted(t, r)
    BY <1>3, <1>4, NullAssumption DEF Counted, Sound
  <1>6. \A c \in Blocks : BlockSound(t, c)
    BY <1>3, <1>4, SameBlock
  <1>7. InView(t)
    <2>1. Len(Literal) \in Nat
      BY ValuesAssumption, LenProperties
    <2> QED BY <1>4, <2>1 DEF InView, End
  <1>8. Untouched(s, t, r) /\ t.faults = s.faults
    BY <1>3, <1>4 DEF Untouched, SameCells
  <1>9. t = done(s)
    BY <1>1, <1>2 DEF done
  <1> QED BY <1>4, <1>5, <1>6, <1>7, <1>8, <1>9 DEF DoneAs, Sound

\* lassign: another part of a block, or of the constant segment, is shown.
CanShow(s, d) ==
  /\ d.fstorage \in Blocks \cup {Null} /\ d.sdata \in Nat /\ d.fsize \in Nat
  /\ d.sdata + d.fsize <= IF d.fstorage = Null THEN Len(Literal) ELSE s.heap[d.fstorage].countchars

LEMMA Shown ==
  ASSUME NEW s \in States, NEW d, d.fstorage \in Blocks \cup {Null}, d.sdata \in Nat, d.fsize \in Nat
  PROVE  LET t == [s EXCEPT !.fstorage = d.fstorage, !.sdata = d.sdata, !.fsize = d.fsize] IN
         /\ t \in States /\ t.heap = s.heap /\ t.faults = s.faults
         /\ t.fstorage = d.fstorage /\ t.sdata = d.sdata /\ t.fsize = d.fsize
  BY DEF States

\* Sound but for the view; the references are those of the view d.
CanTake(s, r, d) ==
  /\ s \in States /\ r \in [Blocks -> Nat] /\ CanShow(s, d) /\ \A b \in Blocks : BlockSound(s, b)
  /\ \A b \in Blocks : s.heap[b].refcnt = r[b] + IF d.fstorage = b THEN 1 ELSE 0
Take(s, d) == [s EXCEPT !.fstorage = d.fstorage, !.sdata = d.sdata, !.fsize = d.fsize]

LEMMA ShownSound ==
  ASSUME NEW s, NEW r, NEW d, CanTake(s, r, d)
  PROVE  LET t == Take(s, d) IN
         Sound(t, r) /\ t.heap = s.heap /\ t.faults = s.faults /\ t.fsize = d.fsize
  <1>1. PICK t : t = Take(s, d) OBVIOUS
  <1>2. /\ t \in States /\ t.heap = s.heap /\ t.faults = s.faults
        /\ t.fstorage = d.fstorage /\ t.sdata = d.sdata /\ t.fsize = d.fsize
    BY <1>1, Shown DEF CanShow, CanTake, Take
  <1>3. Counted(t, r)
    BY <1>2 DEF Counted, CanTake
  <1>4. \A b \in Blocks : BlockSound(t, b)
    BY <1>2, SameBlock DEF CanTake
  <1>5. InView(t)
    BY <1>2 DEF CanTake, CanShow, InView, End, Count
  <1> QED BY <1>1, <1>2, <1>3, <1>4, <1>5 DEF Sound

LEMMA Assigned ==
  ASSUME NEW s, NEW r, Sound(s, r), NEW d, CanShow(s, d)
  PROVE  Fine(s, r, lassign(s, d), d.fsize)
  <1>1. PICK u : u = IF d.fstorage = s.fstorage THEN s
                     ELSE done(IF d.fstorage = Null THEN s ELSE incuse(s, d.fstorage)) OBVIOUS
  <1>2. PICK t : t = Take(u, d) OBVIOUS
  <1>3. t = lassign(s, d)
    BY <1>1, <1>2 DEF lassign, Take
  <1>4. r \in [Blocks -> Nat]
    BY DEF Sound, Counted
  <1>5. CanTake(u, r, d) /\ u.faults = s.faults /\ Untouched(s, u, r)
    <2>1. CASE d.fstorage = s.fstorage
      <3>1. u = s
        BY <1>1, <2>1
      <3>2. \A b \in Blocks : s.heap[b].refcnt = r[b] + IF d.fstorage = b THEN 1 ELSE 0
        BY <2>1 DEF Sound, Counted
      <3>3. s \in States /\ \A b \in Blocks : BlockSound(s, b)
        BY DEF Sound
      <3>4. s.faults = s.faults /\ Untouched(s, s, r)
        BY DEF Untouched
      <3> QED BY <1>4, <3>1, <3>2, <3>3, <3>4 DEF CanTake
    <2>2. CASE d.fstorage # s.fstorage /\ d.fstorage = Null
      <3>1. u = done(s)
        BY <1>1, <2>2
      <3>2. DoneAs(s, r, u)
        BY <3>1, Done
      <3>3. /\ Sound(u, r) /\ u.faults = s.faults /\ Untouched(s, u, r) /\ u.fstorage = Null
        BY <3>2 DEF DoneAs
      <3>4. CanShow(u, d)
        BY <2>2 DEF CanShow
      <3>5. \A b \in Blocks : u.heap[b].refcnt = r[b] + IF d.fstorage = b THEN 1 ELSE 0
        BY <2>2, <3>3 DEF Sound, Counted
      <3> QED BY <1>4, <3>3, <3>4, <3>5 DEF Sound, CanTake
    <2>3. CASE d.fstorage # s.fstorage /\ d.fstorage # Null
      <3>1. PICK b \in Blocks : b = d.fstorage /\ b # s.fstorage
        BY <2>3 DEF CanShow
      <3>2. PICK v : v = incuse(s, b) OBVIOUS
      <3>3. PICK m : m = More(r, b) OBVIOUS
      <3>4. Sound(v, m) /\ SameBlocks(s, v)
        BY <3>2, <3>3, Used
      <3>5. u = done(v)
        BY <1>1, <2>3, <3>1, <3>2
      <3>6. DoneAs(v, m, u)
        BY <3>4, <3>5, Done
      <3>7. Sound(u, m) /\ u.faults = v.faults /\ Untouched(v, u, m) /\ u.fstorage = Null
        BY <3>6 DEF DoneAs
      <3>8. m \in [Blocks -> Nat] /\ m[b] = r[b] + 1 /\ \A c \in Blocks : c # b => m[c] = r[c]
        BY <1>4, <3>3, MoreLess
      <3>9. \A c \in Blocks : m[c] > 0 => SameCells(s, u, c)
        BY <3>4, <3>7 DEF Untouched, SameBlocks, SameCells
      <3>10. m[b] > 0
        BY <1>4, <3>8
      <3>11. CanShow(u, d)
        BY <2>3, <3>1, <3>9, <3>10 DEF CanShow, SameCells
      <3>12. \A c \in Blocks : u.heap[c].refcnt = m[c]
        BY <3>7, NullAssumption DEF Sound, Counted
      <3>13. \A c \in Blocks : u.heap[c].refcnt = r[c] + IF d.fstorage = c THEN 1 ELSE 0
        BY <1>4, <3>1, <3>8, <3>12
      <3>14. u.faults = s.faults
        BY <3>4, <3>7 DEF SameBlocks
      <3>15. Untouched(s, u, r)
        BY <1>4, <3>8, <3>9, <3>10 DEF Untouched, SameCells
      <3> QED BY <1>4, <3>7, <3>11, <3>13, <3>14, <3>15 DEF Sound, CanTake
    <2> QED BY <2>1, <2>2, <2>3
  <1>6. Sound(t, r) /\ t.heap = u.heap /\ t.faults = u.faults /\ t.fsize = d.fsize
    BY <1>2, <1>5, ShownSound
  <1>7. Untouched(s, t, r) /\ Contained(s, t)
    BY <1>5, <1>6, QuietContained DEF Untouched, Quiet
  <1>8. Fine(s, r, t, d.fsize)
    BY <1>6, <1>7, FineIs
  <1> QED BY <1>3, <1>8

\* lassign of constant data.
LEMMA ConstShown ==
  ASSUME NEW s, NEW r, Sound(s, r), NEW n \in Nat, n <= Len(Literal)
  PROVE  Fine(s, r, [done(s) EXCEPT !.fsize = n], n)
  <1>1. PICK u : u = done(s) OBVIOUS
  <1>2. DoneAs(s, r, u)
    BY <1>1, Done
  <1>3. /\ Sound(u, r) /\ u.faults = s.faults /\ Untouched(s, u, r)
        /\ u.fstorage = Null /\ u.sdata = 0 /\ u.fsize = 0 /\ u \in States
    BY <1>2 DEF DoneAs, Sound
  <1>4. PICK t : t = [u EXCEPT !.fsize = n] OBVIOUS
  <1>5. /\ t \in States /\ t.heap = u.heap /\ t.faults = u.faults
        /\ t.fstorage = u.fstorage /\ t.sdata = u.sdata /\ t.fsize = n
    BY <1>3, <1>4, Resized
  <1>6. Counted(t, r) /\ InView(t)
    BY <1>3, <1>5 DEF Sound, Counted, InView, End
  <1>7. \A b \in Blocks : BlockSound(t, b)
    BY <1>3, <1>5, SameBlock DEF Sound
  <1>8. Untouched(s, t, r) /\ Contained(s, t) /\ Sound(t, r)
    BY <1>3, <1>5, <1>6, <1>7, QuietContained DEF Untouched, Quiet, Sound
  <1>9. Fine(s, r, t, n)
    BY <1>5, <1>8, FineIs
  <1> QED BY <1>1, <1>4, <1>9

\* Keep and Release: an array whose own data is assigned to it keeps its block meanwhile.
Pinned(s, r, p, n) == IF intersects(s, p, n) THEN More(r, s.fstorage) ELSE r

LEMMA Kept ==
  ASSUME NEW s, NEW r, Sound(s, r), Room(s, r), NEW p, NEW n
  PROVE  LET k == Keep(s, p, n) IN
         Sound(k, Pinned(s, r, p, n)) /\ Room(k, Pinned(s, r, p, n)) /\ SameBlocks(s, k)
  <1>1. CASE intersects(s, p, n)
    <2>1. PICK b \in Blocks : b = s.fstorage
      BY <1>1, Unique DEF intersects, Sound
    <2>2. PICK k : k = incuse(s, b) OBVIOUS
    <2>3. PICK m : m = More(r, b) OBVIOUS
    <2>4. k = Keep(s, p, n) /\ m = Pinned(s, r, p, n)
      BY <1>1, <2>1, <2>2, <2>3 DEF Keep, Pinned
    <2>5. Sound(k, m) /\ SameBlocks(s, k)
      BY <2>2, <2>3, Used
    <2>6. r \in [Blocks -> Nat]
      BY DEF Sound, Counted
    <2>7. \A c \in Blocks : c # b => m[c] = r[c]
      BY <2>3, <2>6, MoreLess
    <2>8. Room(k, m)
      BY <2>1, <2>5, <2>7 DEF Room, SameBlocks, SameView
    <2> QED BY <2>4, <2>5, <2>8
  <1>2. CASE ~intersects(s, p, n)
    BY <1>2 DEF Keep, Pinned, SameBlocks, SameView, SameCells
  <1> QED BY <1>1, <1>2

LEMMA Released ==
  ASSUME NEW s, NEW r, Sound(s, r), NEW p, NEW n, NEW size, NEW t,
         Settled(Keep(s, p, n), Pinned(s, r, p, n), t, size), SameBlocks(s, Keep(s, p, n))
  PROVE  Settled(s, r, Release(t, s, p, n), size)
  <1>1. CASE ~intersects(s, p, n)
    BY <1>1 DEF Keep, Pinned, Release
  <1>2. CASE intersects(s, p, n)
    <2>1. PICK b \in Blocks : b = s.fstorage
      BY <1>2, Unique DEF intersects, Sound
    <2>2. PICK m : m = More(r, b) OBVIOUS
    <2>3. PICK k : k = Keep(s, p, n) OBVIOUS
    <2>4. Settled(k, m, t, size) /\ SameBlocks(s, k)
      BY <1>2, <2>1, <2>2, <2>3 DEF Pinned
    <2>5. r \in [Blocks -> Nat]
      BY DEF Sound, Counted
    <2>6. m[b] > 0 /\ Less(m, b) = r /\ \A c \in Blocks : r[c] > 0 => m[c] > 0
      BY <2>2, <2>5, MoreLess
    <2>7. PICK X : X = 0 .. End(t) - 1 OBVIOUS
    <2>8. /\ Contained(k, t) /\ Untouched(k, t, m) /\ t.fsize = size /\ Count(t) = End(t)
          /\ Owner(t, m, X)
          /\ "overrun" \notin t.faults => End(t) <= freserve(t, t.fstorage)
      BY <2>4, <2>7 DEF Settled
    <2>9. OwnerBeside(t, m, X, b)
      BY <2>1, <2>6, <2>8 DEF OwnerBeside
    <2>10. PICK u : u = decuse(t, b) OBVIOUS
    <2>11. LeftAs(t, u, r, X)
      BY <2>6, <2>9, <2>10, LeftBlock
    <2>12. /\ Owner(u, r, X) /\ SameView(t, u) /\ Count(u) = Count(t)
           /\ freserve(u, u.fstorage) = freserve(t, t.fstorage) /\ u.faults = t.faults /\ Untouched(t, u, r)
      BY <2>11 DEF LeftAs
    <2>13. End(u) = End(t) /\ u.fsize = size
      BY <2>8, <2>12 DEF End, SameView
    <2>14. Owner(u, r, 0 .. End(u) - 1)
      BY <2>7, <2>12, <2>13
    <2>15. Contained(s, u)
      <3>1. k.faults = s.faults /\ k.fsize = s.fsize
        BY <2>4 DEF SameBlocks, SameView
      <3>2. s.fsize # 0
        <4>1. s.sdata \in Nat
          BY Unique DEF Sound
        <4> QED BY <1>2, <4>1 DEF intersects
      <3>3. ~Hollow(k)
        BY <3>1, <3>2 DEF Hollow
      <3> QED BY <2>8, <2>12, <3>1, <3>3 DEF Contained, Harmless, Quiet
    <2>16. Untouched(s, u, r)
      BY <2>4, <2>6, <2>8, <2>12 DEF Untouched, SameBlocks, SameCells
    <2>17. "overrun" \notin u.faults => End(u) <= freserve(u, u.fstorage)
      BY <2>8, <2>12, <2>13
    <2>18. Settled(s, r, u, size)
      BY <2>8, <2>12, <2>13, <2>14, <2>15, <2>16, <2>17 DEF Settled
    <2>19. u = Release(t, s, p, n)
      BY <1>2, <2>1, <2>10 DEF Release
    <2> QED BY <2>18, <2>19
  <1> QED BY <1>1, <1>2

LEMMA WholeTaken ==
  ASSUME NEW s, NEW r, Sound(s, r), Room(s, r)
  PROVE  LET w == Whole(s) IN
         /\ Sound(w, r) /\ Room(w, r) /\ w.heap = s.heap /\ w.faults = s.faults
         /\ isUnique(w) => w.sdata = 0 /\ Count(w) = w.fsize
  <1>1. CASE ~isUnique(s)
    BY <1>1 DEF Whole
  <1>2. CASE isUnique(s)
    <2>1. PICK X : X = 0 .. Count(s) - 1 OBVIOUS
    <2>2. /\ Owner(s, r, X) /\ Count(s) <= freserve(s, s.fstorage) /\ Count(s) \in Nat /\ s \in States
          /\ s.fstorage \in Blocks
      BY <1>2, <2>1, SoundOwner, OwnerUnique DEF Owner
    <2>3. PICK w : w = [s EXCEPT !.sdata = 0, !.fsize = Count(s)] OBVIOUS
    <2>4. /\ w \in States /\ w.heap = s.heap /\ w.faults = s.faults
          /\ w.fstorage = s.fstorage /\ w.sdata = 0 /\ w.fsize = Count(s)
      BY <2>2, <2>3 DEF States
    <2>5. Count(w) = Count(s) /\ End(w) = Count(s) /\ freserve(w, w.fstorage) = freserve(s, s.fstorage)
      BY <2>2, <2>4 DEF Count, End, freserve, Cells
    <2>6. \A b \in Blocks : b # s.fstorage => BlockSound(w, b)
      BY <2>2, <2>4, SameBlock DEF Owner
    <2>7. Counted(w, r) /\ Live(w, w.fstorage, X)
      BY <2>2, <2>4 DEF Owner, Counted, Live, Cells
    <2>8. Owner(w, r, X)
      BY <2>2, <2>4, <2>6, <2>7 DEF Owner
    <2>9. Sound(w, r)
      BY <2>1, <2>2, <2>5, <2>8, OwnerSound
    <2>10. Room(w, r)
      BY <2>4 DEF Room
    <2>11. w = Whole(s)
      BY <1>2, <2>3 DEF Whole, Count, Storage
    <2> QED BY <2>4, <2>5, <2>9, <2>10, <2>11
  <1> QED BY <1>1, <1>2

\* lassign of data.
LEMMA DataAssigned ==
  ASSUME NEW s, NEW r, Sound(s, r), Room(s, r), NEW p, NEW n \in Nat, n > 0 => Readable(s, Pinned(s, r, p, n), p, n)
  PROVE  Fine(s, r, lassign_data(s, p, n), n)
  <1>1. CASE n = 0
    <2>1. DoneAs(s, r, done(s))
      BY Done
    <2>2. PICK t : t = done(s) OBVIOUS
    <2>3. Fine(s, r, t, n)
      <3>1. Sound(t, r) /\ t.faults = s.faults /\ Untouched(s, t, r) /\ t.fsize = n
        BY <1>1, <2>1, <2>2 DEF DoneAs
      <3>2. Contained(s, t)
        BY <3>1, QuietContained DEF Quiet
      <3> QED BY <3>1, <3>2, FineIs
    <2> QED BY <1>1, <2>2, <2>3 DEF lassign_data
  <1>2. CASE n # 0
    <2>1. PICK k : k = Keep(s, p, n) OBVIOUS
    <2>2. PICK m : m = Pinned(s, r, p, n) OBVIOUS
    <2>3. Sound(k, m) /\ Room(k, m) /\ SameBlocks(s, k)
      BY <2>1, <2>2, Kept
    <2>4. PICK w : w = Whole(k) OBVIOUS
    <2>5. /\ Sound(w, m) /\ Room(w, m) /\ w.heap = k.heap /\ w.faults = k.faults
          /\ isUnique(w) => w.sdata = 0 /\ Count(w) = w.fsize
      BY <2>3, <2>4, WholeTaken
    <2>6. Readable(w, m, p, n)
      <3>1. Readable(s, m, p, n)
        BY <1>2, <2>2
      <3>2. Untouched(s, w, m)
        BY <2>3, <2>5 DEF Untouched, SameBlocks, SameCells
      <3> QED BY <3>1, <3>2, ReadableKept
    <2>7. PICK u : u = Refill(w, p, n) OBVIOUS
    <2>8. 0 < n
      BY <1>2
    <2>9. Settled(w, m, u, n) /\ Quiet(w, u)
      BY <2>5, <2>6, <2>7, <2>8, Refilled
    <2>10. Settled(k, m, u, n)
      <3>1. Contained(k, u)
        BY <2>5, <2>9, QuietContained DEF Settled, Contained, Harmless, Quiet
      <3> QED BY <2>5, <2>9, <3>1 DEF Settled, Untouched
    <2>11. PICK t : t = Release(u, s, p, n) OBVIOUS
    <2>12. Settled(s, r, t, n)
      BY <2>1, <2>2, <2>3, <2>10, <2>11, Released
    <2>13. Fine(s, r, t, n)
      BY <2>12, SettledFine
    <2>14. t = lassign_data(s, p, n)
      BY <1>2, <2>1, <2>4, <2>7, <2>11 DEF lassign_data
    <2> QED BY <2>13, <2>14
  <1> QED BY <1>1, <1>2

-----------------------------------------------------------------------------
(* linsert. *)

\* The array is readable by itself while it lends its block a reference.
LEMMA OwnReadable ==
  ASSUME NEW s, NEW r, Sound(s, r)
  PROVE  Readable(s, Plus(s, r), Pointer(s), s.fsize)
  <1>1. PICK p : p = Pointer(s) OBVIOUS
  <1>2. p.fstorage = s.fstorage /\ p.sdata = s.sdata /\ p.data = Literal
    BY <1>1 DEF Pointer
  <1>3. s.sdata \in Nat /\ s.fsize \in Nat /\ (s.fstorage = Null \/ s.fstorage \in Blocks)
    BY Unique DEF Sound
  <1>4. CASE s.fstorage = Null
    <2>1. s.sdata + s.fsize <= Len(Literal)
      BY <1>4 DEF Sound, InView, End
    <2>2. Literal \in Seq(Values \cup {Zero})
      BY ValuesAssumption
    <2>3. Readable(s, Plus(s, r), p, s.fsize)
      BY <1>2, <1>3, <1>4, <2>1, <2>2 DEF Readable
    <2> QED BY <1>1, <2>3
  <1>5. CASE s.fstorage # Null
    <2>1. PICK b \in Blocks : b = s.fstorage
      BY <1>3, <1>5
    <2>2. s.sdata + s.fsize <= s.heap[b].countchars /\ BlockSound(s, b)
      BY <1>5, <2>1 DEF Sound, InView, End, Count
    <2>3. PICK m : m = Plus(s, r) OBVIOUS
    <2>4. m[b] > 0
      BY <2>1, <2>3 DEF Plus, Sound, Counted
    <2>5. Readable(s, m, p, s.fsize)
      BY <1>2, <1>3, <1>5, <2>1, <2>2, <2>4 DEF Readable
    <2> QED BY <1>1, <2>3, <2>5
  <1> QED BY <1>4, <1>5

\* The new storage of n elements, all of them still to be constructed; the old block is kept.
ApartAs(s, r, t, n) ==
  /\ Owner(t, Plus(s, r), {}) /\ Untouched(s, t, r) /\ t.faults = s.faults
  /\ t.fstorage # s.fstorage /\ t.sdata = 0 /\ t.fsize = n /\ Count(t) = n
  /\ n <= freserve(t, t.fstorage) /\ freserve(t, t.fstorage) \in Nat
  /\ Cells(t, t.fstorage) = 0 .. freserve(t, t.fstorage) - 1
  /\ Readable(t, Plus(s, r), Pointer(s), s.fsize)

LEMMA GrownApart ==
  ASSUME NEW s, NEW r, Sound(s, r), Room(s, r), NEW n \in Nat, s.fsize < n, ~InPlace(s, n), NEW opts,
         "Unique" \in opts, "NoCopy" \in opts, "NoNew" \in opts, "NoDecUse" \in opts
  PROVE  ApartAs(s, r, doresize(s, n, opts), n)
  <1>1. PICK t : t = doresize(s, n, opts) OBVIOUS
  <1>2. s \in States /\ s.fsize \in Nat /\ s.sdata \in Nat /\ r \in [Blocks -> Nat]
    BY Unique DEF Sound, Counted
  <1>3. PICK place : place = (isUnique(s) /\ freserve(s, s.fstorage) > 0) OBVIOUS
  <1>4. PICK u : u = IF place THEN DestructStorageAtEnd(s) ELSE s OBVIOUS
  <1>5. t = makenew(u, n, n, opts)
    <2>1. /\ ~(n = s.fsize) /\ ~(n = 0) /\ ~(n < s.fsize) /\ ~(n > s.fsize /\ InPlace(s, n))
      BY <1>2
    <2> QED BY <1>1, <1>2, <1>3, <1>4, <2>1 DEF doresize, InPlace
  <1>6. Sound(u, r) /\ Room(u, r) /\ Untouched(s, u, r) /\ u.faults = s.faults /\ SameView(s, u)
    BY <1>4, TrimmedRoom
  <1>7. n <= n
    BY <1>2
  <1>8. PICK m : m = Plus(s, r) OBVIOUS
  <1>9. After(u, r, opts) = m /\ Plus(u, r) = m /\ Pointer(u) = Pointer(s) /\ u.fsize = s.fsize
    BY <1>6, <1>8 DEF After, Plus, SameView, Pointer
  <1>10. EmptyAs(u, m, t, n, n)
    BY <1>5, <1>6, <1>7, <1>9, MadeEmpty
  <1>11. Readable(u, m, Pointer(s), s.fsize)
    BY <1>6, <1>9, OwnReadable
  <1>12. Readable(t, m, Pointer(s), s.fsize)
    BY <1>10, <1>11, ReadableKept DEF EmptyAs
  <1>13. \A b \in Blocks : r[b] > 0 => m[b] > 0
    BY <1>2, <1>8 DEF Plus
  <1>14. Untouched(s, t, r)
    BY <1>6, <1>10, <1>13 DEF EmptyAs, Untouched
  <1>15. n <= freserve(t, t.fstorage)
    BY <1>10 DEF EmptyAs, eAddZeroE
  <1>15a. t.faults = s.faults
    BY <1>6, <1>10 DEF EmptyAs, Harmless, Quiet
  <1>16. ApartAs(s, r, t, n)
    BY <1>6, <1>8, <1>10, <1>12, <1>14, <1>15, <1>15a DEF ApartAs, EmptyAs, SameView
  <1> QED BY <1>1, <1>16

\* The array's block holds X, and the old block o, if any, can be left.
Holds(v, r, X, o) == Owner(v, r, X) /\ o # v.fstorage /\ (o \in Blocks => r[o] > 0)

LEMMA HoldsIs ==
  ASSUME NEW v, NEW r, NEW X, NEW o, Holds(v, r, X, o)
  PROVE  v \in States /\ v.fstorage \in Blocks /\ Live(v, v.fstorage, X) /\ Count(v) \in Nat /\ o # v.fstorage
  <1>1. v \in States /\ v.fstorage \in Blocks /\ Live(v, v.fstorage, X) /\ o # v.fstorage
    BY DEF Holds, Owner
  <1>2. Count(v) \in Nat
    BY <1>1, CellsAre DEF Count, Headers
  <1> QED BY <1>1, <1>2

LEMMA HoldsOwner ==
  ASSUME NEW s, NEW r, NEW v, NEW X, Owner(v, Plus(s, r), X), Sound(s, r)
  PROVE  Holds(v, Plus(s, r), X, s.fstorage)
  <1>1. s.fstorage \in Blocks => Plus(s, r)[s.fstorage] > 0
    BY DEF Plus, Sound, Counted
  <1>2. s.fstorage # v.fstorage
    BY <1>1 DEF Owner
  <1> QED BY <1>1, <1>2 DEF Holds

LEMMA HoldsKept ==
  ASSUME NEW v, NEW r, NEW X, NEW o, Holds(v, r, X, o), NEW w, Alters(v, w, v.fstorage), NEW Y, Live(w, v.fstorage, Y)
  PROVE  /\ Holds(w, r, Y, o) /\ SameView(v, w) /\ Untouched(v, w, r)
         /\ freserve(w, w.fstorage) = freserve(v, v.fstorage) /\ Cells(w, w.fstorage) = Cells(v, v.fstorage)
  BY OwnerKept DEF Holds, SameView

\* Elements constructed in cells of the array's block that hold none.
CanFill(v, r, X, o, at, vs) ==
  /\ Holds(v, r, X, o) /\ at \in Nat /\ Objects(vs) /\ (at .. at + Len(vs) - 1) \cap X = {}
  /\ at + Len(vs) <= Count(v) /\ Count(v) <= freserve(v, v.fstorage)
FilledAs(v, w, r, X, o, at, n) ==
  /\ Holds(w, r, X \cup (at .. at + n - 1), o) /\ SameView(v, w) /\ Untouched(v, w, r)
  /\ Count(w) = Count(v) /\ freserve(w, w.fstorage) = freserve(v, v.fstorage) /\ w.faults = v.faults

LEMMA FilledIn ==
  ASSUME NEW v, NEW r, NEW X, NEW o, NEW at, NEW vs, CanFill(v, r, X, o, at, vs)
  PROVE  FilledAs(v, ConstructFrom(v, v.fstorage, at, vs), r, X, o, at, Len(vs))
  <1>1. PICK b \in Blocks : b = v.fstorage
    BY HoldsIs DEF CanFill
  <1>2. PICK n \in Nat : n = Len(vs)
    BY LenProperties DEF CanFill, Objects
  <1>3. /\ v \in States /\ Live(v, b, X) /\ Count(v) \in Nat /\ at \in Nat /\ Objects(vs) /\ Holds(v, r, X, o)
        /\ (at .. at + Len(vs) - 1) \cap X = {} /\ at + n <= Count(v) /\ Count(v) <= freserve(v, b)
        /\ freserve(v, b) \in Nat /\ Cells(v, b) = 0 .. freserve(v, b) - 1
    BY <1>1, <1>2, HoldsIs, CellsAre DEF CanFill
  <1>4. PICK w : w = ConstructFrom(v, b, at, vs) OBVIOUS
  <1>5. CanConstruct(v, b, at, vs, X)
    BY <1>3 DEF CanConstruct
  <1>6. HasConstructed(v, w, b, at, n, X)
    BY <1>2, <1>4, <1>5, ConstructedFrom
  <1>7. at .. at + n - 1 \subseteq Cells(v, b)
    <2>1. at + n <= freserve(v, b)
      BY <1>3
    <2> QED BY <1>3, <2>1
  <1>8. Larger(v.heap[b].countchars, at + n) = Count(v)
    <2>1. v.heap[b].countchars = Count(v)
      BY <1>1 DEF Count
    <2> QED BY <1>3, <2>1 DEF Larger
  <1>9. PICK Y : Y = X \cup (at .. at + n - 1) OBVIOUS
  <1>10. Alters(v, w, b) /\ w.heap[b].countchars = Count(v) /\ Live(w, b, Y) /\ w.faults = v.faults
    BY <1>6, <1>7, <1>8, <1>9 DEF HasConstructed, Fault
  <1>11. /\ Holds(w, r, Y, o) /\ SameView(v, w) /\ Untouched(v, w, r)
         /\ freserve(w, w.fstorage) = freserve(v, v.fstorage)
    BY <1>1, <1>3, <1>10, HoldsKept
  <1>12. Count(w) = Count(v)
    BY <1>1, <1>10, <1>11 DEF Count, SameView
  <1> QED BY <1>1, <1>2, <1>4, <1>9, <1>10, <1>11, <1>12 DEF FilledAs

\* The old elements, around a gap of n at pos.
Around(pos, n, size) == (0 .. pos - 1) \cup (pos + n .. size - 1)
GapAs(t, v, r, R, o, pos, n, size) ==
  /\ Holds(v, R, Around(pos, n, size), o) /\ SameView(t, v) /\ Untouched(t, v, r)
  /\ Count(v) = Count(t) /\ freserve(v, v.fstorage) = freserve(t, t.fstorage) /\ v.faults = t.faults

LEMMA GapCopied ==
  ASSUME NEW s, NEW r, Sound(s, r), NEW n \in Nat, NEW t, ApartAs(s, r, t, s.fsize + n),
         NEW pos \in Nat, pos <= s.fsize
  PROVE  GapAs(t, InsertCopied(t, s, pos, n), r, Plus(s, r), s.fstorage, pos, n, s.fsize + n)
  <1>1. PICK m : m = Plus(s, r) OBVIOUS
  <1>2. PICK o : o = s.fstorage OBVIOUS
  <1>3. PICK p : p = Pointer(s) OBVIOUS
  <1>4. s.fsize \in Nat /\ r \in [Blocks -> Nat]
    BY Unique DEF Sound, Counted
  <1>5. PICK k \in Nat : k = s.fsize - pos
    BY <1>4
  <1>6. /\ Owner(t, m, {}) /\ Count(t) = s.fsize + n /\ s.fsize + n <= freserve(t, t.fstorage)
        /\ Readable(t, m, p, s.fsize) /\ t \in States
    BY <1>1, <1>3 DEF ApartAs, Owner
  <1>7. Holds(t, m, {}, o)
    BY <1>1, <1>2, <1>6, HoldsOwner
  <1>8. PICK low : low = Read(t, p, 0, pos) OBVIOUS
  <1>9. Objects(low) /\ Len(low) = pos
    <2>1. 0 + pos <= s.fsize OBVIOUS
    <2> QED BY <1>6, <1>8, <2>1, ReadableObjects
  <1>10. PICK high : high = Read(t, p, pos, k) OBVIOUS
  <1>11. Objects(high) /\ Len(high) = k
    <2>1. pos + k <= s.fsize
      BY <1>4, <1>5
    <2> QED BY <1>6, <1>10, <2>1, ReadableObjects
  <1>12. PICK u : u = ConstructFrom(t, t.fstorage, 0, low) OBVIOUS
  <1>13. CanFill(t, m, {}, o, 0, low)
    <2>1. 0 + Len(low) <= Count(t) /\ Count(t) <= freserve(t, t.fstorage) /\ (0 .. 0 + Len(low) - 1) \cap {} = {}
      BY <1>4, <1>6, <1>9
    <2> QED BY <1>7, <1>9, <2>1 DEF CanFill
  <1>14. FilledAs(t, u, m, {}, o, 0, pos)
    BY <1>9, <1>12, <1>13, FilledIn
  <1>15. PICK X : X = 0 .. pos - 1 OBVIOUS
  <1>16. {} \cup (0 .. 0 + pos - 1) = X
    BY <1>15
  <1>17. /\ Holds(u, m, X, o) /\ SameView(t, u) /\ Untouched(t, u, m)
         /\ Count(u) = Count(t) /\ freserve(u, u.fstorage) = freserve(t, t.fstorage) /\ u.faults = t.faults
    BY <1>14, <1>16 DEF FilledAs
  <1>18. PICK at \in Nat : at = pos + n OBVIOUS
  <1>19. PICK v : v = ConstructFrom(u, u.fstorage, at, high) OBVIOUS
  <1>20. CanFill(u, m, X, o, at, high)
    <2>1. at + Len(high) = s.fsize + n
      BY <1>4, <1>5, <1>11, <1>18
    <2>2. (at .. at + Len(high) - 1) \cap X = {}
      BY <1>15, <1>18
    <2>3. Objects(high)
      BY <1>11
    <2> QED BY <1>6, <1>17, <2>1, <2>2, <2>3 DEF CanFill
  <1>21. FilledAs(u, v, m, X, o, at, k)
    BY <1>11, <1>19, <1>20, FilledIn
  <1>22. X \cup (at .. at + k - 1) = Around(pos, n, s.fsize + n)
    <2>1. at + k = s.fsize + n
      BY <1>4, <1>5, <1>18
    <2> QED BY <1>15, <1>18, <2>1 DEF Around
  <1>23. /\ Holds(v, m, Around(pos, n, s.fsize + n), o) /\ SameView(u, v) /\ Untouched(u, v, m)
         /\ Count(v) = Count(u) /\ freserve(v, v.fstorage) = freserve(u, u.fstorage) /\ v.faults = u.faults
    BY <1>21, <1>22 DEF FilledAs
  <1>24. \A b \in Blocks : r[b] > 0 => m[b] > 0
    BY <1>1, <1>4 DEF Plus
  <1>25. Untouched(t, v, r)
    BY <1>17, <1>23, <1>24 DEF Untouched
  <1>26. v = InsertCopied(t, s, pos, n)
    <2>1. u.fstorage = t.fstorage
      BY <1>17 DEF SameView
    <2> QED BY <1>3, <1>5, <1>8, <1>10, <1>12, <1>18, <1>19, <2>1 DEF InsertCopied
  <1>27. GapAs(t, v, r, m, o, pos, n, s.fsize + n)
    BY <1>17, <1>23, <1>25 DEF GapAs, SameView
  <1> QED BY <1>1, <1>2, <1>26, <1>27

LEMMA GapMoved ==
  ASSUME NEW s, NEW r, Sound(s, r), isUnique(s), NEW n \in Nat, NEW t, ApartAs(s, r, t, s.fsize + n),
         NEW pos \in Nat, pos <= s.fsize
  PROVE  GapAs(t, InsertMoved(t, s, pos, n), r, Plus(s, r), s.fstorage, pos, n, s.fsize + n)
  <1>1. PICK m : m = Plus(s, r) OBVIOUS
  <1>2. PICK o \in Blocks : o = s.fstorage /\ o # Null
    BY Unique, NullAssumption DEF Sound
  <1>3. s.fsize \in Nat /\ s.sdata \in Nat /\ r \in [Blocks -> Nat] /\ r[o] = 0
    BY <1>2, Unique DEF Sound, Counted
  <1>4. PICK k \in Nat, at \in Nat, e \in Nat : k = s.fsize - pos /\ at = s.sdata /\ e = at + s.fsize
    BY <1>3
  <1>5. PICK b \in Blocks : b = t.fstorage /\ b # o
    BY <1>2 DEF ApartAs, Owner
  <1>6. PICK f \in Nat : f = freserve(t, b) /\ Cells(t, b) = 0 .. f - 1 /\ s.fsize + n <= f
    BY <1>5 DEF ApartAs
  <1>7. /\ t \in States /\ Counted(t, m) /\ m[b] = 0 /\ Live(t, b, {})
        /\ \A c \in Blocks : c # b => BlockSound(t, c)
    BY <1>1, <1>5 DEF ApartAs, Owner
  <1>8. PICK c \in Nat, g \in Nat : /\ c = t.heap[o].countchars /\ g = freserve(t, o) /\ Cells(t, o) = 0 .. g - 1
                                    /\ e <= c /\ c <= g
    <2>1. t.heap[o].countchars \in Nat /\ freserve(t, o) \in Nat /\ Cells(t, o) = 0 .. freserve(t, o) - 1
      BY <1>7, CellsAre DEF Headers
    <2>2. BlockSound(t, o)
      BY <1>5, <1>7
    <2>3. at + s.fsize <= t.heap[o].countchars
      BY <1>2, <1>4 DEF ApartAs, Readable, Pointer
    <2> QED BY <1>4, <2>1, <2>2, <2>3 DEF BlockSound
  <1>9. PICK Y : Y = 0 .. c - 1 OBVIOUS
  <1>10. Live(t, o, Y)
    BY <1>5, <1>7, <1>8, <1>9 DEF BlockSound
  <1>11. PICK cut : cut = DestructFrom(t, o, e) OBVIOUS
  <1>12. e .. c - 1 \subseteq Y \cap Cells(t, o)
    BY <1>8, <1>9
  <1>13. PICK Y0 : Y0 = Y \ (e .. c - 1) OBVIOUS
  <1>14. Alters(t, cut, o) /\ cut.heap[o].countchars = e /\ Live(cut, o, Y0) /\ cut.faults = t.faults
    <2>1. HasLifetime => e .. t.heap[o].countchars - 1 \subseteq Y \cap Cells(t, o)
      BY <1>8, <1>12
    <2>2. Live(cut, o, Y \ (e .. t.heap[o].countchars - 1)) /\ Alters(t, cut, o) /\ cut.heap[o].countchars = e /\ cut.faults = t.faults
      BY <1>7, <1>10, <1>11, <2>1, DestructedFrom
    <2> QED BY <1>8, <1>13, <2>2
  <1>15. Y0 = 0 .. e - 1
    BY <1>8, <1>9, <1>13
  <1>16. /\ cut \in States /\ cut.heap[b] = t.heap[b] /\ Cells(cut, b) = 0 .. f - 1 /\ Cells(cut, o) = 0 .. g - 1
         /\ Live(cut, b, {})
    BY <1>5, <1>6, <1>7, <1>8, <1>14 DEF Alters, AltersBoth, Live, Cells
  <1>17. PICK low : low = movedataX(cut, b, 0, o, at, pos, FALSE) OBVIOUS
  <1>18. CanMoveOut(cut, b, 0, o, at, pos, {}, Y0)
    <2>1. at .. at + pos - 1 \subseteq Y0 \cap Cells(cut, o)
      <3>1. at + pos <= e
        BY <1>3, <1>4
      <3>2. at .. at + pos - 1 \subseteq 0 .. e - 1 /\ 0 .. e - 1 \subseteq 0 .. g - 1
        BY <1>8, <3>1
      <3> QED BY <1>15, <1>16, <3>2
    <2>2. 0 .. 0 + pos - 1 \subseteq Cells(cut, b) /\ (0 .. 0 + pos - 1) \cap {} = {}
      BY <1>3, <1>6, <1>16
    <2> QED BY <1>5, <1>14, <1>16, <2>1, <2>2 DEF CanMoveOut
  <1>19. HasMovedOut(cut, low, b, 0, o, at, pos, {}, Y0)
    BY <1>17, <1>18, MovedOut
  <1>20. PICK X1, Y1 : X1 = 0 .. pos - 1 /\ Y1 = Y0 \ (at .. at + pos - 1) OBVIOUS
  <1>21. {} \cup (0 .. 0 + pos - 1) = X1
    BY <1>20
  <1>22. /\ AltersBoth(cut, low, b, o) /\ SameCount(cut, low, b) /\ low.faults = cut.faults
         /\ Live(low, b, X1) /\ Live(low, o, Y1)
    BY <1>19, <1>20, <1>21 DEF HasMovedOut
  <1>23. low \in States /\ Cells(low, b) = 0 .. f - 1 /\ Cells(low, o) = 0 .. g - 1
    BY <1>16, <1>22 DEF AltersBoth
  <1>24. PICK at2 \in Nat, pos2 \in Nat : at2 = at + pos /\ pos2 = pos + n OBVIOUS
  <1>25. PICK high : high = movedataX(low, b, pos2, o, at2, k, FALSE) OBVIOUS
  <1>26. at2 + k = e /\ pos2 + k = s.fsize + n
    BY <1>3, <1>4, <1>24
  <1>27. CanMoveOut(low, b, pos2, o, at2, k, X1, Y1)
    <2>1. at2 .. at2 + k - 1 \subseteq Y1 \cap Cells(low, o)
      <3>1. at2 .. e - 1 \subseteq 0 .. e - 1 /\ (at2 .. e - 1) \cap (at .. at + pos - 1) = {}
        BY <1>24
      <3>2. e <= g
        BY <1>8
      <3>3. 0 .. e - 1 \subseteq 0 .. g - 1
        BY <3>2
      <3>4. at2 + k - 1 = e - 1
        BY <1>26
      <3> QED BY <1>15, <1>20, <1>23, <3>1, <3>3, <3>4
    <2>2. pos2 .. pos2 + k - 1 \subseteq Cells(low, b)
      BY <1>3, <1>6, <1>23, <1>26
    <2>3. (pos2 .. pos2 + k - 1) \cap X1 = {}
      BY <1>20, <1>24
    <2> QED BY <1>5, <1>22, <1>23, <2>1, <2>2, <2>3 DEF CanMoveOut
  <1>28. HasMovedOut(low, high, b, pos2, o, at2, k, X1, Y1)
    BY <1>25, <1>27, MovedOut
  <1>29. PICK X2, Y2 : X2 = X1 \cup (pos2 .. pos2 + k - 1) /\ Y2 = Y1 \ (at2 .. at2 + k - 1) OBVIOUS
  <1>30. /\ AltersBoth(low, high, b, o) /\ SameCount(low, high, b) /\ high.faults = low.faults
         /\ Live(high, b, X2) /\ Live(high, o, Y2)
    BY <1>28, <1>29 DEF HasMovedOut
  <1>31. PICK v : v = set_size(high, o, at) OBVIOUS
  <1>32. high \in States
    BY <1>30 DEF AltersBoth
  <1>33. /\ Alters(high, v, o) /\ v.heap[o].countchars = at /\ v.faults = high.faults
         /\ \A d \in Blocks : v.heap[d].fdata = high.heap[d].fdata
    BY <1>31, <1>32, SetSize
  <1>34. AltersBoth(t, v, b, o) /\ v.heap[b].countchars = t.heap[b].countchars
    <2>1. AltersBoth(t, high, b, o)
      BY <1>14, <1>22, <1>30 DEF Alters, AltersBoth, SameView
    <2>2. high.heap[b].countchars = t.heap[b].countchars
      BY <1>16, <1>22, <1>30 DEF SameCount
    <2>3. v.heap[b] = high.heap[b]
      BY <1>5, <1>33 DEF Alters, AltersBoth
    <2>4. AltersBoth(t, v, b, o)
      BY <1>33, <2>1 DEF Alters, AltersBoth, SameView
    <2> QED BY <2>2, <2>3, <2>4
  <1>35. Live(v, b, X2) /\ Live(v, o, Y2)
    BY <1>30, <1>33 DEF Live, Cells
  <1>36. X2 = Around(pos, n, s.fsize + n)
    BY <1>20, <1>24, <1>26, <1>29 DEF Around
  <1>37. BlockSound(v, o)
    <2>1. Y2 = 0 .. at - 1
      <3>1. at <= at2 /\ at2 <= e /\ at + pos = at2 /\ at2 + k = e
        BY <1>3, <1>4, <1>24, <1>26
      <3> QED BY <1>15, <1>20, <1>29, <3>1
    <2>2. freserve(v, o) = g
      BY <1>8, <1>34 DEF AltersBoth, freserve
    <2>3. at <= g
      <3>1. at <= e
        BY <1>3, <1>4
      <3> QED BY <1>8, <3>1
    <2> QED BY <1>33, <1>35, <2>1, <2>2, <2>3 DEF BlockSound
  <1>38. m[o] = 1
    BY <1>1, <1>2, <1>3 DEF Plus
  <1>39. /\ v \in States /\ SameView(t, v) /\ v.fstorage = b
         /\ \A d \in Blocks : d # b /\ d # o => v.heap[d] = t.heap[d]
         /\ \A d \in Blocks : v.heap[d].refcnt = t.heap[d].refcnt
    BY <1>5, <1>34 DEF AltersBoth, SameView
  <1>40. Counted(v, m)
    BY <1>5, <1>7, <1>39 DEF Counted
  <1>41. \A d \in Blocks : d # b /\ d # o => BlockSound(v, d)
    BY <1>7, <1>39, SameBlock
  <1>42. Owner(v, m, X2)
    BY <1>5, <1>7, <1>35, <1>37, <1>39, <1>40, <1>41 DEF Owner
  <1>43. Holds(v, m, Around(pos, n, s.fsize + n), o)
    BY <1>5, <1>36, <1>38, <1>39, <1>42 DEF Holds
  <1>44. Untouched(t, v, r)
    <2>1. r[b] = 0
      <3>1. m[b] = r[b] + IF o = b THEN 1 ELSE 0
        BY <1>1, <1>2 DEF Plus
      <3> QED BY <1>3, <1>5, <1>7, <3>1
    <2> QED BY <1>3, <1>39, <2>1 DEF Untouched
  <1>45. v.faults = t.faults
    BY <1>14, <1>22, <1>30, <1>33
  <1>46. Count(v) = Count(t) /\ freserve(v, v.fstorage) = freserve(t, t.fstorage)
    BY <1>5, <1>34, <1>39 DEF Count, freserve, AltersBoth
  <1>47. v = InsertMoved(t, s, pos, n)
    BY <1>2, <1>4, <1>5, <1>11, <1>17, <1>24, <1>25, <1>31 DEF InsertMoved
  <1>48. GapAs(t, v, r, m, o, pos, n, s.fsize + n)
    BY <1>39, <1>43, <1>44, <1>45, <1>46 DEF GapAs
  <1> QED BY <1>1, <1>2, <1>47, <1>48

LEMMA GapMade ==
  ASSUME NEW s, NEW r, Sound(s, r), NEW n \in Nat, NEW t, ApartAs(s, r, t, s.fsize + n),
         NEW pos \in Nat, pos <= s.fsize
  PROVE  GapAs(t, IF s.fsize = 0 THEN t
                  ELSE IF isUnique(s) /\ MI_ISMOVED THEN InsertMoved(t, s, pos, n)
                  ELSE InsertCopied(t, s, pos, n),
               r, Plus(s, r), s.fstorage, pos, n, s.fsize + n)
  <1>1. CASE s.fsize = 0
    <2>1. pos = 0 /\ s.fsize + n = n
      BY <1>1
    <2>2. Around(pos, n, s.fsize + n) = {}
      BY <2>1 DEF Around
    <2>3. Owner(t, Plus(s, r), {})
      BY DEF ApartAs
    <2>4. Holds(t, Plus(s, r), {}, s.fstorage)
      BY <2>3, HoldsOwner
    <2>5. SameView(t, t) /\ Untouched(t, t, r)
      BY DEF SameView, Untouched
    <2> QED BY <1>1, <2>2, <2>4, <2>5 DEF GapAs
  <1>2. CASE s.fsize # 0 /\ isUnique(s) /\ MI_ISMOVED
    BY <1>2, GapMoved
  <1>3. CASE s.fsize # 0 /\ ~(isUnique(s) /\ MI_ISMOVED)
    BY <1>3, GapCopied
  <1> QED BY <1>1, <1>2, <1>3

\* The array leaves its old block for the new one.
Departed(s, w) == IF s.fstorage = Null THEN w ELSE decuse(w, s.fstorage)

LEMMA DepartedAs ==
  ASSUME NEW s, NEW r, Sound(s, r), NEW w, NEW Y, Holds(w, Plus(s, r), Y, s.fstorage)
  PROVE  LeftAs(w, Departed(s, w), r, Y)
  <1>1. PICK m : m = Plus(s, r) OBVIOUS
  <1>2. PICK o : o = s.fstorage OBVIOUS
  <1>3. s.fsize \in Nat /\ r \in [Blocks -> Nat] /\ (o = Null \/ o \in Blocks)
    BY <1>2, Unique DEF Sound, Counted
  <1>4. PICK x : x = IF o = Null THEN w ELSE decuse(w, o) OBVIOUS
  <1>5. CASE o = Null
    <2>1. m = r
      BY <1>1, <1>2, <1>3, <1>5, NullAssumption DEF Plus
    <2>2. Owner(w, r, Y) /\ x = w
      BY <1>1, <1>2, <1>4, <1>5, <2>1, NullAssumption DEF Holds
    <2>3. LeftAs(w, x, r, Y)
      BY <2>2 DEF LeftAs, SameView, Untouched
    <2> QED BY <1>2, <1>4, <2>3 DEF Departed
  <1>6. CASE o # Null
    <2>1. o \in Blocks /\ m = More(r, o)
      BY <1>1, <1>2, <1>3, <1>6, PlusMore
    <2>2. Less(m, o) = r
      BY <1>3, <2>1, MoreLess
    <2>3. OwnerBeside(w, m, Y, o) /\ x = decuse(w, o)
      BY <1>1, <1>2, <1>4, <1>6, <2>1 DEF Holds, OwnerBeside
    <2>4. LeftAs(w, x, r, Y)
      BY <2>2, <2>3, LeftBlock
    <2> QED BY <1>2, <1>4, <2>4 DEF Departed
  <1> QED BY <1>5, <1>6

LEMMA InsertedElsewhere ==
  ASSUME NEW s, NEW r, Sound(s, r), NEW n \in Nat, NEW t, ApartAs(s, r, t, s.fsize + n),
         NEW pos \in Nat, pos <= s.fsize, NEW p, Readable(s, r, p, n)
  PROVE  Settled(s, r, InsertElsewhere(t, s, pos, p, n), s.fsize + n)
  <1>1. PICK m : m = Plus(s, r) OBVIOUS
  <1>2. PICK o : o = s.fstorage OBVIOUS
  <1>3. s.fsize \in Nat /\ r \in [Blocks -> Nat] /\ (o = Null \/ o \in Blocks)
    BY <1>2, Unique DEF Sound, Counted
  <1>4. PICK size \in Nat : size = s.fsize + n
    BY <1>3
  <1>5. PICK v : v = IF s.fsize = 0 THEN t
                     ELSE IF isUnique(s) /\ MI_ISMOVED THEN InsertMoved(t, s, pos, n)
                     ELSE InsertCopied(t, s, pos, n) OBVIOUS
  <1>6. GapAs(t, v, r, m, o, pos, n, size)
    BY <1>1, <1>2, <1>4, <1>5, GapMade
  <1>7. PICK X : X = Around(pos, n, size) OBVIOUS
  <1>8. /\ Holds(v, m, X, o) /\ SameView(t, v) /\ Untouched(t, v, r) /\ v.faults = t.faults
        /\ Count(v) = Count(t) /\ freserve(v, v.fstorage) = freserve(t, t.fstorage)
    BY <1>6, <1>7 DEF GapAs
  <1>9. /\ Untouched(s, t, r) /\ t.faults = s.faults /\ t.sdata = 0 /\ t.fsize = size /\ Count(t) = size
        /\ size <= freserve(t, t.fstorage)
    BY <1>4 DEF ApartAs
  <1>10. Readable(v, r, p, n) /\ v \in States
    <2>1. Untouched(s, v, r)
      BY <1>8, <1>9 DEF Untouched
    <2> QED BY <1>8, <2>1, ReadableKept, HoldsIs
  <1>11. PICK vs : vs = Read(v, p, 0, n) OBVIOUS
  <1>12. Objects(vs) /\ Len(vs) = n
    <2>1. 0 + n <= n OBVIOUS
    <2> QED BY <1>10, <1>11, <2>1, ReadableObjects
  <1>13. CanFill(v, m, X, o, pos, vs)
    <2>1. (pos .. pos + Len(vs) - 1) \cap X = {}
      BY <1>7, <1>12 DEF Around
    <2>2. pos + Len(vs) <= Count(v) /\ Count(v) <= freserve(v, v.fstorage)
      BY <1>3, <1>4, <1>8, <1>9, <1>12
    <2>3. Objects(vs)
      BY <1>12
    <2> QED BY <1>8, <2>1, <2>2, <2>3 DEF CanFill
  <1>14. PICK w : w = ConstructFrom(v, v.fstorage, pos, vs) OBVIOUS
  <1>15. FilledAs(v, w, m, X, o, pos, n)
    BY <1>12, <1>13, <1>14, FilledIn
  <1>16. PICK Y : Y = 0 .. size - 1 OBVIOUS
  <1>17. X \cup (pos .. pos + n - 1) = Y
    <2>1. pos + n <= size
      BY <1>3, <1>4
    <2> QED BY <1>7, <1>16, <2>1 DEF Around
  <1>18. /\ Holds(w, m, Y, o) /\ SameView(v, w) /\ Untouched(v, w, m)
         /\ Count(w) = Count(v) /\ freserve(w, w.fstorage) = freserve(v, v.fstorage) /\ w.faults = v.faults
    BY <1>15, <1>17 DEF FilledAs
  <1>19. PICK x : x = Departed(s, w) OBVIOUS
  <1>20. LeftAs(w, x, r, Y)
    BY <1>1, <1>2, <1>18, <1>19, DepartedAs
  <1>21. /\ Owner(x, r, Y) /\ SameView(w, x) /\ Count(x) = Count(w)
         /\ freserve(x, x.fstorage) = freserve(w, w.fstorage) /\ x.faults = w.faults /\ Untouched(w, x, r)
    BY <1>20 DEF LeftAs
  <1>22. x.sdata = 0 /\ x.fsize = size /\ Count(x) = size /\ End(x) = size /\ size <= freserve(x, x.fstorage)
    <2>1. x.sdata = 0 /\ x.fsize = size
      BY <1>8, <1>9, <1>18, <1>21 DEF SameView
    <2> QED BY <1>8, <1>9, <1>18, <1>21, <2>1 DEF End
  <1>23. Contained(s, x)
    <2>1. x.faults = s.faults
      BY <1>8, <1>9, <1>18, <1>21
    <2> QED BY <2>1, QuietContained DEF Quiet
  <1>24. \A b \in Blocks : r[b] > 0 => m[b] > 0
    BY <1>1, <1>3 DEF Plus
  <1>25. Untouched(s, x, r)
    BY <1>8, <1>9, <1>18, <1>21, <1>24 DEF Untouched
  <1>26. Settled(s, r, x, size)
    BY <1>16, <1>21, <1>22, <1>23, <1>25 DEF Settled
  <1>27. x = InsertElsewhere(t, s, pos, p, n)
    <2>1. v.fstorage = t.fstorage
      BY <1>8 DEF SameView
    <2> QED BY <1>2, <1>5, <1>11, <1>14, <1>19, <2>1 DEF InsertElsewhere, Departed
  <1> QED BY <1>4, <1>26, <1>27

\* The same storage: the tail goes up, and the gap is filled.
HereAs(s, r, t, n) ==
  /\ Owner(t, r, 0 .. t.sdata + s.fsize - 1) /\ Untouched(s, t, r) /\ Harmless(s, t)
  /\ t.fsize = n /\ Count(t) = End(t)
  /\ (Fits(t, n) /\ Quiet(s, t)) \/ Hollow(s)

\* What the gap holds before it is filled: its first over cells, the tail is behind it.
ShiftedAs(t, v, r, at, over, n, end) ==
  /\ Owner(v, r, (0 .. at + over - 1) \cup (at + n .. end - 1))
  /\ SameView(t, v) /\ Count(v) = Count(t) /\ Untouched(t, v, r) /\ v.faults = t.faults
  /\ freserve(v, v.fstorage) = freserve(t, t.fstorage)

LEMMA GapFilled ==
  ASSUME NEW s, NEW r, Sound(s, r), NEW n \in Nat, 0 < n, NEW t, HereAs(s, r, t, s.fsize + n),
         NEW at \in Nat, NEW over \in Nat, over <= n, t.sdata <= at, at + n <= End(t),
         NEW v, ShiftedAs(t, v, r, at, over, n, End(t)),
         NEW p, Readable(s, r, p, n), Fits(t, s.fsize + n) \/ (over = 0 /\ at + n = End(t))
  PROVE  Settled(s, r, PutOver(v, at, p, over, n), s.fsize + n)
  <1>1. PICK e \in Nat : e = End(t)
    BY OwnerUnique DEF HereAs
  <1>2. PICK X : X = (0 .. at + over - 1) \cup (at + n .. e - 1) OBVIOUS
  <1>3. /\ Owner(v, r, X)
        /\ SameView(t, v) /\ Count(v) = Count(t) /\ Untouched(t, v, r) /\ v.faults = t.faults
        /\ freserve(v, v.fstorage) = freserve(t, t.fstorage)
    BY <1>1, <1>2 DEF ShiftedAs
  <1>4. Untouched(s, t, r) /\ Harmless(s, t) /\ t.fsize = s.fsize + n /\ Count(t) = e
    BY <1>1 DEF HereAs
  <1>5. Readable(v, r, p, n)
    <2>1. Untouched(s, v, r)
      BY <1>3, <1>4 DEF Untouched
    <2> QED BY <2>1, ReadableKept
  <1>6. CanPut(v, r, at, p, over, n, X)
    <2>1. at + n <= Count(v)
      BY <1>1, <1>3, <1>4
    <2>2. at .. at + over - 1 \subseteq X /\ (at + over .. at + n - 1) \cap X = {}
      BY <1>2
    <2> QED BY <1>3, <1>5, <2>1, <2>2 DEF CanPut
  <1>7. PICK w : w = PutOver(v, at, p, over, n) OBVIOUS
  <1>8. HasPut(v, r, w, at, over, n, X)
    BY <1>6, <1>7, PutOverIs
  <1>9. X \cup (at + over .. at + n - 1) = 0 .. e - 1
    BY <1>1, <1>2
  <1>10. /\ Owner(w, r, 0 .. e - 1) /\ SameView(v, w) /\ Count(w) = Count(v) /\ Untouched(v, w, r) /\ Harmless(v, w)
         /\ freserve(w, w.fstorage) = freserve(v, v.fstorage)
         /\ "overrun" \notin w.faults => at + over .. at + n - 1 \subseteq Cells(v, v.fstorage)
         /\ at + n <= freserve(v, v.fstorage) => Quiet(v, w)
    BY <1>8, <1>9 DEF HasPut
  <1>11. End(w) = e /\ w.fsize = s.fsize + n /\ Count(w) = e
    BY <1>1, <1>3, <1>4, <1>10 DEF End, SameView
  <1>a. Fits(t, s.fsize + n) => e <= freserve(v, v.fstorage)
    <2>1. Fits(t, s.fsize + n) => t.sdata + (s.fsize + n) + eAddZeroE <= freserve(t, t.fstorage)
      BY DEF Fits
    <2>2. e = t.sdata + (s.fsize + n)
      BY <1>1, <1>4 DEF End
    <2>3. eAddZeroE \in {0, 1}
      BY DEF eAddZeroE
    <2>4. freserve(t, t.fstorage) \in Nat
      BY CellsAre DEF HereAs, Owner
    <2> QED BY <1>3, <2>1, <2>2, <2>3, <2>4
  <1>b. Untouched(s, w, r)
    BY <1>3, <1>4, <1>10 DEF Untouched
  <1>12. Contained(s, w)
    <2>1. Harmless(s, w)
      BY <1>3, <1>4, <1>10 DEF Harmless
    <2>2. CASE Hollow(s)
      BY <2>1, <2>2 DEF Contained
    <2>3. CASE Fits(t, s.fsize + n) /\ Quiet(s, t)
      <3>1. freserve(v, v.fstorage) \in Nat /\ at + n <= e
        BY <1>1, <1>3, CellsAre DEF Owner
      <3>2. at + n <= freserve(v, v.fstorage)
        BY <1>a, <2>3, <3>1
      <3>3. Quiet(s, w)
        BY <1>3, <1>10, <2>3, <3>2 DEF Quiet
      <3> QED BY <2>1, <3>3 DEF Contained
    <2> QED BY <2>2, <2>3 DEF HereAs
  <1>13. ASSUME "overrun" \notin w.faults PROVE e <= freserve(w, w.fstorage)
    <2>1. CASE Fits(t, s.fsize + n)
      BY <1>10, <1>a, <2>1
    <2>2. CASE over = 0 /\ at + n = e
      <3>1. freserve(v, v.fstorage) \in Nat /\ Cells(v, v.fstorage) = 0 .. freserve(v, v.fstorage) - 1
        BY <1>3, CellsAre DEF Owner
      <3>2. e - 1 \in Cells(v, v.fstorage)
        BY <1>10, <1>13, <2>2
      <3> QED BY <1>10, <3>1, <3>2
    <2> QED BY <1>1, <2>1, <2>2
  <1>14. Settled(s, r, w, s.fsize + n)
    BY <1>10, <1>11, <1>12, <1>13, <1>b DEF Settled
  <1> QED BY <1>7, <1>14

\* What InsertHere knows of the cells: the array's objects, and room behind them.
AtGap(s, r, t, n, pos, at, tail, b, f) ==
  /\ pos \in Nat /\ tail \in Nat /\ at \in Nat /\ f \in Nat /\ b \in Blocks /\ n \in Nat
  /\ pos + tail = s.fsize /\ at = t.sdata + pos /\ t.sdata \in Nat /\ b = t.fstorage
  /\ t \in States /\ Live(t, b, 0 .. at + tail - 1) /\ Owner(t, r, 0 .. at + tail - 1)
  /\ Count(t) = at + tail + n /\ End(t) = at + tail + n
  /\ f = freserve(t, b) /\ Cells(t, b) = 0 .. f - 1
  /\ tail > 0 => at + tail + n <= f

LEMMA Gap ==
  ASSUME NEW s, NEW r, Sound(s, r), NEW n \in Nat, NEW t, HereAs(s, r, t, s.fsize + n),
         NEW pos \in Nat, pos <= s.fsize
  PROVE  \E at, tail, b, f : AtGap(s, r, t, n, pos, at, tail, b, f)
  <1>1. s.fsize \in Nat
    BY Unique DEF Sound
  <1>2. PICK tail \in Nat : pos + tail = s.fsize /\ tail = s.fsize - pos
    BY <1>1
  <1>3. t.sdata \in Nat /\ End(t) \in Nat /\ t.fstorage \in Blocks /\ t \in States
    BY OwnerUnique DEF HereAs, Owner
  <1>4. PICK at \in Nat : at = t.sdata + pos
    BY <1>3
  <1>5. PICK b \in Blocks, f \in Nat : b = t.fstorage /\ f = freserve(t, b) /\ Cells(t, b) = 0 .. f - 1
    BY <1>3, CellsAre
  <1>6. t.sdata + s.fsize = at + tail
    BY <1>2, <1>3, <1>4
  <1>7. End(t) = at + tail + n /\ Count(t) = at + tail + n
    <2>1. t.fsize = s.fsize + n /\ Count(t) = End(t)
      BY DEF HereAs
    <2>2. End(t) = t.sdata + (s.fsize + n)
      BY <2>1 DEF End
    <2> QED BY <1>1, <1>2, <1>3, <1>4, <2>1, <2>2
  <1>8. Owner(t, r, 0 .. at + tail - 1)
    <2>1. PICK X : X = 0 .. t.sdata + s.fsize - 1 OBVIOUS
    <2>2. Owner(t, r, X)
      BY <2>1 DEF HereAs
    <2>3. X = 0 .. at + tail - 1
      <3>1. PICK v \in Nat, z \in Nat : v = t.sdata /\ z = s.fsize
        BY <1>1, <1>3
      <3>2. X = 0 .. v + z - 1 /\ v + z = at + tail
        BY <1>6, <2>1, <3>1
      <3> QED BY <3>2
    <2> QED BY <2>2, <2>3
  <1>9. Live(t, b, 0 .. at + tail - 1)
    BY <1>5, <1>8 DEF Owner
  <1>10. ASSUME tail > 0 PROVE at + tail + n <= f
    <2>1. s.fsize # 0
      BY <1>2, <1>10
    <2>2. t.sdata + (s.fsize + n) + eAddZeroE <= f
      BY <1>5, <2>1 DEF HereAs, Fits, Hollow
    <2>3. eAddZeroE \in {0, 1}
      BY DEF eAddZeroE
    <2> QED BY <1>1, <1>3, <1>6, <2>2, <2>3
  <1>11. AtGap(s, r, t, n, pos, at, tail, b, f)
    BY <1>2, <1>3, <1>4, <1>5, <1>7, <1>8, <1>9, <1>10 DEF AtGap
  <1> QED BY <1>11

LEMMA ShiftedByMove ==
  ASSUME NEW s, NEW r, NEW n, NEW t, NEW pos, NEW at, NEW tail, NEW b, NEW f,
         AtGap(s, r, t, n, pos, at, tail, b, f), tail > 0
  PROVE  ShiftedAs(t, movedataX(t, b, at + n, b, at, tail, FALSE), r, at, 0, n, at + tail + n)
  <1>1. /\ tail \in Nat /\ at \in Nat /\ f \in Nat /\ b \in Blocks /\ n \in Nat
        /\ b = t.fstorage /\ t \in States
        /\ Live(t, b, 0 .. at + tail - 1) /\ Owner(t, r, 0 .. at + tail - 1)
        /\ Cells(t, b) = 0 .. f - 1 /\ at + tail + n <= f
    BY DEF AtGap
  <1>2. PICK X : X = 0 .. at + tail - 1 OBVIOUS
  <1>3. PICK dst \in Nat : dst = at + n
    BY <1>1
  <1>4. PICK v : v = movedataX(t, b, dst, b, at, tail, FALSE) OBVIOUS
  <1>5. CanMoveUp(t, b, dst, at, tail, X)
    <2>1. at .. at + tail - 1 \subseteq X
      BY <1>1, <1>2
    <2>2. X \subseteq Cells(t, b)
      BY <1>1, <1>2
    <2>3. dst .. dst + tail - 1 \subseteq Cells(t, b)
      BY <1>1, <1>3
    <2>4. ((dst .. dst + tail - 1) \ (at .. at + tail - 1)) \cap X = {}
      BY <1>1, <1>2, <1>3
    <2> QED BY <1>1, <1>2, <2>1, <2>2, <2>3, <2>4 DEF CanMoveUp
  <1>6. HasMoved(t, v, b, dst, at, tail, X)
    BY <1>4, <1>5, MovedUp
  <1>7. PICK Y : Y = (X \ (at .. at + tail - 1)) \cup (dst .. dst + tail - 1) OBVIOUS
  <1>8. Alters(t, v, b) /\ SameCount(t, v, b) /\ v.faults = t.faults /\ Live(v, b, Y)
    BY <1>6, <1>7 DEF HasMoved
  <1>9. Owner(t, r, X)
    BY <1>1, <1>2
  <1>10. /\ Owner(v, r, Y) /\ Untouched(t, v, r) /\ freserve(v, v.fstorage) = freserve(t, t.fstorage)
         /\ SameView(t, v)
    BY <1>1, <1>8, <1>9, OwnerKept
  <1>a. PICK end \in Nat, none \in Nat : end = at + tail + n /\ none = 0
    BY <1>1
  <1>12. PICK Z : Z = (0 .. at + none - 1) \cup (at + n .. end - 1) OBVIOUS
  <1>11. Y = Z
    <2>1. X \ (at .. at + tail - 1) = 0 .. at - 1 /\ dst .. dst + tail - 1 = dst .. end - 1
      BY <1>1, <1>2, <1>3, <1>a
    <2>2. at + none - 1 = at - 1
      BY <1>1, <1>a
    <2> QED BY <1>3, <1>7, <1>12, <2>1, <2>2
  <1>13. Count(v) = Count(t) /\ v.faults = t.faults
    BY <1>1, <1>8, <1>10 DEF Count, SameCount, SameView
  <1>14. ShiftedAs(t, v, r, at, none, n, end)
    <2>1. Owner(v, r, Z)
      BY <1>10, <1>11
    <2>2. SameView(t, v) /\ Count(v) = Count(t) /\ Untouched(t, v, r) /\ v.faults = t.faults
          /\ freserve(v, v.fstorage) = freserve(t, t.fstorage)
      BY <1>10, <1>13
    <2> QED BY <1>12, <2>1, <2>2 DEF ShiftedAs
  <1> QED BY <1>3, <1>4, <1>14, <1>a

LEMMA ShiftedByCopy ==
  ASSUME NEW s, NEW r, NEW n, NEW t, NEW pos, NEW at, NEW tail, NEW b, NEW f,
         AtGap(s, r, t, n, pos, at, tail, b, f), tail > 0
  PROVE  ShiftedAs(t, ShiftCopied(t, pos, tail, n), r, at, Smaller(n, tail), n, at + tail + n)
  <1>1. /\ tail \in Nat /\ at \in Nat /\ f \in Nat /\ b \in Blocks /\ n \in Nat /\ pos \in Nat
        /\ b = t.fstorage /\ t \in States /\ at = t.sdata + pos /\ t.sdata \in Nat
        /\ Live(t, b, 0 .. at + tail - 1) /\ Owner(t, r, 0 .. at + tail - 1)
        /\ Cells(t, b) = 0 .. f - 1 /\ at + tail + n <= f /\ Count(t) = at + tail + n
    BY DEF AtGap
  <1>a. tail \in Nat /\ at \in Nat /\ n \in Nat /\ pos \in Nat /\ f \in Nat /\ at + tail + n <= f
    BY <1>1
  <1>2. PICK X : X = 0 .. at + tail - 1 OBVIOUS
  <1>3. PICK inner \in Nat : inner = Smaller(n, tail) /\ inner <= n /\ inner <= tail /\ (inner = n \/ inner = tail)
    BY <1>a DEF Smaller
  <1>4. PICK k \in Nat : k = tail - inner /\ k + inner = tail /\ (k = 0 \/ inner = n)
    BY <1>a, <1>3
  <1>5. PICK p : p = Pointer(t) OBVIOUS
  <1>b. X \subseteq Cells(t, b)
    <2>1. at + tail <= f
      BY <1>a
    <2>2. Cells(t, b) = 0 .. f - 1
      BY <1>1
    <2> QED BY <1>a, <1>2, <2>1, <2>2
  <1>6. p.fstorage = b /\ p.sdata = t.sdata /\ b # Null /\ X \subseteq Cells(t, b) /\ Live(t, b, X) /\ Owner(t, r, X)
    BY <1>1, <1>2, <1>5, <1>b, NullAssumption DEF Pointer
  <1>c. p.sdata \in Nat /\ p.sdata + pos = at
    BY <1>1, <1>6
  <1>7. PICK vs : vs = Read(t, p, pos, k) OBVIOUS
  <1>8. Objects(vs) /\ Len(vs) = k
    <2>1. p.sdata + pos .. p.sdata + pos + k - 1 \subseteq X
      <3>1. at .. at + k - 1 \subseteq X
        BY <1>a, <1>2, <1>4
      <3> QED BY <1>c, <3>1
    <2>2. CanRead(t, p, pos, k, X)
      BY <1>1, <1>6, <2>1 DEF CanRead
    <2> QED BY <1>7, <2>2, ReadObjects
  <1>9. PICK from \in Nat : from = pos + k
    BY <1>a
  <1>10. PICK ws : ws = Read(t, p, from, inner) OBVIOUS
  <1>11. Objects(ws) /\ Len(ws) = inner
    <2>1. p.sdata + from .. p.sdata + from + inner - 1 \subseteq X
      <3>1. at + k .. at + k + inner - 1 \subseteq X
        <4>1. k + inner = tail
          BY <1>4
        <4> QED BY <1>a, <1>2, <4>1
      <3>2. p.sdata + from = at + k
        BY <1>a, <1>c, <1>4, <1>9
      <3> QED BY <3>1, <3>2
    <2>2. CanRead(t, p, from, inner, X)
      BY <1>1, <1>6, <2>1 DEF CanRead
    <2> QED BY <1>10, <2>2, ReadObjects
  <1>12. PICK dst \in Nat : dst = at + n
    BY <1>a
  <1>13. PICK u : u = copydata(t, b, dst, vs) OBVIOUS
  <1>e. dst .. dst + k - 1 \subseteq X
    <2>1. k = 0 \/ dst + k = at + tail
      BY <1>a, <1>4, <1>12
    <2> QED BY <1>a, <1>2, <2>1
  <1>14. CanCopy(t, b, dst, vs, X)
    <2>1. dst .. dst + Len(vs) - 1 \subseteq X
      BY <1>8, <1>e
    <2>2. Objects(vs)
      BY <1>8
    <2> QED BY <1>1, <1>6, <2>1, <2>2 DEF CanCopy
  <1>15. HasCopied(t, u, b, dst, k, X)
    BY <1>8, <1>13, <1>14, CopiedOver
  <1>16. Alters(t, u, b) /\ SameCount(t, u, b) /\ Live(u, b, X) /\ u.faults = t.faults
    BY <1>15, <1>b, <1>e DEF HasCopied, Fault
  <1>17. PICK dst2 \in Nat : dst2 = dst + k
    BY <1>12
  <1>18. PICK v : v = ConstructFrom(u, b, dst2, ws) OBVIOUS
  <1>19. dst2 + inner = at + tail + n /\ dst2 >= at + tail
    BY <1>a, <1>3, <1>4, <1>12, <1>17
  <1>20. CanConstruct(u, b, dst2, ws, X)
    <2>1. (dst2 .. dst2 + Len(ws) - 1) \cap X = {}
      BY <1>a, <1>2, <1>11, <1>19
    <2>2. Objects(ws) /\ u \in States
      BY <1>11, <1>16 DEF Alters, AltersBoth
    <2> QED BY <1>1, <1>16, <2>1, <2>2 DEF CanConstruct
  <1>21. HasConstructed(u, v, b, dst2, inner, X)
    BY <1>11, <1>18, <1>20, ConstructedFrom
  <1>22. PICK Y : Y = X \cup (dst2 .. dst2 + inner - 1) OBVIOUS
  <1>f. dst2 .. dst2 + inner - 1 \subseteq Cells(u, b)
    <2>1. Cells(u, b) = 0 .. f - 1
      BY <1>1, <1>16 DEF Alters, AltersBoth
    <2> QED BY <1>a, <1>19, <2>1
  <1>23. Alters(u, v, b) /\ Live(v, b, Y) /\ v.faults = u.faults /\ v.heap[b].countchars = Count(t)
    <2>1. u.heap[b].countchars = Count(t)
      BY <1>1, <1>16 DEF SameCount, Count
    <2>2. Larger(Count(t), dst2 + inner) = Count(t)
      BY <1>1, <1>19 DEF Larger
    <2> QED BY <1>21, <1>22, <1>f, <2>1, <2>2 DEF HasConstructed, Fault
  <1>24. Alters(t, v, b) /\ v.faults = t.faults
    BY <1>16, <1>23 DEF Alters, AltersBoth, SameView
  <1>25. /\ Owner(v, r, Y) /\ Untouched(t, v, r) /\ freserve(v, v.fstorage) = freserve(t, t.fstorage)
         /\ SameView(t, v)
    BY <1>1, <1>6, <1>23, <1>24, OwnerKept
  <1>d. PICK end \in Nat : end = at + tail + n
    BY <1>a
  <1>26. PICK Z : Z = (0 .. at + inner - 1) \cup (at + n .. end - 1) OBVIOUS
  <1>27. Y = Z
    <2>1. dst2 .. dst2 + inner - 1 = dst2 .. end - 1
      BY <1>19, <1>d, <1>a
    <2>2. CASE inner = n
      <3>1. dst2 = at + tail
        BY <1>a, <1>4, <1>12, <1>17, <2>2
      <3>2. Y = 0 .. end - 1
        BY <1>19, <1>a, <1>d, <1>2, <1>22, <2>1, <3>1
      <3>3. Z = 0 .. end - 1
        BY <1>a, <1>d, <1>26, <2>2
      <3> QED BY <3>2, <3>3
    <2>3. CASE inner = tail
      <3>1. k = 0
        BY <1>a, <1>4, <2>3
      <3>2. dst2 = at + n
        BY <1>a, <1>12, <1>17, <3>1
      <3> QED BY <1>2, <1>22, <1>26, <2>1, <2>3, <3>2
    <2> QED BY <1>3, <2>2, <2>3
  <1>28. Count(v) = Count(t)
    BY <1>1, <1>23, <1>25 DEF Count, SameView
  <1>29. ShiftedAs(t, v, r, at, inner, n, end)
    <2>1. Owner(v, r, Z)
      BY <1>25, <1>27
    <2>2. SameView(t, v) /\ Count(v) = Count(t) /\ Untouched(t, v, r) /\ v.faults = t.faults
          /\ freserve(v, v.fstorage) = freserve(t, t.fstorage)
      BY <1>24, <1>25, <1>28
    <2> QED BY <1>26, <2>1, <2>2 DEF ShiftedAs
  <1>30. v = ShiftCopied(t, pos, tail, n)
    <2>1. at + n + tail - inner = dst2 /\ tail - inner = k /\ pos + tail - inner = from
      BY <1>a, <1>4, <1>9, <1>12, <1>17
    <2>2. vs = View(t, pos, k) /\ ws = View(t, from, inner)
      BY <1>5, <1>7, <1>10 DEF View
    <2> QED BY <1>1, <1>3, <1>12, <1>13, <1>18, <2>1, <2>2 DEF ShiftCopied
  <1> QED BY <1>3, <1>29, <1>30, <1>d

LEMMA NothingShifted ==
  ASSUME NEW s, NEW r, NEW n, NEW t, NEW pos, NEW at, NEW b, NEW f,
         AtGap(s, r, t, n, pos, at, 0, b, f)
  PROVE  ShiftedAs(t, t, r, at, 0, n, at + 0 + n)
  <1>1. at \in Nat /\ n \in Nat /\ Owner(t, r, 0 .. at + 0 - 1)
    BY DEF AtGap
  <1>2. PICK end \in Nat, none \in Nat : end = at + 0 + n /\ none = 0
    BY <1>1
  <1>3. PICK X : X = 0 .. at + 0 - 1 OBVIOUS
  <1>4. PICK Z : Z = (0 .. at + none - 1) \cup (at + n .. end - 1) OBVIOUS
  <1>5. at + n .. end - 1 = {} /\ 0 .. at + none - 1 = X
    BY <1>1, <1>2, <1>3
  <1>6. Owner(t, r, Z)
    BY <1>1, <1>3, <1>4, <1>5
  <1>7. SameView(t, t) /\ Untouched(t, t, r) /\ t.faults = t.faults
    BY DEF SameView, Untouched
  <1>8. ShiftedAs(t, t, r, at, none, n, end)
    BY <1>4, <1>6, <1>7 DEF ShiftedAs
  <1> QED BY <1>2, <1>8

LEMMA InsertedHere ==
  ASSUME NEW s, NEW r, Sound(s, r), NEW n \in Nat, 0 < n, NEW t, HereAs(s, r, t, s.fsize + n),
         NEW pos \in Nat, pos <= s.fsize, NEW p, Readable(s, r, p, n)
  PROVE  Settled(s, r, InsertHere(t, s, pos, p, n), s.fsize + n)
  <1>1. PICK at, tail, b, f : AtGap(s, r, t, n, pos, at, tail, b, f)
    BY Gap
  <1>2. /\ pos \in Nat /\ tail \in Nat /\ at \in Nat /\ b \in Blocks
        /\ pos + tail = s.fsize /\ at = t.sdata + pos /\ b = t.fstorage
        /\ End(t) = at + tail + n /\ t.sdata \in Nat
    BY <1>1 DEF AtGap
  <1>3. PICK end \in Nat : end = End(t)
    BY <1>2
  <1>4. s.fsize - pos = tail
    BY <1>2
  <1>5. t.sdata <= at /\ at + n <= end
    BY <1>2, <1>3
  <1>6. tail > 0 => Fits(t, s.fsize + n)
    <2>1. tail > 0 => s.fsize # 0
      BY <1>2
    <2> QED BY <2>1 DEF HereAs, Hollow
  <1>7. PICK over, v : /\ over \in Nat /\ InsertHere(t, s, pos, p, n) = PutOver(v, at, p, over, n)
                       /\ ShiftedAs(t, v, r, at, over, n, end) /\ over <= n
                       /\ (Fits(t, s.fsize + n) \/ (over = 0 /\ at + n = end))
    <2>1. CASE tail = 0
      <3>1. InsertHere(t, s, pos, p, n) = PutOver(t, at, p, 0, n)
        BY <1>2, <1>4, <2>1 DEF InsertHere
      <3>2. AtGap(s, r, t, n, pos, at, 0, b, f)
        BY <1>1, <2>1
      <3>3. ShiftedAs(t, t, r, at, 0, n, at + 0 + n)
        BY <3>2, NothingShifted
      <3>4. at + 0 + n = end /\ at + n = end /\ 0 <= n
        BY <1>2, <1>3, <2>1
      <3>5. ShiftedAs(t, t, r, at, 0, n, end)
        BY <3>3, <3>4
      <3> QED BY <3>1, <3>4, <3>5
    <2>2. CASE tail > 0 /\ MI_ISMOVED
      <3>1. PICK v : v = movedataX(t, b, at + n, b, at, tail, FALSE) OBVIOUS
      <3>2. InsertHere(t, s, pos, p, n) = PutOver(v, at, p, 0, n)
        <4>1. tail # 0 /\ MI_ISMOVED
          BY <1>2, <2>2
        <4>2. t.fstorage = b /\ t.sdata + pos = at /\ s.fsize - pos = tail
          BY <1>2, <1>4
        <4> QED BY <3>1, <4>1, <4>2, Zenon DEF InsertHere
      <3>3. ShiftedAs(t, v, r, at, 0, n, at + tail + n)
        BY <1>1, <2>2, <3>1, ShiftedByMove
      <3>4. at + tail + n = end /\ 0 <= n
        BY <1>2, <1>3
      <3> QED BY <1>6, <2>2, <3>2, <3>3, <3>4
    <2>3. CASE tail > 0 /\ ~MI_ISMOVED
      <3>1. PICK v : v = ShiftCopied(t, pos, tail, n) OBVIOUS
      <3>2. PICK over \in Nat : over = Smaller(n, tail) /\ over <= n
        BY <1>2 DEF Smaller
      <3>3. InsertHere(t, s, pos, p, n) = PutOver(v, at, p, over, n)
        BY <1>2, <1>4, <2>3, <3>1, <3>2 DEF InsertHere
      <3>4. ShiftedAs(t, v, r, at, over, n, at + tail + n)
        BY <1>1, <2>3, <3>1, <3>2, ShiftedByCopy
      <3>5. at + tail + n = end
        BY <1>2, <1>3
      <3> QED BY <1>6, <2>3, <3>2, <3>3, <3>4, <3>5
    <2> QED BY <1>2, <2>1, <2>2, <2>3
  <1>8. Settled(s, r, PutOver(v, at, p, over, n), s.fsize + n)
    <2>1. t.sdata <= at /\ at + n <= End(t) /\ ShiftedAs(t, v, r, at, over, n, End(t))
          /\ (Fits(t, s.fsize + n) \/ (over = 0 /\ at + n = End(t)))
          /\ over \in Nat /\ over <= n
      BY <1>3, <1>5, <1>7
    <2> QED BY <1>2, <2>1, GapFilled
  <1> QED BY <1>7, <1>8

\* linsert.
InsertOpts == {"NoDecUse", "NoCopy", "NoNew", "Unique", "Increase"}

LEMMA InsertedKept ==
  ASSUME NEW s, NEW r, Sound(s, r), Room(s, r), NEW n \in Nat, 0 < n,
         NEW pos \in Nat, pos <= s.fsize, NEW p, Readable(s, r, p, n)
  PROVE  Settled(s, r, InsertKept(s, pos, p, n), s.fsize + n)
  <1>1. PICK size \in Nat : size = s.fsize + n /\ s.fsize < size
    BY Unique DEF Sound
  <1>2. PICK opts : opts = InsertOpts OBVIOUS
  <1>3. "Unique" \in opts /\ "NoCopy" \in opts /\ "NoNew" \in opts /\ "NoDecUse" \in opts
    BY <1>2 DEF InsertOpts
  <1>4. PICK t : t = doresize(s, size, opts) OBVIOUS
  <1>5. InsertKept(s, pos, p, n) = IF t.fstorage # s.fstorage THEN InsertElsewhere(t, s, pos, p, n)
                                   ELSE InsertHere(t, s, pos, p, n)
    BY <1>1, <1>2, <1>4 DEF InsertKept, InsertOpts
  <1>6. CASE InPlace(s, size)
    <2>1. GrownAs(s, r, t, size, opts)
      BY <1>1, <1>4, <1>6, GrownInPlace
    <2>2. HereAs(s, r, t, size) /\ t.fstorage = s.fstorage
      BY <1>3, <2>1 DEF GrownAs, HereAs
    <2>3. PICK u : u = InsertHere(t, s, pos, p, n) OBVIOUS
    <2>4. HereAs(s, r, t, s.fsize + n)
      BY <1>1, <2>2
    <2>5. Settled(s, r, u, s.fsize + n)
      BY <2>3, <2>4, InsertedHere
    <2> QED BY <1>5, <2>2, <2>3, <2>5
  <1>7. CASE ~InPlace(s, size)
    <2>1. ApartAs(s, r, t, size)
      BY <1>1, <1>3, <1>4, <1>7, GrownApart
    <2>2. t.fstorage # s.fstorage
      BY <2>1 DEF ApartAs
    <2>3. PICK u : u = InsertElsewhere(t, s, pos, p, n) OBVIOUS
    <2>4. ApartAs(s, r, t, s.fsize + n)
      BY <1>1, <2>1
    <2>5. Settled(s, r, u, s.fsize + n)
      BY <2>3, <2>4, InsertedElsewhere
    <2> QED BY <1>5, <2>2, <2>3, <2>5
  <1> QED BY <1>6, <1>7

LEMMA Inserted ==
  ASSUME NEW s, NEW r, Sound(s, r), Room(s, r), NEW position \in Nat, NEW p, NEW n \in Nat,
         n > 0 => Readable(s, Pinned(s, r, p, n), p, n)
  PROVE  Fine(s, r, linsert(s, position, p, n), s.fsize + n)
  <1>1. s.fsize \in Nat
    BY Unique DEF Sound
  <1>2. PICK size \in Nat : size = s.fsize + n
    BY <1>1
  <1>3. CASE n = 0
    <2>1. linsert(s, position, p, n) = s /\ size = s.fsize
      BY <1>1, <1>2, <1>3 DEF linsert
    <2>2. Fine(s, r, s, size)
      BY <2>1 DEF Fine, Contained, Harmless, Quiet, Untouched, Sound
    <2> QED BY <1>2, <2>1, <2>2
  <1>4. CASE n # 0
    <2>1. PICK k : k = Keep(s, p, n) OBVIOUS
    <2>2. PICK m : m = Pinned(s, r, p, n) OBVIOUS
    <2>3. Sound(k, m) /\ Room(k, m) /\ SameBlocks(s, k)
      BY <2>1, <2>2, Kept
    <2>4. PICK pos \in Nat : pos = Smaller(position, s.fsize) /\ pos <= s.fsize
      BY <1>1 DEF Smaller
    <2>5. k.fsize = s.fsize
      BY <2>3 DEF SameBlocks, SameView
    <2>6. Readable(k, m, p, n)
      <3>1. Readable(s, m, p, n)
        BY <1>4, <2>2
      <3>2. Untouched(s, k, m)
        BY <2>3 DEF Untouched, SameBlocks, SameCells
      <3> QED BY <3>1, <3>2, ReadableKept
    <2>7. PICK u : u = InsertKept(k, pos, p, n) OBVIOUS
    <2>8. 0 < n /\ pos <= k.fsize
      BY <1>4, <2>4, <2>5
    <2>9. Settled(k, m, u, k.fsize + n)
      BY <2>3, <2>6, <2>7, <2>8, InsertedKept
    <2>10. Settled(k, m, u, size)
      BY <1>2, <2>5, <2>9
    <2>11. PICK t : t = Release(u, s, p, n) OBVIOUS
    <2>12. Settled(s, r, t, size)
      BY <2>1, <2>2, <2>3, <2>10, <2>11, Released
    <2>13. Fine(s, r, t, size)
      BY <2>12, SettledFine
    <2>14. t = linsert(s, position, p, n)
      BY <1>4, <2>1, <2>4, <2>7, <2>11 DEF linsert
    <2> QED BY <1>2, <2>13, <2>14
  <1> QED BY <1>3, <1>4

-----------------------------------------------------------------------------
(* makeunique, reserve, erase and writing. *)

Good(s, r, t, n) == Sound(t, r) /\ Untouched(s, t, r) /\ t.faults = s.faults /\ t.fsize = n

LEMMA GoodFine ==
  ASSUME NEW s, NEW r, NEW t, NEW n, Good(s, r, t, n)
  PROVE  Fine(s, r, t, n)
  BY QuietContained, FineIs DEF Good, Quiet

LEMMA GoodSelf ==
  ASSUME NEW s, NEW r, Sound(s, r)
  PROVE  Good(s, r, s, s.fsize)
  BY DEF Good, Untouched

\* A new block of the size of the old one: objects are lost where some are left behind.
NewAs(s, r, t) ==
  /\ Sound(t, r) /\ Untouched(s, t, r) /\ t.fsize = s.fsize /\ s.faults \subseteq t.faults
  /\ t.faults \subseteq s.faults \cup Fault("lost", Prefix(s) /\ t.fstorage # s.fstorage)

LEMMA NewMade ==
  ASSUME NEW s, NEW r, Sound(s, r), Room(s, r), NEW capa \in Nat, s.fsize <= capa
  PROVE  NewAs(s, r, makenew(s, s.fsize, capa, {}))
  <1>1. PICK opts : opts = {} OBVIOUS
  <1>2. PICK cnt \in Nat : cnt = s.fsize /\ cnt <= capa
    BY Unique DEF Sound
  <1>3. "NoCopy" \notin opts /\ "NoNew" \notin opts /\ "NoDecUse" \notin opts
    BY <1>1
  <1>4. PICK t : t = makenew(s, cnt, capa, opts) OBVIOUS
  <1>5. /\ Sound(t, r) /\ Untouched(s, t, r) /\ Lossy(s, t) /\ t.fsize = cnt /\ t.fstorage # s.fstorage
        /\ Spared(s, cnt) => Quiet(s, t)
    BY <1>2, <1>3, <1>4, MadeNew
  <1>6. Prefix(s) \/ Spared(s, cnt)
    BY <1>2 DEF Spared
  <1>7. t.faults \subseteq s.faults \cup Fault("lost", Prefix(s) /\ t.fstorage # s.fstorage)
    BY <1>5, <1>6 DEF Lossy, Quiet, Fault
  <1>8. NewAs(s, r, t)
    BY <1>2, <1>5, <1>7 DEF NewAs, Lossy
  <1> QED BY <1>1, <1>2, <1>4, <1>8

LEMMA UniqueMade ==
  ASSUME NEW s, NEW r, Sound(s, r), Room(s, r)
  PROVE  Good(s, r, makeunique(s), s.fsize)
  <1>1. CASE isUnique(s) \/ s.fsize = 0
    BY <1>1, GoodSelf DEF makeunique
  <1>2. CASE ~(isUnique(s) \/ s.fsize = 0)
    <2>1. PICK cnt \in Nat : cnt = s.fsize /\ cnt <= cnt
      BY Unique DEF Sound
    <2>2. PICK t : t = makenew(s, s.fsize, cnt, {}) OBVIOUS
    <2>3. NewAs(s, r, t)
      BY <2>1, <2>2, NewMade
    <2>4. ~Prefix(s)
      BY <1>2 DEF Prefix
    <2>5. Good(s, r, t, s.fsize)
      BY <2>3, <2>4 DEF NewAs, Good, Fault
    <2> QED BY <1>2, <2>1, <2>2, <2>5 DEF makeunique
  <1> QED BY <1>1, <1>2

LEMMA Reserved ==
  ASSUME NEW s, NEW r, Sound(s, r), Room(s, r), NEW new_capa \in Nat
  PROVE  NewAs(s, r, doreserve(s, new_capa))
  <1>1. PICK n \in Nat : n = Larger(new_capa, s.fsize) /\ s.fsize <= n
    BY Unique DEF Sound, Larger
  <1>2. CASE n = capacity(s)
    <2>1. s = doreserve(s, new_capa)
      BY <1>1, <1>2 DEF doreserve
    <2>2. NewAs(s, r, s)
      BY DEF NewAs, Untouched
    <2> QED BY <2>1, <2>2
  <1>3. CASE n # capacity(s) /\ isUnique(s) /\ startshift(s) + capacity(s) = n
    <2>1. PICK t : t = repack(s) OBVIOUS
    <2>2. Sound(t, r) /\ Untouched(s, t, r) /\ t.faults = s.faults /\ t.fsize = s.fsize
      BY <1>3, <2>1, Repacked
    <2>3. NewAs(s, r, t)
      BY <2>2 DEF NewAs
    <2>4. t = doreserve(s, new_capa)
      BY <1>1, <1>3, <2>1 DEF doreserve
    <2> QED BY <2>3, <2>4
  <1>4. CASE n # capacity(s) /\ ~(isUnique(s) /\ startshift(s) + capacity(s) = n)
    <2>1. NewAs(s, r, makenew(s, s.fsize, n, {}))
      BY <1>1, NewMade
    <2>2. makenew(s, s.fsize, n, {}) = doreserve(s, new_capa)
      BY <1>1, <1>4 DEF doreserve
    <2> QED BY <2>1, <2>2
  <1> QED BY <1>2, <1>3, <1>4

\* erase, in place.
LEMMA ErasedHere ==
  ASSUME NEW s, NEW r, Sound(s, r), isUnique(s), NEW pos \in Nat, NEW n \in Nat, 0 < n, pos + n <= s.fsize
  PROVE  Good(s, r, lerase_here(s, pos, n), s.fsize - n)
  <1>1. s.sdata \in Nat /\ s.fsize \in Nat /\ s.fstorage \in Blocks /\ End(s) = s.sdata + s.fsize
    BY Unique DEF Sound, End
  <1>2. PICK b \in Blocks, e \in Nat, at \in Nat, tail \in Nat :
           b = s.fstorage /\ e = End(s) /\ at = s.sdata + pos /\ tail = s.fsize - (pos + n)
    BY <1>1
  <1>3. e = at + n + tail
    BY <1>1, <1>2
  <1>4. PICK u : u = DestructStorageAtEnd(s) OBVIOUS
  <1>5. PICK X : X = 0 .. e - 1 OBVIOUS
  <1>6. /\ Owner(u, r, X) /\ Count(u) = e /\ Untouched(s, u, r) /\ u.faults = s.faults /\ SameView(s, u)
        /\ Sound(u, r) /\ isUnique(s)
    BY <1>2, <1>4, <1>5, SoundTrimmed
  <1>7. u \in States /\ b = u.fstorage /\ Live(u, b, X) /\ u.fsize = s.fsize /\ u.sdata = s.sdata
    BY <1>2, <1>6 DEF Owner, SameView
  <1>8. PICK f \in Nat : f = freserve(u, b) /\ Cells(u, b) = 0 .. f - 1
    BY <1>7, CellsAre
  <1>9. e <= f
    <2>1. isUnique(u)
      BY <1>6, OwnerUnique
    <2> QED BY <1>6, <1>7, <1>8, <2>1, SoundOwner
  <1>10. PICK src \in Nat : src = at + n OBVIOUS
  <1>11. PICK v : v = movedataX(u, b, at, b, src, tail, TRUE) OBVIOUS
  <1>12. CanMoveDown(u, b, at, src, tail, X)
    <2>1. src + tail = e /\ at + tail <= e
      BY <1>3, <1>10
    <2>2. src .. src + tail - 1 \subseteq X /\ at .. at + tail - 1 \subseteq X
      BY <1>5, <2>1
    <2>3. X \subseteq Cells(u, b)
      BY <1>5, <1>8, <1>9
    <2> QED BY <1>7, <2>2, <2>3 DEF CanMoveDown
  <1>13. HasMoved(u, v, b, at, src, tail, X)
    BY <1>11, <1>12, MovedDown
  <1>14. PICK c \in Nat : c = at + Larger(n, tail) /\ c <= e /\ at + tail <= c /\ (c = at + n \/ c = at + tail) /\ at + n <= c
    BY <1>3 DEF Larger
  <1>15. PICK Y : Y = (X \ (src .. src + tail - 1)) \cup (at .. at + tail - 1) OBVIOUS
  <1>16. Y = 0 .. c - 1
    <2>1. src .. src + tail - 1 = src .. e - 1
      BY <1>3, <1>10
    <2>2. X \ (src .. e - 1) = 0 .. src - 1
      BY <1>3, <1>5, <1>10
    <2>3. (0 .. src - 1) \cup (at .. at + tail - 1) = 0 .. c - 1
      BY <1>10, <1>14
    <2> QED BY <1>15, <2>1, <2>2, <2>3
  <1>17. Alters(u, v, b) /\ v.faults = u.faults /\ Live(v, b, Y)
    BY <1>13, <1>15 DEF HasMoved
  <1>18. PICK w : w = set_size(v, b, c) OBVIOUS
  <1>19. v \in States
    BY <1>17 DEF Alters, AltersBoth
  <1>20. /\ Alters(v, w, b) /\ w.heap[b].countchars = c /\ w.faults = v.faults
         /\ \A d \in Blocks : w.heap[d].fdata = v.heap[d].fdata
    BY <1>18, <1>19, SetSize
  <1>21. Alters(u, w, b)
    BY <1>17, <1>20 DEF Alters, AltersBoth, SameView
  <1>22. Live(w, b, Y)
    BY <1>17, <1>20 DEF Live, Cells
  <1>23. /\ Owner(w, r, Y) /\ Untouched(u, w, r) /\ freserve(w, w.fstorage) = freserve(u, u.fstorage)
         /\ SameView(u, w)
    BY <1>6, <1>7, <1>21, <1>22, OwnerKept
  <1>24. PICK m \in Nat : m = s.fsize - n /\ s.sdata + m = at + tail
    BY <1>1, <1>2
  <1>25. PICK x : x = [w EXCEPT !.fsize = m] OBVIOUS
  <1>26. /\ Owner(x, r, Y) /\ x.fstorage = w.fstorage /\ x.sdata = w.sdata /\ x.fsize = m
         /\ x.heap = w.heap /\ x.faults = w.faults
    BY <1>23, <1>25, OwnerResized
  <1>27. Count(x) = c /\ x.fstorage = b /\ freserve(x, x.fstorage) = f /\ End(x) = at + tail
    <2>1. x.fstorage = b /\ x.sdata = s.sdata
      BY <1>7, <1>23, <1>26 DEF SameView
    <2>2. Count(x) = c
      BY <1>20, <1>26, <2>1 DEF Count
    <2>3. freserve(x, b) = freserve(w, b)
      BY <1>26 DEF freserve, Cells
    <2>4. freserve(x, b) = f
      BY <1>7, <1>8, <1>23, <2>3 DEF SameView
    <2> QED BY <1>24, <1>26, <2>1, <2>2, <2>4 DEF End
  <1>28. Sound(x, r)
    <2>1. End(x) <= Count(x) /\ Count(x) <= freserve(x, x.fstorage)
      BY <1>9, <1>14, <1>27
    <2>2. Owner(x, r, 0 .. Count(x) - 1)
      BY <1>16, <1>26, <1>27
    <2> QED BY <2>1, <2>2, OwnerSound
  <1>29. PICK y : y = DestructStorageAtEnd(x) OBVIOUS
  <1>30. PICK Z : Z = 0 .. End(x) - 1 OBVIOUS
  <1>31. /\ Sound(y, r) /\ Untouched(x, y, r) /\ y.faults = x.faults /\ SameView(x, y)
         /\ Owner(y, r, Z) /\ Count(y) = End(x)
    <2>1. isUnique(x)
      BY <1>26, OwnerUnique
    <2> QED BY <1>28, <1>29, <1>30, <2>1, SoundTrimmed
  <1>32. PICK t : t = putzero_toend(y) OBVIOUS
  <1>33. /\ Alters(y, t, y.fstorage) /\ Count(t) = Count(y) /\ Harmless(y, t)
         /\ Owner(t, r, Z) /\ Untouched(y, t, r) /\ freserve(t, t.fstorage) = freserve(y, y.fstorage)
         /\ Fits(y, y.fsize) => Quiet(y, t)
    BY <1>31, <1>32, ZeroPut
  <1>33a. Fits(y, y.fsize)
    <2>1. y.sdata + y.fsize = at + tail
      BY <1>27, <1>31 DEF SameView, End
    <2>2. freserve(y, y.fstorage) = f
      <3>1. x.fstorage # Null
        BY <1>26, OwnerUnique DEF isUnique
      <3>2. freserve(y, y.fstorage) = freserve(x, x.fstorage)
        BY <1>28, <1>29, <3>1, SoundTrimmed
      <3> QED BY <1>27, <3>2
    <2>3. at + tail + 1 <= f
      BY <1>3, <1>9
    <2>4. eAddZeroE = 0 \/ eAddZeroE = 1
      BY DEF eAddZeroE
    <2>5. at + tail + eAddZeroE <= f
      BY <2>3, <2>4
    <2>6. y.sdata + y.fsize + eAddZeroE = at + tail + eAddZeroE
      BY <2>1
    <2> QED BY <2>2, <2>5, <2>6 DEF Fits
  <1>34. SameView(y, t)
    BY <1>33 DEF Alters, AltersBoth
  <1>35. Sound(t, r)
    <2>1. isUnique(y)
      BY <1>31, OwnerUnique
    <2>2. Count(y) <= freserve(y, y.fstorage)
      BY <1>31, <2>1, SoundOwner
    <2>3. End(t) = End(x) /\ Count(t) = End(x)
      BY <1>31, <1>33, <1>34 DEF SameView, End
    <2>4. Count(t) <= freserve(t, t.fstorage)
      BY <1>33, <2>2
    <2>5. Owner(t, r, 0 .. Count(t) - 1)
      BY <1>30, <1>33, <2>3
    <2>6. End(t) <= Count(t)
      BY <1>27, <2>3
    <2> QED BY <2>4, <2>5, <2>6, OwnerSound
  <1>36. Untouched(s, t, r) /\ t.faults = s.faults /\ t.fsize = m
    <2>1. Untouched(w, x, r)
      BY <1>26 DEF Untouched
    <2>2. Untouched(s, t, r)
      BY <1>6, <1>23, <1>31, <1>33, <2>1 DEF Untouched
    <2>3. t.faults = s.faults
      BY <1>6, <1>17, <1>20, <1>26, <1>31, <1>33, <1>33a DEF Harmless, Quiet
    <2>4. t.fsize = m
      BY <1>26, <1>31, <1>34 DEF SameView
    <2> QED BY <2>2, <2>3, <2>4
  <1>37. Good(s, r, t, m)
    BY <1>35, <1>36 DEF Good
  <1>38. t = lerase_here(s, pos, n)
    <2>1. erasedSize(s, pos, n) = c
      <3>1. erasedSize(s, pos, n) = e - Smaller(tail, n)
        <4>1. PICK k \in Nat : k = Smaller(tail, n)
          BY DEF Smaller
        <4>2. k = Smaller(s.fsize - (pos + n), n)
          BY <1>2, <4>1
        <4>3. s.sdata + s.fsize - k = e - k
          BY <1>1, <1>2
        <4> QED BY <4>1, <4>2, <4>3 DEF erasedSize
      <3>2. e - Smaller(tail, n) = at + Larger(n, tail)
        BY <1>3 DEF Smaller, Larger
      <3> QED BY <1>14, <3>1, <3>2
    <2>2. v = movedataX(DestructStorageAtEnd(s), s.fstorage, s.sdata + pos, s.fstorage, s.sdata + pos + n, s.fsize - (pos + n), TRUE)
      BY <1>2, <1>4, <1>10, <1>11
    <2>3. lerase_here(s, pos, n) = putzero_toend(DestructStorageAtEnd(
            [set_size(v, s.fstorage, erasedSize(s, pos, n)) EXCEPT !.fsize = s.fsize - n]))
      BY <2>2 DEF lerase_here
    <2>4. x = [set_size(v, s.fstorage, erasedSize(s, pos, n)) EXCEPT !.fsize = s.fsize - n]
      BY <1>2, <1>18, <1>24, <1>25, <2>1
    <2> QED BY <1>29, <1>32, <2>3, <2>4
  <1> QED BY <1>24, <1>37, <1>38

\* erase, of an array that is not the only one to show its block.
ErasedRoom(s, r, q) ==
  /\ Sound(q, Plus(s, r)) /\ Room(q, Plus(s, r)) /\ q.heap = s.heap /\ q.faults = s.faults

LEMMA Detached ==
  ASSUME NEW s, NEW r, Sound(s, r), Room(s, r)
  PROVE  ErasedRoom(s, r, reset_nodone(s))
  <1>1. PICK q : q = reset_nodone(s) OBVIOUS
  <1>2. PICK m : m = Plus(s, r) OBVIOUS
  <1>3. /\ s \in States /\ r \in [Blocks -> Nat] /\ \A b \in Blocks : BlockSound(s, b)
        /\ \A b \in Blocks : s.heap[b].refcnt = r[b] + IF s.fstorage = b THEN 1 ELSE 0
    BY DEF Sound, Counted
  <1>4. /\ q \in States /\ q.heap = s.heap /\ q.faults = s.faults
        /\ q.fstorage = Null /\ q.sdata = 0 /\ q.fsize = 0
    BY <1>1, <1>3, EmptyView
  <1>5. m \in [Blocks -> Nat] /\ \A b \in Blocks : m[b] = r[b] + IF s.fstorage = b THEN 1 ELSE 0
    BY <1>2, <1>3 DEF Plus
  <1>6. Counted(q, m)
    <2>1. \A b \in Blocks : q.fstorage # b
      BY <1>4, NullAssumption
    <2>2. \A b \in Blocks : q.heap[b].refcnt = m[b] /\ m[b] \in Nat
      BY <1>3, <1>4, <1>5
    <2> QED BY <1>5, <2>1, <2>2 DEF Counted
  <1>7. \A b \in Blocks : BlockSound(q, b)
    BY <1>3, <1>4, SameBlock
  <1>8. InView(q)
    <2>1. Len(Literal) \in Nat
      BY ValuesAssumption, LenProperties
    <2> QED BY <1>4, <2>1 DEF InView, End
  <1>9. Room(q, m)
    <2>1. PICK b \in Blocks : r[b] = 0 /\ b # s.fstorage
      BY DEF Room
    <2>2. m[b] = 0 /\ b # q.fstorage
      BY <1>4, <1>5, <2>1, NullAssumption
    <2> QED BY <2>2 DEF Room
  <1> QED BY <1>1, <1>2, <1>4, <1>6, <1>7, <1>8, <1>9 DEF ErasedRoom, Sound

LEMMA ErasedShared ==
  ASSUME NEW s, NEW r, Sound(s, r), Room(s, r), NEW pos \in Nat, NEW n \in Nat, pos + n <= s.fsize
  PROVE  Good(s, r, lerase_shared(s, pos, n), s.fsize - n)
  <1>1. s.sdata \in Nat /\ s.fsize \in Nat /\ s \in States /\ r \in [Blocks -> Nat]
    BY Unique DEF Sound, Counted
  <1>2. PICK size \in Nat, k \in Nat, from \in Nat :
           size = s.fsize - n /\ k = size - pos /\ from = pos + n /\ from + k = s.fsize /\ pos + k = size
    BY <1>1
  <1>3. PICK m : m = Plus(s, r) OBVIOUS
  <1>4. PICK o : o = s.fstorage OBVIOUS
  <1>5. PICK p : p = Pointer(s) OBVIOUS
  <1>6. Readable(s, m, p, s.fsize)
    BY <1>3, <1>5, OwnReadable
  <1>7. PICK low : low = Read(s, p, 0, pos) OBVIOUS
  <1>8. Objects(low) /\ Len(low) = pos
    <2>1. 0 + pos <= s.fsize
      BY <1>1
    <2> QED BY <1>1, <1>6, <1>7, <2>1, ReadableObjects
  <1>9. PICK high : high = Read(s, p, from, k) OBVIOUS
  <1>10. Objects(high) /\ Len(high) = k
    <2>1. from + k <= s.fsize
      BY <1>1, <1>2
    <2> QED BY <1>1, <1>6, <1>9, <2>1, ReadableObjects
  <1>11. PICK q : q = reset_nodone(s) OBVIOUS
  <1>12. Sound(q, m) /\ Room(q, m) /\ q.heap = s.heap /\ q.faults = s.faults
    BY <1>3, <1>11, Detached DEF ErasedRoom
  <1>13. PICK opts : opts = {"NoCopy", "NoNew"} OBVIOUS
  <1>14. "NoCopy" \in opts /\ "NoNew" \in opts /\ "NoDecUse" \notin opts
    BY <1>13
  <1>15. PICK t : t = makenew(q, size, size, opts) OBVIOUS
  <1>16. EmptyAs(q, After(q, m, opts), t, size, size)
    <2>1. size <= size
      BY <1>2
    <2> QED BY <1>12, <1>14, <1>15, <2>1, MadeEmpty
  <1>17. After(q, m, opts) = m
    BY <1>14 DEF After
  <1>18. /\ Owner(t, m, {}) /\ Untouched(q, t, m) /\ t.faults = q.faults
         /\ t.sdata = 0 /\ t.fsize = size /\ Count(t) = size /\ size <= freserve(t, t.fstorage)
    <2>1. EmptyAs(q, m, t, size, size)
      BY <1>16, <1>17
    <2>2. size + eAddZeroE <= freserve(t, t.fstorage) /\ freserve(t, t.fstorage) \in Nat /\ eAddZeroE \in Nat
      BY <2>1 DEF EmptyAs, eAddZeroE
    <2>3. size <= freserve(t, t.fstorage)
      BY <1>2, <2>2
    <2>4. t.faults = q.faults
      BY <2>1 DEF EmptyAs, Harmless, Quiet
    <2> QED BY <2>1, <2>3, <2>4 DEF EmptyAs
  <1>19. Holds(t, m, {}, o)
    BY <1>3, <1>4, <1>18, HoldsOwner
  <1>20. PICK u : u = ConstructFrom(t, t.fstorage, 0, low) OBVIOUS
  <1>21. CanFill(t, m, {}, o, 0, low)
    <2>1. 0 + Len(low) <= Count(t) /\ Count(t) <= freserve(t, t.fstorage) /\ (0 .. 0 + Len(low) - 1) \cap {} = {}
      BY <1>2, <1>8, <1>18
    <2> QED BY <1>8, <1>19, <2>1 DEF CanFill
  <1>22. FilledAs(t, u, m, {}, o, 0, pos)
    BY <1>8, <1>20, <1>21, FilledIn
  <1>23. PICK X : X = 0 .. pos - 1 OBVIOUS
  <1>24. {} \cup (0 .. 0 + pos - 1) = X
    BY <1>23
  <1>25. /\ Holds(u, m, X, o) /\ SameView(t, u) /\ Untouched(t, u, m)
         /\ Count(u) = Count(t) /\ freserve(u, u.fstorage) = freserve(t, t.fstorage) /\ u.faults = t.faults
    BY <1>22, <1>24 DEF FilledAs
  <1>26. PICK v : v = ConstructFrom(u, u.fstorage, pos, high) OBVIOUS
  <1>27. CanFill(u, m, X, o, pos, high)
    <2>1. pos + Len(high) <= Count(u) /\ Count(u) <= freserve(u, u.fstorage)
      BY <1>2, <1>10, <1>18, <1>25
    <2>2. (pos .. pos + Len(high) - 1) \cap X = {}
      BY <1>10, <1>23
    <2> QED BY <1>10, <1>25, <2>1, <2>2 DEF CanFill
  <1>28. FilledAs(u, v, m, X, o, pos, k)
    BY <1>10, <1>26, <1>27, FilledIn
  <1>29. PICK Y : Y = 0 .. size - 1 OBVIOUS
  <1>30. X \cup (pos .. pos + k - 1) = Y
    <2>1. pos .. pos + k - 1 = pos .. size - 1
      BY <1>2
    <2>2. (0 .. pos - 1) \cup (pos .. size - 1) = 0 .. size - 1
      <3>1. pos <= size
        BY <1>2
      <3> QED BY <3>1
    <2> QED BY <1>23, <1>29, <2>1, <2>2
  <1>31. /\ Holds(v, m, Y, o) /\ SameView(u, v) /\ Untouched(u, v, m)
         /\ Count(v) = Count(u) /\ freserve(v, v.fstorage) = freserve(u, u.fstorage) /\ v.faults = u.faults
    BY <1>28, <1>30 DEF FilledAs
  <1>32. PICK x : x = Departed(s, v) OBVIOUS
  <1>33. LeftAs(v, x, r, Y)
    BY <1>3, <1>4, <1>31, <1>32, DepartedAs
  <1>34. /\ Owner(x, r, Y) /\ SameView(v, x) /\ Count(x) = Count(v)
         /\ freserve(x, x.fstorage) = freserve(v, v.fstorage) /\ x.faults = v.faults /\ Untouched(v, x, r)
    BY <1>33 DEF LeftAs
  <1>35. x.fsize = size /\ Count(x) = size /\ End(x) = size /\ size <= freserve(x, x.fstorage)
    <2>1. x.sdata = 0 /\ x.fsize = size
      BY <1>18, <1>25, <1>31, <1>34 DEF SameView
    <2> QED BY <1>2, <1>18, <1>25, <1>31, <1>34, <2>1 DEF End
  <1>36. Sound(x, r)
    <2>1. Owner(x, r, 0 .. Count(x) - 1)
      BY <1>29, <1>34, <1>35
    <2>2. End(x) <= Count(x) /\ Count(x) <= freserve(x, x.fstorage)
      BY <1>2, <1>35
    <2> QED BY <2>1, <2>2, OwnerSound
  <1>37. x.faults = s.faults
    BY <1>12, <1>18, <1>25, <1>31, <1>34
  <1>38. \A b \in Blocks : r[b] > 0 => m[b] > 0
    BY <1>1, <1>3 DEF Plus
  <1>39. Untouched(s, x, r)
    BY <1>12, <1>18, <1>25, <1>31, <1>34, <1>38 DEF Untouched
  <1>40. Good(s, r, x, size)
    BY <1>35, <1>36, <1>37, <1>39 DEF Good
  <1>41. x = lerase_shared(s, pos, n)
    <2>1. low = View(s, 0, pos) /\ high = View(s, from, k)
      BY <1>5, <1>7, <1>9 DEF View
    <2>2. u.fstorage = t.fstorage
      BY <1>25 DEF SameView
    <2> QED BY <1>2, <1>11, <1>13, <1>15, <1>20, <1>26, <1>32, <2>1, <2>2 DEF lerase_shared, Departed
  <1> QED BY <1>2, <1>40, <1>41

LEMMA Erased ==
  ASSUME NEW s, NEW r, Sound(s, r), Room(s, r), NEW pos \in Nat, NEW count \in Nat, 0 < count
  PROVE  \E n \in Nat : n <= s.fsize /\ Fine(s, r, lerase(s, pos, count), n)
  <1>1. s.fsize \in Nat
    BY Unique DEF Sound
  <1>2. CASE pos >= s.fsize
    <2>1. lerase(s, pos, count) = s
      BY <1>2 DEF lerase
    <2>2. Fine(s, r, s, s.fsize)
      BY GoodSelf, GoodFine
    <2> QED BY <1>1, <2>1, <2>2
  <1>3. CASE pos < s.fsize
    <2>1. PICK n \in Nat : n = eraseCount(s, pos, count) /\ pos + n <= s.fsize /\ 0 < n
      <3>1. PICK rest \in Nat : rest = s.fsize - pos /\ pos + rest = s.fsize /\ 0 < rest
        BY <1>1, <1>3
      <3>2. Smaller(count, rest) \in Nat /\ Smaller(count, rest) <= rest /\ 0 < Smaller(count, rest)
        BY <3>1 DEF Smaller
      <3> QED BY <3>1, <3>2 DEF eraseCount
    <2>2. PICK size \in Nat : size = s.fsize - n /\ size <= s.fsize
      BY <1>1, <2>1
    <2>3. ~(pos >= s.fsize)
      BY <1>1, <1>3
    <2>4. CASE n = s.fsize
      <3>1. PICK opts : opts = {"Unique"} OBVIOUS
      <3>2. "Unique" \in opts /\ "NoCopy" \notin opts /\ "NoNew" \notin opts /\ "NoDecUse" \notin opts
        BY <3>1
      <3>3. PICK none \in Nat : none = 0 OBVIOUS
      <3>4. Fine(s, r, doresize(s, none, opts), none)
        BY <3>2, ResizedUnique
      <3>5. lerase(s, pos, count) = doresize(s, none, opts)
        BY <2>1, <2>3, <2>4, <3>1, <3>3 DEF lerase
      <3>6. none <= s.fsize
        BY <1>1, <3>3
      <3> QED BY <3>4, <3>5, <3>6
    <2>5. CASE n # s.fsize /\ isUnique(s)
      <3>1. PICK t : t = lerase_here(s, pos, n) OBVIOUS
      <3>2. Good(s, r, t, s.fsize - n)
        BY <2>1, <2>5, <3>1, ErasedHere
      <3>3. Fine(s, r, t, size)
        BY <2>2, <3>2, GoodFine
      <3>4. lerase(s, pos, count) = t
        BY <2>1, <2>3, <2>5, <3>1 DEF lerase
      <3> QED BY <2>2, <3>3, <3>4
    <2>6. CASE n # s.fsize /\ ~isUnique(s)
      <3>1. PICK t : t = lerase_shared(s, pos, n) OBVIOUS
      <3>2. Good(s, r, t, s.fsize - n)
        BY <2>1, <3>1, ErasedShared
      <3>3. Fine(s, r, t, size)
        BY <2>2, <3>2, GoodFine
      <3>4. lerase(s, pos, count) = t
        BY <2>1, <2>3, <2>6, <3>1 DEF lerase
      <3> QED BY <2>2, <3>3, <3>4
    <2> QED BY <2>4, <2>5, <2>6
  <1> QED BY <1>1, <1>2, <1>3

\* The faults an operation may add, and the array that is to blame.
Blamed(s, t) ==
  /\ s.faults \subseteq t.faults
  /\ t.faults \subseteq s.faults \cup Fault("overrun", Hollow(s))
                             \cup Fault("lost", Prefix(s) /\ t.fstorage # s.fstorage)
\* What every operation keeps: the sizes of the blocks of others, if not what is in them.
Safe(s, r, t, n) ==
  /\ t \in States /\ Blamed(s, t) /\ t.fsize = n
  /\ "overrun" \notin t.faults => Sound(t, r) /\ \A b \in Blocks : r[b] > 0 => SameCount(s, t, b)

LEMMA FineSafe ==
  ASSUME NEW s, NEW r, NEW t, NEW n, Fine(s, r, t, n)
  PROVE  Safe(s, r, t, n)
  <1>1. Blamed(s, t)
    BY DEF Fine, Contained, Harmless, Quiet, Blamed, Fault
  <1> QED BY <1>1 DEF Fine, Safe, Untouched, SameCount

LEMMA NewSafe ==
  ASSUME NEW s, NEW r, NEW t, NewAs(s, r, t)
  PROVE  Safe(s, r, t, s.fsize)
  <1>1. Blamed(s, t)
    BY DEF NewAs, Blamed, Fault
  <1> QED BY <1>1 DEF NewAs, Safe, Sound, Untouched, SameCount

\* An element is written over.
LEMMA Written ==
  ASSUME NEW s0, NEW r, NEW s, NEW n, Good(s0, r, s, n), NEW i \in Nat, i < n, s.fstorage # Null,
         NEW v \in Values
  PROVE  Safe(s0, r, copydata(s, s.fstorage, s.sdata + i, <<v>>), n)
  <1>1. Sound(s, r) /\ Untouched(s0, s, r) /\ s.faults = s0.faults /\ s.fsize = n
    BY DEF Good
  <1>2. s \in States /\ s.sdata \in Nat /\ s.fsize \in Nat /\ s.fstorage \in Blocks /\ Count(s) \in Nat
    BY <1>1, Unique DEF Sound
  <1>3. PICK b \in Blocks, at \in Nat : b = s.fstorage /\ at = s.sdata + i
    BY <1>2
  <1>4. PICK vs : vs = <<v>> OBVIOUS
  <1>5. Objects(vs) /\ Len(vs) = 1
    <2>1. v \in CellValues /\ v # Raw
      BY ValueNotRaw
    <2> QED BY <1>4, <2>1 DEF Objects
  <1>6. PICK X : X = 0 .. Count(s) - 1 OBVIOUS
  <1>7. s.sdata + s.fsize <= Count(s)
    BY <1>1, <1>2, NullAssumption DEF Sound, InView, End
  <1>7a. at < Count(s)
    BY <1>1, <1>2, <1>3, <1>7
  <1>7b. at .. at + 1 - 1 \subseteq Cells(s, b)
    <2>1. PICK f \in Nat : f = freserve(s, b) /\ Cells(s, b) = 0 .. f - 1
      BY <1>2, CellsAre
    <2>2. Count(s) <= f
      BY <1>1, <1>3, <2>1 DEF Sound, BlockSound, Count
    <2> QED BY <1>2, <1>7a, <2>1, <2>2
  <1>8. CanCopy(s, b, at, vs, X)
    <2>1. at < Count(s)
      BY <1>7a
    <2>2. at .. at + Len(vs) - 1 \subseteq X
      BY <1>2, <1>5, <1>6, <2>1
    <2>3. Live(s, b, X)
      BY <1>1, <1>3, <1>6 DEF Sound, BlockSound, Count
    <2> QED BY <1>2, <1>5, <2>2, <2>3 DEF CanCopy
  <1>9. PICK t : t = copydata(s, b, at, vs) OBVIOUS
  <1>10. HasCopied(s, t, b, at, Len(vs), X)
    BY <1>8, <1>9, CopiedOver
  <1>11. Alters(s, t, b) /\ SameCount(s, t, b) /\ Live(t, b, X) /\ t.faults = s.faults
    BY <1>5, <1>7b, <1>10 DEF HasCopied, Fault
  <1>12. /\ t \in States /\ SameView(s, t) /\ \A d \in Blocks : d # b => t.heap[d] = s.heap[d]
         /\ \A d \in Blocks : t.heap[d].refcnt = s.heap[d].refcnt /\ Cells(t, d) = Cells(s, d)
    BY <1>11 DEF Alters, AltersBoth
  <1>13. Counted(t, r)
    BY <1>1, <1>12 DEF Sound, Counted, SameView
  <1>14. Count(t) = Count(s)
    BY <1>3, <1>11, <1>12 DEF SameCount, SameView, Count
  <1>15. InView(t)
    BY <1>1, <1>12, <1>14 DEF Sound, InView, SameView, End
  <1>16. \A d \in Blocks : BlockSound(t, d)
    <2>1. \A d \in Blocks : d # b => BlockSound(t, d)
      BY <1>1, <1>12, SameBlock DEF Sound
    <2>2. BlockSound(t, b)
      <3>1. t.heap[b].countchars = Count(s) /\ s.heap[b].countchars = Count(s)
        BY <1>3, <1>11 DEF SameCount, Count
      <3>2. Live(t, b, 0 .. t.heap[b].countchars - 1)
        BY <1>6, <1>11, <3>1
      <3>3. freserve(t, b) = freserve(s, b) /\ BlockSound(s, b)
        BY <1>1, <1>12 DEF freserve, Sound
      <3> QED BY <3>1, <3>2, <3>3 DEF BlockSound
    <2> QED BY <2>1, <2>2
  <1>17. Sound(t, r)
    BY <1>12, <1>13, <1>15, <1>16 DEF Sound
  <1>18. \A d \in Blocks : SameCount(s, t, d)
    BY <1>11, <1>12 DEF SameCount
  <1>19. \A d \in Blocks : r[d] > 0 => SameCount(s0, t, d)
    BY <1>1, <1>18 DEF Untouched, SameCount
  <1>20. Blamed(s0, t) /\ t.fsize = n
    BY <1>1, <1>11, <1>12 DEF Blamed, SameView
  <1>21. Safe(s0, r, t, n)
    BY <1>12, <1>17, <1>19, <1>20 DEF Safe
  <1> QED BY <1>3, <1>4, <1>9, <1>21

-----------------------------------------------------------------------------
(* The inductive invariant. *)

Others(h) == [b \in Blocks |-> Cardinality(Sharers(b) \ {h})]
Heap == [heap |-> heap]

\* The blocks that are in use are counted, and every array shows objects of its block.
RcInv ==
  /\ kind \in Kinds
  /\ heap \in [Blocks -> Headers]
  /\ arr \in [Handles -> [fstorage : Blocks \cup {Null}, sdata : Nat, fsize : 0 .. MaxSize]]
  /\ NoLifetimeFault
  /\ \A b \in Blocks : heap[b].refcnt = Cardinality(Sharers(b))
  /\ \A b \in Blocks : BlockSound(Heap, b)
  /\ \A h \in Handles : CanShow(Heap, arr[h])

LEMMA SharersFinite ==
  ASSUME NEW b
  PROVE  IsFiniteSet(Sharers(b)) /\ Cardinality(Sharers(b)) \in Nat
  <1>1. IsFiniteSet(Handles)
    BY BlocksAssumption
  <1>2. Sharers(b) \in SUBSET Handles
    BY DEF Sharers
  <1>3. IsFiniteSet(Sharers(b))
    BY <1>1, <1>2, FS_Subset
  <1> QED BY <1>3, FS_CardinalityType

LEMMA OthersAre ==
  ASSUME NEW h \in Handles
  PROVE  /\ Others(h) \in [Blocks -> Nat]
         /\ \A b \in Blocks : Cardinality(Sharers(b)) = Others(h)[b] + IF arr[h].fstorage = b THEN 1 ELSE 0
         /\ \A b \in Blocks, k \in Handles : k # h /\ arr[k].fstorage = b => Others(h)[b] > 0
         /\ \A b \in Blocks : Others(h)[b] > 0 => Sharers(b) # {}
  <1>1. SUFFICES ASSUME NEW b \in Blocks
                 PROVE  /\ Others(h)[b] \in Nat
                        /\ Cardinality(Sharers(b)) = Others(h)[b] + IF arr[h].fstorage = b THEN 1 ELSE 0
                        /\ \A k \in Handles : k # h /\ arr[k].fstorage = b => Others(h)[b] > 0
                        /\ Others(h)[b] > 0 => Sharers(b) # {}
    BY DEF Others
  <1>2. PICK S, T : S = Sharers(b) /\ T = S \ {h} OBVIOUS
  <1>3. IsFiniteSet(S) /\ Cardinality(S) \in Nat
    BY <1>2, SharersFinite
  <1>4. IsFiniteSet(T) /\ Cardinality(T) = IF h \in S THEN Cardinality(S) - 1 ELSE Cardinality(S)
    BY <1>2, <1>3, FS_RemoveElement
  <1>5. Cardinality(T) \in Nat
    BY <1>4, FS_CardinalityType
  <1>6. Others(h)[b] = Cardinality(T)
    BY <1>2 DEF Others
  <1>7. h \in S <=> arr[h].fstorage = b
    BY <1>2 DEF Sharers
  <1>8. ASSUME NEW k \in Handles, k # h, arr[k].fstorage = b PROVE Cardinality(T) > 0
    <2>1. T # {}
      BY <1>2, <1>8 DEF Sharers
    <2>2. Cardinality(T) # 0
      BY <1>4, <2>1, FS_EmptySet
    <2> QED BY <1>5, <2>2
  <1>9. Cardinality(T) > 0 => S # {}
    <2>1. S = {} => T = {}
      BY <1>2
    <2> QED BY <2>1, FS_EmptySet
  <1>10. Cardinality(S) = Cardinality(T) + IF arr[h].fstorage = b THEN 1 ELSE 0
    BY <1>3, <1>4, <1>5, <1>7
  <1> QED BY <1>2, <1>5, <1>6, <1>8, <1>9, <1>10

\* There are more blocks than arrays, so that one is free.
LEMMA RoomLeft ==
  ASSUME NEW h \in Handles
  PROVE  \E b \in Blocks : Sharers(b) = {}
  <1>1. SUFFICES ASSUME \A b \in Blocks : Sharers(b) # {}
                 PROVE  FALSE
    OBVIOUS
  <1>2. PICK f : f = [b \in Blocks |-> CHOOSE k \in Handles : arr[k].fstorage = b] OBVIOUS
  <1>3. \A b \in Blocks : \E k \in Handles : arr[k].fstorage = b
    BY <1>1 DEF Sharers
  <1>4. \A b \in Blocks : f[b] \in Handles /\ arr[f[b]].fstorage = b
    BY <1>2, <1>3
  <1>5. PICK S : S = {k \in Handles : arr[k].fstorage \in Blocks} OBVIOUS
  <1>6. PICK g : g = [k \in S |-> arr[k].fstorage] OBVIOUS
  <1>7. g \in Surjection(S, Blocks)
    <2>1. g \in [S -> Blocks]
      BY <1>5, <1>6
    <2>2. \A b \in Blocks : \E k \in S : g[k] = b
      BY <1>4, <1>5, <1>6
    <2> QED BY <2>1, <2>2 DEF Surjection
  <1>8. IsFiniteSet(S) /\ Cardinality(S) <= Cardinality(Handles)
    BY <1>5, BlocksAssumption, FS_Subset
  <1>9. Cardinality(Blocks) <= Cardinality(S)
    BY <1>7, <1>8, FS_Surjection
  <1>10. Cardinality(S) \in Nat /\ Cardinality(Handles) \in Nat /\ Cardinality(Blocks) \in Nat
    BY <1>8, BlocksAssumption, FS_CardinalityType
  <1> QED BY <1>8, <1>9, <1>10, BlocksAssumption

LEMMA ThisSound ==
  ASSUME RcInv, NEW h \in Handles
  PROVE  Sound(This(h), Others(h)) /\ Room(This(h), Others(h))
  <1>1. PICK s : s = This(h) OBVIOUS
  <1>2. PICK r : r = Others(h) OBVIOUS
  <1>3. /\ s.heap = heap /\ s.faults = {} /\ s.fstorage = arr[h].fstorage
        /\ s.sdata = arr[h].sdata /\ s.fsize = arr[h].fsize
    BY <1>1 DEF This
  <1>4. s \in States
    <2>1. /\ arr[h].fstorage \in Blocks \cup {Null} /\ arr[h].sdata \in Nat /\ arr[h].fsize \in Nat
          /\ heap \in [Blocks -> Headers]
      BY SizesAssumption DEF RcInv
    <2> QED BY <1>1, <2>1 DEF This, States
  <1>5. Counted(s, r)
    <2>1. r \in [Blocks -> Nat] /\ \A b \in Blocks : Cardinality(Sharers(b)) = r[b] + IF arr[h].fstorage = b THEN 1 ELSE 0
      BY <1>2, OthersAre
    <2>2. \A b \in Blocks : heap[b].refcnt = Cardinality(Sharers(b))
      BY DEF RcInv
    <2> QED BY <1>3, <2>1, <2>2 DEF Counted
  <1>6. InView(s)
    <2>1. CanShow(Heap, arr[h])
      BY DEF RcInv
    <2> QED BY <1>3, <2>1 DEF CanShow, Heap, InView, End, Count
  <1>7. \A b \in Blocks : BlockSound(s, b)
    <2>1. \A b \in Blocks : BlockSound(Heap, b) /\ s.heap[b] = Heap.heap[b]
      BY <1>3 DEF RcInv, Heap
    <2>2. PICK u : u = Heap OBVIOUS
    <2>3. \A b \in Blocks : BlockSound(u, b) /\ s.heap[b] = u.heap[b]
      BY <2>1, <2>2
    <2> QED BY <2>3, SameBlock
  <1>8. Room(s, r)
    <2>1. PICK b \in Blocks : Sharers(b) = {}
      BY RoomLeft
    <2>2. r[b] = 0
      <3>1. r[b] \in Nat /\ (r[b] > 0 => Sharers(b) # {})
        BY <1>2, OthersAre
      <3> QED BY <2>1, <3>1
    <2>3. arr[h].fstorage # b
      BY <2>1 DEF Sharers
    <2> QED BY <1>3, <2>2, <2>3 DEF Room
  <1> QED BY <1>1, <1>2, <1>4, <1>5, <1>6, <1>7, <1>8 DEF Sound

LEMMA InitRcInv == Init => RcInv
  <1> SUFFICES ASSUME Init PROVE RcInv OBVIOUS
  <1>1. kind \in Kinds /\ faults = {} /\ heap = [b \in Blocks |-> Freed] /\ arr = [h \in Handles |-> Empty]
    BY DEF Init
  <1>2. heap \in [Blocks -> Headers]
    BY <1>1, FreedIs
  <1>3. Empty \in [fstorage : Blocks \cup {Null}, sdata : Nat, fsize : 0 .. MaxSize]
    BY SizesAssumption DEF Empty
  <1>4. \A b \in Blocks : heap[b].refcnt = Cardinality(Sharers(b))
    <2>1. SUFFICES ASSUME NEW b \in Blocks PROVE heap[b].refcnt = Cardinality(Sharers(b)) OBVIOUS
    <2>2. Sharers(b) = {}
      BY <1>1, NullAssumption DEF Sharers, Empty
    <2> QED BY <1>1, <2>2, FS_EmptySet DEF Freed
  <1>5. \A b \in Blocks : BlockSound(Heap, b)
    <2>1. SUFFICES ASSUME NEW b \in Blocks PROVE BlockSound(Heap, b) OBVIOUS
    <2>2. Heap.heap[b] = Freed
      BY <1>1 DEF Heap
    <2>3. Cells(Heap, b) = {}
      BY <2>2, FreedIs DEF Cells
    <2>4. freserve(Heap, b) = 0
      BY <2>3, FS_EmptySet DEF freserve
    <2>5. Heap.heap[b].countchars = 0
      BY <2>2 DEF Freed
    <2> QED BY <2>3, <2>4, <2>5 DEF BlockSound, Live
  <1>6. \A h \in Handles : CanShow(Heap, arr[h])
    <2>1. Len(Literal) \in Nat
      BY ValuesAssumption, LenProperties
    <2> QED BY <1>1, <2>1 DEF CanShow, Empty
  <1> QED BY <1>1, <1>2, <1>3, <1>4, <1>5, <1>6 DEF RcInv, NoLifetimeFault

\* A safe operation on an array keeps the invariant.
LEMMA Step ==
  ASSUME RcInv, NEW h \in Handles, NEW t, NEW n, n \in 0 .. MaxSize,
         Safe(This(h), Others(h), t, n),
         NEW op, NEW at, NEW k, NEW data, Becomes(h, t, op, at, k, data)
  PROVE  RcInv'
  <1>1. PICK s : s = This(h) OBVIOUS
  <1>2. PICK r : r = Others(h) OBVIOUS
  <1>3. /\ s.heap = heap /\ s.faults = {} /\ s.fstorage = arr[h].fstorage
    BY <1>1 DEF This
  <1>4. t.faults \subseteq {"lost", "overrun"} /\ t.fsize = n /\ t \in States
    BY <1>1, <1>3 DEF Safe, Blamed, Fault
  <1>5. kind' = kind /\ faults' = t.faults
    BY DEF Becomes
  <1>6. NoLifetimeFault' /\ kind' \in Kinds
    BY <1>4, <1>5 DEF NoLifetimeFault, RcInv
  <1>7. CASE "overrun" \in t.faults
    <2>1. heap' = heap /\ arr' = arr
      BY <1>7 DEF Becomes
    <2>2. \A b \in Blocks : Sharers(b)' = Sharers(b)
      BY <2>1 DEF Sharers
    <2>3. \A b \in Blocks : BlockSound(Heap, b)'
      BY <1>5, <2>1 DEF RcInv, BlockSound, Heap, Live, HasLifetime, Cells, freserve
    <2>4. \A g \in Handles : CanShow(Heap, arr[g])'
      BY <2>1 DEF RcInv, CanShow, Heap
    <2> QED BY <1>6, <2>1, <2>2, <2>3, <2>4 DEF RcInv
  <1>8. CASE "overrun" \notin t.faults
    <2>1. PICK d : d = [fstorage |-> t.fstorage, sdata |-> t.sdata, fsize |-> t.fsize] OBVIOUS
    <2>2. heap' = t.heap /\ arr' = [arr EXCEPT ![h] = d]
      BY <1>8, <2>1 DEF Becomes
    <2>3. Sound(t, r) /\ \A b \in Blocks : r[b] > 0 => SameCount(s, t, b)
      BY <1>1, <1>2, <1>8 DEF Safe
    <2>4. arr' \in [Handles -> [fstorage : Blocks \cup {Null}, sdata : Nat, fsize : 0 .. MaxSize]]
      <3>1. d \in [fstorage : Blocks \cup {Null}, sdata : Nat, fsize : 0 .. MaxSize]
        BY <1>4, <2>1 DEF States
      <3> QED BY <2>2, <3>1 DEF RcInv
    <2>5. arr'[h] = d /\ \A g \in Handles : g # h => arr'[g] = arr[g]
      BY <2>2 DEF RcInv
    <2>6. heap' \in [Blocks -> Headers]
      BY <1>4, <2>2 DEF States
    <2>7. \A b \in Blocks : heap'[b].refcnt = Cardinality(Sharers(b)')
      <3>1. SUFFICES ASSUME NEW b \in Blocks PROVE heap'[b].refcnt = Cardinality(Sharers(b)') OBVIOUS
      <3>2. PICK T : T = Sharers(b) \ {h} OBVIOUS
      <3>3. PICK c : c = IF t.fstorage = b THEN T \cup {h} ELSE T OBVIOUS
      <3>4. Sharers(b)' = c
        <4>1. Sharers(b)' = {g \in Handles : arr'[g].fstorage = b}
          BY DEF Sharers
        <4>2. d.fstorage = t.fstorage
          BY <2>1
        <4> QED BY <2>5, <3>2, <3>3, <4>1, <4>2 DEF Sharers
      <3>5. IsFiniteSet(T) /\ r[b] = Cardinality(T) /\ h \notin T
        <4>1. IsFiniteSet(Sharers(b))
          BY SharersFinite
        <4> QED BY <1>2, <3>2, <4>1, FS_RemoveElement DEF Others
      <3>6. Cardinality(T) \in Nat
        BY <3>5, FS_CardinalityType
      <3>7. Cardinality(T \cup {h}) = Cardinality(T) + 1
        BY <3>5, FS_AddElement
      <3>8. Cardinality(c) = r[b] + IF t.fstorage = b THEN 1 ELSE 0
        BY <3>3, <3>5, <3>6, <3>7
      <3>9. heap'[b].refcnt = r[b] + IF t.fstorage = b THEN 1 ELSE 0
        BY <2>2, <2>3 DEF Sound, Counted
      <3> QED BY <3>4, <3>8, <3>9
    <2>8. \A b \in Blocks : BlockSound(Heap, b)'
      <3>1. \A b \in Blocks : BlockSound(t, b)
        BY <2>3 DEF Sound
      <3> QED BY <1>5, <2>2, <3>1 DEF BlockSound, Heap, Live, HasLifetime, Cells, freserve
    <2>9. \A g \in Handles : CanShow(Heap, arr[g])'
      <3>1. SUFFICES ASSUME NEW g \in Handles PROVE CanShow(Heap, arr[g])' OBVIOUS
      <3>2. PICK e : e = arr'[g] OBVIOUS
      <3>3. e.fstorage \in Blocks \cup {Null} /\ e.sdata \in Nat /\ e.fsize \in Nat
        BY <2>4, <3>2, SizesAssumption
      <3>4. e.sdata + e.fsize <= IF e.fstorage = Null THEN Len(Literal) ELSE t.heap[e.fstorage].countchars
        <4>1. CASE g = h
          <5>1. e.fstorage = t.fstorage /\ e.sdata = t.sdata /\ e.fsize = t.fsize
            BY <2>1, <2>5, <3>2, <4>1
          <5> QED BY <2>3, <5>1 DEF Sound, InView, End, Count
        <4>2. CASE g # h
          <5>1. e = arr[g]
            BY <2>5, <3>2, <4>2
          <5>2. e.sdata + e.fsize <= IF e.fstorage = Null THEN Len(Literal) ELSE heap[e.fstorage].countchars
            BY <5>1 DEF RcInv, CanShow, Heap
          <5>3. e.fstorage # Null => t.heap[e.fstorage].countchars = heap[e.fstorage].countchars
            <6>1. SUFFICES ASSUME e.fstorage # Null PROVE t.heap[e.fstorage].countchars = heap[e.fstorage].countchars
              OBVIOUS
            <6>2. PICK b \in Blocks : b = e.fstorage
              BY <3>3, <6>1
            <6>3. r[b] > 0
              BY <1>2, <4>2, <5>1, <6>2, OthersAre
            <6> QED BY <1>3, <2>3, <6>2, <6>3 DEF SameCount
          <5> QED BY <5>2, <5>3
        <4> QED BY <4>1, <4>2
      <3> QED BY <2>2, <3>2, <3>3, <3>4 DEF CanShow, Heap
    <2> QED BY <1>6, <2>4, <2>6, <2>7, <2>8, <2>9 DEF RcInv
  <1> QED BY <1>7, <1>8

\* What FaultsHaveCause says of a step: each fault has an array to blame.
Caused ==
  /\ ~NothingLost' =>
       \E h \in Handles : ShowsPrefix(h) /\ arr'[h].fstorage # arr[h].fstorage
  /\ "overrun" \notin faults /\ "overrun" \in faults' =>
       \E h \in Handles : /\ Size(h) = 0 /\ arr[h].sdata > 0 /\ arr[h].fstorage # Null
                          /\ heap[arr[h].fstorage].refcnt = 1

LEMMA StepCaused ==
  ASSUME RcInv, NEW h \in Handles, NEW t, Blamed(This(h), t),
         NEW op, NEW at, NEW k, NEW data, Becomes(h, t, op, at, k, data)
  PROVE  Caused
  <1>1. PICK s : s = This(h) OBVIOUS
  <1>2. /\ s.heap = heap /\ s.faults = {} /\ s.fstorage = arr[h].fstorage
        /\ s.sdata = arr[h].sdata /\ s.fsize = Size(h)
    BY <1>1 DEF This, Size
  <1>3. t.faults \subseteq Fault("overrun", Hollow(s)) \cup Fault("lost", Prefix(s) /\ t.fstorage # s.fstorage)
    BY <1>1, <1>2 DEF Blamed
  <1>4. faults' = t.faults
    BY DEF Becomes
  <1>5. ASSUME "overrun" \in t.faults
        PROVE  Size(h) = 0 /\ arr[h].sdata > 0 /\ arr[h].fstorage # Null /\ heap[arr[h].fstorage].refcnt = 1
    <2>1. Hollow(s)
      BY <1>3, <1>5 DEF Fault
    <2> QED BY <1>2, <2>1 DEF Hollow, isUnique, Storage
  <1>6. ASSUME "lost" \in t.faults
        PROVE  ShowsPrefix(h) /\ arr'[h].fstorage # arr[h].fstorage
    <2>1. Prefix(s) /\ t.fstorage # s.fstorage
      BY <1>3, <1>6 DEF Fault
    <2>2. "overrun" \notin t.faults
      <3>1. ~Hollow(s)
        BY <2>1 DEF Prefix, Hollow
      <3> QED BY <1>3, <3>1 DEF Fault
    <2>3. arr' = [arr EXCEPT ![h] = [fstorage |-> t.fstorage, sdata |-> t.sdata, fsize |-> t.fsize]]
      BY <2>2 DEF Becomes
    <2>4. arr'[h].fstorage = t.fstorage
      BY <2>3 DEF RcInv
    <2> QED BY <1>2, <2>1, <2>4 DEF Prefix, isUnique, Storage, Count, ShowsPrefix
  <1> QED BY <1>4, <1>5, <1>6 DEF Caused, NothingLost

\* A part of an array is readable while another array, or this one with a reference more, shows it.
LEMMA PartReadable ==
  ASSUME RcInv, NEW h \in Handles, NEW k \in Handles, NEW from \in Nat, NEW n \in Nat, 0 < n, from + n <= Size(k)
  PROVE  Readable(This(h), Pinned(This(h), Others(h), Part(k, from), n), Part(k, from), n)
  <1>1. PICK s : s = This(h) OBVIOUS
  <1>2. PICK r : r = Others(h) OBVIOUS
  <1>3. PICK p : p = Part(k, from) OBVIOUS
  <1>4. PICK m : m = Pinned(s, r, p, n) OBVIOUS
  <1>5. /\ s.heap = heap /\ s.fstorage = arr[h].fstorage
        /\ s.sdata = arr[h].sdata /\ s.fsize = arr[h].fsize
    BY <1>1 DEF This
  <1>6. /\ arr[k].fstorage \in Blocks \cup {Null} /\ arr[k].sdata \in Nat /\ arr[k].fsize \in Nat
        /\ arr[k].sdata + arr[k].fsize <=
             IF arr[k].fstorage = Null THEN Len(Literal) ELSE heap[arr[k].fstorage].countchars
    BY DEF RcInv, CanShow, Heap
  <1>7. p.fstorage = arr[k].fstorage /\ p.sdata = arr[k].sdata + from /\ p.data = Literal
    BY <1>3 DEF Part, Pointer
  <1>8. from + n <= arr[k].fsize
    BY DEF Size
  <1>9. CASE arr[k].fstorage = Null
    <2>1. Literal \in Seq(Values \cup {Zero}) /\ Len(Literal) \in Nat
      BY ValuesAssumption, LenProperties
    <2>2. p.sdata + n <= Len(p.data) /\ p.sdata \in Nat
      BY <1>6, <1>7, <1>8, <1>9, <2>1
    <2>3. Readable(s, m, p, n)
      BY <1>7, <1>9, <2>1, <2>2 DEF Readable
    <2> QED BY <1>1, <1>2, <1>3, <1>4, <2>3
  <1>10. CASE arr[k].fstorage # Null
    <2>1. PICK b \in Blocks : b = arr[k].fstorage
      BY <1>6, <1>10
    <2>2. Sound(s, r)
      BY <1>1, <1>2, ThisSound
    <2>3. BlockSound(s, b) /\ r \in [Blocks -> Nat] /\ s.heap[b].countchars \in Nat
      BY <2>2, CellsAre DEF Sound, Counted, Headers
    <2>4. p.sdata \in Nat /\ p.sdata + n <= s.heap[b].countchars
      BY <1>5, <1>6, <1>7, <1>8, <1>10, <2>1, <2>3
    <2>5. m[b] > 0
      <3>1. CASE k # h
        <4>1. r[b] > 0
          BY <1>2, <2>1, <3>1, OthersAre
        <4>2. CASE intersects(s, p, n)
          <5>1. PICK o \in Blocks : o = s.fstorage
            BY <2>2, <4>2, Unique DEF intersects, Sound
          <5>2. m = More(r, o)
            BY <1>4, <4>2, <5>1 DEF Pinned
          <5>3. m[o] = r[o] + 1 /\ r[o] \in Nat /\ \A c \in Blocks : c # o => m[c] = r[c]
            BY <2>3, <5>2, MoreLess
          <5> QED BY <4>1, <5>3
        <4>3. CASE ~intersects(s, p, n)
          BY <1>4, <4>1, <4>3 DEF Pinned
        <4> QED BY <4>2, <4>3
      <3>2. CASE k = h
        <4>1. intersects(s, p, n)
          <5>1. s.fstorage # Null /\ p.fstorage = s.fstorage
            BY <1>5, <1>7, <1>10, <3>2
          <5>2. p.sdata \in s.sdata .. s.sdata + s.fsize - 1
            <6>1. PICK i \in Nat, z \in Nat : i = s.sdata /\ z = s.fsize
              BY <1>5, <1>6, <3>2
            <6>2. p.sdata = i + from /\ from + n <= z
              BY <1>5, <1>7, <1>8, <3>2, <6>1
            <6>3. i + from \in i .. i + z - 1
              BY <6>1, <6>2
            <6> QED BY <6>1, <6>2, <6>3
          <5>3. p.sdata \in p.sdata .. p.sdata + n - 1
            BY <2>4
          <5> QED BY <5>1, <5>2, <5>3 DEF intersects
        <4>2. m = More(r, b)
          BY <1>4, <1>5, <2>1, <3>2, <4>1 DEF Pinned
        <4>3. m[b] = r[b] + 1 /\ r[b] \in Nat
          BY <2>3, <4>2, MoreLess
        <4> QED BY <4>3
      <3> QED BY <3>1, <3>2
    <2>6. Readable(s, m, p, n)
      BY <1>7, <1>10, <2>1, <2>3, <2>4, <2>5 DEF Readable
    <2> QED BY <1>1, <1>2, <1>3, <1>4, <2>6
  <1> QED BY <1>9, <1>10

\* The result of an operation.
OneSafe(h, t) == \E n \in 0 .. MaxSize : Safe(This(h), Others(h), t, n)

LEMMA StepSafe ==
  ASSUME RcInv, NEW h \in Handles, NEW t, OneSafe(h, t),
         NEW op, NEW at, NEW k, NEW data, Becomes(h, t, op, at, k, data)
  PROVE  RcInv' /\ Caused
  <1>1. PICK n \in 0 .. MaxSize : Safe(This(h), Others(h), t, n)
    BY DEF OneSafe
  <1>2. Blamed(This(h), t)
    BY <1>1 DEF Safe
  <1>3. RcInv'
    BY <1>1, Step
  <1>4. Caused
    BY <1>2, StepCaused
  <1> QED BY <1>3, <1>4

LEMMA SizeIs ==
  ASSUME RcInv, NEW h \in Handles
  PROVE  This(h).fsize = Size(h) /\ Size(h) \in 0 .. MaxSize /\ Size(h) \in Nat
  BY SizesAssumption DEF RcInv, This, Size

LEMMA OutsideReadable ==
  ASSUME NEW s, NEW r, NEW d \in Data, NEW p, p = Outside(d), NEW n, n = Len(d)
  PROVE  n \in Nat /\ n <= MaxSize /\ Readable(s, r, p, n)
  <1>1. d \in Seq(Values \cup {Zero}) /\ n \in Nat /\ n <= MaxSize
    BY ValuesAssumption, SizesAssumption, LenProperties
  <1>2. p.fstorage = Null /\ p.sdata = 0 /\ p.data = d
    BY DEF Outside
  <1> QED BY <1>1, <1>2 DEF Readable

\* A view of n elements of another array from the one at from.
LEMMA ViewShown ==
  ASSUME RcInv, NEW h \in Handles, NEW k \in Handles, NEW d, NEW from \in Nat, NEW n \in 0 .. MaxSize,
         from + n <= Size(k), d.fstorage = arr[k].fstorage, d.sdata = arr[k].sdata + from, d.fsize = n
  PROVE  CanShow(This(h), d)
  <1>1. PICK s, r : s = This(h) /\ r = Others(h) OBVIOUS
  <1>2. Sound(s, r) /\ s.heap = heap
    BY <1>1, ThisSound DEF This
  <1>3. /\ arr[k].fstorage \in Blocks \cup {Null} /\ arr[k].sdata \in Nat /\ arr[k].fsize \in Nat
        /\ arr[k].sdata + arr[k].fsize <=
             IF arr[k].fstorage = Null THEN Len(Literal) ELSE heap[arr[k].fstorage].countchars
    BY DEF RcInv, CanShow, Heap
  <1>4. n \in Nat /\ from + n <= arr[k].fsize
    BY SizesAssumption DEF Size
  <1>5. PICK last : last = IF d.fstorage = Null THEN Len(Literal) ELSE heap[d.fstorage].countchars OBVIOUS
  <1>6. last \in Nat
    <2>1. Len(Literal) \in Nat
      BY ValuesAssumption, LenProperties
    <2>2. s \in States
      BY <1>2 DEF Sound
    <2>3. \A b \in Blocks : heap[b].countchars \in Nat
      BY <1>2, <2>2, CellsAre DEF Headers
    <2> QED BY <1>3, <1>5, <2>1, <2>3
  <1>7. d.sdata + d.fsize <= last
    <2>1. PICK i, m : i = arr[k].sdata /\ m = arr[k].fsize OBVIOUS
    <2>2. d.sdata = i + from /\ d.fsize = n
      BY <2>1
    <2>3. i \in Nat /\ m \in Nat /\ i + m <= last
      BY <1>3, <1>5, <2>1
    <2>4. i + from + n <= last
      BY <1>4, <1>6, <2>1, <2>3
    <2> QED BY <2>2, <2>4
  <1>8. CanShow(s, d)
    BY <1>2, <1>3, <1>4, <1>5, <1>7 DEF CanShow
  <1> QED BY <1>1, <1>8

-----------------------------------------------------------------------------
(* What the cells hold. *)

\* Every list that is read or put is one of what cells hold.
Texts == Seq(CellValues)

LEMMA CellIs ==
  ASSUME NEW s \in States, NEW b \in Blocks
  PROVE  /\ \A i : Cell(s, b, i) \in CellValues
         /\ \A i \in Cells(s, b) : Cell(s, b, i) = s.heap[b].fdata[i]
         /\ \A i : i \notin Cells(s, b) => Cell(s, b, i) = Raw
  BY CellsAre DEF Cell, CellValues

LEMMA SetCellsCell ==
  ASSUME NEW s \in States, NEW b \in Blocks, NEW f \in [Cells(s, b) -> CellValues], NEW fault \in SUBSET Faults
  PROVE  LET t == SetCells(s, b, f, fault) IN
         /\ Alters(s, t, b) /\ SameCount(s, t, b)
         /\ \A i : Cell(t, b, i) = IF i \in Cells(s, b) THEN f[i] ELSE Raw
  <1>1. PICK t : t = SetCells(s, b, f, fault) OBVIOUS
  <1>2. Alters(s, t, b) /\ SameCount(s, t, b) /\ t.heap[b].fdata = f
    BY <1>1, SetCellsEffect
  <1>3. Cells(t, b) = Cells(s, b)
    BY <1>2 DEF Alters, AltersBoth
  <1>4. \A i : Cell(t, b, i) = IF i \in Cells(s, b) THEN f[i] ELSE Raw
    BY <1>2, <1>3 DEF Cell
  <1> QED BY <1>1, <1>2, <1>4

\* From s to t the cells of block b from at on get the list vs, as far as the block goes.
Wrote(s, t, b, at, vs) ==
  /\ Alters(s, t, b)
  /\ \A i \in Nat : Cell(t, b, i) = IF i \in at .. at + Len(vs) - 1 /\ i \in Cells(s, b) THEN vs[i - at + 1]
                                    ELSE Cell(s, b, i)

LEMMA WroteIs ==
  ASSUME NEW s \in States, NEW b \in Blocks, NEW at \in Nat, NEW vs \in Texts, NEW fault \in SUBSET Faults, NEW t,
         t = SetCells(s, b, [i \in Cells(s, b) |-> IF i \in at .. at + Len(vs) - 1 THEN vs[i - at + 1]
                                                   ELSE Cell(s, b, i)], fault)
  PROVE  Wrote(s, t, b, at, vs) /\ SameCount(s, t, b)
  <1>1. PICK f : f = [i \in Cells(s, b) |-> IF i \in at .. at + Len(vs) - 1 THEN vs[i - at + 1] ELSE Cell(s, b, i)]
    OBVIOUS
  <1>2. Len(vs) \in Nat /\ \A i \in at .. at + Len(vs) - 1 : vs[i - at + 1] \in CellValues
    BY DEF Texts
  <1>3. f \in [Cells(s, b) -> CellValues]
    BY <1>1, <1>2, CellIs
  <1>4. t = SetCells(s, b, f, fault)
    BY <1>1
  <1>5. /\ Alters(s, t, b) /\ SameCount(s, t, b)
        /\ \A i : Cell(t, b, i) = IF i \in Cells(s, b) THEN f[i] ELSE Raw
    <2> SUFFICES /\ Alters(s, SetCells(s, b, f, fault), b) /\ SameCount(s, SetCells(s, b, f, fault), b)
                 /\ \A i : Cell(SetCells(s, b, f, fault), b, i) = IF i \in Cells(s, b) THEN f[i] ELSE Raw
      BY <1>4
    <2> QED BY <1>3, SetCellsCell
  <1>6. ASSUME NEW i \in Nat
        PROVE  Cell(t, b, i) = IF i \in at .. at + Len(vs) - 1 /\ i \in Cells(s, b) THEN vs[i - at + 1]
                               ELSE Cell(s, b, i)
    BY <1>1, <1>5, CellIs
  <1> QED BY <1>5, <1>6 DEF Wrote

LEMMA ConstructorWrote ==
  ASSUME NEW s \in States, NEW b \in Blocks, NEW at \in Nat, NEW vs \in Texts
  PROVE  Wrote(s, constructorarray(s, b, at, vs), b, at, vs) /\ SameCount(s, constructorarray(s, b, at, vs), b)
  <1>1. PICK fault : fault = Fault("overrun", ~(at .. at + Len(vs) - 1 \subseteq Cells(s, b)))
                               \cup Fault("construct", HasLifetime /\ \E i \in at .. at + Len(vs) - 1 : Cell(s, b, i) # Raw)
    OBVIOUS
  <1>2. fault \in SUBSET Faults
    BY <1>1 DEF Fault, Faults
  <1>3. PICK t : t = constructorarray(s, b, at, vs) OBVIOUS
  <1>4. t = SetCells(s, b, [i \in Cells(s, b) |-> IF i \in at .. at + Len(vs) - 1 THEN vs[i - at + 1]
                                                  ELSE Cell(s, b, i)], fault)
    BY <1>1, <1>3 DEF constructorarray
  <1>5. Wrote(s, t, b, at, vs) /\ SameCount(s, t, b)
    BY <1>2, <1>4, WroteIs
  <1> QED BY <1>3, <1>5

LEMMA CopyWrote ==
  ASSUME NEW s \in States, NEW b \in Blocks, NEW at \in Nat, NEW vs \in Texts
  PROVE  Wrote(s, copydata(s, b, at, vs), b, at, vs) /\ SameCount(s, copydata(s, b, at, vs), b)
  <1>1. PICK fault : fault = Fault("overrun", ~(at .. at + Len(vs) - 1 \subseteq Cells(s, b)))
                               \cup Fault("move", HasLifetime /\ \E i \in (at .. at + Len(vs) - 1) \cap Cells(s, b) : Cell(s, b, i) = Raw)
    OBVIOUS
  <1>2. fault \in SUBSET Faults
    BY <1>1 DEF Fault, Faults
  <1>3. PICK t : t = copydata(s, b, at, vs) OBVIOUS
  <1>4. t = SetCells(s, b, [i \in Cells(s, b) |-> IF i \in at .. at + Len(vs) - 1 THEN vs[i - at + 1]
                                                  ELSE Cell(s, b, i)], fault)
    BY <1>1, <1>3 DEF copydata
  <1>5. Wrote(s, t, b, at, vs) /\ SameCount(s, t, b)
    BY <1>2, <1>4, WroteIs
  <1> QED BY <1>3, <1>5

\* The cells below n keep what they hold.
Spares(s, t, b, n) == Alters(s, t, b) /\ \A i \in Nat : i < n => Cell(t, b, i) = Cell(s, b, i)

LEMMA DestructorSpares ==
  ASSUME NEW s \in States, NEW b \in Blocks, NEW n \in Nat, NEW m \in Nat
  PROVE  Spares(s, destructorarray(s, b, n, m), b, n)
  <1>1. PICK t : t = destructorarray(s, b, n, m) OBVIOUS
  <1>2. CASE ~HasLifetime
    BY <1>1, <1>2 DEF destructorarray, Spares, Alters, AltersBoth, SameView
  <1>3. CASE HasLifetime
    <2>1. PICK f : f = [i \in Cells(s, b) |-> IF i \in n .. m - 1 THEN Raw ELSE Cell(s, b, i)] OBVIOUS
    <2>2. PICK fault : fault = Fault("destruct", \E i \in n .. m - 1 : Cell(s, b, i) = Raw) OBVIOUS
    <2>3. fault \in SUBSET Faults
      BY <2>2 DEF Fault, Faults
    <2>4. f \in [Cells(s, b) -> CellValues]
      BY <2>1, CellIs DEF CellValues
    <2>5. t = SetCells(s, b, f, fault)
      BY <1>1, <1>3, <2>1, <2>2 DEF destructorarray
    <2>6. Alters(s, t, b) /\ \A i : Cell(t, b, i) = IF i \in Cells(s, b) THEN f[i] ELSE Raw
      BY <2>3, <2>4, <2>5, SetCellsCell
    <2>7. ASSUME NEW i \in Nat, i < n PROVE Cell(t, b, i) = Cell(s, b, i)
      BY <2>1, <2>6, <2>7, CellIs
    <2> QED BY <1>1, <2>6, <2>7 DEF Spares
  <1> QED BY <1>2, <1>3

\* The n objects from cell src of block c are in the cells from dst on of block b.
Shifts(s, t, b, dst, c, src, n) ==
  /\ AltersBoth(s, t, b, c) /\ SameCount(s, t, b) /\ SameCount(s, t, c)
  /\ \A i \in Nat : i < n /\ dst + i \in Cells(s, b) => Cell(t, b, dst + i) = Cell(s, c, src + i)
  /\ \A i \in Nat : i \notin dst .. dst + n - 1 /\ (b = c => i \notin src .. src + n - 1) =>
       Cell(t, b, i) = Cell(s, b, i)
  /\ b # c => \A i \in Nat : i \notin src .. src + n - 1 => Cell(t, c, i) = Cell(s, c, i)

LEMMA MoveShifts ==
  ASSUME NEW s \in States, NEW b \in Blocks, NEW dst \in Nat, NEW c \in Blocks, NEW src \in Nat, NEW n \in Nat,
         NEW destIsInit \in BOOLEAN
  PROVE  Shifts(s, movedataX(s, b, dst, c, src, n, destIsInit), b, dst, c, src, n)
  <1> DEFINE from == src .. src + n - 1
             to   == dst .. dst + n - 1
             left == IF b = c THEN from \ to ELSE from
             taken == IF b = c THEN to \ from ELSE to
             vs   == [i \in 1 .. n |-> Cell(s, c, src + i - 1)]
             void == IF HasLifetime THEN Raw ELSE Zero
             fault == Fault("move", HasLifetime /\ (\/ \E i \in 1 .. n : vs[i] = Raw
                                                    \/ \E i \in taken : (Cell(s, b, i) # Raw) # destIsInit))
             f == [i \in Cells(s, c) |-> IF i \in left THEN void ELSE Cell(s, c, i)]
             u == SetCells(s, c, f, fault)
             g == [i \in Cells(u, b) |-> IF i \in to THEN vs[i - dst + 1] ELSE u.heap[b].fdata[i]]
             t == movedataX(s, b, dst, c, src, n, destIsInit)
  <1>1. f \in [Cells(s, c) -> CellValues]
    BY CellIs DEF CellValues
  <1>2. fault \in SUBSET Faults
    BY DEF Fault, Faults
  <1>3. t = Put(u, b, dst, n, vs)
    BY DEF movedataX, Put
  <1>4. t = SetCells(u, b, g, {})
    BY <1>3 DEF Put
  <1>5. \A i \in 1 .. n : vs[i] = Cell(s, c, src + i - 1) /\ vs[i] \in CellValues
    BY CellIs
  <1>6. \A i \in to : i - dst + 1 \in 1 .. n OBVIOUS
  <1> HIDE DEF fault, vs
  <1>7. /\ Alters(s, u, c) /\ SameCount(s, u, c)
        /\ \A i : Cell(u, c, i) = IF i \in Cells(s, c) THEN f[i] ELSE Raw
    <2> HIDE DEF f
    <2> QED BY <1>1, <1>2, SetCellsCell
  <1>8. u \in States /\ Cells(u, b) = Cells(s, b)
    <2> HIDE DEF u
    <2> QED BY <1>7 DEF Alters, AltersBoth
  <1>9. g \in [Cells(u, b) -> CellValues]
    <2> HIDE DEF u
    <2>1. u.heap[b].fdata \in [Cells(u, b) -> CellValues]
      BY <1>8, CellsAre
    <2> QED BY <1>5, <1>6, <2>1
  <1>10. PICK none \in SUBSET Faults : none = {} OBVIOUS
  <1>11. /\ Alters(u, t, b) /\ SameCount(u, t, b)
         /\ \A i : Cell(t, b, i) = IF i \in Cells(u, b) THEN g[i] ELSE Raw
    <2> HIDE DEF g, u, t
    <2>1. t = SetCells(u, b, g, none)
      BY <1>4, <1>10
    <2> QED BY <1>8, <1>9, <2>1, SetCellsCell
  <1>12. AltersBoth(s, t, b, c)
    <2> HIDE DEF u, t
    <2> QED BY <1>7, <1>11 DEF Alters, AltersBoth, SameView
  <1>13. SameCount(s, t, b) /\ SameCount(s, t, c)
    <2> HIDE DEF u, t
    <2> QED BY <1>7, <1>11 DEF SameCount, Alters, AltersBoth
  <1>14. ASSUME NEW i \in Nat, i < n, dst + i \in Cells(s, b)
         PROVE  Cell(t, b, dst + i) = Cell(s, c, src + i)
    <2>1. PICK j \in Nat : j = dst + i OBVIOUS
    <2>2. j \in to /\ j \in Cells(u, b)
      BY <1>8, <1>14, <2>1
    <2>3. g[j] = vs[j - dst + 1]
      BY <2>2
    <2>4. j - dst + 1 = i + 1 /\ i + 1 \in 1 .. n /\ src + (i + 1) - 1 = src + i
      BY <1>14, <2>1
    <2>5. vs[i + 1] = Cell(s, c, src + (i + 1) - 1)
      BY <1>5, <2>4
    <2> HIDE DEF g, u, t
    <2> QED BY <1>11, <2>1, <2>2, <2>3, <2>4, <2>5
  <1>15. ASSUME NEW i \in Nat, i \notin to, b = c => i \notin from
         PROVE  Cell(t, b, i) = Cell(s, b, i)
    <2>1. i \in Cells(u, b) => g[i] = u.heap[b].fdata[i]
      BY <1>15
    <2>2. i \in Cells(u, b) => u.heap[b].fdata[i] = Cell(u, b, i)
      BY <1>8, CellIs
    <2>3. Cell(u, b, i) = Cell(s, b, i)
      <3>1. CASE b = c
        <4>1. i \in Cells(s, c) => f[i] = Cell(s, c, i)
          BY <1>15, <3>1
        <4> HIDE DEF f, u
        <4> QED BY <1>7, <3>1, <4>1, CellIs
      <3>2. CASE b # c
        <4>1. u.heap[b] = s.heap[b]
          BY <1>7, <3>2 DEF Alters, AltersBoth
        <4> QED BY <4>1 DEF Cell, Cells
      <3> QED BY <3>1, <3>2
    <2>4. i \notin Cells(u, b) => Cell(s, b, i) = Raw
      BY <1>8, CellIs
    <2> HIDE DEF g, u, t
    <2> QED BY <1>11, <2>1, <2>2, <2>3, <2>4
  <1>19. ASSUME b # c, NEW i \in Nat, i \notin from
         PROVE  Cell(t, c, i) = Cell(s, c, i)
    <2>1. i \in Cells(s, c) => f[i] = Cell(s, c, i)
      BY <1>19
    <2> HIDE DEF t, u, f
    <2>2. Cell(u, c, i) = Cell(s, c, i)
      BY <1>7, <2>1, CellIs
    <2>3. t.heap[c] = u.heap[c]
      BY <1>11, <1>19 DEF Alters, AltersBoth
    <2> QED BY <2>2, <2>3 DEF Cell, Cells
  <1> HIDE DEF t, u, f, g
  <1>16. \A i \in Nat : i < n /\ dst + i \in Cells(s, b) => Cell(t, b, dst + i) = Cell(s, c, src + i)
    BY <1>14
  <1>17. \A i \in Nat : i \notin dst .. dst + n - 1 /\ (b = c => i \notin src .. src + n - 1) =>
           Cell(t, b, i) = Cell(s, b, i)
    BY <1>15
  <1>18. Shifts(s, t, b, dst, c, src, n)
    <2>1. b # c => \A i \in Nat : i \notin src .. src + n - 1 => Cell(t, c, i) = Cell(s, c, i)
      BY <1>19
    <2> QED BY <1>12, <1>13, <1>16, <1>17, <2>1 DEF Shifts
  <1> QED BY <1>18 DEF t

LEMMA SameDataCells ==
  ASSUME NEW s, NEW t, NEW b, t.heap[b].fdata = s.heap[b].fdata
  PROVE  Cells(t, b) = Cells(s, b) /\ \A i : Cell(t, b, i) = Cell(s, b, i)
  BY DEF Cell, Cells

LEMMA FromWrote ==
  ASSUME NEW s \in States, NEW b \in Blocks, NEW at \in Nat, NEW vs \in Texts
  PROVE  Wrote(s, ConstructFrom(s, b, at, vs), b, at, vs)
  <1>1. PICK u : u = constructorarray(s, b, at, vs) OBVIOUS
  <1>2. Wrote(s, u, b, at, vs)
    BY <1>1, ConstructorWrote
  <1>3. PICK n \in Nat : n = Larger(s.heap[b].countchars, at + Len(vs))
    BY CellsAre DEF Texts, Headers, Larger
  <1>4. PICK t : t = set_size(u, b, n) OBVIOUS
  <1>5. u \in States /\ Alters(s, u, b)
    BY <1>2 DEF Wrote, Alters, AltersBoth
  <1>6. Alters(u, t, b) /\ \A c \in Blocks : t.heap[c].fdata = u.heap[c].fdata
    BY <1>4, <1>5, SetSize
  <1>7. Alters(s, t, b)
    BY <1>5, <1>6 DEF Alters, AltersBoth, SameView
  <1>8. \A i : Cell(t, b, i) = Cell(u, b, i)
    BY <1>6, SameDataCells
  <1>9. Wrote(s, t, b, at, vs)
    BY <1>2, <1>7, <1>8 DEF Wrote
  <1>10. t = ConstructFrom(s, b, at, vs)
    BY <1>1, <1>3, <1>4 DEF ConstructFrom
  <1> QED BY <1>9, <1>10

LEMMA FromSpares ==
  ASSUME NEW s \in States, NEW b \in Blocks, NEW n \in Nat
  PROVE  Spares(s, DestructFrom(s, b, n), b, n)
  <1>1. PICK m \in Nat : m = s.heap[b].countchars
    BY CellsAre DEF Headers
  <1>2. PICK u : u = IF n < m THEN destructorarray(s, b, n, m) ELSE s OBVIOUS
  <1>3. Spares(s, u, b, n)
    <2>1. CASE n < m
      BY <1>2, <2>1, DestructorSpares
    <2>2. CASE ~(n < m)
      BY <1>2, <2>2 DEF Spares, Alters, AltersBoth, SameView
    <2> QED BY <2>1, <2>2
  <1>4. PICK t : t = set_size(u, b, n) OBVIOUS
  <1>5. u \in States /\ Alters(s, u, b)
    BY <1>3 DEF Spares, Alters, AltersBoth
  <1>6. Alters(u, t, b) /\ \A c \in Blocks : t.heap[c].fdata = u.heap[c].fdata
    BY <1>4, <1>5, SetSize
  <1>7. Alters(s, t, b)
    BY <1>5, <1>6 DEF Alters, AltersBoth, SameView
  <1>8. \A i : Cell(t, b, i) = Cell(u, b, i)
    BY <1>6, SameDataCells
  <1>9. Spares(s, t, b, n)
    BY <1>3, <1>7, <1>8 DEF Spares
  <1>10. t = DestructFrom(s, b, n)
    BY <1>1, <1>2, <1>4 DEF DestructFrom
  <1> QED BY <1>9, <1>10

\* decuse changes no other block.
LEMMA DecuseOnly ==
  ASSUME NEW s \in States, NEW b \in Blocks
  PROVE  /\ decuse(s, b) \in States /\ SameView(s, decuse(s, b))
         /\ \A c \in Blocks : c # b => decuse(s, b).heap[c] = s.heap[c]
  <1>0. s.heap[b] \in Headers
    BY CellsAre
  <1>1. PICK m \in Nat : m = s.heap[b].countchars
    BY <1>0 DEF Headers
  <1>2. CASE s.heap[b].refcnt <= 1
    <2>1. PICK u : u = destructorarray(s, b, 0, m) OBVIOUS
    <2>2. u \in States /\ SameView(s, u) /\ \A c \in Blocks : c # b => u.heap[c] = s.heap[c]
      BY <2>1, DestructorSpares DEF Spares, Alters, AltersBoth
    <2>3. PICK fault : fault = Fault("lost", HasLifetime /\ \E i \in Cells(u, b) : Cell(u, b, i) # Raw) OBVIOUS
    <2>4. fault \in SUBSET Faults
      BY <2>3 DEF Fault, Faults
    <2>5. PICK v : v = Rehead(u, b, Freed, fault) OBVIOUS
    <2>6. Reheads(u, v, b)
      BY <2>2, <2>4, <2>5, Reheaded, FreedIs
    <2>7. v = decuse(s, b)
      BY <1>1, <1>2, <2>1, <2>3, <2>5 DEF decuse, freed, Rehead
    <2> QED BY <2>2, <2>6, <2>7 DEF Reheads, SameView
  <1>3. CASE s.heap[b].refcnt > 1
    <2>1. Reheads(s, decuse(s, b), b)
      BY <1>3, LessUse
    <2> QED BY <2>1 DEF Reheads
  <1> QED BY <1>0, <1>2, <1>3 DEF Headers

-----------------------------------------------------------------------------
(* What an array shows. *)

\* The i-th of the elements p points at; the i-th element of an array.
Item(s, p, i) == IF p.fstorage = Null THEN p.data[p.sdata + i + 1] ELSE Cell(s, p.fstorage, p.sdata + i)
Elem(s, i) == Item(s, Pointer(s), i)

LEMMA ElemIs ==
  ASSUME NEW s, s.fstorage # Null, NEW i
  PROVE  Elem(s, i) = Cell(s, s.fstorage, s.sdata + i)
  BY DEF Elem, Item, Pointer

LEMMA ReadIs ==
  ASSUME NEW s, NEW p, p.sdata \in Nat, NEW from \in Nat, NEW n \in Nat
  PROVE  /\ DOMAIN Read(s, p, from, n) = 1 .. n
         /\ \A i \in Nat : i < n => Read(s, p, from, n)[i + 1] = Item(s, p, from + i)
  <1>1. ASSUME NEW i \in Nat, i < n PROVE Read(s, p, from, n)[i + 1] = Item(s, p, from + i)
    <2>1. PICK j \in 1 .. n : j = i + 1
      BY <1>1
    <2>2. Read(s, p, from, n)[j] = IF p.fstorage = Null THEN p.data[p.sdata + from + j]
                                   ELSE Cell(s, p.fstorage, p.sdata + from + j - 1)
      BY DEF Read
    <2>3. p.sdata + from + j = p.sdata + (from + i) + 1 /\ p.sdata + from + j - 1 = p.sdata + (from + i)
      BY <2>1
    <2> QED BY <2>1, <2>2, <2>3 DEF Item
  <1>2. DOMAIN Read(s, p, from, n) = 1 .. n
    BY DEF Read
  <1> QED BY <1>1, <1>2

\* From s to t the array stays in its block, and no other block changes.
Inside(s, t) ==
  /\ t \in States /\ t.fstorage = s.fstorage
  /\ \A d \in Blocks : /\ t.heap[d].refcnt = s.heap[d].refcnt /\ Cells(t, d) = Cells(s, d)
                       /\ d # s.fstorage => t.heap[d] = s.heap[d]
\* The first n cells of the array's block, or elements of the array, are what they were.
Below(s, t, n) == \A i \in Nat : i < n => Cell(t, s.fstorage, i) = Cell(s, s.fstorage, i)
Retains(s, t, n) == \A i \in Nat : i < n => Elem(t, i) = Elem(s, i)

LEMMA AltersInside ==
  ASSUME NEW s, NEW t, Alters(s, t, s.fstorage)
  PROVE  Inside(s, t) /\ SameView(s, t)
  BY DEF Alters, AltersBoth, Inside, SameView

LEMMA InsideInside ==
  ASSUME NEW s, NEW t, NEW u, Inside(s, t), Inside(t, u)
  PROVE  Inside(s, u)
  <1>1. u \in States /\ u.fstorage = s.fstorage
    BY DEF Inside
  <1>2. ASSUME NEW d \in Blocks
        PROVE  /\ u.heap[d].refcnt = s.heap[d].refcnt /\ Cells(u, d) = Cells(s, d)
               /\ d # s.fstorage => u.heap[d] = s.heap[d]
    BY DEF Inside
  <1> QED BY <1>1, <1>2 DEF Inside

LEMMA BelowRetains ==
  ASSUME NEW s \in States, NEW t, Inside(s, t), t.sdata = s.sdata, NEW n \in Nat, Below(s, t, s.sdata + n)
  PROVE  Retains(s, t, n)
  <1>1. s.sdata \in Nat /\ t.fstorage = s.fstorage
    BY DEF States, Inside
  <1>2. ASSUME NEW i \in Nat, i < n PROVE Elem(t, i) = Elem(s, i)
    <2>1. CASE s.fstorage = Null
      BY <1>1, <2>1 DEF Elem, Item, Pointer
    <2>2. CASE s.fstorage # Null
      <3>1. s.sdata + i \in Nat /\ s.sdata + i < s.sdata + n
        BY <1>1, <1>2
      <3>2. Cell(t, s.fstorage, s.sdata + i) = Cell(s, s.fstorage, s.sdata + i)
        BY <3>1 DEF Below
      <3> QED BY <1>1, <2>2, <3>2, ElemIs
    <2> QED BY <2>1, <2>2
  <1> QED BY <1>2 DEF Retains

LEMMA UniqueBlock ==
  ASSUME NEW s \in States, isUnique(s)
  PROVE  s.fstorage \in Blocks /\ s.fstorage # Null /\ s.heap[s.fstorage].refcnt = 1
         /\ s.sdata \in Nat /\ s.fsize \in Nat /\ End(s) \in Nat
  BY DEF States, isUnique, Storage, End

LEMMA InsideUnique ==
  ASSUME NEW s \in States, isUnique(s), NEW t, Inside(s, t)
  PROVE  isUnique(t) /\ freserve(t, t.fstorage) = freserve(s, s.fstorage)
  <1>1. s.fstorage \in Blocks /\ s.fstorage # Null /\ s.heap[s.fstorage].refcnt = 1
    BY UniqueBlock
  <1>2. /\ t.fstorage = s.fstorage /\ t.heap[s.fstorage].refcnt = s.heap[s.fstorage].refcnt
        /\ Cells(t, s.fstorage) = Cells(s, s.fstorage)
    BY <1>1 DEF Inside
  <1> QED BY <1>1, <1>2 DEF isUnique, Storage, freserve

\* DestructStorageAtEnd.
LEMMA TrimKeeps ==
  ASSUME NEW s \in States
  PROVE  LET t == DestructStorageAtEnd(s) IN
         Inside(s, t) /\ SameView(s, t) /\ Below(s, t, End(s)) /\ Retains(s, t, s.fsize)
  <1>1. PICK t : t = DestructStorageAtEnd(s) OBVIOUS
  <1>2. Inside(s, t) /\ SameView(s, t) /\ Below(s, t, End(s))
    <2>1. CASE isUnique(s)
      <3>1. PICK n \in Nat : n = s.sdata + s.fsize /\ n = End(s)
        BY <2>1, UniqueBlock DEF End
      <3>2. s.fstorage \in Blocks /\ t = DestructFrom(s, s.fstorage, n)
        BY <1>1, <2>1, <3>1, UniqueBlock DEF DestructStorageAtEnd
      <3>3. Spares(s, t, s.fstorage, n)
        BY <3>2, FromSpares
      <3> QED BY <3>1, <3>3, AltersInside DEF Spares, Below
    <2>2. CASE ~isUnique(s)
      BY <1>1, <2>2 DEF DestructStorageAtEnd, Inside, SameView, Below
    <2> QED BY <2>1, <2>2
  <1>3. s.fsize \in Nat /\ End(s) = s.sdata + s.fsize /\ t.sdata = s.sdata
    BY <1>2 DEF States, End, SameView
  <1>4. Retains(s, t, s.fsize)
    BY <1>2, <1>3, BelowRetains
  <1> QED BY <1>1, <1>2, <1>4

\* putzero_toend.
LEMMA ZeroKeeps ==
  ASSUME NEW s \in States, s.fstorage \in Blocks
  PROVE  LET t == putzero_toend(s) IN Inside(s, t) /\ SameView(s, t) /\ Below(s, t, End(s))
  <1>1. PICK t : t = putzero_toend(s) OBVIOUS
  <1>2. CASE kind = "string"
    <2>1. PICK at \in Nat : at = s.sdata + s.fsize /\ at = End(s)
      BY DEF States, End
    <2>2. PICK vs : vs = <<Zero>> OBVIOUS
    <2>2a. vs \in Texts
      <3>1. Zero \in CellValues
        BY DEF CellValues
      <3> QED BY <2>2, <3>1 DEF Texts
    <2>3. Len(vs) = 1
      BY <2>2
    <2>4. t = constructorarray(s, s.fstorage, at, vs)
      BY <1>1, <1>2, <2>1, <2>2 DEF putzero_toend
    <2>5. Wrote(s, t, s.fstorage, at, vs)
      BY <2>2a, <2>4, ConstructorWrote
    <2>6. ASSUME NEW i \in Nat, i < at PROVE Cell(t, s.fstorage, i) = Cell(s, s.fstorage, i)
      BY <2>3, <2>5, <2>6 DEF Wrote
    <2>7. Below(s, t, End(s))
      BY <2>1, <2>6 DEF Below
    <2> QED BY <1>1, <2>5, <2>7, AltersInside DEF Wrote
  <1>3. CASE kind # "string"
    BY <1>1, <1>3 DEF putzero_toend, Inside, SameView, Below
  <1> QED BY <1>2, <1>3

\* set_fsize.
LEMMA SizeKeeps ==
  ASSUME NEW s \in States, NEW n \in Nat
  PROVE  LET t == set_fsize(s, n) IN
         Inside(s, t) /\ t.sdata = s.sdata /\ t.fsize = n /\ Below(s, t, s.sdata + n) /\ Retains(s, t, n)
  <1>1. PICK t : t = set_fsize(s, n) OBVIOUS
  <1>2. PICK v : v = [s EXCEPT !.fsize = n] OBVIOUS
  <1>3. v \in States /\ v.heap = s.heap /\ v.fstorage = s.fstorage /\ v.sdata = s.sdata /\ v.fsize = n
    BY <1>2, Resized
  <1>4. Inside(s, v) /\ \A k : Below(s, v, k)
    BY <1>3 DEF Inside, Cells, Below, Cell
  <1>5. Inside(s, t) /\ t.sdata = s.sdata /\ t.fsize = n /\ Below(s, t, s.sdata + n)
    <2>1. CASE isUnique(s)
      <3>1. PICK u : u = DestructStorageAtEnd(v) OBVIOUS
      <3>2. Inside(v, u) /\ SameView(v, u) /\ Below(v, u, End(v))
        BY <1>3, <3>1, TrimKeeps
      <3>3. u \in States /\ u.fstorage \in Blocks
        BY <1>3, <2>1, <3>2, UniqueBlock DEF Inside
      <3>4. t = putzero_toend(u)
        BY <1>1, <1>2, <2>1, <3>1 DEF set_fsize
      <3>5. Inside(u, t) /\ SameView(u, t) /\ Below(u, t, End(u))
        BY <3>3, <3>4, ZeroKeeps
      <3>6. Inside(s, t)
        BY <1>4, <3>2, <3>5, InsideInside
      <3>7. t.sdata = s.sdata /\ t.fsize = n /\ End(u) = s.sdata + n /\ End(v) = s.sdata + n
        BY <1>3, <3>2, <3>5 DEF SameView, End
      <3>8. Below(s, t, s.sdata + n)
        BY <1>3, <1>4, <3>2, <3>5, <3>7 DEF Below, SameView
      <3> QED BY <3>6, <3>7, <3>8
    <2>2. CASE ~isUnique(s)
      <3>1. t = v
        BY <1>1, <1>2, <2>2 DEF set_fsize
      <3> QED BY <1>3, <1>4, <3>1
    <2> QED BY <2>1, <2>2
  <1>6. Retains(s, t, n)
    BY <1>5, BelowRetains
  <1> QED BY <1>1, <1>5, <1>6

\* repack.
LEMMA SdataSet ==
  ASSUME NEW s \in States, NEW n \in Nat
  PROVE  LET t == [s EXCEPT !.sdata = n] IN
         /\ t \in States /\ t.heap = s.heap /\ t.faults = s.faults
         /\ t.fstorage = s.fstorage /\ t.sdata = n /\ t.fsize = s.fsize
  BY DEF States

LEMMA FrontKeeps ==
  ASSUME NEW s \in States, isUnique(s), End(s) <= freserve(s, s.fstorage)
  PROVE  LET t == MovedToFront(s) IN
         Inside(s, t) /\ t.sdata = 0 /\ t.fsize = s.fsize /\ Retains(s, t, s.fsize)
  <1>1. PICK b \in Blocks, at \in Nat, n \in Nat, f \in Nat :
          b = s.fstorage /\ at = s.sdata /\ n = s.fsize /\ f = freserve(s, b) /\ Cells(s, b) = 0 .. f - 1
    BY UniqueBlock, CellsAre
  <1>2. b # Null /\ at + n <= f
    BY <1>1, UniqueBlock DEF End
  <1>3. PICK u : u = DestructStorageAtEnd(s) OBVIOUS
  <1>4. Inside(s, u) /\ SameView(s, u) /\ Retains(s, u, n)
    BY <1>1, <1>3, TrimKeeps
  <1>5. u \in States /\ Cells(u, b) = 0 .. f - 1
    BY <1>1, <1>4 DEF Inside
  <1>6. PICK v : v = movedataX(u, b, 0, b, at, n, TRUE) OBVIOUS
  <1>7. Shifts(u, v, b, 0, b, at, n)
    BY <1>5, <1>6, MoveShifts
  <1>8. v \in States /\ Alters(u, v, b)
    BY <1>7 DEF Shifts, Alters, AltersBoth
  <1>9. PICK w : w = set_size(v, b, at) OBVIOUS
  <1>10. Alters(v, w, b) /\ w.heap[b].fdata = v.heap[b].fdata
    BY <1>8, <1>9, SetSize
  <1>11. PICK x : x = [w EXCEPT !.sdata = 0] OBVIOUS
  <1>12. w \in States /\ Alters(u, w, b) /\ w.fstorage = b /\ w.fsize = n
    BY <1>1, <1>4, <1>8, <1>10 DEF Alters, AltersBoth, SameView
  <1>13. /\ x \in States /\ x.heap = w.heap /\ x.fstorage = b /\ x.sdata = 0 /\ x.fsize = n
    BY <1>11, <1>12, SdataSet
  <1>14. Inside(u, x)
    <2>1. u.fstorage = b
      BY <1>1, <1>4 DEF SameView
    <2> QED BY <1>12, <1>13, <2>1 DEF Alters, AltersBoth, Inside, Cells
  <1>15. PICK t : t = DestructStorageAtEnd(x) OBVIOUS
  <1>16. Inside(x, t) /\ SameView(x, t) /\ Retains(x, t, n)
    BY <1>13, <1>15, TrimKeeps
  <1>17. Inside(s, t)
    BY <1>4, <1>14, <1>16, InsideInside
  <1>18. ASSUME NEW i \in Nat, i < n PROVE Elem(t, i) = Elem(s, i)
    <2>1. Elem(t, i) = Elem(x, i) /\ Elem(u, i) = Elem(s, i)
      BY <1>4, <1>16, <1>18 DEF Retains
    <2>2. Elem(x, i) = Cell(x, b, 0 + i) /\ Elem(u, i) = Cell(u, b, at + i)
      BY <1>1, <1>2, <1>4, <1>13, ElemIs DEF SameView
    <2>3. Cell(x, b, 0 + i) = Cell(v, b, 0 + i)
      BY <1>10, <1>13, SameDataCells DEF Cell, Cells
    <2>4. 0 + i \in Cells(u, b)
      BY <1>2, <1>5, <1>18
    <2>5. Cell(v, b, 0 + i) = Cell(u, b, at + i)
      BY <1>7, <1>18, <2>4 DEF Shifts
    <2> QED BY <2>1, <2>2, <2>3, <2>5
  <1>19. Retains(s, t, n)
    BY <1>18 DEF Retains
  <1>20. t = MovedToFront(s)
    BY <1>1, <1>3, <1>6, <1>9, <1>11, <1>15 DEF MovedToFront
  <1> QED BY <1>1, <1>13, <1>16, <1>17, <1>19, <1>20 DEF SameView

LEMMA RepackKeeps ==
  ASSUME NEW s \in States, isUnique(s), End(s) <= freserve(s, s.fstorage)
  PROVE  LET t == repack(s) IN Inside(s, t) /\ t.fsize = s.fsize /\ Retains(s, t, s.fsize)
  <1>1. startshift(s) = s.sdata
    BY DEF startshift, isUnique
  <1>2. CASE s.fsize = 0 \/ s.sdata = 0
    <2>1. repack(s) = s
      BY <1>1, <1>2 DEF repack
    <2> QED BY <2>1 DEF Inside, Retains
  <1>3. CASE ~(s.fsize = 0 \/ s.sdata = 0)
    <2>1. repack(s) = MovedToFront(s)
      BY <1>1, <1>3 DEF repack, MovedToFront
    <2> QED BY <2>1, FrontKeeps
  <1> QED BY <1>2, <1>3

\* The first n elements are the old ones, and default values behind them.
Extends(s, t, n) == \A i \in Nat : i < n => Elem(t, i) = IF i < s.fsize THEN Elem(s, i) ELSE Zero

LEMMA RetainsExtends ==
  ASSUME NEW s, NEW t, NEW n \in Nat, s.fsize \in Nat, n <= s.fsize
  PROVE  Retains(s, t, n) <=> Extends(s, t, n)
  BY DEF Retains, Extends

LEMMA DefaultTexts ==
  ASSUME NEW n \in Nat
  PROVE  /\ [i \in 1 .. n |-> Zero] \in Texts /\ Len([i \in 1 .. n |-> Zero]) = n
         /\ \A i \in 1 .. n : [j \in 1 .. n |-> Zero][i] = Zero
  BY Defaults DEF Objects, Texts

\* GrowHere.
LEMMA GrowKeeps ==
  ASSUME NEW s \in States, isUnique(s), NEW n \in Nat, s.fsize <= n, NEW opts
  PROVE  LET t == GrowHere(s, n, opts) IN
         /\ Inside(s, t) /\ t.sdata = s.sdata /\ t.fsize = n /\ Retains(s, t, s.fsize)
         /\ "NoNew" \notin opts /\ s.sdata + n <= freserve(s, s.fstorage) => Extends(s, t, n)
  <1>1. PICK b \in Blocks, at \in Nat, k \in Nat, f \in Nat :
          /\ b = s.fstorage /\ at = s.sdata + s.fsize /\ k = n - s.fsize
          /\ f = freserve(s, b) /\ Cells(s, b) = 0 .. f - 1
    <2>1. s.fstorage \in Blocks /\ s.sdata \in Nat /\ s.fsize \in Nat
      BY UniqueBlock
    <2>2. s.sdata + s.fsize \in Nat /\ n - s.fsize \in Nat
      BY <2>1
    <2> QED BY <2>1, <2>2, CellsAre
  <1>2. b # Null /\ s.sdata \in Nat /\ s.fsize \in Nat
    BY <1>1, UniqueBlock
  <1>3. PICK vs : vs = [i \in 1 .. k |-> Zero] OBVIOUS
  <1>4. vs \in Texts /\ Len(vs) = k /\ \A i \in 1 .. k : vs[i] = Zero
    BY <1>3, DefaultTexts
  <1>5. PICK u : u = IF "NoNew" \in opts THEN s ELSE ConstructFrom(s, b, at, vs) OBVIOUS
  <1>6. "NoNew" \notin opts => Wrote(s, u, b, at, vs)
    BY <1>4, <1>5, FromWrote
  <1>7. Inside(s, u) /\ SameView(s, u)
    <2>1. CASE "NoNew" \in opts
      BY <1>5, <2>1 DEF Inside, SameView
    <2>2. CASE "NoNew" \notin opts
      BY <1>1, <1>6, <2>2, AltersInside DEF Wrote
    <2> QED BY <2>1, <2>2
  <1>8. ASSUME NEW i \in Nat, i < s.fsize PROVE Elem(u, i) = Elem(s, i)
    <2>1. CASE "NoNew" \in opts
      BY <1>5, <2>1
    <2>2. CASE "NoNew" \notin opts
      <3>1. PICK j \in Nat : j = s.sdata + i /\ j < at
        BY <1>1, <1>2, <1>8
      <3>2. Cell(u, b, j) = Cell(s, b, j)
        BY <1>6, <2>2, <3>1 DEF Wrote
      <3>3. Elem(u, i) = Cell(u, b, j) /\ Elem(s, i) = Cell(s, b, j)
        BY <1>1, <1>2, <1>7, <3>1, ElemIs DEF SameView
      <3> QED BY <3>2, <3>3
    <2> QED BY <2>1, <2>2
  <1>9. ASSUME "NoNew" \notin opts, s.sdata + n <= f, NEW i \in Nat, s.fsize <= i, i < n PROVE Elem(u, i) = Zero
    <2>1. PICK j \in Nat : j = s.sdata + i
      BY <1>2
    <2>2. j \in at .. at + k - 1 /\ j \in 0 .. f - 1 /\ j - at + 1 \in 1 .. k
      <3>1. PICK d \in Nat, m \in Nat : d = s.sdata /\ m = s.fsize
        BY <1>2
      <3>2. at = d + m /\ k = n - m /\ j = d + i /\ m <= i /\ i < n /\ d + n <= f
        BY <1>1, <1>9, <2>1, <3>1
      <3> QED BY <3>2
    <2>3. Cell(u, b, j) = vs[j - at + 1]
      BY <1>1, <1>4, <1>6, <1>9, <2>2 DEF Wrote
    <2>4. Elem(u, i) = Cell(u, b, j)
      BY <1>1, <1>2, <1>7, <2>1, ElemIs DEF SameView
    <2> QED BY <1>4, <2>2, <2>3, <2>4
  <1>10. PICK t : t = set_fsize(u, n) OBVIOUS
  <1>11. Inside(u, t) /\ t.sdata = u.sdata /\ t.fsize = n /\ Retains(u, t, n)
    <2>1. u \in States
      BY <1>7 DEF Inside
    <2> QED BY <1>10, <2>1, SizeKeeps
  <1>12. Inside(s, t) /\ t.sdata = s.sdata
    BY <1>7, <1>11, InsideInside DEF SameView
  <1>13. Retains(s, t, s.fsize)
    BY <1>2, <1>8, <1>11 DEF Retains
  <1>14. "NoNew" \notin opts /\ s.sdata + n <= f => Extends(s, t, n)
    BY <1>2, <1>8, <1>9, <1>11 DEF Retains, Extends
  <1>15. t = GrowHere(s, n, opts)
    BY <1>1, <1>3, <1>5, <1>10 DEF GrowHere, ConstructFor
  <1> QED BY <1>1, <1>11, <1>12, <1>13, <1>14, <1>15

LEMMA SoundIs ==
  ASSUME NEW s, NEW r, Sound(s, r)
  PROVE  /\ s \in States /\ s.sdata \in Nat /\ s.fsize \in Nat
         /\ s.fstorage = Null \/ (s.fstorage # Null /\ s.fstorage \in Blocks)
         /\ End(s) = s.sdata + s.fsize
         /\ isUnique(s) => End(s) <= freserve(s, s.fstorage)
  <1>1. /\ s \in States /\ s.sdata \in Nat /\ s.fsize \in Nat
        /\ s.fstorage = Null \/ (s.fstorage # Null /\ s.fstorage \in Blocks)
    BY Unique, NullAssumption DEF Sound
  <1>2. ASSUME isUnique(s) PROVE End(s) <= freserve(s, s.fstorage)
    <2>1. s.fstorage \in Blocks /\ End(s) \in Nat
      BY <1>1, <1>2, UniqueBlock
    <2>2. freserve(s, s.fstorage) \in Nat /\ Count(s) \in Nat
      BY <1>1, <2>1, CellsAre DEF Headers, Count
    <2>3. End(s) <= Count(s) /\ Count(s) <= freserve(s, s.fstorage)
      BY <1>2, SoundOwner
    <2> QED BY <2>1, <2>2, <2>3
  <1> QED BY <1>1, <1>2 DEF End

LEMMA TrimmedFits ==
  ASSUME NEW s, NEW r, Sound(s, r), isUnique(s), NEW u, u = DestructStorageAtEnd(s)
  PROVE  u \in States /\ isUnique(u) /\ End(u) <= freserve(u, u.fstorage)
         /\ Inside(s, u) /\ u.fsize = s.fsize /\ Retains(s, u, s.fsize)
  <1>1. s \in States /\ s.fsize \in Nat
    BY SoundIs
  <1>2. Inside(s, u) /\ SameView(s, u) /\ Retains(s, u, s.fsize)
    BY <1>1, TrimKeeps
  <1>3. isUnique(u)
    BY <1>1, <1>2, InsideUnique
  <1>4. Sound(u, r)
    BY SoundTrimmed
  <1> QED BY <1>2, <1>3, <1>4, SoundIs DEF SameView

\* A resize in the array's own block.
LEMMA ReadyKeeps ==
  ASSUME NEW s, NEW r, Sound(s, r), isUnique(s), NEW n
  PROVE  LET t == Ready(s, n) IN Inside(s, t) /\ t.fsize = s.fsize /\ Retains(s, t, s.fsize)
  <1>1. PICK u : u = DestructStorageAtEnd(s) OBVIOUS
  <1>2. /\ u \in States /\ isUnique(u) /\ End(u) <= freserve(u, u.fstorage)
        /\ Inside(s, u) /\ u.fsize = s.fsize /\ Retains(s, u, s.fsize)
    BY <1>1, TrimmedFits
  <1>3. PICK v : v = repack(u) OBVIOUS
  <1>4. Inside(u, v) /\ v.fsize = u.fsize /\ Retains(u, v, u.fsize)
    BY <1>2, <1>3, RepackKeeps
  <1>5. Inside(s, v)
    BY <1>2, <1>4, InsideInside
  <1>6. Retains(s, v, s.fsize)
    BY <1>2, <1>4 DEF Retains
  <1>7. Ready(s, n) = IF n <= capacity(s) THEN u ELSE v
    BY <1>1, <1>3 DEF Ready
  <1> QED BY <1>2, <1>4, <1>5, <1>6, <1>7

LEMMA InPlaceExtends ==
  ASSUME NEW s, NEW r, Sound(s, r), NEW n \in Nat, s.fsize < n, InPlace(s, n), NEW opts
  PROVE  LET t == doresize(s, n, opts) IN
         /\ Retains(s, t, s.fsize)
         /\ "NoNew" \notin opts /\ "overrun" \notin t.faults => Extends(s, t, n)
  <1>1. PICK u : u = Ready(s, n) OBVIOUS
  <1>2. isUnique(s) /\ s \in States /\ s.fsize \in Nat
    BY SoundIs DEF InPlace
  <1>3. Inside(s, u) /\ u.fsize = s.fsize /\ Retains(s, u, s.fsize)
    BY <1>1, <1>2, ReadyKeeps
  <1>4. u \in States /\ isUnique(u) /\ u.fsize <= n
    BY <1>2, <1>3, InsideUnique DEF Inside
  <1>5. PICK t : t = GrowHere(u, n, opts) OBVIOUS
  <1>6. /\ Inside(u, t) /\ t.sdata = u.sdata /\ t.fsize = n /\ Retains(u, t, u.fsize)
        /\ "NoNew" \notin opts /\ u.sdata + n <= freserve(u, u.fstorage) => Extends(u, t, n)
    BY <1>4, <1>5, GrowKeeps
  <1>7. t = doresize(s, n, opts)
    <2>1. doresize(s, n, opts) = GrowHere(IF n <= capacity(s) THEN DestructStorageAtEnd(s)
                                          ELSE repack(DestructStorageAtEnd(s)), n, opts)
      BY <1>2 DEF doresize, InPlace
    <2> QED BY <1>1, <1>5, <2>1 DEF Ready
  <1>8. Retains(s, t, s.fsize)
    BY <1>3, <1>6 DEF Retains
  <1>9. ASSUME "NoNew" \notin opts, "overrun" \notin t.faults PROVE Extends(s, t, n)
    <2>1. GrownAs(s, r, t, n, opts)
      BY <1>7, GrownInPlace
    <2>2. End(t) <= freserve(t, t.fstorage)
      BY <1>9, <2>1 DEF GrownAs
    <2>3. freserve(t, t.fstorage) = freserve(u, u.fstorage)
      BY <1>4, <1>6, InsideUnique
    <2>4. u.sdata + n <= freserve(u, u.fstorage)
      BY <1>6, <2>2, <2>3 DEF End
    <2>5. Extends(u, t, n)
      BY <1>6, <1>9, <2>4
    <2> QED BY <1>3, <2>5 DEF Extends, Retains
  <1> QED BY <1>7, <1>8, <1>9

\* What is read of a block that stays as it is.
LEMMA ReadSame ==
  ASSUME NEW s, NEW t, NEW p, p.fstorage # Null => t.heap[p.fstorage].fdata = s.heap[p.fstorage].fdata
  PROVE  /\ \A from, n : Read(t, p, from, n) = Read(s, p, from, n)
         /\ \A i : Item(t, p, i) = Item(s, p, i)
  <1>1. p.fstorage # Null => \A i : Cell(t, p.fstorage, i) = Cell(s, p.fstorage, i)
    BY SameDataCells
  <1>2. ASSUME NEW from, NEW n PROVE Read(t, p, from, n) = Read(s, p, from, n)
    BY <1>1 DEF Read
  <1>3. ASSUME NEW i PROVE Item(t, p, i) = Item(s, p, i)
    BY <1>1 DEF Item
  <1> QED BY <1>2, <1>3

LEMMA ViewTexts ==
  ASSUME NEW s, NEW r, Sound(s, r), NEW from \in Nat, NEW n \in Nat, from + n <= s.fsize
  PROVE  /\ View(s, from, n) \in Texts /\ Len(View(s, from, n)) = n
         /\ \A i \in Nat : i < n => View(s, from, n)[i + 1] = Elem(s, from + i)
  <1>1. PICK p : p = Pointer(s) OBVIOUS
  <1>2. PICK R : R = Plus(s, r) OBVIOUS
  <1>3. Readable(s, R, p, s.fsize) /\ s \in States /\ p.sdata \in Nat
    BY <1>1, <1>2, OwnReadable, SoundIs DEF Pointer
  <1>4. Objects(Read(s, p, from, n)) /\ Len(Read(s, p, from, n)) = n
    BY <1>3, ReadableObjects
  <1>5. \A i \in Nat : i < n => Read(s, p, from, n)[i + 1] = Item(s, p, from + i)
    BY <1>3, ReadIs
  <1> QED BY <1>1, <1>4, <1>5 DEF View, Elem, Objects, Texts

\* makenew: the elements in the new block.
LEMMA FillKeeps ==
  ASSUME NEW s, NEW r, Sound(s, r), NEW u, NEW b, NEW cnt, NEW cap, Filled(s, r, u, b, {}, cnt, cap),
         \A c \in Blocks : c # b => u.heap[c] = s.heap[c],
         NEW opts, "NoCopy" \notin opts, NEW n \in Nat, n <= s.fsize, n <= cap
  PROVE  \A i \in Nat : i < n => Cell(fillNew(u, b, n, opts), b, i) = Elem(s, i)
  <1>0. /\ s \in States /\ u \in States /\ SameView(s, u) /\ b \in Blocks /\ b # s.fstorage
        /\ s.sdata \in Nat /\ s.fsize \in Nat /\ cap \in Nat /\ Cells(u, b) = 0 .. cap - 1
        /\ s.fstorage = Null \/ (s.fstorage # Null /\ s.fstorage \in Blocks)
    BY SoundIs DEF Filled
  <1>1. Pointer(u) = Pointer(s)
    BY <1>0 DEF Pointer, SameView
  <1>2. /\ View(u, 0, n) = View(s, 0, n)
        /\ \A i : Item(u, Pointer(s), i) = Item(s, Pointer(s), i)
    <2>1. PICK p : p = Pointer(s) OBVIOUS
    <2>2. p.fstorage # Null => u.heap[p.fstorage].fdata = s.heap[p.fstorage].fdata
      BY <1>0, <2>1 DEF Pointer
    <2> QED BY <1>1, <2>1, <2>2, ReadSame DEF View
  <1>3. CASE s.fsize = 0
    BY <1>0, <1>3
  <1>4. CASE s.fsize # 0 /\ MI_ISMOVED /\ isUnique(u) /\ ~isSlice(u)
    <2>1. PICK c \in Blocks, at \in Nat : c = s.fstorage /\ at = s.sdata /\ c # b /\ c # Null
      BY <1>0, <1>4 DEF isUnique, SameView
    <2>2. PICK v : v = movedataX(u, b, 0, c, at, n, FALSE) OBVIOUS
    <2>3. Shifts(u, v, b, 0, c, at, n)
      BY <1>0, <2>1, <2>2, MoveShifts
    <2>4. v \in States
      BY <2>3 DEF Shifts, AltersBoth
    <2>5. PICK w : w = set_size(v, c, at) OBVIOUS
    <2>6. w.heap[b].fdata = v.heap[b].fdata
      BY <1>0, <2>4, <2>5, SetSize
    <2>7. w = fillNew(u, b, n, opts)
      BY <1>0, <1>4, <2>1, <2>2, <2>5 DEF fillNew, SameView
    <2>8. ASSUME NEW i \in Nat, i < n PROVE Cell(w, b, i) = Elem(s, i)
      <3>1. 0 + i \in Cells(u, b)
        BY <1>0, <2>8
      <3>2. Cell(v, b, 0 + i) = Cell(u, c, at + i)
        BY <2>3, <2>8, <3>1 DEF Shifts
      <3>3. u.heap[c] = s.heap[c]
        BY <2>1
      <3>4. Cell(u, c, at + i) = Cell(s, c, at + i)
        BY <3>3 DEF Cell, Cells
      <3>5. Elem(s, i) = Cell(s, c, at + i)
        BY <2>1, ElemIs
      <3>6. Cell(w, b, 0 + i) = Cell(v, b, 0 + i)
        BY <2>6, SameDataCells
      <3> QED BY <3>2, <3>4, <3>5, <3>6
    <2> QED BY <2>7, <2>8
  <1>5. CASE s.fsize # 0 /\ ~(MI_ISMOVED /\ isUnique(u) /\ ~isSlice(u))
    <2>1. PICK vs : vs = View(s, 0, n) OBVIOUS
    <2>2. vs \in Texts /\ Len(vs) = n /\ \A i \in Nat : i < n => vs[i + 1] = Elem(s, 0 + i)
      <3>1. 0 + n <= s.fsize OBVIOUS
      <3> QED BY <2>1, <3>1, ViewTexts
    <2>3. PICK w : w = ConstructFrom(u, b, 0, vs) OBVIOUS
    <2>4. Wrote(u, w, b, 0, vs)
      BY <1>0, <2>2, <2>3, FromWrote
    <2>5. w = fillNew(u, b, n, opts)
      BY <1>0, <1>2, <1>5, <2>1, <2>3 DEF fillNew, SameView
    <2>6. ASSUME NEW i \in Nat, i < n PROVE Cell(w, b, i) = Elem(s, i)
      <3>1. i \in 0 .. 0 + Len(vs) - 1 /\ i \in Cells(u, b)
        BY <1>0, <2>2, <2>6
      <3>2. Cell(w, b, i) = vs[i - 0 + 1]
        BY <2>4, <3>1 DEF Wrote
      <3>3. i - 0 + 1 = i + 1 /\ 0 + i = i OBVIOUS
      <3> QED BY <2>2, <2>6, <3>2, <3>3
    <2> QED BY <2>5, <2>6
  <1> QED BY <1>3, <1>4, <1>5

LEMMA TakeKeeps ==
  ASSUME NEW v \in States, NEW b \in Blocks, b # v.fstorage, NEW cnt \in Nat, NEW opts
  PROVE  LET t == takeNew(v, b, cnt, opts) IN
         /\ t \in States /\ t.fstorage = b /\ t.sdata = 0 /\ t.fsize = cnt
         /\ \A i \in Nat : i < cnt => Cell(t, b, i) = Cell(v, b, i)
  <1>1. PICK w : w = IF "NoDecUse" \in opts \/ v.fstorage = Null THEN v ELSE decuse(v, v.fstorage) OBVIOUS
  <1>2. w \in States /\ w.heap[b] = v.heap[b]
    <2>1. CASE "NoDecUse" \in opts \/ v.fstorage = Null
      BY <1>1, <2>1
    <2>2. CASE ~("NoDecUse" \in opts \/ v.fstorage = Null)
      <3>1. v.fstorage \in Blocks
        BY <2>2 DEF States
      <3> QED BY <1>1, <2>2, <3>1, DecuseOnly
    <2> QED BY <2>1, <2>2
  <1>3. PICK x : x = [reset_nodone(w) EXCEPT !.fstorage = b] OBVIOUS
  <1>4. x \in States /\ x.heap = w.heap /\ x.fstorage = b /\ x.sdata = 0
    BY <1>2, <1>3, Moved
  <1>5. PICK t : t = set_fsize(x, cnt) OBVIOUS
  <1>6. Inside(x, t) /\ t.sdata = x.sdata /\ t.fsize = cnt /\ Below(x, t, x.sdata + cnt)
    BY <1>4, <1>5, SizeKeeps
  <1>7. ASSUME NEW i \in Nat, i < cnt PROVE Cell(t, b, i) = Cell(v, b, i)
    <2>1. Cell(t, b, i) = Cell(x, b, i)
      BY <1>4, <1>6, <1>7 DEF Below
    <2>2. x.heap[b] = v.heap[b]
      BY <1>2, <1>4
    <2> QED BY <2>1, <2>2 DEF Cell, Cells
  <1>8. t = takeNew(v, b, cnt, opts)
    <2>1. CASE "NoDecUse" \in opts
      BY <1>1, <1>3, <1>5, <2>1 DEF takeNew
    <2>2. CASE "NoDecUse" \notin opts
      <3>1. done(v) = reset_nodone(w)
        BY <1>1, <2>2 DEF done
      <3> QED BY <1>3, <1>5, <2>2, <3>1 DEF takeNew
    <2> QED BY <2>1, <2>2
  <1> QED BY <1>4, <1>6, <1>7, <1>8 DEF Inside

LEMMA MadeExtends ==
  ASSUME NEW s, NEW r, Sound(s, r), Room(s, r), NEW cnt \in Nat, NEW capa \in Nat, cnt <= capa, NEW opts,
         "NoCopy" \notin opts, "NoNew" \notin opts, "NoDecUse" \notin opts
  PROVE  Extends(s, makenew(s, cnt, capa, opts), cnt)
  <1>0. PICK u, b, n, cap : RenewedAs(s, r, cnt, capa, opts, u, b, n, cap)
    BY Renewed
  <1>1. /\ b = Free(s) /\ n = Smaller(s.fsize, cnt) /\ n \in Nat /\ n <= cnt /\ n <= s.fsize
        /\ cap \in Nat /\ capa + eAddZeroE <= cap /\ b # s.fstorage /\ b \in Blocks
        /\ u = takeNew(fillNew(newStorage(s, b, cnt, capa + eAddZeroE, opts), b, n, opts), b, cnt, opts)
        /\ u.fstorage = b /\ u.sdata = 0 /\ u \in States /\ Cells(u, b) = 0 .. cap - 1
    BY <1>0 DEF RenewedAs, Owner
  <1>2. cnt <= cap /\ s.fsize \in Nat /\ b # Null
    BY <1>1, SoundIs, NullAssumption DEF eAddZeroE
  <1>3. PICK wanted \in Nat, have \in Nat :
          /\ wanted = capa + eAddZeroE /\ wanted <= have /\ capa <= wanted
          /\ have = IF "Increase" \in opts THEN capacity_newsz(wanted) ELSE wanted
    BY Capacities
  <1>4. PICK st : st = MakeStorage(s, b, cnt, have) OBVIOUS
  <1>5. r[b] = 0
    BY <1>1, FreeBlock
  <1>6. Filled(s, r, st, b, {}, cnt, have) /\ \A c \in Blocks : c # b => st.heap[c] = s.heap[c]
    BY <1>1, <1>4, <1>5, NewStorage
  <1>7. st = newStorage(s, b, cnt, capa + eAddZeroE, opts)
    BY <1>3, <1>4 DEF newStorage
  <1>8. PICK v : v = fillNew(st, b, n, opts) OBVIOUS
  <1>9. n <= have /\ cnt <= have
    BY <1>1, <1>3
  <1>10. \A i \in Nat : i < n => Cell(v, b, i) = Elem(s, i)
    BY <1>1, <1>6, <1>8, <1>9, FillKeeps
  <1>11. v \in States /\ v.fstorage # b
    <2>1. Filled(s, r, v, b, 0 .. n - 1, cnt, have)
      BY <1>1, <1>6, <1>8, <1>9, FilledNew
    <2> QED BY <1>1, <2>1 DEF Filled, SameView
  <1>12. u = takeNew(v, b, cnt, opts)
    BY <1>1, <1>7, <1>8
  <1>13. \A i \in Nat : i < cnt => Cell(u, b, i) = Cell(v, b, i)
    BY <1>1, <1>11, <1>12, TakeKeeps
  <1>14. ASSUME NEW i \in Nat, i < n PROVE Cell(u, b, i) = Elem(s, i)
    BY <1>1, <1>10, <1>13, <1>14
  <1>15. CASE cnt > s.fsize
    <2>1. PICK at \in Nat, k \in Nat : at = s.fsize /\ k = cnt - s.fsize /\ k > 0
      BY <1>2, <1>15
    <2>2. n = at /\ at + k = cnt
      BY <1>1, <1>15, <2>1 DEF Smaller
    <2>3. PICK vs : vs = [i \in 1 .. k |-> Zero] OBVIOUS
    <2>4. vs \in Texts /\ Len(vs) = k /\ \A i \in 1 .. k : vs[i] = Zero
      BY <2>3, DefaultTexts
    <2>5. PICK t : t = ConstructFrom(u, b, at, vs) OBVIOUS
    <2>6. Wrote(u, t, b, at, vs)
      BY <1>1, <2>4, <2>5, FromWrote
    <2>7. t = makenew(s, cnt, capa, opts)
      BY <1>1, <1>15, <2>1, <2>3, <2>5 DEF makenew, ConstructFor
    <2>8. t.fstorage = b /\ t.sdata = 0
      BY <1>1, <2>6 DEF Wrote, Alters, AltersBoth, SameView
    <2>9. ASSUME NEW i \in Nat, i < cnt PROVE Elem(t, i) = IF i < s.fsize THEN Elem(s, i) ELSE Zero
      <3>1. Elem(t, i) = Cell(t, b, 0 + i)
        BY <1>2, <2>8, ElemIs
      <3>2. CASE i < at
        <4>1. Cell(t, b, i) = Cell(u, b, i)
          BY <2>6, <3>2 DEF Wrote
        <4>2. Cell(u, b, i) = Elem(s, i)
          BY <1>14, <2>2, <3>2
        <4> QED BY <2>1, <3>1, <3>2, <4>1, <4>2
      <3>3. CASE ~(i < at)
        <4>1. i \in at .. at + Len(vs) - 1 /\ i \in Cells(u, b) /\ i - at + 1 \in 1 .. k
          BY <1>1, <1>2, <2>2, <2>4, <2>9, <3>3
        <4>2. Cell(t, b, i) = vs[i - at + 1]
          BY <2>6, <4>1 DEF Wrote
        <4>3. vs[i - at + 1] = Zero
          BY <2>4, <4>1
        <4>4. Elem(t, i) = Zero
          BY <3>1, <4>2, <4>3
        <4> QED BY <2>1, <3>3, <4>4
      <3> QED BY <3>2, <3>3
    <2> QED BY <2>7, <2>9 DEF Extends
  <1>16. CASE ~(cnt > s.fsize)
    <2>1. u = makenew(s, cnt, capa, opts)
      BY <1>1, <1>16 DEF makenew
    <2>2. n = cnt
      BY <1>1, <1>2, <1>16 DEF Smaller
    <2>3. ASSUME NEW i \in Nat, i < cnt PROVE Elem(u, i) = IF i < s.fsize THEN Elem(s, i) ELSE Zero
      <3>1. Elem(u, i) = Cell(u, b, 0 + i)
        BY <1>1, <1>2, ElemIs
      <3>2. Cell(u, b, i) = Elem(s, i) /\ i < s.fsize
        BY <1>2, <1>14, <1>16, <2>2, <2>3
      <3> QED BY <3>1, <3>2
    <2> QED BY <2>1, <2>3 DEF Extends
  <1> QED BY <1>15, <1>16

\* resize.
LEMMA ResizeExtends ==
  ASSUME NEW s, NEW r, Sound(s, r), Room(s, r), NEW n \in Nat, NEW opts,
         "Unique" \in opts, "NoCopy" \notin opts, "NoNew" \notin opts, "NoDecUse" \notin opts,
         "overrun" \notin doresize(s, n, opts).faults
  PROVE  Extends(s, doresize(s, n, opts), n)
  <1>1. PICK t : t = doresize(s, n, opts) OBVIOUS
  <1>2. s \in States /\ s.fsize \in Nat /\ s.sdata \in Nat /\ startshift(s) + capacity(s) \in Int
    <2>1. s \in States /\ s.fsize \in Nat /\ s.sdata \in Nat /\ (s.fstorage = Null \/ s.fstorage \in Blocks)
      BY SoundIs
    <2>2. s.fstorage # Null => freserve(s, s.fstorage) \in Nat
      BY <2>1, CellsAre
    <2> QED BY <2>1, <2>2 DEF startshift, capacity, eAddZeroE
  <1>3. CASE n = s.fsize /\ isUnique(s)
    <2>1. t = s
      BY <1>1, <1>3 DEF doresize
    <2> QED BY <1>1, <1>3, <2>1 DEF Extends
  <1>4. CASE n = 0
    BY <1>4 DEF Extends
  <1>5. CASE 0 < n /\ n < s.fsize /\ isUnique(s)
    <2>1. t = set_fsize(s, n)
      BY <1>1, <1>2, <1>5 DEF doresize
    <2>2. Retains(s, t, n)
      BY <1>2, <2>1, SizeKeeps
    <2>3. n <= s.fsize
      BY <1>2, <1>5
    <2> QED BY <1>1, <1>2, <2>2, <2>3, RetainsExtends
  <1>6. CASE n > s.fsize /\ InPlace(s, n)
    <2>1. s.fsize < n /\ InPlace(s, n)
      BY <1>2, <1>6
    <2> QED BY <2>1, InPlaceExtends
  <1>7. CASE /\ ~(n = s.fsize /\ isUnique(s)) /\ n # 0
             /\ ~(0 < n /\ n < s.fsize /\ isUnique(s)) /\ ~(n > s.fsize /\ InPlace(s, n))
    <2>1. PICK place : place = (isUnique(s) /\ freserve(s, s.fstorage) > 0) OBVIOUS
    <2>2. PICK u : u = IF place THEN DestructStorageAtEnd(s) ELSE s OBVIOUS
    <2>3. t = makenew(u, n, n, opts)
      BY <1>1, <1>2, <1>7, <2>1, <2>2 DEF doresize, InPlace
    <2>4. Sound(u, r) /\ Room(u, r) /\ SameView(s, u)
      BY <2>2, TrimmedRoom
    <2>5. n <= n OBVIOUS
    <2>6. Extends(u, t, n)
      BY <2>3, <2>4, <2>5, MadeExtends
    <2>7. Retains(s, u, s.fsize)
      BY <1>2, <2>2, TrimKeeps DEF Retains
    <2>8. Extends(s, t, n)
      BY <1>2, <2>4, <2>6, <2>7 DEF Extends, Retains, SameView
    <2> QED BY <1>1, <2>8
  <1> QED BY <1>3, <1>4, <1>5, <1>6, <1>7

\* makeunique and reserve.
LEMMA NewRetains ==
  ASSUME NEW s, NEW r, Sound(s, r), Room(s, r), NEW capa \in Nat, s.fsize <= capa
  PROVE  Retains(s, makenew(s, s.fsize, capa, {}), s.fsize)
  <1>1. PICK opts : opts = {} OBVIOUS
  <1>2. s.fsize \in Nat
    BY SoundIs
  <1>3. Extends(s, makenew(s, s.fsize, capa, opts), s.fsize)
    BY <1>1, <1>2, MadeExtends
  <1>4. s.fsize <= s.fsize
    BY <1>2
  <1> QED BY <1>1, <1>2, <1>3, <1>4, RetainsExtends

LEMMA UniqueRetains ==
  ASSUME NEW s, NEW r, Sound(s, r), Room(s, r)
  PROVE  Retains(s, makeunique(s), s.fsize)
  <1>1. s.fsize \in Nat /\ s.fsize <= s.fsize
    BY SoundIs
  <1>2. Retains(s, makenew(s, s.fsize, s.fsize, {}), s.fsize)
    BY <1>1, NewRetains
  <1>3. Retains(s, s, s.fsize)
    BY DEF Retains
  <1> QED BY <1>2, <1>3 DEF makeunique

LEMMA ReserveRetains ==
  ASSUME NEW s, NEW r, Sound(s, r), Room(s, r), NEW new_capa \in Nat
  PROVE  Retains(s, doreserve(s, new_capa), s.fsize)
  <1>1. s \in States /\ s.fsize \in Nat
    BY SoundIs
  <1>2. PICK n \in Nat : n = Larger(new_capa, s.fsize) /\ s.fsize <= n
    BY <1>1 DEF Larger
  <1>3. Retains(s, makenew(s, s.fsize, n, {}), s.fsize)
    BY <1>1, <1>2, NewRetains
  <1>4. Retains(s, s, s.fsize)
    BY DEF Retains
  <1>5. isUnique(s) => Retains(s, repack(s), s.fsize)
    BY <1>1, SoundIs, RepackKeeps
  <1>6. \/ doreserve(s, new_capa) = s
        \/ isUnique(s) /\ doreserve(s, new_capa) = repack(s)
        \/ doreserve(s, new_capa) = makenew(s, s.fsize, n, {})
    BY <1>2 DEF doreserve
  <1> QED BY <1>3, <1>4, <1>5, <1>6

-----------------------------------------------------------------------------
(* Data that is assigned. *)

\* The array shows n elements, which are those p points at.
Gives(s, t, p, n) == \A i \in Nat : i < n => Elem(t, i) = Item(s, p, i)

LEMMA AssignGives ==
  ASSUME NEW s, NEW r, Sound(s, r), NEW d, CanShow(s, d)
  PROVE  LET t == lassign(s, d) IN t.fsize = d.fsize /\ Gives(s, t, Pointer(d), d.fsize)
  <1>1. /\ s \in States /\ (s.fstorage = Null \/ (s.fstorage # Null /\ s.fstorage \in Blocks))
        /\ d.fstorage \in Blocks \cup {Null} /\ d.sdata \in Nat /\ d.fsize \in Nat
    BY SoundIs DEF CanShow
  <1>2. PICK v : v = IF d.fstorage = Null THEN s ELSE incuse(s, d.fstorage) OBVIOUS
  <1>3. /\ v \in States /\ v.fstorage = s.fstorage
        /\ d.fstorage # Null => v.heap[d.fstorage].fdata = s.heap[d.fstorage].fdata
    <2>1. CASE d.fstorage = Null
      BY <1>1, <1>2, <2>1
    <2>2. CASE d.fstorage # Null
      <3>1. d.fstorage \in Blocks
        BY <1>1, <2>2
      <3> QED BY <1>1, <1>2, <2>2, <3>1, InUse DEF Reheads, SameView, SameCells
    <2> QED BY <2>1, <2>2
  <1>4. PICK w : w = IF s.fstorage = Null THEN v ELSE decuse(v, s.fstorage) OBVIOUS
  <1>5. /\ w \in States
        /\ d.fstorage # Null /\ d.fstorage # s.fstorage => w.heap[d.fstorage] = v.heap[d.fstorage]
    BY <1>1, <1>3, <1>4, DecuseOnly
  <1>6. PICK x : x = IF d.fstorage = s.fstorage THEN s ELSE reset_nodone(w) OBVIOUS
  <1>7. x \in States /\ (d.fstorage # Null => x.heap[d.fstorage].fdata = s.heap[d.fstorage].fdata)
    BY <1>1, <1>3, <1>5, <1>6, EmptyView
  <1>8. PICK t : t = [x EXCEPT !.fstorage = d.fstorage, !.sdata = d.sdata, !.fsize = d.fsize] OBVIOUS
  <1>9. t.heap = x.heap /\ t.fstorage = d.fstorage /\ t.sdata = d.sdata /\ t.fsize = d.fsize
    BY <1>1, <1>7, <1>8, Shown
  <1>10. t = lassign(s, d)
    <2>1. done(v) = reset_nodone(w)
      BY <1>3, <1>4 DEF done
    <2> QED BY <1>2, <1>6, <1>8, <2>1 DEF lassign
  <1>11. PICK p : p = Pointer(d) OBVIOUS
  <1>12. Pointer(t) = p /\ p.fstorage = d.fstorage
    BY <1>9, <1>11 DEF Pointer
  <1>13. \A i : Item(t, p, i) = Item(s, p, i)
    BY <1>7, <1>9, <1>12, ReadSame
  <1>14. Gives(s, t, p, d.fsize)
    BY <1>12, <1>13 DEF Gives, Elem
  <1> QED BY <1>9, <1>10, <1>11, <1>14

\* What is read stays what it is while the blocks of others do.
LEMMA ItemKept ==
  ASSUME NEW s, NEW r, NEW p, NEW n, Readable(s, r, p, n), NEW t, Untouched(s, t, r)
  PROVE  /\ \A from, k : Read(t, p, from, k) = Read(s, p, from, k)
         /\ \A i : Item(t, p, i) = Item(s, p, i)
  <1>1. p.fstorage # Null => t.heap[p.fstorage].fdata = s.heap[p.fstorage].fdata
    BY DEF Readable, Untouched
  <1> QED BY <1>1, ReadSame

LEMMA ReadTexts ==
  ASSUME NEW s \in States, NEW r, NEW p, NEW n, Readable(s, r, p, n), NEW from \in Nat, NEW k \in Nat, from + k <= n
  PROVE  /\ Read(s, p, from, k) \in Texts /\ Len(Read(s, p, from, k)) = k
         /\ \A i \in Nat : i < k => Read(s, p, from, k)[i + 1] = Item(s, p, from + i)
  <1>1. p.sdata \in Nat
    BY DEF Readable
  <1>2. \A i \in Nat : i < k => Read(s, p, from, k)[i + 1] = Item(s, p, from + i)
    BY <1>1, ReadIs
  <1>3. Objects(Read(s, p, from, k)) /\ Len(Read(s, p, from, k)) = k
    BY ReadableObjects
  <1> QED BY <1>2, <1>3 DEF Objects, Texts

CellsGet(s, t, b, at, vs, k) ==
  /\ \A i \in Nat : i < k /\ at + i \in Cells(s, b) => Cell(t, b, at + i) = vs[i + 1]
  /\ \A i \in Nat : i \notin at .. at + k - 1 => Cell(t, b, i) = Cell(s, b, i)

LEMMA WroteCells ==
  ASSUME NEW s \in States, NEW t, NEW b \in Blocks, NEW at \in Nat, NEW vs \in Texts, Wrote(s, t, b, at, vs),
         NEW k, k = Len(vs)
  PROVE  CellsGet(s, t, b, at, vs, k)
  <1>1. k \in Nat /\ k = Len(vs)
    BY DEF Texts
  <1>2. ASSUME NEW i \in Nat, i < k, at + i \in Cells(s, b) PROVE Cell(t, b, at + i) = vs[i + 1]
    <2>1. PICK j \in Nat : j = at + i OBVIOUS
    <2>2. j \in at .. at + k - 1 /\ j - at + 1 = i + 1
      BY <1>2, <2>1
    <2>3. Cell(t, b, j) = vs[j - at + 1]
      BY <1>1, <1>2, <2>1, <2>2 DEF Wrote
    <2> QED BY <2>1, <2>2, <2>3
  <1>3. ASSUME NEW i \in Nat, i \notin at .. at + k - 1 PROVE Cell(t, b, i) = Cell(s, b, i)
    BY <1>1, <1>3 DEF Wrote
  <1> QED BY <1>2, <1>3 DEF CellsGet

\* The cells of block b from at on get the n elements p points at, the others stay.
Placed(s, t, b, at, p, n) ==
  /\ Alters(s, t, b)
  /\ \A i \in Nat : i < n /\ at + i \in Cells(s, b) => Cell(t, b, at + i) = Item(s, p, i)
  /\ \A i \in Nat : i \notin at .. at + n - 1 => Cell(t, b, i) = Cell(s, b, i)

LEMMA FromPlaces ==
  ASSUME NEW s \in States, NEW r, NEW p, NEW n, Readable(s, r, p, n), NEW b \in Blocks, NEW at \in Nat
  PROVE  Placed(s, ConstructFrom(s, b, at, Read(s, p, 0, n)), b, at, p, n)
  <1>1. PICK vs : vs = Read(s, p, 0, n) OBVIOUS
  <1>2. n \in Nat /\ 0 + n <= n
    BY DEF Readable
  <1>3. vs \in Texts /\ Len(vs) = n /\ \A i \in Nat : i < n => vs[i + 1] = Item(s, p, 0 + i)
    BY <1>1, <1>2, ReadTexts
  <1>4. PICK t : t = ConstructFrom(s, b, at, vs) OBVIOUS
  <1>5. Wrote(s, t, b, at, vs)
    BY <1>3, <1>4, FromWrote
  <1>6. CellsGet(s, t, b, at, vs, n)
    BY <1>3, <1>5, WroteCells
  <1>7. \A i \in Nat : i < n => vs[i + 1] = Item(s, p, i)
    BY <1>3
  <1>8. Placed(s, t, b, at, p, n)
    BY <1>5, <1>6, <1>7 DEF Placed, Wrote, CellsGet
  <1> QED BY <1>1, <1>4, <1>8

\* PutOver.
LEMMA PutPlaces ==
  ASSUME NEW s \in States, s.fstorage \in Blocks, NEW r, NEW p, NEW n, Readable(s, r, p, n),
         NEW at \in Nat, NEW over \in Nat, over <= n
  PROVE  Placed(s, PutOver(s, at, p, over, n), s.fstorage, at, p, n)
  <1>1. PICK b \in Blocks : b = s.fstorage OBVIOUS
  <1>2. n \in Nat
    BY DEF Readable
  <1>3. PICK k \in Nat : k = n - over
    BY <1>2
  <1>4. PICK vs : vs = Read(s, p, 0, over) OBVIOUS
  <1>5. PICK ws : ws = Read(s, p, over, k) OBVIOUS
  <1>6. vs \in Texts /\ Len(vs) = over /\ \A i \in Nat : i < over => vs[i + 1] = Item(s, p, i)
    <2>1. 0 + over <= n OBVIOUS
    <2>2. vs \in Texts /\ Len(vs) = over /\ \A i \in Nat : i < over => vs[i + 1] = Item(s, p, 0 + i)
      BY <1>4, <2>1, ReadTexts
    <2> QED BY <2>2
  <1>7. ws \in Texts /\ Len(ws) = k /\ \A i \in Nat : i < k => ws[i + 1] = Item(s, p, over + i)
    <2>1. over + k <= n
      BY <1>2, <1>3
    <2> QED BY <1>5, <2>1, ReadTexts
  <1>8. PICK u : u = copydata(s, b, at, vs) OBVIOUS
  <1>9. Wrote(s, u, b, at, vs)
    BY <1>6, <1>8, CopyWrote
  <1>10. u \in States /\ Cells(u, b) = Cells(s, b)
    BY <1>9 DEF Wrote, Alters, AltersBoth
  <1>11. PICK at2 \in Nat : at2 = at + over OBVIOUS
  <1>12. PICK t : t = ConstructFrom(u, b, at2, ws) OBVIOUS
  <1>13. Wrote(u, t, b, at2, ws)
    BY <1>7, <1>10, <1>12, FromWrote
  <1>14. Alters(s, t, b)
    BY <1>9, <1>13 DEF Wrote, Alters, AltersBoth, SameView
  <1>15. CellsGet(s, u, b, at, vs, over)
    BY <1>6, <1>9, WroteCells
  <1>16. CellsGet(u, t, b, at2, ws, k)
    BY <1>7, <1>10, <1>13, WroteCells
  <1>17. ASSUME NEW i \in Nat, i < n, at + i \in Cells(s, b) PROVE Cell(t, b, at + i) = Item(s, p, i)
    <2>1. CASE i < over
      <3>1. PICK j \in Nat : j = at + i OBVIOUS
      <3>2. j \notin at2 .. at2 + k - 1
        BY <1>11, <2>1, <3>1
      <3>3. Cell(t, b, j) = Cell(u, b, j)
        BY <1>16, <3>2 DEF CellsGet
      <3>4. Cell(u, b, at + i) = Item(s, p, i)
        BY <1>6, <1>15, <1>17, <2>1 DEF CellsGet
      <3> QED BY <3>1, <3>3, <3>4
    <2>2. CASE ~(i < over)
      <3>1. PICK j \in Nat : j = i - over
        BY <2>2
      <3>2. j < k /\ at2 + j = at + i /\ over + j = i
        BY <1>2, <1>3, <1>11, <1>17, <3>1
      <3>3. Cell(t, b, at2 + j) = ws[j + 1]
        BY <1>10, <1>16, <1>17, <3>2 DEF CellsGet
      <3>4. ws[j + 1] = Item(s, p, over + j)
        BY <1>7, <3>2
      <3> QED BY <3>2, <3>3, <3>4
    <2> QED BY <2>1, <2>2
  <1>18. ASSUME NEW i \in Nat, i \notin at .. at + n - 1 PROVE Cell(t, b, i) = Cell(s, b, i)
    <2>1. i \notin at2 .. at2 + k - 1 /\ i \notin at .. at + over - 1
      BY <1>2, <1>3, <1>11, <1>18
    <2> QED BY <1>15, <1>16, <2>1 DEF CellsGet
  <1>19. t = PutOver(s, at, p, over, n)
    BY <1>1, <1>3, <1>4, <1>5, <1>8, <1>11, <1>12 DEF PutOver
  <1>20. Placed(s, t, b, at, p, n)
    BY <1>14, <1>17, <1>18 DEF Placed
  <1> QED BY <1>1, <1>19, <1>20

\* Refill.
LEMMA RefillGives ==
  ASSUME NEW s, NEW r, Sound(s, r), Room(s, r), NEW p, NEW n \in Nat, 0 < n, Readable(s, r, p, n),
         isUnique(s) => s.sdata = 0 /\ Count(s) = s.fsize
  PROVE  Gives(s, Refill(s, p, n), p, n)
  <1>1. PICK opts : opts = {"NoCopy", "NoNew", "Unique"} OBVIOUS
  <1>2. PICK u : u = doresize(s, n, opts) OBVIOUS
  <1>3. OverAs(s, r, u, n)
    <2>1. "Unique" \in opts /\ "NoCopy" \in opts /\ "NoNew" \in opts /\ "NoDecUse" \notin opts
      BY <1>1
    <2> QED BY <1>2, <2>1, ResizedOver
  <1>4. PICK over \in Nat : over = Remaining(s, u, n) /\ over <= n
    BY SoundIs DEF Remaining, Smaller
  <1>5. /\ u \in States /\ u.fstorage \in Blocks /\ Untouched(s, u, r)
        /\ u.sdata = 0 /\ n <= freserve(u, u.fstorage)
    BY <1>3 DEF OverAs, Owner
  <1>6. Readable(u, r, p, n) /\ \A i : Item(u, p, i) = Item(s, p, i)
    BY <1>5, ReadableKept, ItemKept
  <1>7. PICK at \in Nat : at = 0 OBVIOUS
  <1>8. PICK t : t = PutOver(u, at, p, over, n) OBVIOUS
  <1>9. PICK b \in Blocks : b = u.fstorage
    BY <1>5
  <1>10. Placed(u, t, b, at, p, n)
    BY <1>4, <1>5, <1>6, <1>8, <1>9, PutPlaces
  <1>11. t.fstorage = b /\ t.sdata = 0
    BY <1>5, <1>9, <1>10 DEF Placed, Alters, AltersBoth, SameView
  <1>12. ASSUME NEW i \in Nat, i < n PROVE Elem(t, i) = Item(s, p, i)
    <2>1. at + i \in Cells(u, b)
      BY <1>5, <1>7, <1>9, <1>12, CellsAre
    <2>2. Cell(t, b, at + i) = Item(u, p, i)
      BY <1>10, <1>12, <2>1 DEF Placed
    <2>3. b # Null
      BY NullAssumption
    <2>4. Elem(t, i) = Cell(t, b, 0 + i)
      BY <1>11, <2>3, ElemIs
    <2> QED BY <1>6, <1>7, <2>2, <2>4
  <1>13. t = Refill(s, p, n)
    BY <1>1, <1>2, <1>4, <1>5, <1>7, <1>8 DEF Refill, Remaining
  <1> QED BY <1>12, <1>13 DEF Gives

\* Release, which leaves another block than the array's.
LEMMA DecuseRetains ==
  ASSUME NEW t \in States, t.fstorage \in Blocks, NEW b \in Blocks, b # t.fstorage
  PROVE  \A i : Elem(decuse(t, b), i) = Elem(t, i)
  <1>1. PICK u : u = decuse(t, b) OBVIOUS
  <1>2. SameView(t, u) /\ u.heap[t.fstorage] = t.heap[t.fstorage]
    BY <1>1, DecuseOnly
  <1>3. \A i : Cell(u, t.fstorage, i) = Cell(t, t.fstorage, i)
    BY <1>2, SameDataCells
  <1>4. t.fstorage # Null /\ u.fstorage = t.fstorage /\ u.sdata = t.sdata
    BY <1>2, NullAssumption DEF SameView
  <1>5. ASSUME NEW i PROVE Elem(u, i) = Elem(t, i)
    BY <1>3, <1>4, ElemIs
  <1> QED BY <1>1, <1>5

LEMMA ReleaseRetains ==
  ASSUME NEW s, NEW r, Sound(s, r), NEW p, NEW n, NEW size, NEW t,
         Settled(Keep(s, p, n), Pinned(s, r, p, n), t, size)
  PROVE  /\ \A i : Elem(Release(t, s, p, n), i) = Elem(t, i)
         /\ Release(t, s, p, n).faults = t.faults
  <1>1. CASE ~intersects(s, p, n)
    BY <1>1 DEF Release
  <1>2. CASE intersects(s, p, n)
    <2>1. PICK b \in Blocks : b = s.fstorage
      BY <1>2, SoundIs DEF intersects
    <2>2. PICK m : m = More(r, b) OBVIOUS
    <2>3. r \in [Blocks -> Nat]
      BY DEF Sound, Counted
    <2>4. m[b] > 0
      BY <2>2, <2>3, MoreLess
    <2>5. t \in States /\ t.fstorage \in Blocks /\ m[t.fstorage] = 0
      BY <1>2, <2>1, <2>2 DEF Settled, Owner, Pinned
    <2>6. b # t.fstorage
      BY <2>4, <2>5
    <2>7. Release(t, s, p, n) = decuse(t, b)
      BY <1>2, <2>1 DEF Release
    <2>8. PICK u : u = decuse(t, b) OBVIOUS
    <2>9. \A i : Elem(u, i) = Elem(t, i)
      BY <2>5, <2>6, <2>8, DecuseRetains
    <2>10. OwnerBeside(t, m, 0 .. End(t) - 1, b)
      BY <1>2, <2>1, <2>2, <2>4 DEF Settled, OwnerBeside, Pinned
    <2>11. u.faults = t.faults
      BY <2>8, <2>10, LeftBlock DEF LeftAs
    <2> QED BY <2>7, <2>8, <2>9, <2>11
  <1> QED BY <1>1, <1>2

\* lassign of data.
LEMMA DataGives ==
  ASSUME NEW s, NEW r, Sound(s, r), Room(s, r), NEW p, NEW n \in Nat, n > 0 => Readable(s, Pinned(s, r, p, n), p, n)
  PROVE  Gives(s, lassign_data(s, p, n), p, n)
  <1>1. CASE n = 0
    BY <1>1 DEF Gives
  <1>2. CASE n # 0
    <2>1. PICK k : k = Keep(s, p, n) OBVIOUS
    <2>2. PICK m : m = Pinned(s, r, p, n) OBVIOUS
    <2>3. Sound(k, m) /\ Room(k, m) /\ SameBlocks(s, k)
      BY <2>1, <2>2, Kept
    <2>4. PICK w : w = Whole(k) OBVIOUS
    <2>5. /\ Sound(w, m) /\ Room(w, m) /\ w.heap = k.heap /\ w.faults = k.faults
          /\ isUnique(w) => w.sdata = 0 /\ Count(w) = w.fsize
      BY <2>3, <2>4, WholeTaken
    <2>6. Readable(s, m, p, n)
      BY <1>2, <2>2
    <2>7. Untouched(s, w, m)
      BY <2>3, <2>5 DEF Untouched, SameBlocks, SameCells
    <2>8. Readable(w, m, p, n) /\ \A i : Item(w, p, i) = Item(s, p, i)
      BY <2>6, <2>7, ReadableKept, ItemKept
    <2>9. PICK u : u = Refill(w, p, n) OBVIOUS
    <2>10. 0 < n
      BY <1>2
    <2>11. Settled(w, m, u, n) /\ Quiet(w, u) /\ Gives(w, u, p, n)
      BY <2>5, <2>8, <2>9, <2>10, Refilled, RefillGives
    <2>12. Settled(k, m, u, n)
      <3>1. Contained(k, u)
        BY <2>5, <2>11, QuietContained DEF Settled, Contained, Harmless, Quiet
      <3> QED BY <2>5, <2>11, <3>1 DEF Settled, Untouched
    <2>13. PICK t : t = Release(u, s, p, n) OBVIOUS
    <2>14. Settled(Keep(s, p, n), Pinned(s, r, p, n), u, n)
      BY <2>1, <2>2, <2>12
    <2>15. \A i : Elem(t, i) = Elem(u, i)
      BY <2>13, <2>14, ReleaseRetains
    <2>16. Gives(s, t, p, n)
      BY <2>8, <2>11, <2>15 DEF Gives
    <2>17. t = lassign_data(s, p, n)
      BY <1>2, <2>1, <2>4, <2>9, <2>13 DEF lassign_data
    <2> QED BY <2>16, <2>17
  <1> QED BY <1>1, <1>2

-----------------------------------------------------------------------------
(* Data that is inserted. *)

\* The old elements, and n that p points at between them.
Inserts(s, t, pos, p, n) ==
  /\ \A i \in Nat : i < pos => Elem(t, i) = Elem(s, i)
  /\ \A i \in Nat : i < n => Elem(t, pos + i) = Item(s, p, i)
  /\ \A i \in Nat : pos <= i /\ i < s.fsize => Elem(t, n + i) = Elem(s, i)

\* The new storage: the old elements are where they were.
LEMMA ApartRetains ==
  ASSUME NEW s, NEW r, Sound(s, r), Room(s, r), NEW n \in Nat, s.fsize < n, ~InPlace(s, n), NEW opts,
         "Unique" \in opts, "NoCopy" \in opts, "NoNew" \in opts, "NoDecUse" \in opts
  PROVE  \A i \in Nat : i < s.fsize => Item(doresize(s, n, opts), Pointer(s), i) = Elem(s, i)
  <1>1. PICK t : t = doresize(s, n, opts) OBVIOUS
  <1>2. s \in States /\ s.fsize \in Nat /\ s.sdata \in Nat
    BY SoundIs
  <1>3. PICK place : place = (isUnique(s) /\ freserve(s, s.fstorage) > 0) OBVIOUS
  <1>4. PICK u : u = IF place THEN DestructStorageAtEnd(s) ELSE s OBVIOUS
  <1>5. t = makenew(u, n, n, opts)
    <2>1. ~(n = s.fsize) /\ ~(n = 0) /\ ~(n < s.fsize) /\ ~(n > s.fsize /\ InPlace(s, n))
      BY <1>2
    <2> QED BY <1>1, <1>2, <1>3, <1>4, <2>1 DEF doresize, InPlace
  <1>6. Sound(u, r) /\ Room(u, r) /\ SameView(s, u)
    BY <1>4, TrimmedRoom
  <1>7. Retains(s, u, s.fsize)
    <2>1. CASE place
      BY <1>2, <1>4, <2>1, TrimKeeps
    <2>2. CASE ~place
      BY <1>4, <2>2 DEF Retains
    <2> QED BY <2>1, <2>2
  <1>8. n <= n
    BY <1>2
  <1>9. PICK m : m = Plus(s, r) OBVIOUS
  <1>10. PICK p : p = Pointer(s) OBVIOUS
  <1>11. After(u, r, opts) = m /\ Plus(u, r) = m /\ Pointer(u) = p /\ u.fsize = s.fsize
    BY <1>6, <1>9, <1>10 DEF After, Plus, SameView, Pointer
  <1>12. EmptyAs(u, m, t, n, n)
    BY <1>5, <1>6, <1>8, <1>11, MadeEmpty
  <1>13. Readable(u, m, p, s.fsize)
    BY <1>6, <1>11, OwnReadable
  <1>14. \A i : Item(t, p, i) = Item(u, p, i)
    BY <1>12, <1>13, ItemKept DEF EmptyAs
  <1>15. ASSUME NEW i \in Nat, i < s.fsize PROVE Item(t, p, i) = Elem(s, i)
    BY <1>7, <1>11, <1>14, <1>15 DEF Retains, Elem
  <1> QED BY <1>1, <1>10, <1>15

\* The elements p points at, from at on in block b, around a gap of n at pos.
GapCells(t, v, b, p, pos, n, size) ==
  /\ \A i \in Nat : i < pos => Cell(v, b, i) = Item(t, p, i)
  /\ \A i \in Nat : pos <= i /\ i < size => Cell(v, b, n + i) = Item(t, p, i)

LEMMA GapCopiedCells ==
  ASSUME NEW s, NEW r, Sound(s, r), NEW n \in Nat, NEW t, ApartAs(s, r, t, s.fsize + n),
         NEW pos \in Nat, pos <= s.fsize
  PROVE  GapCells(t, InsertCopied(t, s, pos, n), t.fstorage, Pointer(s), pos, n, s.fsize)
  <1>1. PICK m : m = Plus(s, r) OBVIOUS
  <1>2. PICK p : p = Pointer(s) OBVIOUS
  <1>3. PICK size \in Nat : size = s.fsize
    BY SoundIs
  <1>4. PICK b \in Blocks : b = t.fstorage
    BY DEF ApartAs, Owner
  <1>5. /\ t \in States /\ Readable(t, m, p, size) /\ Cells(t, b) = 0 .. freserve(t, b) - 1
        /\ freserve(t, b) \in Nat /\ size + n <= freserve(t, b)
    BY <1>1, <1>2, <1>3, <1>4 DEF ApartAs, Owner
  <1>6. PICK k \in Nat : k = size - pos
    BY <1>3
  <1>7. PICK low : low = Read(t, p, 0, pos) OBVIOUS
  <1>8. low \in Texts /\ Len(low) = pos /\ \A i \in Nat : i < pos => low[i + 1] = Item(t, p, i)
    <2>1. 0 + pos <= size
      BY <1>3
    <2>2. low \in Texts /\ Len(low) = pos /\ \A i \in Nat : i < pos => low[i + 1] = Item(t, p, 0 + i)
      BY <1>5, <1>7, <2>1, ReadTexts
    <2> QED BY <2>2
  <1>9. PICK high : high = Read(t, p, pos, k) OBVIOUS
  <1>10. high \in Texts /\ Len(high) = k /\ \A i \in Nat : i < k => high[i + 1] = Item(t, p, pos + i)
    <2>1. pos + k <= size
      BY <1>3, <1>6
    <2> QED BY <1>5, <1>9, <2>1, ReadTexts
  <1>11. PICK u : u = ConstructFrom(t, b, 0, low) OBVIOUS
  <1>12. Wrote(t, u, b, 0, low)
    BY <1>5, <1>8, <1>11, FromWrote
  <1>13. u \in States /\ Cells(u, b) = Cells(t, b) /\ u.fstorage = b
    BY <1>4, <1>12 DEF Wrote, Alters, AltersBoth, SameView
  <1>14. CellsGet(t, u, b, 0, low, pos)
    BY <1>5, <1>8, <1>12, WroteCells
  <1>15. PICK at \in Nat : at = pos + n OBVIOUS
  <1>16. PICK v : v = ConstructFrom(u, b, at, high) OBVIOUS
  <1>17. Wrote(u, v, b, at, high)
    BY <1>10, <1>13, <1>16, FromWrote
  <1>18. CellsGet(u, v, b, at, high, k)
    BY <1>10, <1>13, <1>17, WroteCells
  <1>19. ASSUME NEW i \in Nat, i < pos PROVE Cell(v, b, i) = Item(t, p, i)
    <2>1. i \notin at .. at + k - 1 /\ 0 + i \in Cells(t, b) /\ 0 + i = i
      BY <1>3, <1>5, <1>15, <1>19
    <2>2. Cell(v, b, i) = Cell(u, b, i)
      BY <1>18, <2>1 DEF CellsGet
    <2>3. Cell(u, b, 0 + i) = low[i + 1]
      BY <1>14, <1>19, <2>1 DEF CellsGet
    <2> QED BY <1>8, <1>19, <2>1, <2>2, <2>3
  <1>20. ASSUME NEW i \in Nat, pos <= i, i < size PROVE Cell(v, b, n + i) = Item(t, p, i)
    <2>1. PICK j \in Nat : j = i - pos
      BY <1>20
    <2>2. j < k /\ at + j = n + i /\ pos + j = i /\ n + i \in Cells(t, b)
      BY <1>3, <1>5, <1>6, <1>15, <1>20, <2>1
    <2>3. Cell(v, b, at + j) = high[j + 1]
      BY <1>13, <1>18, <2>2 DEF CellsGet
    <2>4. high[j + 1] = Item(t, p, pos + j)
      BY <1>10, <2>2
    <2> QED BY <2>2, <2>3, <2>4
  <1>21. v = InsertCopied(t, s, pos, n)
    BY <1>2, <1>3, <1>4, <1>6, <1>7, <1>9, <1>11, <1>13, <1>15, <1>16 DEF InsertCopied
  <1>22. GapCells(t, v, b, p, pos, n, size)
    BY <1>19, <1>20 DEF GapCells
  <1> QED BY <1>2, <1>3, <1>4, <1>21, <1>22

LEMMA GapMovedCells ==
  ASSUME NEW s, NEW r, Sound(s, r), isUnique(s), NEW n \in Nat, NEW t, ApartAs(s, r, t, s.fsize + n),
         NEW pos \in Nat, pos <= s.fsize
  PROVE  GapCells(t, InsertMoved(t, s, pos, n), t.fstorage, Pointer(s), pos, n, s.fsize)
  <1>1. PICK o \in Blocks : o = s.fstorage /\ o # Null
    BY SoundIs, UniqueBlock
  <1>2. PICK p : p = Pointer(s) OBVIOUS
  <1>3. PICK size \in Nat, at \in Nat : size = s.fsize /\ at = s.sdata
    BY SoundIs
  <1>4. PICK b \in Blocks : b = t.fstorage /\ b # o
    BY <1>1 DEF ApartAs, Owner
  <1>5. t \in States /\ Cells(t, b) = 0 .. freserve(t, b) - 1 /\ freserve(t, b) \in Nat /\ size + n <= freserve(t, b)
    BY <1>3, <1>4 DEF ApartAs, Owner
  <1>6. PICK k \in Nat, e \in Nat : k = size - pos /\ e = at + size
    BY <1>3
  <1>7. PICK cut : cut = DestructFrom(t, o, e) OBVIOUS
  <1>8. Spares(t, cut, o, e)
    BY <1>5, <1>7, FromSpares
  <1>9. cut \in States /\ Cells(cut, b) = Cells(t, b)
    BY <1>8 DEF Spares, Alters, AltersBoth
  <1>10. PICK low : low = movedataX(cut, b, 0, o, at, pos, FALSE) OBVIOUS
  <1>11. Shifts(cut, low, b, 0, o, at, pos)
    BY <1>9, <1>10, MoveShifts
  <1>12. low \in States /\ Cells(low, b) = Cells(t, b)
    BY <1>9, <1>11 DEF Shifts, AltersBoth
  <1>13. PICK at2 \in Nat, pos2 \in Nat : at2 = at + pos /\ pos2 = pos + n OBVIOUS
  <1>14. PICK high : high = movedataX(low, b, pos2, o, at2, k, FALSE) OBVIOUS
  <1>15. Shifts(low, high, b, pos2, o, at2, k)
    BY <1>12, <1>14, MoveShifts
  <1>16. PICK v : v = set_size(high, o, at) OBVIOUS
  <1>17. high \in States
    BY <1>15 DEF Shifts, AltersBoth
  <1>18. \A i : Cell(v, b, i) = Cell(high, b, i)
    <2>1. v.heap[b].fdata = high.heap[b].fdata
      BY <1>16, <1>17, SetSize
    <2> QED BY <2>1, SameDataCells
  <1>19. p.fstorage = o /\ p.sdata = at
    BY <1>1, <1>2, <1>3 DEF Pointer
  <1>20. ASSUME NEW i \in Nat, i < pos PROVE Cell(v, b, i) = Item(t, p, i)
    <2>1. i \notin pos2 .. pos2 + k - 1 /\ 0 + i \in Cells(cut, b) /\ 0 + i = i
      BY <1>3, <1>5, <1>9, <1>13, <1>20
    <2>2. Cell(high, b, i) = Cell(low, b, i)
      BY <1>4, <1>15, <2>1 DEF Shifts
    <2>3. Cell(low, b, 0 + i) = Cell(cut, o, at + i)
      BY <1>11, <1>20, <2>1 DEF Shifts
    <2>4. at + i \in Nat /\ at + i < e
      BY <1>3, <1>6, <1>20
    <2>5. Cell(cut, o, at + i) = Cell(t, o, at + i)
      BY <1>8, <2>4 DEF Spares
    <2> QED BY <1>1, <1>18, <1>19, <2>1, <2>2, <2>3, <2>5 DEF Item
  <1>21. ASSUME NEW i \in Nat, pos <= i, i < size PROVE Cell(v, b, n + i) = Item(t, p, i)
    <2>1. PICK j \in Nat : j = i - pos
      BY <1>21
    <2>2. j < k /\ pos2 + j = n + i /\ at2 + j = at + i
      BY <1>3, <1>6, <1>13, <1>21, <2>1
    <2>2a. n + i \in Cells(low, b)
      BY <1>3, <1>5, <1>12, <1>21
    <2>3. Cell(high, b, pos2 + j) = Cell(low, o, at2 + j)
      BY <1>15, <2>2, <2>2a DEF Shifts
    <2>4. PICK l \in Nat : l = at + i OBVIOUS
    <2>5. l \notin at .. at + pos - 1 /\ l < e
      BY <1>3, <1>6, <1>21, <2>4
    <2>6. Cell(low, o, l) = Cell(cut, o, l)
      BY <1>4, <1>11, <2>5 DEF Shifts
    <2>7. Cell(cut, o, l) = Cell(t, o, l)
      BY <1>8, <2>5 DEF Spares
    <2> QED BY <1>1, <1>18, <1>19, <2>2, <2>3, <2>4, <2>6, <2>7 DEF Item
  <1>22. v = InsertMoved(t, s, pos, n)
    BY <1>1, <1>3, <1>4, <1>6, <1>7, <1>10, <1>13, <1>14, <1>16 DEF InsertMoved
  <1>23. GapCells(t, v, b, p, pos, n, size)
    BY <1>20, <1>21 DEF GapCells
  <1> QED BY <1>2, <1>3, <1>4, <1>22, <1>23

LEMMA GapMadeCells ==
  ASSUME NEW s, NEW r, Sound(s, r), NEW n \in Nat, NEW t, ApartAs(s, r, t, s.fsize + n),
         NEW pos \in Nat, pos <= s.fsize
  PROVE  GapCells(t, IF s.fsize = 0 THEN t
                     ELSE IF isUnique(s) /\ MI_ISMOVED THEN InsertMoved(t, s, pos, n)
                     ELSE InsertCopied(t, s, pos, n),
                  t.fstorage, Pointer(s), pos, n, s.fsize)
  <1>1. CASE s.fsize = 0
    <2>1. pos = 0
      BY <1>1
    <2> QED BY <1>1, <2>1 DEF GapCells
  <1>2. CASE s.fsize # 0 /\ isUnique(s) /\ MI_ISMOVED
    BY <1>2, GapMovedCells
  <1>3. CASE s.fsize # 0 /\ ~(isUnique(s) /\ MI_ISMOVED)
    BY <1>3, GapCopiedCells
  <1> QED BY <1>1, <1>2, <1>3

LEMMA ElsewhereInserts ==
  ASSUME NEW s, NEW r, Sound(s, r), NEW n \in Nat, NEW t, ApartAs(s, r, t, s.fsize + n),
         \A i \in Nat : i < s.fsize => Item(t, Pointer(s), i) = Elem(s, i),
         NEW pos \in Nat, pos <= s.fsize, NEW p, Readable(s, r, p, n)
  PROVE  Inserts(s, InsertElsewhere(t, s, pos, p, n), pos, p, n)
  <1>1. PICK o : o = s.fstorage OBVIOUS
  <1>2. PICK size \in Nat : size = s.fsize /\ (o = Null \/ o \in Blocks)
    BY <1>1, SoundIs
  <1>3. PICK b \in Blocks : b = t.fstorage /\ b # o /\ b # Null
    BY <1>1, NullAssumption DEF ApartAs, Owner
  <1>4. /\ t \in States /\ Cells(t, b) = 0 .. freserve(t, b) - 1 /\ freserve(t, b) \in Nat
        /\ size + n <= freserve(t, b) /\ t.sdata = 0 /\ Untouched(s, t, r)
    BY <1>2, <1>3 DEF ApartAs, Owner
  <1>5. PICK v : v = IF s.fsize = 0 THEN t
                     ELSE IF isUnique(s) /\ MI_ISMOVED THEN InsertMoved(t, s, pos, n)
                     ELSE InsertCopied(t, s, pos, n) OBVIOUS
  <1>6. GapCells(t, v, b, Pointer(s), pos, n, size)
    BY <1>2, <1>3, <1>5, GapMadeCells
  <1>7. GapAs(t, v, r, Plus(s, r), o, pos, n, s.fsize + n)
    BY <1>1, <1>5, GapMade
  <1>8. /\ v \in States /\ SameView(t, v) /\ Untouched(t, v, r) /\ freserve(v, v.fstorage) = freserve(t, t.fstorage)
    BY <1>7 DEF GapAs, Holds, Owner
  <1>9. v.fstorage = b /\ v.sdata = 0 /\ Cells(v, b) = Cells(t, b)
    <2>1. v.fstorage = b /\ v.sdata = 0 /\ freserve(v, b) = freserve(t, b)
      BY <1>3, <1>4, <1>8 DEF SameView
    <2> QED BY <1>4, <1>8, <2>1, CellsAre
  <1>10. Untouched(s, v, r)
    BY <1>4, <1>8 DEF Untouched
  <1>11. Readable(v, r, p, n) /\ \A i : Item(v, p, i) = Item(s, p, i)
    BY <1>10, ReadableKept, ItemKept
  <1>12. PICK w : w = ConstructFrom(v, b, pos, Read(v, p, 0, n)) OBVIOUS
  <1>13. Placed(v, w, b, pos, p, n)
    BY <1>8, <1>11, <1>12, FromPlaces
  <1>14. w \in States /\ w.fstorage = b /\ w.sdata = 0
    BY <1>9, <1>13 DEF Placed, Alters, AltersBoth, SameView
  <1>15. PICK x : x = Departed(s, w) OBVIOUS
  <1>16. \A i : Elem(x, i) = Elem(w, i)
    <2>1. CASE o = Null
      BY <1>1, <1>15, <2>1 DEF Departed
    <2>2. CASE o # Null
      <3>1. x = decuse(w, o) /\ o \in Blocks
        BY <1>1, <1>2, <1>15, <2>2 DEF Departed
      <3> QED BY <1>3, <1>14, <3>1, DecuseRetains
    <2> QED BY <2>1, <2>2
  <1>17. \A i \in Nat : Elem(x, i) = Cell(w, b, i)
    <2>1. ASSUME NEW i \in Nat PROVE Elem(x, i) = Cell(w, b, i)
      <3>1. Elem(w, i) = Cell(w, b, 0 + i)
        BY <1>3, <1>14, ElemIs
      <3> QED BY <1>16, <3>1
    <2> QED BY <2>1
  <1>18. ASSUME NEW i \in Nat, i < pos PROVE Elem(x, i) = Elem(s, i)
    <2>1. i \notin pos .. pos + n - 1 /\ i < s.fsize
      BY <1>2, <1>18
    <2>2. Cell(w, b, i) = Cell(v, b, i)
      BY <1>13, <2>1 DEF Placed
    <2>3. Cell(v, b, i) = Item(t, Pointer(s), i)
      BY <1>6, <1>18 DEF GapCells
    <2> QED BY <1>17, <2>1, <2>2, <2>3
  <1>19. ASSUME NEW i \in Nat, i < n PROVE Elem(x, pos + i) = Item(s, p, i)
    <2>1. pos + i \in Cells(v, b)
      BY <1>2, <1>4, <1>9, <1>19
    <2>2. Cell(w, b, pos + i) = Item(v, p, i)
      BY <1>13, <1>19, <2>1 DEF Placed
    <2> QED BY <1>11, <1>17, <2>2
  <1>20. ASSUME NEW i \in Nat, pos <= i, i < s.fsize PROVE Elem(x, n + i) = Elem(s, i)
    <2>1. PICK j \in Nat : j = n + i OBVIOUS
    <2>2. j \notin pos .. pos + n - 1
      BY <1>20, <2>1
    <2>3. Cell(w, b, j) = Cell(v, b, j)
      BY <1>13, <2>2 DEF Placed
    <2>4. Cell(v, b, n + i) = Item(t, Pointer(s), i)
      BY <1>2, <1>6, <1>20 DEF GapCells
    <2> QED BY <1>17, <1>20, <2>1, <2>3, <2>4
  <1>21. x = InsertElsewhere(t, s, pos, p, n)
    BY <1>3, <1>5, <1>9, <1>12, <1>15 DEF InsertElsewhere, Departed
  <1>22. Inserts(s, x, pos, p, n)
    BY <1>18, <1>19, <1>20 DEF Inserts
  <1> QED BY <1>21, <1>22

\* The same storage: the tail is n cells further up.
TailUp(t, v, b, at, n, tail) ==
  /\ Alters(t, v, b)
  /\ \A i \in Nat : i < at => Cell(v, b, i) = Cell(t, b, i)
  /\ \A i \in Nat : i < tail => Cell(v, b, at + n + i) = Cell(t, b, at + i)

LEMMA MoveTailUp ==
  ASSUME NEW t \in States, NEW b \in Blocks, NEW at \in Nat, NEW n \in Nat, NEW tail \in Nat, NEW f \in Nat,
         Cells(t, b) = 0 .. f - 1, at + tail + n <= f
  PROVE  TailUp(t, movedataX(t, b, at + n, b, at, tail, FALSE), b, at, n, tail)
  <1>1. PICK dst \in Nat : dst = at + n OBVIOUS
  <1>2. PICK v : v = movedataX(t, b, dst, b, at, tail, FALSE) OBVIOUS
  <1>3. Shifts(t, v, b, dst, b, at, tail)
    BY <1>2, MoveShifts
  <1>4. ASSUME NEW i \in Nat, i < at PROVE Cell(v, b, i) = Cell(t, b, i)
    <2>1. i \notin dst .. dst + tail - 1 /\ i \notin at .. at + tail - 1
      BY <1>1, <1>4
    <2> QED BY <1>3, <2>1 DEF Shifts
  <1>5. ASSUME NEW i \in Nat, i < tail PROVE Cell(v, b, dst + i) = Cell(t, b, at + i)
    <2>1. dst + i \in Cells(t, b)
      BY <1>1, <1>5
    <2> QED BY <1>3, <1>5, <2>1 DEF Shifts
  <1>6. TailUp(t, v, b, at, n, tail)
    BY <1>1, <1>3, <1>4, <1>5 DEF TailUp, Shifts, Alters
  <1> QED BY <1>1, <1>2, <1>6

\* What is read of the array's own block, whatever it holds.
LEMMA OwnTexts ==
  ASSUME NEW t \in States, t.fstorage \in Blocks, NEW from \in Nat, NEW k \in Nat
  PROVE  /\ View(t, from, k) \in Texts /\ Len(View(t, from, k)) = k
         /\ \A i \in Nat : i < k => View(t, from, k)[i + 1] = Cell(t, t.fstorage, t.sdata + (from + i))
  <1>1. PICK p : p = Pointer(t) OBVIOUS
  <1>2. p.fstorage = t.fstorage /\ p.fstorage # Null /\ p.sdata = t.sdata /\ p.sdata \in Nat
    BY <1>1, NullAssumption DEF Pointer, States
  <1>3. PICK vs : vs = Read(t, p, from, k) OBVIOUS
  <1>4. \A i \in 1 .. k : Cell(t, t.fstorage, p.sdata + from + i - 1) \in CellValues
    BY CellIs
  <1>5. vs = [j \in 1 .. k |-> Cell(t, t.fstorage, p.sdata + from + j - 1)]
    BY <1>2, <1>3 DEF Read
  <1>6. vs \in [1 .. k -> CellValues]
    BY <1>4, <1>5
  <1>7. vs \in Texts /\ Len(vs) = k
    BY <1>6 DEF Texts
  <1>8. \A i \in Nat : i < k => vs[i + 1] = Item(t, p, from + i)
    BY <1>2, <1>3, ReadIs
  <1>9. \A i : Item(t, p, i) = Cell(t, t.fstorage, t.sdata + i)
    BY <1>2 DEF Item
  <1> QED BY <1>1, <1>3, <1>7, <1>8, <1>9 DEF View

\* Cell at of block b is where element pos of the array is.
Begins(t, b, at, pos) == b = t.fstorage /\ at = t.sdata + pos

LEMMA CopyTailUp ==
  ASSUME NEW t \in States, NEW b \in Blocks, NEW at \in Nat, NEW pos \in Nat, Begins(t, b, at, pos),
         NEW n \in Nat, NEW tail \in Nat, NEW f \in Nat, Cells(t, b) = 0 .. f - 1, at + tail + n <= f
  PROVE  TailUp(t, ShiftCopied(t, pos, tail, n), b, at, n, tail)
  <1>0. t.fstorage \in Blocks /\ t.fstorage = b
    BY DEF Begins
  <1>1. PICK z \in Nat : z = t.sdata /\ at = z + pos
    BY DEF States, Begins
  <1>2. PICK inner \in Nat : inner = Smaller(n, tail) /\ inner <= tail
    BY DEF Smaller
  <1>3. PICK k \in Nat : k = tail - inner
    BY <1>2
  <1>4a. PICK from \in Nat, dst \in Nat : from = pos + k /\ dst = at + n OBVIOUS
  <1>4b. PICK dst2 \in Nat : dst2 = dst + k OBVIOUS
  <1>4. from = pos + k /\ dst = at + n /\ dst2 = dst + k
    BY <1>4a, <1>4b
  <1>5. PICK vs : vs = View(t, pos, k) OBVIOUS
  <1>6. vs \in Texts /\ Len(vs) = k /\ \A i \in Nat : i < k => vs[i + 1] = Cell(t, b, z + (pos + i))
    <2>1. /\ View(t, pos, k) \in Texts /\ Len(View(t, pos, k)) = k
          /\ \A i \in Nat : i < k => View(t, pos, k)[i + 1] = Cell(t, t.fstorage, t.sdata + (pos + i))
      BY <1>0, OwnTexts
    <2> QED BY <1>0, <1>1, <1>5, <2>1
  <1>7. PICK ws : ws = View(t, from, inner) OBVIOUS
  <1>8. ws \in Texts /\ Len(ws) = inner /\ \A i \in Nat : i < inner => ws[i + 1] = Cell(t, b, z + (from + i))
    <2>1. /\ View(t, from, inner) \in Texts /\ Len(View(t, from, inner)) = inner
          /\ \A i \in Nat : i < inner => View(t, from, inner)[i + 1] = Cell(t, t.fstorage, t.sdata + (from + i))
      BY <1>0, OwnTexts
    <2> QED BY <1>0, <1>1, <1>7, <2>1
  <1>9. PICK u : u = copydata(t, b, dst, vs) OBVIOUS
  <1>10. Wrote(t, u, b, dst, vs)
    BY <1>6, <1>9, CopyWrote
  <1>11. u \in States /\ Cells(u, b) = Cells(t, b)
    BY <1>10 DEF Wrote, Alters, AltersBoth
  <1>12. CellsGet(t, u, b, dst, vs, k)
    BY <1>6, <1>10, WroteCells
  <1>13. PICK v : v = ConstructFrom(u, b, dst2, ws) OBVIOUS
  <1>14. Wrote(u, v, b, dst2, ws)
    BY <1>8, <1>11, <1>13, FromWrote
  <1>15. CellsGet(u, v, b, dst2, ws, inner)
    BY <1>8, <1>11, <1>14, WroteCells
  <1>16. Alters(t, v, b)
    BY <1>10, <1>14 DEF Wrote, Alters, AltersBoth, SameView
  <1>17. ASSUME NEW i \in Nat, i < at PROVE Cell(v, b, i) = Cell(t, b, i)
    <2>1. i \notin dst .. dst + k - 1 /\ i \notin dst2 .. dst2 + inner - 1
      BY <1>4, <1>17
    <2> QED BY <1>12, <1>15, <2>1 DEF CellsGet
  <1>18. ASSUME NEW i \in Nat, i < tail PROVE Cell(v, b, dst + i) = Cell(t, b, at + i)
    <2>1. CASE i < k
      <3>1. PICK j \in Nat : j = dst + i OBVIOUS
      <3>2. j \notin dst2 .. dst2 + inner - 1
        BY <1>4, <2>1, <3>1
      <3>3. j \in Cells(t, b)
        BY <1>4, <1>18, <3>1
      <3>4. Cell(v, b, j) = Cell(u, b, j)
        BY <1>15, <3>2 DEF CellsGet
      <3>5. Cell(u, b, dst + i) = vs[i + 1]
        BY <1>12, <2>1, <3>1, <3>3 DEF CellsGet
      <3>6. vs[i + 1] = Cell(t, b, z + (pos + i))
        BY <1>6, <2>1
      <3>7. z + (pos + i) = at + i
        BY <1>1
      <3> QED BY <3>1, <3>4, <3>5, <3>6, <3>7
    <2>2. CASE ~(i < k)
      <3>1. PICK j \in Nat : j = i - k
        BY <2>2
      <3>2a. j < inner
        BY <1>2, <1>3, <1>18, <3>1
      <3>2b. dst2 + j = dst + i
        BY <1>4, <3>1
      <3>2c. from + j = pos + i
        BY <1>4, <3>1
      <3>2d. z + (from + j) = at + i
        <4>1. z + (from + j) = z + (pos + i)
          BY <3>2c
        <4>2. z + (pos + i) = at + i
          BY <1>1
        <4> QED BY <4>1, <4>2
      <3>2. j < inner /\ dst2 + j = dst + i /\ z + (from + j) = at + i
        BY <3>2a, <3>2b, <3>2d
      <3>3. dst2 + j \in Cells(u, b)
        BY <1>4, <1>11, <1>18, <3>2
      <3>4. Cell(v, b, dst2 + j) = ws[j + 1]
        BY <1>15, <3>2, <3>3 DEF CellsGet
      <3>5. ws[j + 1] = Cell(t, b, z + (from + j))
        BY <1>8, <3>2
      <3> QED BY <3>2, <3>4, <3>5
    <2> QED BY <2>1, <2>2
  <1>19. v = ShiftCopied(t, pos, tail, n)
    <2>1. at + n + tail - inner = dst2 /\ tail - inner = k /\ pos + tail - inner = from
      BY <1>2, <1>3, <1>4
    <2>2. t.sdata + pos = at
      BY <1>1
    <2> QED BY <1>0, <1>1, <1>2, <1>4, <1>5, <1>7, <1>9, <1>13, <2>1, <2>2, Zenon DEF ShiftCopied
  <1>20. TailUp(t, v, b, at, n, tail)
    BY <1>4, <1>16, <1>17, <1>18 DEF TailUp
  <1> QED BY <1>19, <1>20

LEMMA HereInserts ==
  ASSUME NEW s, NEW r, Sound(s, r), NEW n \in Nat, 0 < n, NEW t, HereAs(s, r, t, s.fsize + n),
         Retains(s, t, s.fsize), NEW pos \in Nat, pos <= s.fsize, NEW p, Readable(s, r, p, n),
         "overrun" \notin InsertHere(t, s, pos, p, n).faults
  PROVE  Inserts(s, InsertHere(t, s, pos, p, n), pos, p, n)
  <1>1. PICK at, tail, b, f : AtGap(s, r, t, n, pos, at, tail, b, f)
    BY Gap
  <1>2. /\ tail \in Nat /\ at \in Nat /\ b \in Blocks /\ f \in Nat
        /\ pos + tail = s.fsize /\ at = t.sdata + pos /\ b = t.fstorage /\ t \in States
        /\ End(t) = at + tail + n /\ t.sdata \in Nat
        /\ f = freserve(t, b) /\ Cells(t, b) = 0 .. f - 1 /\ (tail > 0 => at + tail + n <= f)
    BY <1>1 DEF AtGap
  <1>3. s.fsize - pos = tail /\ b # Null /\ t.sdata <= at
    BY <1>2, NullAssumption
  <1>4. PICK z \in Nat : z = t.sdata /\ at = z + pos
    BY <1>2
  <1>a. PICK size \in Nat : size = s.fsize /\ pos + tail = size
    BY <1>2
  <1>b. at = z + pos /\ at \in Nat /\ tail \in Nat
    BY <1>2, <1>4
  <1>5. Begins(t, b, at, pos)
    BY <1>2 DEF Begins
  <1>6. PICK over, v : /\ over \in Nat /\ InsertHere(t, s, pos, p, n) = PutOver(v, at, p, over, n) /\ over <= n
                       /\ TailUp(t, v, b, at, n, tail) /\ Untouched(t, v, r)
    <2>1. CASE tail = 0
      <3>1. InsertHere(t, s, pos, p, n) = PutOver(t, at, p, 0, n)
        BY <1>2, <1>3, <2>1 DEF InsertHere
      <3>2. TailUp(t, t, b, at, n, tail) /\ Untouched(t, t, r) /\ 0 <= n
        BY <1>2, <2>1 DEF TailUp, Untouched, Alters, AltersBoth, SameView
      <3> QED BY <3>1, <3>2
    <2>2. CASE tail > 0 /\ MI_ISMOVED
      <3>1. PICK v : v = movedataX(t, b, at + n, b, at, tail, FALSE) OBVIOUS
      <3>2. InsertHere(t, s, pos, p, n) = PutOver(v, at, p, 0, n)
        <4>1. tail # 0 /\ MI_ISMOVED
          BY <1>2, <2>2
        <4>2. t.fstorage = b /\ t.sdata + pos = at /\ s.fsize - pos = tail
          BY <1>2, <1>3
        <4> QED BY <3>1, <4>1, <4>2, Zenon DEF InsertHere
      <3>3. ShiftedAs(t, v, r, at, 0, n, at + tail + n)
        BY <1>1, <2>2, <3>1, ShiftedByMove
      <3>4. TailUp(t, v, b, at, n, tail)
        BY <1>2, <2>2, <3>1, MoveTailUp
      <3> QED BY <3>2, <3>3, <3>4 DEF ShiftedAs
    <2>3. CASE tail > 0 /\ ~MI_ISMOVED
      <3>1. PICK v : v = ShiftCopied(t, pos, tail, n) OBVIOUS
      <3>2. PICK over \in Nat : over = Smaller(n, tail) /\ over <= n
        BY <1>2 DEF Smaller
      <3>3. InsertHere(t, s, pos, p, n) = PutOver(v, at, p, over, n)
        BY <1>2, <1>3, <2>3, <3>1, <3>2 DEF InsertHere
      <3>4. ShiftedAs(t, v, r, at, over, n, at + tail + n)
        BY <1>1, <2>3, <3>1, <3>2, ShiftedByCopy
      <3>5. TailUp(t, v, b, at, n, tail)
        BY <1>2, <1>5, <2>3, <3>1, CopyTailUp
      <3> QED BY <3>2, <3>3, <3>4, <3>5 DEF ShiftedAs
    <2> QED BY <1>2, <2>1, <2>2, <2>3
  <1>7. PICK u : u = InsertHere(t, s, pos, p, n) OBVIOUS
  <1>8. v \in States /\ v.fstorage = b /\ v.sdata = z /\ Cells(v, b) = Cells(t, b)
    BY <1>2, <1>4, <1>6 DEF TailUp, Alters, AltersBoth, SameView
  <1>9. Untouched(s, v, r)
    BY <1>6 DEF Untouched, HereAs
  <1>10. Readable(v, r, p, n) /\ \A i : Item(v, p, i) = Item(s, p, i)
    BY <1>9, ReadableKept, ItemKept
  <1>11. Placed(v, u, b, at, p, n)
    BY <1>2, <1>6, <1>7, <1>8, <1>10, PutPlaces
  <1>12. u \in States /\ u.fstorage = b /\ u.sdata = z /\ Cells(u, b) = Cells(v, b) /\ freserve(u, b) = f
    BY <1>2, <1>8, <1>11 DEF Placed, Alters, AltersBoth, SameView, freserve
  <1>13. at + tail + n <= f
    <2>1. Settled(s, r, u, s.fsize + n)
      BY <1>7, InsertedHere
    <2>2. End(u) <= freserve(u, u.fstorage) /\ u.fsize = s.fsize + n
      BY <1>7, <2>1 DEF Settled
    <2>3. End(u) = z + (pos + tail + n)
      BY <1>2, <1>12, <2>2 DEF End
    <2> QED BY <1>2, <1>4, <1>12, <2>2, <2>3
  <1>14. \A i \in Nat : Elem(u, i) = Cell(u, b, z + i)
    BY <1>3, <1>12, ElemIs
  <1>15. \A i \in Nat : Elem(t, i) = Cell(t, b, z + i)
    BY <1>2, <1>3, <1>4, ElemIs
  <1>16. ASSUME NEW i \in Nat, i < pos PROVE Elem(u, i) = Elem(s, i)
    <2>1. PICK j \in Nat : j = z + i OBVIOUS
    <2>2a. j < at
      BY <1>b, <1>16, <2>1
    <2>2b. j \notin at .. at + n - 1
      BY <1>b, <2>2a
    <2>2c. i < s.fsize
      BY <1>a, <1>b, <1>16
    <2>2. j < at /\ j \notin at .. at + n - 1 /\ i < s.fsize
      BY <2>2a, <2>2b, <2>2c
    <2>3. Cell(u, b, j) = Cell(v, b, j)
      BY <1>11, <2>2 DEF Placed
    <2>4. Cell(v, b, j) = Cell(t, b, j)
      BY <1>6, <2>2 DEF TailUp
    <2>5. Elem(t, i) = Elem(s, i)
      BY <2>2 DEF Retains
    <2> QED BY <1>14, <1>15, <2>1, <2>3, <2>4, <2>5
  <1>17. ASSUME NEW i \in Nat, i < n PROVE Elem(u, pos + i) = Item(s, p, i)
    <2>0. at + i \in 0 .. f - 1
      <3>1. PICK g \in Nat : g = f /\ at + tail + n <= g
        BY <1>2, <1>13
      <3>2. at + i \in 0 .. g - 1
        BY <1>b, <1>17, <3>1
      <3> QED BY <3>1, <3>2
    <2>1. at + i \in Cells(v, b)
      BY <1>2, <1>8, <2>0
    <2>2. Cell(u, b, at + i) = Item(v, p, i)
      BY <1>11, <1>17, <2>1 DEF Placed
    <2>3. z + (pos + i) = at + i /\ pos + i \in Nat
      BY <1>4
    <2>4. Elem(u, pos + i) = Cell(u, b, z + (pos + i))
      BY <1>14, <2>3
    <2> QED BY <1>10, <2>2, <2>3, <2>4
  <1>18. ASSUME NEW i \in Nat, pos <= i, i < s.fsize PROVE Elem(u, n + i) = Elem(s, i)
    <2>1. PICK j \in Nat : j = i - pos
      BY <1>18
    <2>2. PICK l \in Nat : l = at + n + j
      BY <1>2
    <2>3a. l \notin at .. at + n - 1
      BY <1>b, <2>2
    <2>3b. j < tail
      BY <1>a, <1>b, <1>18, <2>1
    <2>3. l \notin at .. at + n - 1 /\ j < tail
      BY <2>3a, <2>3b
    <2>4. z + (n + i) = l /\ z + i = at + j /\ n + i \in Nat
      BY <1>4, <2>1, <2>2
    <2>5. Cell(u, b, l) = Cell(v, b, l)
      BY <1>11, <2>3 DEF Placed
    <2>6. Cell(v, b, at + n + j) = Cell(t, b, at + j)
      BY <1>6, <2>3 DEF TailUp
    <2>7. Elem(u, n + i) = Cell(u, b, l)
      BY <1>14, <2>4
    <2>8. Elem(t, i) = Cell(t, b, at + j)
      BY <1>15, <2>4
    <2>9. Elem(t, i) = Elem(s, i)
      BY <1>18 DEF Retains
    <2> QED BY <2>2, <2>5, <2>6, <2>7, <2>8, <2>9
  <1>19. Inserts(s, u, pos, p, n)
    BY <1>16, <1>17, <1>18 DEF Inserts
  <1> QED BY <1>7, <1>19

\* linsert.
LEMMA KeptInserts ==
  ASSUME NEW s, NEW r, Sound(s, r), Room(s, r), NEW n \in Nat, 0 < n,
         NEW pos \in Nat, pos <= s.fsize, NEW p, Readable(s, r, p, n),
         "overrun" \notin InsertKept(s, pos, p, n).faults
  PROVE  Inserts(s, InsertKept(s, pos, p, n), pos, p, n)
  <1>1. PICK size \in Nat : size = s.fsize + n /\ s.fsize < size
    BY SoundIs
  <1>2. PICK opts : opts = InsertOpts OBVIOUS
  <1>3. "Unique" \in opts /\ "NoCopy" \in opts /\ "NoNew" \in opts /\ "NoDecUse" \in opts
    BY <1>2 DEF InsertOpts
  <1>4. PICK t : t = doresize(s, size, opts) OBVIOUS
  <1>5. InsertKept(s, pos, p, n) = IF t.fstorage # s.fstorage THEN InsertElsewhere(t, s, pos, p, n)
                                   ELSE InsertHere(t, s, pos, p, n)
    BY <1>1, <1>2, <1>4 DEF InsertKept, InsertOpts
  <1>6. CASE InPlace(s, size)
    <2>1. GrownAs(s, r, t, size, opts)
      BY <1>1, <1>4, <1>6, GrownInPlace
    <2>2. HereAs(s, r, t, s.fsize + n) /\ t.fstorage = s.fstorage
      BY <1>1, <1>3, <2>1 DEF GrownAs, HereAs
    <2>3. Retains(s, t, s.fsize)
      BY <1>1, <1>4, <1>6, InPlaceExtends
    <2>4. PICK u : u = InsertHere(t, s, pos, p, n) OBVIOUS
    <2>5. "overrun" \notin u.faults
      BY <1>5, <2>2, <2>4
    <2>6. Inserts(s, u, pos, p, n)
      BY <2>2, <2>3, <2>4, <2>5, HereInserts
    <2> QED BY <1>5, <2>2, <2>4, <2>6
  <1>7. CASE ~InPlace(s, size)
    <2>1. ApartAs(s, r, t, s.fsize + n)
      BY <1>1, <1>3, <1>4, <1>7, GrownApart
    <2>2. t.fstorage # s.fstorage
      BY <2>1 DEF ApartAs
    <2>3. \A i \in Nat : i < s.fsize => Item(t, Pointer(s), i) = Elem(s, i)
      BY <1>1, <1>3, <1>4, <1>7, ApartRetains
    <2>4. PICK u : u = InsertElsewhere(t, s, pos, p, n) OBVIOUS
    <2>5. Inserts(s, u, pos, p, n)
      BY <2>1, <2>3, <2>4, ElsewhereInserts
    <2> QED BY <1>5, <2>2, <2>4, <2>5
  <1> QED BY <1>6, <1>7

LEMMA SameBlocksElems ==
  ASSUME NEW s, NEW k, SameBlocks(s, k), s.fstorage = Null \/ s.fstorage \in Blocks
  PROVE  \A i : Elem(k, i) = Elem(s, i)
  <1>1. PICK p : p = Pointer(s) OBVIOUS
  <1>2. Pointer(k) = p /\ p.fstorage = s.fstorage
    BY <1>1 DEF SameBlocks, SameView, Pointer
  <1>3. p.fstorage # Null => k.heap[p.fstorage].fdata = s.heap[p.fstorage].fdata
    BY <1>2 DEF SameBlocks, SameCells
  <1>4. \A i : Item(k, p, i) = Item(s, p, i)
    BY <1>3, ReadSame
  <1> QED BY <1>1, <1>2, <1>4 DEF Elem

LEMMA InsertGives ==
  ASSUME NEW s, NEW r, Sound(s, r), Room(s, r), NEW position \in Nat, NEW p, NEW n \in Nat,
         n > 0 => Readable(s, Pinned(s, r, p, n), p, n), "overrun" \notin linsert(s, position, p, n).faults
  PROVE  Inserts(s, linsert(s, position, p, n), Smaller(position, s.fsize), p, n)
  <1>1. s.fsize \in Nat /\ (s.fstorage = Null \/ s.fstorage \in Blocks)
    BY SoundIs
  <1>2. PICK pos \in Nat : pos = Smaller(position, s.fsize) /\ pos <= s.fsize
    BY <1>1 DEF Smaller
  <1>3. CASE n = 0
    <2>1. linsert(s, position, p, n) = s
      BY <1>3 DEF linsert
    <2>2. Inserts(s, s, pos, p, n)
      BY <1>3 DEF Inserts
    <2> QED BY <1>2, <2>1, <2>2
  <1>4. CASE n # 0
    <2>1. PICK k : k = Keep(s, p, n) OBVIOUS
    <2>2. PICK m : m = Pinned(s, r, p, n) OBVIOUS
    <2>3. Sound(k, m) /\ Room(k, m) /\ SameBlocks(s, k)
      BY <2>1, <2>2, Kept
    <2>4. k.fsize = s.fsize /\ \A i : Elem(k, i) = Elem(s, i)
      BY <1>1, <2>3, SameBlocksElems DEF SameBlocks, SameView
    <2>5. Readable(s, m, p, n) /\ Untouched(s, k, m)
      BY <1>4, <2>2, <2>3 DEF Untouched, SameBlocks, SameCells
    <2>6. Readable(k, m, p, n) /\ \A i : Item(k, p, i) = Item(s, p, i)
      BY <2>5, ReadableKept, ItemKept
    <2>7. PICK u : u = InsertKept(k, pos, p, n) OBVIOUS
    <2>8. 0 < n /\ pos <= k.fsize
      BY <1>2, <1>4, <2>4
    <2>9. Settled(k, m, u, k.fsize + n)
      BY <2>3, <2>6, <2>7, <2>8, InsertedKept
    <2>10. PICK t : t = Release(u, s, p, n) OBVIOUS
    <2>11. t = linsert(s, position, p, n)
      BY <1>2, <1>4, <2>1, <2>7, <2>10 DEF linsert
    <2>12. Settled(Keep(s, p, n), Pinned(s, r, p, n), u, k.fsize + n)
      BY <2>1, <2>2, <2>9
    <2>13. (\A i : Elem(t, i) = Elem(u, i)) /\ t.faults = u.faults
      BY <2>10, <2>12, ReleaseRetains
    <2>14. "overrun" \notin u.faults
      BY <2>11, <2>13
    <2>15. Inserts(k, u, pos, p, n)
      BY <2>3, <2>6, <2>7, <2>8, <2>14, KeptInserts
    <2>16. Inserts(s, t, pos, p, n)
      BY <2>4, <2>6, <2>13, <2>15 DEF Inserts
    <2> QED BY <1>2, <2>11, <2>16
  <1> QED BY <1>3, <1>4

-----------------------------------------------------------------------------
(* Elements that are erased. *)

\* The n elements from the one at pos on are gone.
Erases(s, t, pos, n) ==
  /\ t.fsize = s.fsize - n
  /\ \A i \in Nat : i < pos => Elem(t, i) = Elem(s, i)
  /\ \A i \in Nat : pos <= i /\ i < s.fsize - n => Elem(t, i) = Elem(s, n + i)

LEMMA HereErases ==
  ASSUME NEW s, NEW r, Sound(s, r), isUnique(s), NEW pos \in Nat, NEW n \in Nat, pos + n <= s.fsize
  PROVE  Erases(s, lerase_here(s, pos, n), pos, n)
  <1>1. s \in States /\ s.fstorage \in Blocks /\ s.sdata \in Nat /\ s.fsize \in Nat /\ End(s) = s.sdata + s.fsize
    BY SoundIs, UniqueBlock
  <1>2. PICK b \in Blocks, sd \in Nat, size \in Nat : b = s.fstorage /\ sd = s.sdata /\ size = s.fsize
    BY <1>1
  <1>3. PICK at \in Nat, tail \in Nat, m \in Nat :
           at = sd + pos /\ tail = size - (pos + n) /\ m = size - n /\ sd + m = at + tail /\ m = pos + tail
    BY <1>2
  <1>4. PICK src \in Nat : src = at + n /\ src + tail = sd + size
    BY <1>3
  <1>5. PICK u : u = DestructStorageAtEnd(s) OBVIOUS
  <1>6. u \in States /\ isUnique(u) /\ End(u) <= freserve(u, u.fstorage) /\ Retains(s, u, size)
    BY <1>2, <1>5, TrimmedFits
  <1>7. u.fstorage = b /\ u.sdata = sd /\ u.fsize = size
    BY <1>1, <1>2, <1>5, TrimKeeps DEF SameView
  <1>8. PICK f \in Nat : f = freserve(u, b) /\ Cells(u, b) = 0 .. f - 1 /\ src + tail <= f
    BY <1>4, <1>6, <1>7, CellsAre DEF End
  <1>9. PICK v : v = movedataX(u, b, at, b, src, tail, TRUE) OBVIOUS
  <1>10. Shifts(u, v, b, at, b, src, tail)
    BY <1>6, <1>9, MoveShifts
  <1>11. v \in States /\ SameView(u, v)
    BY <1>10 DEF Shifts, AltersBoth
  <1>12. PICK c \in Nat : c = erasedSize(s, pos, n)
    <2>1. Smaller(tail, n) \in Nat /\ Smaller(tail, n) <= tail
      BY DEF Smaller
    <2>2. erasedSize(s, pos, n) = sd + size - Smaller(tail, n)
      BY <1>2, <1>3 DEF erasedSize
    <2>3. sd + size - Smaller(tail, n) \in Nat
      BY <1>3, <2>1
    <2> QED BY <2>2, <2>3
  <1>13. PICK w : w = set_size(v, b, c) OBVIOUS
  <1>14. w \in States /\ SameView(v, w) /\ w.heap[b].fdata = v.heap[b].fdata
    BY <1>11, <1>13, SetSize DEF Alters, AltersBoth
  <1>15. PICK x : x = [w EXCEPT !.fsize = m] OBVIOUS
  <1>16. x \in States /\ x.heap = w.heap /\ x.fstorage = b /\ x.sdata = sd /\ x.fsize = m
    BY <1>7, <1>11, <1>14, <1>15, Resized DEF SameView
  <1>17. PICK y : y = DestructStorageAtEnd(x) OBVIOUS
  <1>18. Inside(x, y) /\ SameView(x, y) /\ Below(x, y, End(x))
    BY <1>16, <1>17, TrimKeeps
  <1>19. y \in States /\ y.fstorage = b /\ y.sdata = sd /\ y.fsize = m
    BY <1>16, <1>18 DEF Inside, SameView
  <1>20. PICK t : t = putzero_toend(y) OBVIOUS
  <1>21. SameView(y, t) /\ Below(y, t, End(y))
    BY <1>19, <1>20, ZeroKeeps
  <1>22. t.fstorage = b /\ t.sdata = sd /\ t.fsize = m /\ b # Null
    BY <1>19, <1>21, NullAssumption DEF SameView
  <1>23. ASSUME NEW i \in Nat, i < m PROVE Elem(t, i) = Cell(v, b, sd + i)
    <2>1. PICK j \in Nat : j = sd + i /\ j < End(x) /\ j < End(y)
      BY <1>16, <1>19, <1>23 DEF End
    <2>2. Cell(t, b, j) = Cell(y, b, j)
      BY <1>19, <1>21, <2>1 DEF Below
    <2>3. Cell(y, b, j) = Cell(x, b, j)
      BY <1>16, <1>18, <2>1 DEF Below
    <2>4. Cell(x, b, j) = Cell(v, b, j)
      BY <1>14, <1>16, SameDataCells
    <2>5. Elem(t, i) = Cell(t, b, sd + i)
      BY <1>22, ElemIs
    <2> QED BY <2>1, <2>2, <2>3, <2>4, <2>5
  <1>24. ASSUME NEW i \in Nat, i < size PROVE Cell(u, b, sd + i) = Elem(s, i)
    <2>1. Elem(u, i) = Cell(u, b, sd + i)
      BY <1>7, <1>22, ElemIs
    <2> QED BY <1>6, <1>24, <2>1 DEF Retains
  <1>25. ASSUME NEW i \in Nat, i < pos PROVE Elem(t, i) = Elem(s, i)
    <2>1. i < m /\ i < size
      BY <1>3, <1>25
    <2>2. PICK j \in Nat : j = sd + i OBVIOUS
    <2>3. j \notin at .. at + tail - 1 /\ j \notin src .. src + tail - 1
      BY <1>3, <1>4, <1>25, <2>2
    <2>4. Cell(v, b, j) = Cell(u, b, j)
      BY <1>10, <2>3 DEF Shifts
    <2> QED BY <1>23, <1>24, <2>1, <2>2, <2>4
  <1>26. ASSUME NEW i \in Nat, pos <= i, i < m PROVE Elem(t, i) = Elem(s, n + i)
    <2>1. PICK j \in Nat : i = pos + j /\ j < tail /\ sd + i = at + j
      BY <1>3, <1>26
    <2>2. at + j \in Cells(u, b)
      BY <1>4, <1>8, <2>1
    <2>3. Cell(v, b, at + j) = Cell(u, b, src + j)
      BY <1>10, <2>1, <2>2 DEF Shifts
    <2>4. PICK k \in Nat : k = n + i /\ k < size /\ src + j = sd + k
      BY <1>3, <1>4, <1>26, <2>1
    <2>5. Cell(u, b, src + j) = Elem(s, k)
      BY <1>24, <2>4
    <2> QED BY <1>23, <1>26, <2>1, <2>3, <2>4, <2>5
  <1>27. t = lerase_here(s, pos, n)
    <2>1. v = movedataX(DestructStorageAtEnd(s), s.fstorage, s.sdata + pos, s.fstorage, s.sdata + pos + n, s.fsize - (pos + n), TRUE)
      BY <1>2, <1>3, <1>4, <1>5, <1>9
    <2>2. lerase_here(s, pos, n) = putzero_toend(DestructStorageAtEnd(
            [set_size(v, s.fstorage, erasedSize(s, pos, n)) EXCEPT !.fsize = s.fsize - n]))
      BY <2>1 DEF lerase_here
    <2>3. x = [set_size(v, s.fstorage, erasedSize(s, pos, n)) EXCEPT !.fsize = s.fsize - n]
      BY <1>2, <1>3, <1>12, <1>13, <1>15
    <2> QED BY <1>17, <1>20, <2>2, <2>3
  <1>28. t.fsize = s.fsize - n
    BY <1>2, <1>3, <1>22
  <1> QED BY <1>2, <1>3, <1>25, <1>26, <1>27, <1>28 DEF Erases

LEMMA SharedErases ==
  ASSUME NEW s, NEW r, Sound(s, r), Room(s, r), NEW pos \in Nat, NEW n \in Nat, pos + n <= s.fsize
  PROVE  Erases(s, lerase_shared(s, pos, n), pos, n)
  <1>1. s \in States /\ s.sdata \in Nat /\ s.fsize \in Nat
    BY SoundIs
  <1>2. PICK size \in Nat, k \in Nat, from \in Nat :
           size = s.fsize - n /\ k = size - pos /\ from = pos + n /\ from + k = s.fsize /\ pos + k = size
    BY <1>1
  <1>3. PICK m : m = Plus(s, r) OBVIOUS
  <1>4. PICK low : low = View(s, 0, pos) OBVIOUS
  <1>5. low \in Texts /\ Len(low) = pos /\ \A i \in Nat : i < pos => low[i + 1] = Elem(s, 0 + i)
    <2>1. 0 + pos <= s.fsize
      BY <1>1
    <2> QED BY <1>4, <2>1, ViewTexts
  <1>6. PICK high : high = View(s, from, k) OBVIOUS
  <1>7. high \in Texts /\ Len(high) = k /\ \A i \in Nat : i < k => high[i + 1] = Elem(s, from + i)
    <2>1. from + k <= s.fsize
      BY <1>1, <1>2
    <2> QED BY <1>6, <2>1, ViewTexts
  <1>8. PICK q : q = reset_nodone(s) OBVIOUS
  <1>9. Sound(q, m) /\ Room(q, m)
    BY <1>3, <1>8, Detached DEF ErasedRoom
  <1>10. PICK opts : opts = {"NoCopy", "NoNew"} OBVIOUS
  <1>11. "NoCopy" \in opts /\ "NoNew" \in opts /\ "NoDecUse" \notin opts
    BY <1>10
  <1>12. PICK t : t = makenew(q, size, size, opts) OBVIOUS
  <1>13. EmptyAs(q, m, t, size, size)
    <2>1. size <= size
      BY <1>2
    <2>2. EmptyAs(q, After(q, m, opts), t, size, size)
      BY <1>9, <1>11, <1>12, <2>1, MadeEmpty
    <2> QED BY <1>11, <2>2 DEF After
  <1>14. t \in States /\ t.fstorage \in Blocks /\ m[t.fstorage] = 0
    BY <1>13 DEF EmptyAs, Owner
  <1>15. PICK b \in Blocks, f \in Nat : b = t.fstorage /\ f = freserve(t, b) /\ Cells(t, b) = 0 .. f - 1 /\ size <= f
    <2>1. size + eAddZeroE <= freserve(t, t.fstorage) /\ freserve(t, t.fstorage) \in Nat /\ eAddZeroE \in Nat
      BY <1>13 DEF EmptyAs, eAddZeroE
    <2>2. size <= freserve(t, t.fstorage)
      BY <1>2, <2>1
    <2> QED BY <1>13, <1>14, <2>1, <2>2 DEF EmptyAs
  <1>16. t.sdata = 0 /\ t.fsize = size
    BY <1>13 DEF EmptyAs
  <1>17. b # s.fstorage
    <2>1. r \in [Blocks -> Nat] /\ \A c \in Blocks : r[c] \in Nat
      BY DEF Sound, Counted
    <2>2. m[b] = 0
      BY <1>14, <1>15
    <2>3. m[b] = r[b] + IF s.fstorage = b THEN 1 ELSE 0
      BY <1>3 DEF Plus
    <2> QED BY <2>1, <2>2, <2>3
  <1>18. PICK zero \in Nat : zero = 0 OBVIOUS
  <1>19. PICK u : u = ConstructFrom(t, b, zero, low) OBVIOUS
  <1>20. Wrote(t, u, b, zero, low)
    BY <1>5, <1>14, <1>19, FromWrote
  <1>21. u \in States /\ SameView(t, u) /\ Cells(u, b) = 0 .. f - 1
    BY <1>15, <1>20 DEF Wrote, Alters, AltersBoth
  <1>22. CellsGet(t, u, b, zero, low, pos)
    BY <1>5, <1>14, <1>20, WroteCells
  <1>23. PICK v : v = ConstructFrom(u, b, pos, high) OBVIOUS
  <1>24. Wrote(u, v, b, pos, high)
    BY <1>7, <1>21, <1>23, FromWrote
  <1>25. v \in States /\ SameView(u, v)
    BY <1>24 DEF Wrote, Alters, AltersBoth
  <1>26. CellsGet(u, v, b, pos, high, k)
    BY <1>7, <1>21, <1>24, WroteCells
  <1>27. v.fstorage = b /\ v.sdata = 0 /\ v.fsize = size /\ b # Null
    BY <1>15, <1>16, <1>21, <1>25, NullAssumption DEF SameView
  <1>28. ASSUME NEW i PROVE Elem(v, i) = Cell(v, b, 0 + i)
    BY <1>27, ElemIs
  <1>29. PICK x : x = Departed(s, v) OBVIOUS
  <1>30. x.fsize = size /\ \A i : Elem(x, i) = Elem(v, i)
    <2>1. CASE s.fstorage = Null
      BY <1>27, <1>29, <2>1 DEF Departed
    <2>2. CASE s.fstorage # Null
      <3>1. PICK o \in Blocks : o = s.fstorage
        BY <2>2, SoundIs
      <3>2. x = decuse(v, o)
        BY <1>29, <2>2, <3>1 DEF Departed
      <3>3. \A i : Elem(x, i) = Elem(v, i)
        BY <1>17, <1>25, <1>27, <3>1, <3>2, DecuseRetains
      <3>4. x.fsize = size
        BY <1>25, <1>27, <3>2, DecuseOnly DEF SameView
      <3> QED BY <3>3, <3>4
    <2> QED BY <2>1, <2>2
  <1>31. ASSUME NEW i \in Nat, i < pos PROVE Elem(x, i) = Elem(s, i)
    <2>1. i \notin pos .. pos + k - 1
      BY <1>31
    <2>2. Cell(v, b, i) = Cell(u, b, i)
      BY <1>26, <2>1 DEF CellsGet
    <2>3. zero + i = i /\ zero + i \in Cells(t, b) /\ 0 + i = i
      BY <1>2, <1>15, <1>18, <1>31
    <2>4. Cell(u, b, zero + i) = low[i + 1]
      BY <1>22, <1>31, <2>3 DEF CellsGet
    <2>5. low[i + 1] = Elem(s, 0 + i)
      BY <1>5, <1>31
    <2>6. Elem(v, i) = Cell(v, b, i)
      BY <1>28, <2>3
    <2> QED BY <1>30, <2>2, <2>3, <2>4, <2>5, <2>6
  <1>32. ASSUME NEW i \in Nat, pos <= i, i < size PROVE Elem(x, i) = Elem(s, n + i)
    <2>1. PICK j \in Nat : i = pos + j /\ j < k /\ from + j = n + i /\ 0 + i = pos + j
      BY <1>2, <1>32
    <2>2. pos + j \in Cells(u, b)
      BY <1>15, <1>21, <1>32, <2>1
    <2>3. Cell(v, b, pos + j) = high[j + 1]
      BY <1>26, <2>1, <2>2 DEF CellsGet
    <2>4. high[j + 1] = Elem(s, from + j)
      BY <1>7, <2>1
    <2>5. Elem(v, i) = Cell(v, b, pos + j)
      BY <1>28, <2>1
    <2> QED BY <1>30, <2>1, <2>3, <2>4, <2>5
  <1>33. x = lerase_shared(s, pos, n)
    <2>1. u.fstorage = b /\ t.fstorage = b
      BY <1>15, <1>21 DEF SameView
    <2> QED BY <1>2, <1>4, <1>6, <1>8, <1>10, <1>12, <1>18, <1>19, <1>23, <1>29, <2>1 DEF lerase_shared, Departed
  <1> QED BY <1>2, <1>30, <1>31, <1>32, <1>33 DEF Erases

\* lerase.
Erasable(s, pos, count) == IF pos >= s.fsize THEN 0 ELSE Smaller(count, s.fsize - pos)

LEMMA EraseGives ==
  ASSUME NEW s, NEW r, Sound(s, r), Room(s, r), NEW pos \in Nat, NEW count \in Nat, 0 < count
  PROVE  Erases(s, lerase(s, pos, count), pos, Erasable(s, pos, count))
  <1>1. s.fsize \in Nat
    BY SoundIs
  <1>2. CASE pos >= s.fsize
    <2>1. lerase(s, pos, count) = s /\ Erasable(s, pos, count) = 0
      BY <1>2 DEF lerase, Erasable
    <2>2. ASSUME NEW i \in Nat, pos <= i, i < s.fsize - 0 PROVE FALSE
      BY <1>1, <1>2, <2>2
    <2>3. s.fsize = s.fsize - 0
      BY <1>1
    <2> QED BY <2>1, <2>2, <2>3 DEF Erases
  <1>3. CASE pos < s.fsize
    <2>1. ~(pos >= s.fsize)
      BY <1>1, <1>3
    <2>2. PICK n \in Nat : n = eraseCount(s, pos, count) /\ pos + n <= s.fsize
      <3>1. PICK rest \in Nat : rest = s.fsize - pos /\ pos + rest = s.fsize
        BY <1>1, <1>3
      <3>2. Smaller(count, rest) \in Nat /\ Smaller(count, rest) <= rest
        BY <3>1 DEF Smaller
      <3> QED BY <3>1, <3>2 DEF eraseCount
    <2>3. Erasable(s, pos, count) = n
      BY <2>1, <2>2 DEF Erasable, eraseCount
    <2>4. CASE n = s.fsize
      <3>1. PICK opts : opts = {"Unique"} OBVIOUS
      <3>2. "Unique" \in opts /\ "NoCopy" \notin opts /\ "NoNew" \notin opts /\ "NoDecUse" \notin opts
        BY <3>1
      <3>3. PICK none \in Nat : none = 0 OBVIOUS
      <3>4. PICK t : t = doresize(s, none, opts) OBVIOUS
      <3>5. Fine(s, r, t, none)
        BY <3>2, <3>4, ResizedUnique
      <3>6. lerase(s, pos, count) = t
        BY <2>1, <2>2, <2>4, <3>1, <3>3, <3>4 DEF lerase
      <3>7. t.fsize = s.fsize - n
        BY <1>1, <2>4, <3>3, <3>5 DEF Fine
      <3>8. pos = 0 /\ s.fsize - n = 0
        BY <1>1, <2>2, <2>4
      <3>9. ASSUME NEW i \in Nat, i < pos PROVE FALSE
        BY <3>8, <3>9
      <3>10. ASSUME NEW i \in Nat, i < s.fsize - n PROVE FALSE
        BY <3>8, <3>10
      <3> QED BY <2>3, <3>6, <3>7, <3>9, <3>10 DEF Erases
    <2>5. CASE n # s.fsize /\ isUnique(s)
      <3>1. lerase(s, pos, count) = lerase_here(s, pos, n)
        BY <2>1, <2>2, <2>5 DEF lerase
      <3> QED BY <2>2, <2>3, <2>5, <3>1, HereErases
    <2>6. CASE n # s.fsize /\ ~isUnique(s)
      <3>1. lerase(s, pos, count) = lerase_shared(s, pos, n)
        BY <2>1, <2>2, <2>6 DEF lerase
      <3> QED BY <2>2, <2>3, <3>1, SharedErases
    <2> QED BY <2>4, <2>5, <2>6
  <1> QED BY <1>1, <1>2, <1>3

-----------------------------------------------------------------------------
(* The array as a sequence. *)

Elements(s) == View(s, 0, s.fsize)

LEMMA ElementsAre ==
  ASSUME NEW s, NEW r, Sound(s, r)
  PROVE  /\ Elements(s) \in Texts /\ Len(Elements(s)) = s.fsize
         /\ \A i \in Nat : i < s.fsize => Elements(s)[i + 1] = Elem(s, i)
  <1>1. PICK n \in Nat, from \in Nat : n = s.fsize /\ from = 0 /\ from + n <= s.fsize
    BY SoundIs
  <1>2. PICK vs : vs = View(s, from, n) OBVIOUS
  <1>3. vs \in Texts /\ Len(vs) = n /\ \A i \in Nat : i < n => vs[i + 1] = Elem(s, from + i)
    BY <1>1, <1>2, ViewTexts
  <1>4. \A i \in Nat : from + i = i
    BY <1>1
  <1>5. \A i \in Nat : i < n => vs[i + 1] = Elem(s, i)
    BY <1>3, <1>4
  <1> QED BY <1>1, <1>2, <1>3, <1>5 DEF Elements

LEMMA TextsEqual ==
  ASSUME NEW a \in Texts, NEW b \in Texts, Len(a) = Len(b), \A i \in Nat : i < Len(a) => a[i + 1] = b[i + 1]
  PROVE  a = b
  <1>1. Len(a) \in Nat /\ a \in Seq(CellValues) /\ b \in Seq(CellValues)
    BY LenProperties DEF Texts
  <1>2. ASSUME NEW j \in 1 .. Len(a) PROVE a[j] = b[j]
    <2>1. PICK i \in Nat : j = i + 1 /\ i < Len(a)
      <3>1. j - 1 \in Nat /\ j = (j - 1) + 1 /\ j - 1 < Len(a)
        BY <1>1
      <3> QED BY <3>1
    <2> QED BY <2>1
  <1> QED BY <1>1, <1>2, SeqEqual

LEMMA SubTexts ==
  ASSUME NEW e \in Texts, NEW m \in Nat, NEW n \in Nat, n <= Len(e)
  PROVE  LET t == SubSeq(e, m + 1, n) IN
         /\ t \in Texts /\ Len(t) = IF m < n THEN n - m ELSE 0
         /\ \A i \in Nat : m + i < n => t[i + 1] = e[m + i + 1]
  <1>1. PICK from \in Int : from = m + 1 OBVIOUS
  <1>2. e \in Seq(CellValues) /\ Len(e) \in Nat
    BY LenProperties DEF Texts
  <1>3. ASSUME NEW i \in from .. n PROVE e[i] \in CellValues
    <2>1. i \in 1 .. Len(e)
      BY <1>1, <1>2
    <2> QED BY <1>2, <2>1, ElementOfSeq
  <1>4. PICK t : t = SubSeq(e, from, n) OBVIOUS
  <1>5. t \in Seq(CellValues)
    BY <1>3, <1>4, SubSeqProperties
  <1>6. Len(t) = IF from <= n THEN n - from + 1 ELSE 0
    BY <1>3, <1>4, SubSeqProperties
  <1>7. \A i \in 1 .. n - from + 1 : t[i] = e[from + i - 1]
    BY <1>3, <1>4, SubSeqProperties
  <1>8. Len(t) = IF m < n THEN n - m ELSE 0
    BY <1>1, <1>6
  <1>9. ASSUME NEW i \in Nat, m + i < n PROVE t[i + 1] = e[m + i + 1]
    <2>1. i + 1 \in 1 .. n - from + 1 /\ from + (i + 1) - 1 = m + i + 1
      BY <1>1, <1>9
    <2> QED BY <1>7, <2>1
  <1> QED BY <1>1, <1>4, <1>5, <1>8, <1>9 DEF Texts

Joins(c, a, m, b, n) ==
  /\ c \in Texts /\ Len(c) = m + n
  /\ \A i \in Nat : i < m => c[i + 1] = a[i + 1]
  /\ \A i \in Nat : i < n => c[m + i + 1] = b[i + 1]

LEMMA JoinTexts ==
  ASSUME NEW a \in Texts, NEW b \in Texts, NEW m, NEW n, m = Len(a), n = Len(b)
  PROVE  Joins(a \o b, a, m, b, n)
  <1>1. a \in Seq(CellValues) /\ b \in Seq(CellValues) /\ m \in Nat /\ n \in Nat
    BY LenProperties DEF Texts
  <1>2. a \o b \in Seq(CellValues) /\ Len(a \o b) = m + n
    BY <1>1, ConcatProperties
  <1>3. \A i \in 1 .. m + n : (a \o b)[i] = IF i <= m THEN a[i] ELSE b[i - m]
    BY <1>1, ConcatProperties
  <1>4. ASSUME NEW i \in Nat, i < m PROVE (a \o b)[i + 1] = a[i + 1]
    <2>1. i + 1 \in 1 .. m + n /\ i + 1 <= m
      BY <1>1, <1>4
    <2> QED BY <1>3, <2>1
  <1>5. ASSUME NEW i \in Nat, i < n PROVE (a \o b)[m + i + 1] = b[i + 1]
    <2>1. PICK j \in 1 .. m + n : j = m + i + 1 /\ ~(j <= m) /\ j - m = i + 1
      BY <1>1, <1>5
    <2>2. (a \o b)[j] = b[j - m]
      BY <1>3, <2>1
    <2> QED BY <2>1, <2>2
  <1> QED BY <1>2, <1>4, <1>5 DEF Texts, Joins

\* The elements of an array that stays what it is.
LEMMA ElementsRetained ==
  ASSUME NEW s, NEW r, Sound(s, r), NEW t, NEW q, Sound(t, q), t.fsize = s.fsize, Retains(s, t, s.fsize)
  PROVE  Elements(t) = Elements(s)
  <1>1. PICK a, b : a = Elements(t) /\ b = Elements(s) OBVIOUS
  <1>2. a \in Texts /\ Len(a) = s.fsize /\ \A i \in Nat : i < s.fsize => a[i + 1] = Elem(t, i)
    BY <1>1, ElementsAre
  <1>3. b \in Texts /\ Len(b) = s.fsize /\ \A i \in Nat : i < s.fsize => b[i + 1] = Elem(s, i)
    BY <1>1, ElementsAre
  <1>4. \A i \in Nat : i < Len(a) => a[i + 1] = b[i + 1]
    BY <1>2, <1>3 DEF Retains
  <1>5. Len(a) = Len(b)
    BY <1>2, <1>3
  <1> QED BY <1>1, <1>2, <1>3, <1>4, <1>5, TextsEqual

\* The n elements p points at, as a sequence.
Lists(s, p, n, list) == list \in Texts /\ Len(list) = n /\ \A i \in Nat : i < n => list[i + 1] = Item(s, p, i)

LEMMA ElementsGiven ==
  ASSUME NEW s, NEW t, NEW r, Sound(t, r), NEW p, Gives(s, t, p, t.fsize), NEW list, Lists(s, p, t.fsize, list)
  PROVE  Elements(t) = list
  <1>1. PICK a, n : a = Elements(t) /\ n = t.fsize OBVIOUS
  <1>2. a \in Texts /\ Len(a) = n /\ \A i \in Nat : i < n => a[i + 1] = Elem(t, i)
    BY <1>1, ElementsAre
  <1>3. list \in Texts /\ Len(list) = n /\ \A i \in Nat : i < n => list[i + 1] = Item(s, p, i)
    BY <1>1 DEF Lists
  <1>4. \A i \in Nat : i < n => Elem(t, i) = Item(s, p, i)
    BY <1>1 DEF Gives
  <1>5. \A i \in Nat : i < Len(a) => a[i + 1] = list[i + 1]
    BY <1>2, <1>3, <1>4
  <1> QED BY <1>1, <1>2, <1>3, <1>5, TextsEqual

InsertedAs(s, r, t, pos, p, n, list) ==
  /\ Sound(s, r) /\ Sound(t, r) /\ Inserts(s, t, pos, p, n) /\ Lists(s, p, n, list)
  /\ pos \in Nat /\ pos <= s.fsize /\ n \in Nat /\ t.fsize = s.fsize + n

\* The sequence e with list between its first pos elements and the others.
Spliced(e, pos, list) == SubSeq(e, 1, pos) \o list \o SubSeq(e, pos + 1, Len(e))

LEMMA ElementsInserted ==
  ASSUME NEW s, NEW r, NEW t, NEW pos, NEW p, NEW n, NEW list, InsertedAs(s, r, t, pos, p, n, list)
  PROVE  Elements(t) = Spliced(Elements(s), pos, list)
  <1>0. /\ Sound(s, r) /\ Sound(t, r) /\ Inserts(s, t, pos, p, n) /\ Lists(s, p, n, list)
        /\ pos \in Nat /\ pos <= s.fsize /\ n \in Nat /\ t.fsize = s.fsize + n
    BY DEF InsertedAs
  <1>1. PICK a, e : a = Elements(t) /\ e = Elements(s) OBVIOUS
  <1>2. PICK size \in Nat : size = s.fsize
    BY <1>0, SoundIs
  <1>3. a \in Texts /\ Len(a) = size + n /\ \A i \in Nat : i < size + n => a[i + 1] = Elem(t, i)
    BY <1>0, <1>1, <1>2, ElementsAre
  <1>4. e \in Texts /\ Len(e) = size /\ \A i \in Nat : i < size => e[i + 1] = Elem(s, i)
    BY <1>0, <1>1, <1>2, ElementsAre
  <1>5. list \in Texts /\ Len(list) = n /\ \A i \in Nat : i < n => list[i + 1] = Item(s, p, i)
    BY <1>0 DEF Lists
  <1>6. PICK zero \in Nat : zero = 0 OBVIOUS
  <1>7. PICK low : low = SubSeq(e, zero + 1, pos) OBVIOUS
  <1>8. low \in Texts /\ Len(low) = pos /\ \A i \in Nat : i < pos => low[i + 1] = e[i + 1]
    <2>1. pos <= Len(e)
      BY <1>0, <1>2, <1>4
    <2>2. low \in Texts /\ Len(low) = IF zero < pos THEN pos - zero ELSE 0
      BY <1>0, <1>4, <1>7, <2>1, SubTexts
    <2>3. \A i \in Nat : zero + i < pos => low[i + 1] = e[zero + i + 1]
      BY <1>0, <1>4, <1>7, <2>1, SubTexts
    <2>4. \A i \in Nat : i < pos => low[i + 1] = e[i + 1]
      BY <1>0, <1>6, <2>3
    <2> QED BY <1>0, <1>6, <2>2, <2>4
  <1>9. PICK rest \in Nat : pos + rest = size
    <2>1. size - pos \in Nat /\ pos + (size - pos) = size
      BY <1>0, <1>2
    <2> QED BY <1>0, <2>1
  <1>10. PICK high : high = SubSeq(e, pos + 1, size) OBVIOUS
  <1>11. high \in Texts /\ Len(high) = rest /\ \A i \in Nat : i < rest => high[i + 1] = e[pos + i + 1]
    <2>1. size <= Len(e)
      BY <1>0, <1>4
    <2>2. high \in Texts /\ Len(high) = IF pos < size THEN size - pos ELSE 0
      BY <1>0, <1>4, <1>10, <2>1, SubTexts
    <2>3. \A i \in Nat : pos + i < size => high[i + 1] = e[pos + i + 1]
      BY <1>0, <1>4, <1>10, <2>1, SubTexts
    <2>4. \A i \in Nat : i < rest => pos + i < size
      BY <1>0, <1>9
    <2>5. Len(high) = rest
      BY <1>0, <1>9, <2>2
    <2> QED BY <1>0, <2>2, <2>3, <2>4, <2>5
  <1>12. PICK c : c = low \o list OBVIOUS
  <1>13. /\ c \in Texts /\ Len(c) = pos + n
         /\ \A i \in Nat : i < pos => c[i + 1] = low[i + 1]
         /\ \A i \in Nat : i < n => c[pos + i + 1] = list[i + 1]
    <2>1. pos = Len(low) /\ n = Len(list) /\ low \in Texts /\ list \in Texts
      BY <1>0, <1>5, <1>8
    <2>2. Joins(c, low, pos, list, n)
      BY <1>12, <2>1, JoinTexts
    <2> QED BY <2>2 DEF Joins
  <1>14. PICK m \in Nat : m = pos + n
    BY <1>0
  <1>14a. PICK z : z = c \o high OBVIOUS
  <1>15. /\ z \in Texts /\ Len(z) = m + rest
         /\ \A i \in Nat : i < m => z[i + 1] = c[i + 1]
         /\ \A i \in Nat : i < rest => z[m + i + 1] = high[i + 1]
    <2>1. m = Len(c) /\ rest = Len(high) /\ c \in Texts /\ high \in Texts
      BY <1>0, <1>11, <1>13, <1>14
    <2>2. Joins(z, c, m, high, rest)
      BY <1>14a, <2>1, JoinTexts
    <2> QED BY <2>2 DEF Joins
  <1>16. ASSUME NEW i \in Nat, i < size + n PROVE a[i + 1] = z[i + 1]
    <2>1. a[i + 1] = Elem(t, i)
      BY <1>0, <1>3, <1>16
    <2>2. CASE i < pos
      <3>1. i < m /\ i < size
        BY <1>0, <1>2, <1>14, <2>2
      <3>2. z[i + 1] = e[i + 1]
        BY <1>0, <1>8, <1>13, <1>15, <2>2, <3>1
      <3>3. Elem(t, i) = Elem(s, i)
        BY <1>0, <2>2 DEF Inserts
      <3> QED BY <1>0, <1>4, <2>1, <3>1, <3>2, <3>3
    <2>3. CASE pos <= i /\ i < m
      <3>1. PICK j \in Nat : i = pos + j /\ j < n
        <4>1. i - pos \in Nat /\ i = pos + (i - pos) /\ i - pos < n
          BY <1>0, <1>14, <2>3
        <4> QED BY <1>0, <4>1
      <3>2. z[i + 1] = list[j + 1]
        BY <1>0, <1>13, <1>15, <2>3, <3>1
      <3>3. Elem(t, pos + j) = Item(s, p, j)
        BY <1>0, <3>1 DEF Inserts
      <3> QED BY <1>0, <1>5, <2>1, <3>1, <3>2, <3>3
    <2>4. CASE m <= i
      <3>1. PICK j \in Nat : i = m + j /\ j < rest
        <4>1. i - m \in Nat /\ i = m + (i - m) /\ i - m < rest
          BY <1>0, <1>9, <1>14, <1>16, <2>4
        <4> QED BY <1>0, <4>1
      <3>2. z[i + 1] = e[pos + j + 1]
        BY <1>0, <1>11, <1>15, <3>1
      <3>3. PICK k \in Nat : k = pos + j /\ k < size /\ i = n + k /\ pos <= k
        BY <1>0, <1>9, <1>14, <3>1
      <3>4. Elem(t, n + k) = Elem(s, k)
        BY <1>0, <1>2, <3>3 DEF Inserts
      <3> QED BY <1>0, <1>4, <2>1, <3>2, <3>3, <3>4
    <2>5. i < pos \/ (pos <= i /\ i < m) \/ m <= i
      BY <1>0, <1>14
    <2> QED BY <1>0, <2>2, <2>3, <2>4, <2>5
  <1>17. Len(z) = size + n
    BY <1>0, <1>9, <1>14, <1>15
  <1>18. a = z
    BY <1>0, <1>3, <1>15, <1>16, <1>17, TextsEqual
  <1>19. low = SubSeq(e, 1, pos)
    BY <1>0, <1>6, <1>7
  <1> QED BY <1>0, <1>1, <1>4, <1>10, <1>12, <1>14a, <1>18, <1>19 DEF Spliced

LEMMA ElementsErased ==
  ASSUME NEW s, NEW r, Sound(s, r), NEW t, NEW q, Sound(t, q), NEW at \in Nat, NEW n \in Nat,
         Erases(s, t, at, Erasable(s, at, n))
  PROVE  LET e == Elements(s) IN Elements(t) = SubSeq(e, 1, Smaller(Len(e), at)) \o SubSeq(e, at + n + 1, Len(e))
  <1>1. PICK a, e : a = Elements(t) /\ e = Elements(s) OBVIOUS
  <1>2. PICK size \in Nat : size = s.fsize
    BY SoundIs
  <1>3. PICK k \in Nat, lo \in Nat, hi \in Nat :
          /\ k = Erasable(s, at, n) /\ lo = Smaller(size, at)
          /\ hi = IF at + n < size THEN size - (at + n) ELSE 0
    BY <1>2 DEF Erasable, Smaller
  <1>4. lo + hi = size - k /\ lo <= size /\ (hi > 0 => lo = at /\ k = n /\ at + n + hi = size) /\ lo <= at
    <2>1. CASE at >= size
      <3>1. k = 0 /\ lo = size /\ hi = 0
        BY <1>2, <1>3, <2>1 DEF Erasable, Smaller
      <3> QED BY <2>1, <3>1
    <2>2. CASE at < size
      <3>1. k = Smaller(n, size - at) /\ lo = at
        BY <1>2, <1>3, <2>2 DEF Erasable, Smaller
      <3>2. CASE at + n < size
        <4>1. n < size - at
          BY <3>2
        <4>2. k = n
          BY <3>1, <4>1 DEF Smaller
        <4> QED BY <1>3, <2>2, <3>1, <3>2, <4>2
      <3>3. CASE ~(at + n < size)
        <4>1. ~(n < size - at)
          BY <3>3
        <4>2. k = size - at /\ hi = 0
          BY <1>3, <3>1, <3>3, <4>1 DEF Smaller
        <4> QED BY <2>2, <3>1, <4>2
      <3> QED BY <3>2, <3>3
    <2> QED BY <2>1, <2>2
  <1>5. a \in Texts /\ Len(a) = lo + hi /\ \A i \in Nat : i < lo + hi => a[i + 1] = Elem(t, i)
    <2>1. a \in Texts /\ Len(a) = t.fsize /\ \A i \in Nat : i < t.fsize => a[i + 1] = Elem(t, i)
      BY <1>1, ElementsAre
    <2>2. t.fsize = lo + hi
      BY <1>2, <1>3, <1>4 DEF Erases
    <2> QED BY <2>1, <2>2
  <1>6. e \in Texts /\ Len(e) = size /\ \A i \in Nat : i < size => e[i + 1] = Elem(s, i)
    BY <1>1, <1>2, ElementsAre
  <1>7. PICK zero \in Nat : zero = 0 OBVIOUS
  <1>8. PICK low : low = SubSeq(e, zero + 1, lo) OBVIOUS
  <1>9. low \in Texts /\ Len(low) = lo /\ \A i \in Nat : i < lo => low[i + 1] = e[i + 1]
    <2>1. lo <= Len(e)
      BY <1>4, <1>6
    <2>2. low \in Texts /\ Len(low) = IF zero < lo THEN lo - zero ELSE 0
      BY <1>6, <1>8, <2>1, SubTexts
    <2>3. \A i \in Nat : zero + i < lo => low[i + 1] = e[zero + i + 1]
      BY <1>6, <1>8, <2>1, SubTexts
    <2>4. \A i \in Nat : i < lo => low[i + 1] = e[i + 1]
      BY <1>7, <2>3
    <2> QED BY <1>7, <2>2, <2>4
  <1>10. PICK m \in Nat : m = at + n OBVIOUS
  <1>11. PICK high : high = SubSeq(e, m + 1, size) OBVIOUS
  <1>12. high \in Texts /\ Len(high) = hi /\ \A i \in Nat : i < hi => high[i + 1] = e[m + i + 1]
    <2>1. size <= Len(e)
      BY <1>6
    <2>2. high \in Texts /\ Len(high) = IF m < size THEN size - m ELSE 0
      BY <1>6, <1>11, <2>1, SubTexts
    <2>3. \A i \in Nat : m + i < size => high[i + 1] = e[m + i + 1]
      BY <1>6, <1>11, <2>1, SubTexts
    <2>4. \A i \in Nat : i < hi => m + i < size
      BY <1>4, <1>10
    <2>5. Len(high) = hi
      BY <1>3, <1>10, <2>2
    <2> QED BY <2>2, <2>3, <2>4, <2>5
  <1>13. PICK z : z = low \o high OBVIOUS
  <1>14. /\ z \in Texts /\ Len(z) = lo + hi
         /\ \A i \in Nat : i < lo => z[i + 1] = low[i + 1]
         /\ \A i \in Nat : i < hi => z[lo + i + 1] = high[i + 1]
    <2>1. lo = Len(low) /\ hi = Len(high) /\ low \in Texts /\ high \in Texts
      BY <1>9, <1>12
    <2>2. Joins(z, low, lo, high, hi)
      BY <1>13, <2>1, JoinTexts
    <2> QED BY <2>2 DEF Joins
  <1>15. ASSUME NEW i \in Nat, i < lo + hi PROVE a[i + 1] = z[i + 1]
    <2>1. a[i + 1] = Elem(t, i)
      BY <1>5, <1>15
    <2>2. CASE i < lo
      <3>1. i < at /\ i < size
        BY <1>4, <2>2
      <3>2. Elem(t, i) = Elem(s, i)
        BY <3>1 DEF Erases
      <3>3. z[i + 1] = e[i + 1]
        BY <1>9, <1>14, <2>2
      <3> QED BY <1>6, <2>1, <3>1, <3>2, <3>3
    <2>3. CASE lo <= i
      <3>1. PICK j \in Nat : i = lo + j /\ j < hi
        <4>1. i - lo \in Nat /\ i = lo + (i - lo) /\ i - lo < hi
          BY <1>15, <2>3
        <4> QED BY <4>1
      <3>2. lo = at /\ k = n /\ at + n + hi = size
        BY <1>4, <3>1
      <3>3. at <= i /\ i < size - n
        BY <3>1, <3>2
      <3>4. Elem(t, i) = Elem(s, n + i)
        BY <1>2, <1>3, <3>2, <3>3 DEF Erases
      <3>5. PICK x \in Nat : x = n + i /\ x < size /\ x = m + j
        BY <1>10, <3>1, <3>2, <3>3
      <3>6. z[i + 1] = e[x + 1]
        BY <1>12, <1>14, <3>1, <3>5
      <3> QED BY <1>6, <2>1, <3>4, <3>5, <3>6
    <2> QED BY <2>2, <2>3
  <1>16. a = z
    BY <1>5, <1>14, <1>15, TextsEqual
  <1>17. low = SubSeq(e, 1, Smaller(Len(e), at)) /\ high = SubSeq(e, at + n + 1, Len(e))
    BY <1>3, <1>6, <1>7, <1>8, <1>10, <1>11
  <1> QED BY <1>1, <1>13, <1>16, <1>17

LEMMA ElementsExtended ==
  ASSUME NEW s, NEW r, Sound(s, r), NEW t, NEW q, Sound(t, q), NEW n \in Nat, t.fsize = n, Extends(s, t, n)
  PROVE  LET e == Elements(s) IN
         Elements(t) = SubSeq(e, 1, Smaller(Len(e), n)) \o [i \in 1 .. n - Len(e) |-> Zero]
  <1>1. PICK a, e : a = Elements(t) /\ e = Elements(s) OBVIOUS
  <1>2. PICK size \in Nat : size = s.fsize
    BY SoundIs
  <1>3. PICK lo \in Nat, hi \in Nat : lo = Smaller(size, n) /\ hi = IF size < n THEN n - size ELSE 0
    BY DEF Smaller
  <1>4. lo + hi = n /\ lo <= size /\ (hi > 0 => lo = size)
    BY <1>3 DEF Smaller
  <1>5. a \in Texts /\ Len(a) = n /\ \A i \in Nat : i < n => a[i + 1] = Elem(t, i)
    BY <1>1, ElementsAre
  <1>6. e \in Texts /\ Len(e) = size /\ \A i \in Nat : i < size => e[i + 1] = Elem(s, i)
    BY <1>1, <1>2, ElementsAre
  <1>7. PICK zero \in Nat : zero = 0 OBVIOUS
  <1>8. PICK low : low = SubSeq(e, zero + 1, lo) OBVIOUS
  <1>9. low \in Texts /\ Len(low) = lo /\ \A i \in Nat : i < lo => low[i + 1] = e[i + 1]
    <2>1. lo <= Len(e)
      BY <1>4, <1>6
    <2>2. low \in Texts /\ Len(low) = IF zero < lo THEN lo - zero ELSE 0
      BY <1>6, <1>8, <2>1, SubTexts
    <2>3. \A i \in Nat : zero + i < lo => low[i + 1] = e[zero + i + 1]
      BY <1>6, <1>8, <2>1, SubTexts
    <2>4. \A i \in Nat : i < lo => low[i + 1] = e[i + 1]
      BY <1>7, <2>3
    <2> QED BY <1>7, <2>2, <2>4
  <1>10. PICK high : high = [i \in 1 .. hi |-> Zero] OBVIOUS
  <1>11. high \in Texts /\ Len(high) = hi /\ \A i \in Nat : i < hi => high[i + 1] = Zero
    <2>1. high \in Texts /\ Len(high) = hi /\ \A i \in 1 .. hi : high[i] = Zero
      BY <1>10, DefaultTexts
    <2>2. \A i \in Nat : i < hi => i + 1 \in 1 .. hi OBVIOUS
    <2> QED BY <2>1, <2>2
  <1>12. PICK z : z = low \o high OBVIOUS
  <1>13. /\ z \in Texts /\ Len(z) = n
         /\ \A i \in Nat : i < lo => z[i + 1] = low[i + 1]
         /\ \A i \in Nat : i < hi => z[lo + i + 1] = high[i + 1]
    <2>1. lo = Len(low) /\ hi = Len(high) /\ low \in Texts /\ high \in Texts
      BY <1>9, <1>11
    <2>2. Joins(z, low, lo, high, hi)
      BY <1>12, <2>1, JoinTexts
    <2> QED BY <1>4, <2>2 DEF Joins
  <1>14. ASSUME NEW i \in Nat, i < n PROVE a[i + 1] = z[i + 1]
    <2>1. a[i + 1] = IF i < size THEN Elem(s, i) ELSE Zero
      BY <1>2, <1>5, <1>14 DEF Extends
    <2>2. CASE i < lo
      <3>1. i < size
        BY <1>4, <2>2
      <3>2. z[i + 1] = e[i + 1]
        BY <1>9, <1>13, <2>2
      <3> QED BY <1>6, <2>1, <3>1, <3>2
    <2>3. CASE lo <= i
      <3>1. PICK j \in Nat : i = lo + j /\ j < hi
        <4>1. i - lo \in Nat /\ i = lo + (i - lo) /\ i - lo < hi
          BY <1>4, <1>14, <2>3
        <4> QED BY <4>1
      <3>2. ~(i < size)
        BY <1>4, <3>1
      <3>3. z[i + 1] = Zero
        BY <1>11, <1>13, <3>1
      <3> QED BY <2>1, <3>2, <3>3
    <2> QED BY <2>2, <2>3
  <1>15. a = z
    BY <1>5, <1>13, <1>14, TextsEqual
  <1>16. low = SubSeq(e, 1, Smaller(Len(e), n))
    BY <1>3, <1>6, <1>7, <1>8
  <1>17. high = [i \in 1 .. n - Len(e) |-> Zero]
    <2>1. 1 .. n - size = 1 .. hi
      BY <1>3
    <2> QED BY <1>6, <1>10, <2>1
  <1> QED BY <1>1, <1>12, <1>15, <1>16, <1>17

\* One cell of the array's block is written, and no other.
CellChanged(s, t, b, c, v) ==
  /\ s \in States /\ t \in States /\ SameView(s, t) /\ b \in Blocks /\ b = s.fstorage
  /\ \A j \in Nat : Cell(t, b, j) = IF j = c THEN v ELSE Cell(s, b, j)

ChangedAt(s, t, c, v) ==
  \A i \in Nat : i < s.fsize /\ c = s.sdata + i => Elements(t) = [Elements(s) EXCEPT ![i + 1] = v]
OneChanged(e, f, v) == f = e \/ \E j \in DOMAIN e : f = [e EXCEPT ![j] = v]
LEMMA ElementsChanged ==
  ASSUME NEW s, NEW t, NEW b, NEW c \in Nat, NEW v \in CellValues, CellChanged(s, t, b, c, v)
  PROVE  ChangedAt(s, t, c, v) /\ OneChanged(Elements(s), Elements(t), v)
  <1>1. PICK n \in Nat, sd \in Nat, from \in Nat : n = s.fsize /\ sd = s.sdata /\ from = 0
    BY DEF CellChanged, States
  <1>2. PICK a, e : a = Elements(t) /\ e = Elements(s) OBVIOUS
  <1>3. t.fsize = n /\ t.sdata = sd /\ t.fstorage = b /\ s.fstorage = b /\ b \in Blocks /\ s \in States /\ t \in States
    BY <1>1 DEF CellChanged, SameView
  <1>4. e \in Texts /\ Len(e) = n /\ \A i \in Nat : i < n => e[i + 1] = Cell(s, b, sd + i)
    <2>1. e = View(s, from, n)
      BY <1>1, <1>2 DEF Elements
    <2>1a. s \in States /\ s.fstorage \in Blocks
      BY <1>3
    <2>1b. e \in Texts /\ Len(e) = n /\ \A i \in Nat : i < n => e[i + 1] = Cell(s, s.fstorage, s.sdata + (from + i))
      BY <2>1, <2>1a, OwnTexts
    <2>2. e \in Texts /\ Len(e) = n /\ \A i \in Nat : i < n => e[i + 1] = Cell(s, b, sd + (from + i))
      BY <1>1, <1>3, <2>1b
    <2>3. \A i \in Nat : from + i = i
      BY <1>1
    <2> QED BY <2>2, <2>3
  <1>5. a \in Texts /\ Len(a) = n /\ \A i \in Nat : i < n => a[i + 1] = Cell(t, b, sd + i)
    <2>1. a = View(t, from, n)
      BY <1>1, <1>2, <1>3 DEF Elements
    <2>1a. t \in States /\ t.fstorage \in Blocks
      BY <1>3
    <2>1b. a \in Texts /\ Len(a) = n /\ \A i \in Nat : i < n => a[i + 1] = Cell(t, t.fstorage, t.sdata + (from + i))
      BY <2>1, <2>1a, OwnTexts
    <2>2. a \in Texts /\ Len(a) = n /\ \A i \in Nat : i < n => a[i + 1] = Cell(t, b, sd + (from + i))
      BY <1>3, <2>1b
    <2>3. \A i \in Nat : from + i = i
      BY <1>1
    <2> QED BY <2>2, <2>3
  <1>6. \A j \in Nat : Cell(t, b, j) = IF j = c THEN v ELSE Cell(s, b, j)
    BY DEF CellChanged
  <1>7. ASSUME NEW i \in Nat, i < n, c = sd + i PROVE a = [e EXCEPT ![i + 1] = v]
    <2>1. PICK k \in 1 .. Len(e) : k = i + 1
      BY <1>4, <1>7
    <2>2. e \in Seq(CellValues)
      BY <1>4 DEF Texts
    <2>3. PICK z : z = [e EXCEPT ![k] = v] OBVIOUS
    <2>4. z \in Seq(CellValues) /\ Len(z) = Len(e)
      BY <2>2, <2>3, ExceptSeq
    <2>5. \A j \in 1 .. Len(e) : z[j] = IF j = k THEN v ELSE e[j]
      BY <2>2, <2>3, ExceptSeq
    <2>6. ASSUME NEW j \in Nat, j < n PROVE a[j + 1] = z[j + 1]
      <3>1. j + 1 \in 1 .. Len(e) /\ (j + 1 = k <=> j = i) /\ (sd + j = c <=> j = i) /\ sd + j \in Nat
        BY <1>4, <1>7, <2>1, <2>6
      <3>2. z[j + 1] = IF j = i THEN v ELSE e[j + 1]
        BY <2>5, <3>1
      <3>3. a[j + 1] = Cell(t, b, sd + j)
        BY <1>5, <2>6
      <3>4. Cell(t, b, sd + j) = IF j = i THEN v ELSE Cell(s, b, sd + j)
        BY <1>6, <3>1
      <3>5. e[j + 1] = Cell(s, b, sd + j)
        BY <1>4, <2>6
      <3> QED BY <3>2, <3>3, <3>4, <3>5
    <2>7. z \in Texts /\ Len(a) = Len(z)
      BY <1>4, <1>5, <2>4 DEF Texts
    <2>8. a = z
      BY <1>5, <2>6, <2>7, TextsEqual
    <2> QED BY <2>1, <2>3, <2>8
  <1>8. CASE \E i \in Nat : i < n /\ c = sd + i
    <2>1. PICK i \in Nat : i < n /\ c = sd + i
      BY <1>8
    <2>2. PICK j : j = i + 1 OBVIOUS
    <2>3. j \in 1 .. Len(e) /\ DOMAIN e = 1 .. Len(e)
      BY <1>4, <2>1, <2>2, LenProperties DEF Texts
    <2>4. a = [e EXCEPT ![j] = v]
      BY <1>7, <2>1, <2>2
    <2> QED BY <1>1, <1>2, <1>7, <2>3, <2>4 DEF ChangedAt, OneChanged
  <1>9. CASE ~ \E i \in Nat : i < n /\ c = sd + i
    <2>1. ASSUME NEW j \in Nat, j < n PROVE a[j + 1] = e[j + 1]
      <3>1. sd + j # c /\ sd + j \in Nat
        BY <1>9, <2>1
      <3> QED BY <1>4, <1>5, <1>6, <2>1, <3>1
    <2>2. a = e
      BY <1>4, <1>5, <2>1, TextsEqual
    <2> QED BY <1>1, <1>2, <1>7, <2>2 DEF ChangedAt, OneChanged
  <1> QED BY <1>8, <1>9

-----------------------------------------------------------------------------
(* The operations: RcInv is inductive, and RcArray implements ArraySem. *)

\* What an array with the fields of a shows of the blocks hp.
ShownBy(hp, a) == Read([heap |-> hp], Pointer(a), 0, a.fsize)

LEMMA ElementsShown ==
  ASSUME NEW s
  PROVE  Elements(s) = ShownBy(s.heap, s)
  <1>1. PICK u, p : u = [heap |-> s.heap] /\ p = Pointer(s) OBVIOUS
  <1>2. u.heap = s.heap
    BY <1>1
  <1>3. \A from, n : Read(u, p, from, n) = Read(s, p, from, n)
    BY <1>2, ReadSame
  <1>4. Elements(s) = Read(s, p, 0, s.fsize)
    BY <1>1 DEF Elements, View
  <1>5. ShownBy(s.heap, s) = Read(u, p, 0, s.fsize)
    BY <1>1 DEF ShownBy
  <1> QED BY <1>3, <1>4, <1>5

LEMMA ThisFields ==
  ASSUME NEW h \in Handles
  PROVE  /\ This(h).heap = heap /\ This(h).faults = {} /\ This(h).fstorage = arr[h].fstorage
         /\ This(h).sdata = arr[h].sdata /\ This(h).fsize = arr[h].fsize
  BY DEF This

LEMMA ContentsAre ==
  ASSUME NEW h \in Handles
  PROVE  /\ Contents(h) = Elements(This(h))
         /\ Contents(h) = ShownBy(heap, arr[h]) /\ Contents(h)' = ShownBy(heap', arr'[h])
  <1>1. Contents(h) = Elements(This(h))
    BY ThisFields DEF Contents, Slots, Elements, Size
  <1>2. Contents(h) = ShownBy(heap, arr[h])
    <2>1. Elements(This(h)) = ShownBy(This(h).heap, This(h))
      BY ElementsShown
    <2>2. ShownBy(This(h).heap, This(h)) = ShownBy(heap, arr[h])
      BY ThisFields DEF ShownBy, Pointer
    <2> QED BY <1>1, <2>1, <2>2
  <1>3. Contents(h)' = ShownBy(heap', arr'[h])
    <2>1. PICK u : u = This(h)' OBVIOUS
    <2>2. u.heap = heap' /\ u.fstorage = arr'[h].fstorage /\ u.sdata = arr'[h].sdata /\ u.fsize = arr'[h].fsize
      BY <2>1 DEF This
    <2>3. Contents(h)' = View(u, 0, arr'[h].fsize)
      BY <2>1 DEF Contents, Slots, Size, View, Pointer, Read, Cell, Cells
    <2>4. Contents(h)' = Elements(u)
      BY <2>2, <2>3 DEF Elements
    <2>5. Elements(u) = ShownBy(u.heap, u)
      BY ElementsShown
    <2>6. ShownBy(u.heap, u) = ShownBy(heap', arr'[h])
      BY <2>2 DEF ShownBy, Pointer
    <2> QED BY <2>4, <2>5, <2>6
  <1> QED BY <1>1, <1>2, <1>3

CallOf(op, h, at, n, data) == [op |-> op, on |-> h, at |-> at, n |-> n, data |-> data]
\* What the call c, which makes t of the array h, may change.
Means(h, t, c) ==
  "overrun" \notin t.faults =>
    /\ Elements(t) = Arrays!After(Contents(h), c)
    /\ \A k \in Handles : k # h => ShownBy(t.heap, arr[k]) \in Arrays!Beside(Contents(k), c)

LEMMA StepMeans ==
  ASSUME RcInv, NEW h \in Handles, NEW t, NEW op \in Arrays!Calls, NEW at, NEW n, NEW data,
         Means(h, t, CallOf(op, h, at, n, data)), Becomes(h, t, op, at, n, data)
  PROVE  Arrays!Next
  <1>1. PICK c : c = call' OBVIOUS
  <1>2. (kind # "string")' = (kind # "string")
    BY DEF Becomes
  <1>3. CASE "overrun" \in t.faults
    <2>1. c = NoCall /\ heap' = heap /\ arr' = arr
      BY <1>1, <1>3 DEF Becomes
    <2>2. c.op = "keep"
      BY <2>1 DEF NoCall
    <2>3. \A k \in Handles : Contents(k)' = Contents(k)
      BY <2>1, ContentsAre
    <2>4. \A s : Arrays!After(s, c) = s /\ s \in Arrays!Beside(s, c)
      BY <2>2 DEF Arrays!After, Arrays!Beside
    <2>5. call'.op \in Arrays!Calls
      BY <1>1, <2>2 DEF Arrays!Calls
    <2> QED BY <1>1, <1>2, <2>3, <2>4, <2>5 DEF Arrays!Next
  <1>4. CASE "overrun" \notin t.faults
    <2>1. PICK d : d = [fstorage |-> t.fstorage, sdata |-> t.sdata, fsize |-> t.fsize] OBVIOUS
    <2>2. c = CallOf(op, h, at, n, data) /\ heap' = t.heap /\ arr' = [arr EXCEPT ![h] = d]
      BY <1>1, <1>4, <2>1 DEF Becomes, CallOf
    <2>3. c.op \in Arrays!Calls /\ c.on = h
      BY <2>2 DEF CallOf
    <2>4. arr'[h] = d /\ \A k \in Handles : k # h => arr'[k] = arr[k]
      BY <2>2 DEF RcInv
    <2>5. Contents(h)' = Arrays!After(Contents(h), c)
      <3>1. Elements(t) = Arrays!After(Contents(h), c)
        BY <1>4, <2>2 DEF Means
      <3>2. ShownBy(t.heap, d) = ShownBy(t.heap, t)
        BY <2>1 DEF ShownBy, Pointer
      <3>3. Elements(t) = ShownBy(t.heap, t)
        BY ElementsShown
      <3>4. Contents(h)' = ShownBy(heap', arr'[h])
        BY ContentsAre
      <3> QED BY <2>2, <2>4, <3>1, <3>2, <3>3, <3>4
    <2>6. ASSUME NEW k \in Handles, k # h PROVE Contents(k)' \in Arrays!Beside(Contents(k), c)
      <3>1. ShownBy(t.heap, arr[k]) \in Arrays!Beside(Contents(k), c)
        BY <1>4, <2>2, <2>6 DEF Means
      <3>2. Contents(k)' = ShownBy(heap', arr'[k])
        BY ContentsAre
      <3> QED BY <2>2, <2>4, <2>6, <3>1, <3>2
    <2> QED BY <1>1, <1>2, <2>3, <2>5, <2>6 DEF Arrays!Next
  <1> QED BY <1>3, <1>4

SameData(hp, b) == b # Null => hp[b].fdata = heap[b].fdata
LEMMA SameShown ==
  ASSUME NEW k \in Handles, NEW hp, SameData(hp, arr[k].fstorage)
  PROVE  ShownBy(hp, arr[k]) = Contents(k)
  <1>1. PICK u, v, p : u = [heap |-> hp] /\ v = [heap |-> heap] /\ p = Pointer(arr[k]) OBVIOUS
  <1>2. u.heap = hp /\ v.heap = heap /\ p.fstorage = arr[k].fstorage
    BY <1>1 DEF Pointer
  <1>3. p.fstorage # Null => u.heap[p.fstorage].fdata = v.heap[p.fstorage].fdata
    BY <1>2 DEF SameData
  <1>4. \A from, n : Read(u, p, from, n) = Read(v, p, from, n)
    BY <1>3, ReadSame
  <1>5. ShownBy(hp, arr[k]) = Read(u, p, 0, arr[k].fsize) /\ ShownBy(heap, arr[k]) = Read(v, p, 0, arr[k].fsize)
    BY <1>1 DEF ShownBy
  <1>6. Contents(k) = ShownBy(heap, arr[k])
    BY ContentsAre
  <1> QED BY <1>4, <1>5, <1>6

LEMMA Undisturbed ==
  ASSUME RcInv, NEW h \in Handles, NEW t, Untouched(This(h), t, Others(h)), NEW k \in Handles, k # h
  PROVE  ShownBy(t.heap, arr[k]) = Contents(k)
  <1>1. ASSUME arr[k].fstorage # Null PROVE t.heap[arr[k].fstorage].fdata = heap[arr[k].fstorage].fdata
    <2>1. PICK b \in Blocks : b = arr[k].fstorage
      BY <1>1 DEF RcInv
    <2>2. Others(h)[b] > 0
      BY <2>1, OthersAre
    <2>3. t.heap[b].fdata = heap[b].fdata
      BY <2>2, ThisFields DEF Untouched
    <2> QED BY <2>1, <2>3
  <1>2. SameData(t.heap, arr[k].fstorage)
    BY <1>1 DEF SameData
  <1> QED BY <1>2, SameShown

LEMMA MeansAlone ==
  ASSUME RcInv, NEW h \in Handles, NEW t, NEW c,
         "overrun" \notin t.faults =>
           Untouched(This(h), t, Others(h)) /\ Elements(t) = Arrays!After(Contents(h), c)
  PROVE  Means(h, t, c)
  <1>1. SUFFICES ASSUME "overrun" \notin t.faults, NEW k \in Handles, k # h
                 PROVE  ShownBy(t.heap, arr[k]) \in Arrays!Beside(Contents(k), c)
    BY DEF Means
  <1>2. ShownBy(t.heap, arr[k]) = Contents(k)
    BY <1>1, Undisturbed
  <1>3. Contents(k) \in Arrays!Beside(Contents(k), c)
    BY DEF Arrays!Beside
  <1> QED BY <1>2, <1>3

LEMMA FineShows ==
  ASSUME NEW s, NEW r, NEW t, NEW n, Fine(s, r, t, n), "overrun" \notin t.faults
  PROVE  Sound(t, r) /\ Untouched(s, t, r) /\ t.fsize = n
  BY DEF Fine

\* The result t of an operation is safe, and is what the call c means.  One lemma per kind of operation.
Right(h, t, c) == OneSafe(h, t) /\ Means(h, t, c)
Correct == RcInv' /\ Caused /\ Arrays!Next
LEMMA StepRight ==
  ASSUME RcInv, NEW h \in Handles, NEW t, NEW op \in Arrays!Calls, NEW at, NEW n, NEW data,
         Right(h, t, CallOf(op, h, at, n, data)), Becomes(h, t, op, at, n, data)
  PROVE  Correct
  <1>1. OneSafe(h, t) /\ Means(h, t, CallOf(op, h, at, n, data))
    BY DEF Right
  <1>2. RcInv' /\ Caused
    BY <1>1, StepSafe
  <1>3. Arrays!Next
    BY <1>1, StepMeans
  <1> QED BY <1>2, <1>3 DEF Correct

LEMMA FineRight ==
  ASSUME RcInv, NEW h \in Handles, NEW t, NEW n \in 0 .. MaxSize, Fine(This(h), Others(h), t, n), NEW c,
         "overrun" \notin t.faults => Elements(t) = Arrays!After(Contents(h), c)
  PROVE  Right(h, t, c)
  <1>1. PICK s, r : s = This(h) /\ r = Others(h) OBVIOUS
  <1>2. OneSafe(h, t)
    BY FineSafe DEF OneSafe
  <1>3. "overrun" \notin t.faults => Untouched(s, t, r)
    BY <1>1, FineShows
  <1>4. Means(h, t, c)
    BY <1>1, <1>3, MeansAlone
  <1> QED BY <1>2, <1>4 DEF Right

\* The same elements: makeunique, reserve.
LEMMA RetainedRight ==
  ASSUME RcInv, NEW h \in Handles, NEW t, NEW s, s = This(h), NewAs(s, Others(h), t), Retains(s, t, s.fsize)
  PROVE  Right(h, t, CallOf("keep", h, 0, 0, <<>>))
  <1>1. PICK c : c = CallOf("keep", h, 0, 0, <<>>) OBVIOUS
  <1>2. PICK r : r = Others(h) OBVIOUS
  <1>3. Sound(s, r) /\ Sound(t, r) /\ Untouched(s, t, r) /\ t.fsize = s.fsize
    BY <1>2, ThisSound DEF NewAs
  <1>4. Elements(t) = Elements(s)
    BY <1>3, ElementsRetained
  <1>5. \A e : Arrays!After(e, c) = e
    <2>1. c.op = "keep"
      BY <1>1 DEF CallOf
    <2> QED BY <2>1 DEF Arrays!After
  <1>6. Elements(t) = Arrays!After(Contents(h), c)
    BY <1>4, <1>5, ContentsAre
  <1>7. Means(h, t, c)
    BY <1>2, <1>3, <1>6, MeansAlone
  <1>8. PICK n \in 0 .. MaxSize : n = s.fsize
    BY SizeIs
  <1>9. Safe(s, r, t, n)
    BY <1>2, <1>8, NewSafe
  <1> QED BY <1>1, <1>2, <1>7, <1>8, <1>9 DEF Right, OneSafe

LEMMA AfterAssign == \A h, e, list : Arrays!After(e, CallOf("assign", h, 0, 0, list)) = list
  <1>1. SUFFICES ASSUME NEW h, NEW e, NEW list, NEW c, c = CallOf("assign", h, 0, 0, list)
                 PROVE  Arrays!After(e, c) = list
    OBVIOUS
  <1>2. c.op = "assign" /\ c.data = list
    BY <1>1 DEF CallOf
  <1> QED BY <1>2 DEF Arrays!After

\* Data that is assigned: lassign, and lassign of data.
LEMMA GivenRight ==
  ASSUME RcInv, NEW h \in Handles, NEW t, NEW n \in 0 .. MaxSize, Fine(This(h), Others(h), t, n), NEW s, s = This(h),
         NEW p, Gives(s, t, p, n), NEW list, Lists(s, p, n, list)
  PROVE  Right(h, t, CallOf("assign", h, 0, 0, list))
  <1>1. PICK c, r : c = CallOf("assign", h, 0, 0, list) /\ r = Others(h) OBVIOUS
  <1>2. ASSUME "overrun" \notin t.faults PROVE Elements(t) = Arrays!After(Contents(h), c)
    <2>1. Sound(t, r) /\ t.fsize = n
      BY <1>1, <1>2, FineShows
    <2>2. Gives(s, t, p, t.fsize) /\ Lists(s, p, t.fsize, list)
      BY <2>1
    <2>3. Elements(t) = list
      BY <2>1, <2>2, ElementsGiven
    <2> QED BY <1>1, <2>3, AfterAssign
  <1> QED BY <1>1, <1>2, FineRight

LEMMA DataRight ==
  ASSUME RcInv, NEW h \in Handles, NEW s, s = This(h), NEW p, NEW n \in 0 .. MaxSize,
         n > 0 => Readable(s, Pinned(s, Others(h), p, n), p, n), NEW list, Lists(s, p, n, list)
  PROVE  Right(h, lassign_data(s, p, n), CallOf("assign", h, 0, 0, list))
  <1>1. PICK r : r = Others(h) OBVIOUS
  <1>2. Sound(s, r) /\ Room(s, r) /\ n \in Nat
    BY <1>1, ThisSound, SizesAssumption
  <1>3. PICK t : t = lassign_data(s, p, n) OBVIOUS
  <1>4. Fine(s, r, t, n) /\ Gives(s, t, p, n)
    <2>1. n > 0 => Readable(s, Pinned(s, r, p, n), p, n)
      BY <1>1
    <2>2. Fine(s, r, t, n)
      BY <1>2, <1>3, <2>1, DataAssigned
    <2>3. Gives(s, t, p, n)
      BY <1>2, <1>3, <2>1, DataGives
    <2> QED BY <2>2, <2>3
  <1> QED BY <1>1, <1>3, <1>4, GivenRight

LEMMA InsertRight ==
  ASSUME RcInv, NEW h \in Handles, NEW s, s = This(h), NEW p, NEW n \in Nat, Size(h) + n <= MaxSize,
         n > 0 => Readable(s, Pinned(s, Others(h), p, n), p, n), NEW list, Lists(s, p, n, list),
         NEW pos \in 0 .. Size(h)
  PROVE  Right(h, linsert(s, pos, p, n), CallOf("insert", h, pos, 0, list))
  <1>1. PICK r : r = Others(h) OBVIOUS
  <1>2. Sound(s, r) /\ Room(s, r)
    BY <1>1, ThisSound
  <1>3. pos \in Nat /\ s.fsize \in Nat /\ pos <= s.fsize
    BY SizeIs
  <1>4. PICK t : t = linsert(s, pos, p, n) OBVIOUS
  <1>5. PICK c : c = CallOf("insert", h, pos, 0, list) OBVIOUS
  <1>6. n > 0 => Readable(s, Pinned(s, r, p, n), p, n)
    BY <1>1
  <1>8. PICK size \in 0 .. MaxSize : size = s.fsize + n
    BY SizeIs, SizesAssumption
  <1>9. Fine(s, r, t, size)
    BY <1>2, <1>3, <1>4, <1>6, <1>8, Inserted
  <1>7. ASSUME "overrun" \notin t.faults PROVE Elements(t) = Arrays!After(Contents(h), c)
    <2>3. Sound(t, r) /\ t.fsize = s.fsize + n
      BY <1>7, <1>8, <1>9, FineShows
    <2>4. Smaller(pos, s.fsize) = pos
      BY <1>3 DEF Smaller
    <2>5. Inserts(s, t, Smaller(pos, s.fsize), p, n)
      BY <1>2, <1>3, <1>4, <1>6, <1>7, InsertGives
    <2>6. Inserts(s, t, pos, p, n)
      BY <2>4, <2>5
    <2>7. PICK e : e = Elements(s) OBVIOUS
    <2>8. Elements(t) = Spliced(e, pos, list)
      <3>1. InsertedAs(s, r, t, pos, p, n, list)
        BY <1>2, <1>3, <2>3, <2>6 DEF InsertedAs
      <3> QED BY <2>7, <3>1, ElementsInserted
    <2>9. Arrays!After(e, c) = Spliced(e, pos, list)
      <3>1. c.op = "insert" /\ c.at = pos /\ c.data = list
        BY <1>5 DEF CallOf
      <3>2. Arrays!After(e, c) = Arrays!Prefix(e, c.at) \o c.data \o Arrays!From(e, c.at)
        BY <3>1 DEF Arrays!After
      <3> QED BY <3>1, <3>2 DEF Arrays!Prefix, Arrays!From, Spliced
    <2>10. Contents(h) = e
      BY <2>7, ContentsAre
    <2> QED BY <2>8, <2>9, <2>10
  <1> QED BY <1>1, <1>4, <1>5, <1>7, <1>9, FineRight

LEMMA EraseRight ==
  ASSUME RcInv, NEW h \in Handles, NEW pos \in Nat, NEW n \in Nat, 0 < n
  PROVE  Right(h, lerase(This(h), pos, n), CallOf("erase", h, pos, n, <<>>))
  <1>1. PICK s, r : s = This(h) /\ r = Others(h) OBVIOUS
  <1>2. Sound(s, r) /\ Room(s, r)
    BY <1>1, ThisSound
  <1>3. PICK t : t = lerase(s, pos, n) OBVIOUS
  <1>4. PICK c : c = CallOf("erase", h, pos, n, <<>>) OBVIOUS
  <1>6. PICK size \in Nat : size <= s.fsize /\ Fine(s, r, t, size)
    BY <1>2, <1>3, Erased
  <1>7. size \in 0 .. MaxSize
    <2>1. s.fsize \in 0 .. MaxSize
      BY <1>1, SizeIs
    <2> QED BY <1>6, <2>1, SizesAssumption
  <1>5. ASSUME "overrun" \notin t.faults PROVE Elements(t) = Arrays!After(Contents(h), c)
    <2>2. Sound(t, r)
      BY <1>5, <1>6, FineShows
    <2>3. Erases(s, t, pos, Erasable(s, pos, n))
      BY <1>2, <1>3, EraseGives
    <2>4. PICK e : e = Elements(s) OBVIOUS
    <2>5. Elements(t) = SubSeq(e, 1, Smaller(Len(e), pos)) \o SubSeq(e, pos + n + 1, Len(e))
      BY <1>2, <2>2, <2>3, <2>4, ElementsErased
    <2>6. Arrays!After(e, c) = SubSeq(e, 1, Smaller(Len(e), pos)) \o SubSeq(e, pos + n + 1, Len(e))
      <3>1. c.op = "erase" /\ c.at = pos /\ c.n = n
        BY <1>4 DEF CallOf
      <3>2. Arrays!After(e, c) = Arrays!Prefix(e, Arrays!Least(Len(e), c.at)) \o Arrays!From(e, c.at + c.n)
        BY <3>1 DEF Arrays!After
      <3>3. Arrays!Least(Len(e), pos) = Smaller(Len(e), pos)
        BY DEF Arrays!Least, Smaller
      <3> QED BY <3>1, <3>2, <3>3 DEF Arrays!Prefix, Arrays!From
    <2>7. Contents(h) = e
      BY <1>1, <2>4, ContentsAre
    <2> QED BY <2>5, <2>6, <2>7
  <1> QED BY <1>1, <1>3, <1>4, <1>5, <1>6, <1>7, FineRight

LEMMA ResizeRight ==
  ASSUME RcInv, NEW h \in Handles, NEW n \in 0 .. MaxSize
  PROVE  Right(h, doresize(This(h), n, {"Unique"}), CallOf("resize", h, 0, n, <<>>))
  <1>1. PICK s, r, opts : s = This(h) /\ r = Others(h) /\ opts = {"Unique"} OBVIOUS
  <1>2. Sound(s, r) /\ Room(s, r) /\ n \in Nat
    BY <1>1, ThisSound, SizesAssumption
  <1>3. PICK t : t = doresize(s, n, opts) OBVIOUS
  <1>4. PICK c : c = CallOf("resize", h, 0, n, <<>>) OBVIOUS
  <1>5. "Unique" \in opts /\ "NoCopy" \notin opts /\ "NoNew" \notin opts /\ "NoDecUse" \notin opts
    BY <1>1
  <1>7. Fine(s, r, t, n)
    BY <1>2, <1>3, <1>5, ResizedUnique
  <1>6. ASSUME "overrun" \notin t.faults PROVE Elements(t) = Arrays!After(Contents(h), c)
    <2>2. Sound(t, r) /\ t.fsize = n
      BY <1>6, <1>7, FineShows
    <2>3. Extends(s, t, n)
      BY <1>2, <1>3, <1>5, <1>6, ResizeExtends
    <2>4. PICK e : e = Elements(s) OBVIOUS
    <2>5. Elements(t) = SubSeq(e, 1, Smaller(Len(e), n)) \o [i \in 1 .. n - Len(e) |-> Zero]
      BY <1>2, <2>2, <2>3, <2>4, ElementsExtended
    <2>6. Arrays!After(e, c) = SubSeq(e, 1, Smaller(Len(e), n)) \o [i \in 1 .. n - Len(e) |-> Zero]
      <3>1. c.op = "resize" /\ c.n = n
        BY <1>4 DEF CallOf
      <3>2. Arrays!After(e, c) = Arrays!Prefix(e, Arrays!Least(Len(e), c.n)) \o [i \in 1 .. c.n - Len(e) |-> Zero]
        BY <3>1 DEF Arrays!After
      <3>3. Arrays!Least(Len(e), n) = Smaller(Len(e), n)
        BY DEF Arrays!Least, Smaller
      <3> QED BY <3>1, <3>2, <3>3 DEF Arrays!Prefix
    <2>7. Contents(h) = e
      BY <1>1, <2>4, ContentsAre
    <2> QED BY <2>5, <2>6, <2>7
  <1> QED BY <1>1, <1>3, <1>4, <1>6, <1>7, FineRight

\* The data of an operation, as a sequence.
LEMMA OutsideLists ==
  ASSUME NEW s, NEW d \in Data
  PROVE  Lists(s, Outside(d), Len(d), d)
  <1>1. d \in Seq(Values \cup {Zero})
    BY ValuesAssumption
  <1>2. d \in Texts
    <2>1. Values \cup {Zero} \subseteq CellValues
      BY DEF CellValues
    <2>2. \A i \in 1 .. Len(d) : d[i] \in CellValues
      BY <1>1, <2>1, ElementOfSeq
    <2> QED BY <1>1, <2>2, SeqDef, LenProperties DEF Texts
  <1>3. PICK p : p = Outside(d) OBVIOUS
  <1>4. p.fstorage = Null /\ p.sdata = 0 /\ p.data = d
    BY <1>3 DEF Outside
  <1>5. ASSUME NEW i \in Nat PROVE d[i + 1] = Item(s, p, i)
    <2>1. 0 + i + 1 = i + 1
      BY <1>5
    <2> QED BY <1>4, <2>1 DEF Item
  <1> QED BY <1>2, <1>3, <1>5 DEF Lists

LEMMA PartLists ==
  ASSUME RcInv, NEW h \in Handles, NEW k \in Handles, NEW from \in Nat, NEW n \in Nat, from + n <= Size(k),
         NEW p, p.fstorage = arr[k].fstorage, p.sdata = arr[k].sdata + from, p.data = Literal
  PROVE  Lists(This(h), p, n, Slots(k, from, n))
  <1>1. PICK s, u, q, r : s = This(h) /\ u = This(k) /\ q = Pointer(u) /\ r = Others(k) OBVIOUS
  <1>2. s.heap = u.heap /\ q.fstorage = p.fstorage /\ q.sdata = arr[k].sdata /\ q.data = Literal
    BY <1>1, ThisFields DEF Pointer
  <1>3. Sound(u, r) /\ from + n <= u.fsize
    BY <1>1, ThisSound, SizeIs
  <1>4. PICK list : list = View(u, from, n) OBVIOUS
  <1>5. list \in Texts /\ Len(list) = n /\ \A i \in Nat : i < n => list[i + 1] = Elem(u, from + i)
    BY <1>3, <1>4, ViewTexts
  <1>6. ASSUME NEW i \in Nat PROVE Elem(u, from + i) = Item(s, p, i)
    <2>1. PICK a \in Nat : a = arr[k].sdata
      BY DEF RcInv
    <2>2. a + (from + i) = a + from + i
      BY <2>1
    <2>3. Elem(u, from + i) = Item(u, q, from + i)
      BY <1>1 DEF Elem
    <2>4. Item(u, q, from + i) = Item(s, p, i)
      <3>1. CASE p.fstorage = Null
        <4>1. a + (from + i) + 1 = a + from + i + 1
          BY <2>2
        <4>2. Item(u, q, from + i) = Literal[a + (from + i) + 1]
          BY <1>2, <2>1, <3>1 DEF Item
        <4>3. Item(s, p, i) = Literal[a + from + i + 1]
          BY <2>1, <3>1 DEF Item
        <4> QED BY <4>1, <4>2, <4>3
      <3>2. CASE p.fstorage # Null
        <4>1. Item(u, q, from + i) = Cell(u, p.fstorage, a + (from + i))
          BY <1>2, <2>1, <3>2 DEF Item
        <4>2. Item(s, p, i) = Cell(s, p.fstorage, a + from + i)
          BY <2>1, <3>2 DEF Item
        <4>3. \A b, j : Cell(u, b, j) = Cell(s, b, j)
          BY <1>2 DEF Cell, Cells
        <4> QED BY <2>2, <4>1, <4>2, <4>3
      <3> QED BY <3>1, <3>2
    <2> QED BY <2>3, <2>4
  <1>7. Slots(k, from, n) = list
    BY <1>1, <1>4 DEF Slots
  <1> QED BY <1>1, <1>5, <1>6, <1>7 DEF Lists

LEMMA ClearRight ==
  ASSUME RcInv, NEW h \in Handles
  PROVE  Right(h, done(This(h)), CallOf("assign", h, 0, 0, <<>>))
  <1>1. PICK s, r : s = This(h) /\ r = Others(h) OBVIOUS
  <1>2. PICK t : t = done(s) OBVIOUS
  <1>3. PICK c : c = CallOf("assign", h, 0, 0, <<>>) OBVIOUS
  <1>4. DoneAs(s, r, t)
    BY <1>1, <1>2, ThisSound, Done
  <1>5. Sound(t, r) /\ Untouched(s, t, r) /\ t.fsize = 0
    BY <1>4 DEF DoneAs
  <1>6. Elements(t) = <<>>
    <2>1. Elements(t) \in Texts /\ Len(Elements(t)) = 0
      BY <1>5, ElementsAre
    <2> QED BY <2>1, EmptySeq DEF Texts
  <1>7. Elements(t) = Arrays!After(Contents(h), c)
    BY <1>3, <1>6, AfterAssign
  <1>8. PICK n \in 0 .. MaxSize : n = 0
    BY SizesAssumption
  <1>9. Fine(s, r, t, n)
    BY <1>4, <1>8, FineIs, QuietContained DEF DoneAs, Quiet
  <1> QED BY <1>1, <1>2, <1>3, <1>7, <1>9, FineRight

LEMMA ConstRight ==
  ASSUME RcInv, NEW h \in Handles, NEW n \in 0 .. MaxSize, n <= Len(Literal)
  PROVE  Right(h, [done(This(h)) EXCEPT !.fsize = n], CallOf("assign", h, 0, 0, SubSeq(Literal, 1, n)))
  <1>1. PICK s, r : s = This(h) /\ r = Others(h) OBVIOUS
  <1>1a. n \in Nat
    BY SizesAssumption
  <1>2. PICK u : u = done(s) OBVIOUS
  <1>3. PICK t : t = [u EXCEPT !.fsize = n] OBVIOUS
  <1>4. Fine(s, r, t, n)
    BY <1>1, <1>1a, <1>2, <1>3, ThisSound, ConstShown
  <1>5. DoneAs(s, r, u)
    BY <1>1, <1>2, ThisSound, Done
  <1>6. t.fstorage = Null /\ t.sdata = 0
    <2>1. u.fstorage = Null /\ u.sdata = 0 /\ u \in States
      BY <1>5 DEF DoneAs, Sound
    <2> QED BY <1>3, <2>1 DEF States
  <1>7. PICK p : p = Outside(Literal) OBVIOUS
  <1>8. p.fstorage = Null /\ p.sdata = 0 /\ p.data = Literal
    BY <1>7 DEF Outside
  <1>9. Gives(s, t, p, n)
    BY <1>6, <1>8 DEF Gives, Elem, Item, Pointer
  <1>10. PICK list : list = SubSeq(Literal, 1, n) OBVIOUS
  <1>11. Lists(s, p, n, list)
    <2>1. Literal \in Texts
      <3>1. Literal \in Seq(Values) /\ Values \subseteq CellValues
        BY ValuesAssumption DEF CellValues
      <3>2. \A i \in 1 .. Len(Literal) : Literal[i] \in CellValues
        BY <3>1, ElementOfSeq
      <3> QED BY <3>1, <3>2, SeqDef, LenProperties DEF Texts
    <2>2. PICK m \in Nat : m = 0 OBVIOUS
    <2>3. list = SubSeq(Literal, m + 1, n)
      BY <1>10, <2>2
    <2>4. /\ list \in Texts /\ Len(list) = IF m < n THEN n - m ELSE 0
          /\ \A i \in Nat : m + i < n => list[i + 1] = Literal[m + i + 1]
      BY <1>1a, <2>1, <2>3, SubTexts
    <2>5. Len(list) = n /\ \A i \in Nat : i < n => list[i + 1] = Literal[i + 1]
      BY <1>1a, <2>2, <2>4
    <2>6. ASSUME NEW i \in Nat PROVE Item(s, p, i) = Literal[i + 1]
      <3>1. 0 + i + 1 = i + 1
        BY <2>6
      <3> QED BY <1>8, <3>1 DEF Item
    <2> QED BY <2>4, <2>5, <2>6 DEF Lists
  <1>12. Right(h, t, CallOf("assign", h, 0, 0, list))
    BY <1>1, <1>4, <1>9, <1>11, GivenRight
  <1> QED BY <1>1, <1>2, <1>3, <1>10, <1>12

\* Assign and Slice: n elements of another array from the one at from.
LEMMA ViewRight ==
  ASSUME RcInv, NEW h \in Handles, NEW k \in Handles, NEW d, NEW from \in Nat, NEW n \in 0 .. MaxSize,
         from + n <= Size(k), d.fstorage = arr[k].fstorage, d.sdata = arr[k].sdata + from, d.fsize = n
  PROVE  Right(h, lassign(This(h), d), CallOf("assign", h, 0, 0, Slots(k, from, n)))
  <1>1. PICK s, r : s = This(h) /\ r = Others(h) OBVIOUS
  <1>2. Sound(s, r) /\ n \in Nat
    BY <1>1, ThisSound, SizesAssumption
  <1>3. CanShow(s, d)
    BY <1>1, ViewShown
  <1>4. PICK t : t = lassign(s, d) OBVIOUS
  <1>5. Fine(s, r, t, n)
    BY <1>2, <1>3, <1>4, Assigned
  <1>6. PICK p : p = Pointer(d) OBVIOUS
  <1>7. Gives(s, t, p, n)
    BY <1>2, <1>3, <1>4, <1>6, AssignGives
  <1>8. PICK list : list = Slots(k, from, n) OBVIOUS
  <1>9. p.fstorage = arr[k].fstorage /\ p.sdata = arr[k].sdata + from /\ p.data = Literal
    BY <1>6 DEF Pointer
  <1>10. Lists(s, p, n, list)
    BY <1>1, <1>2, <1>8, <1>9, PartLists
  <1> QED BY <1>1, <1>4, <1>5, <1>7, <1>8, <1>10, GivenRight

\* An array that is unique, or made so, is the only one that shows its block.
LEMMA UniqueAlone ==
  ASSUME NEW s, NEW r, Sound(s, r), Room(s, r), s.fsize > 0, NEW t, t = makeunique(s)
  PROVE  t.fstorage \in Blocks /\ r[t.fstorage] = 0
  <1>1. CASE isUnique(s)
    <2>1. t = s
      BY <1>1 DEF makeunique
    <2>2. s.fstorage \in Blocks /\ s.heap[s.fstorage].refcnt = 1
      BY <1>1, UniqueBlock DEF Sound
    <2>3. r[s.fstorage] = 0
      BY <2>2 DEF Sound, Counted
    <2> QED BY <2>1, <2>2, <2>3
  <1>2. CASE ~isUnique(s)
    <2>1. PICK cnt \in Nat : cnt = s.fsize /\ cnt <= cnt
      BY Unique DEF Sound
    <2>2. PICK opts : opts = {} OBVIOUS
    <2>3. "NoDecUse" \in opts => "NoCopy" \in opts
      BY <2>2
    <2>4. PICK u, b, n, cap : RenewedAs(s, r, cnt, cnt, opts, u, b, n, cap)
      BY <2>1, <2>3, Renewed
    <2>5. After(s, r, opts) = r
      BY <2>2 DEF After
    <2>6. u.fstorage \in Blocks /\ r[u.fstorage] = 0
      BY <2>4, <2>5 DEF RenewedAs, Owner
    <2>7. ~(cnt > s.fsize)
      BY <2>1
    <2>8. u = makenew(s, cnt, cnt, opts)
      BY <2>4, <2>7 DEF RenewedAs, makenew
    <2>9. t = makenew(s, cnt, cnt, opts)
      <3>1. ~(isUnique(s) \/ s.fsize = 0)
        BY <1>2
      <3> QED BY <2>1, <2>2, <3>1 DEF makeunique
    <2> QED BY <2>6, <2>8, <2>9
  <1> QED BY <1>1, <1>2

\* A write over an element changes one cell.
LEMMA WriteChanges ==
  ASSUME NEW s, NEW r, Sound(s, r), s.fstorage # Null, NEW i \in Nat, i < s.fsize, NEW v \in Values,
         NEW b, b = s.fstorage, NEW c, c = s.sdata + i
  PROVE  LET t == copydata(s, b, c, <<v>>) IN
         CellChanged(s, t, b, c, v) /\ \A d \in Blocks : d # b => t.heap[d] = s.heap[d]
  <1>1. s \in States /\ s.sdata \in Nat /\ s.fsize \in Nat /\ b \in Blocks /\ c \in Nat
    <2>1. s \in States /\ s.sdata \in Nat /\ s.fsize \in Nat /\ b \in Blocks
      BY SoundIs
    <2> QED BY <2>1
  <1>2. PICK vs : vs = <<v>> OBVIOUS
  <1>3. vs \in Texts /\ Len(vs) = 1 /\ vs[1] = v
    <2>1. v \in CellValues
      BY DEF CellValues
    <2> QED BY <1>2, <2>1 DEF Texts
  <1>4. PICK t : t = copydata(s, b, c, vs) OBVIOUS
  <1>5. Wrote(s, t, b, c, vs)
    BY <1>1, <1>3, <1>4, CopyWrote
  <1>6. c \in Cells(s, b)
    <2>1. PICK f \in Nat : f = freserve(s, b) /\ Cells(s, b) = 0 .. f - 1
      BY <1>1, CellsAre
    <2>2. PICK m \in Nat : m = s.heap[b].countchars
      BY <1>1, CellsAre DEF Headers
    <2>3. s.sdata + s.fsize <= m /\ m <= f
      BY <1>1, <2>1, <2>2 DEF Sound, BlockSound, InView, End, Count
    <2>4. c < f
      BY <1>1, <2>1, <2>2, <2>3
    <2> QED BY <1>1, <2>1, <2>4
  <1>7. t \in States /\ SameView(s, t) /\ \A d \in Blocks : d # b => t.heap[d] = s.heap[d]
    BY <1>5 DEF Wrote, Alters, AltersBoth
  <1>8. ASSUME NEW j \in Nat PROVE Cell(t, b, j) = IF j = c THEN v ELSE Cell(s, b, j)
    BY <1>1, <1>3, <1>5, <1>6 DEF Wrote
  <1>9. CellChanged(s, t, b, c, v)
    BY <1>1, <1>7, <1>8 DEF CellChanged
  <1> QED BY <1>2, <1>4, <1>7, <1>9

\* What another array of the block shows after it: the same, but for one element.
LEMMA WriteBeside ==
  ASSUME RcInv, NEW k \in Handles, NEW s \in States, NEW t, NEW b, NEW c \in Nat, NEW v \in CellValues,
         CellChanged(s, t, b, c, v), s.heap[b].fdata = heap[b].fdata, arr[k].fstorage = b,
         NEW e, e = Contents(k)
  PROVE  OneChanged(e, ShownBy(t.heap, arr[k]), v)
  <1>1. PICK u : u = This(k) OBVIOUS
  <1>2. PICK w : w = [heap |-> t.heap, faults |-> t.faults, fstorage |-> u.fstorage, sdata |-> u.sdata, fsize |-> u.fsize]
    OBVIOUS
  <1>3. u \in States /\ u.heap = heap /\ u.fstorage = b /\ u.sdata = arr[k].sdata /\ u.fsize = arr[k].fsize
    BY <1>1, ThisSound, ThisFields DEF Sound
  <1>4. t \in States /\ b \in Blocks
    BY DEF CellChanged
  <1>5. /\ w.heap = t.heap /\ w.faults = t.faults /\ w.fstorage = b /\ w.sdata = arr[k].sdata /\ w.fsize = arr[k].fsize
        /\ w \in States /\ SameView(u, w)
    BY <1>2, <1>3, <1>4 DEF States, SameView
  <1>6. ASSUME NEW j \in Nat PROVE Cell(w, b, j) = IF j = c THEN v ELSE Cell(u, b, j)
    <2>1. Cell(w, b, j) = Cell(t, b, j) /\ Cell(u, b, j) = Cell(s, b, j)
      BY <1>3, <1>5 DEF Cell, Cells
    <2>2. Cell(t, b, j) = IF j = c THEN v ELSE Cell(s, b, j)
      BY DEF CellChanged
    <2> QED BY <2>1, <2>2
  <1>7. CellChanged(u, w, b, c, v)
    BY <1>3, <1>4, <1>5, <1>6 DEF CellChanged
  <1>8. OneChanged(Elements(u), Elements(w), v)
    BY <1>7, ElementsChanged
  <1>9. Elements(u) = e
    BY <1>1, ContentsAre
  <1>10. Elements(w) = ShownBy(t.heap, arr[k])
    <2>1. Elements(w) = ShownBy(w.heap, w)
      BY ElementsShown
    <2>2. ShownBy(w.heap, w) = ShownBy(t.heap, arr[k])
      BY <1>3, <1>5 DEF ShownBy, Pointer
    <2> QED BY <2>1, <2>2
  <1> QED BY <1>8, <1>9, <1>10

LEMMA WriteRight ==
  ASSUME RcInv, NEW h \in Handles, NEW i \in Nat, i < Size(h), NEW v \in Values,
         NEW s, s = IF kind = "string" THEN makeunique(This(h)) ELSE This(h), s.fstorage # Null
  PROVE  Right(h, copydata(s, s.fstorage, s.sdata + i, <<v>>), CallOf("write", h, i, 0, <<v>>))
  <1>1. PICK q, r, n : q = This(h) /\ r = Others(h) /\ n = This(h).fsize OBVIOUS
  <1>2. Sound(q, r) /\ Room(q, r)
    BY <1>1, ThisSound
  <1>3a. Good(q, r, s, n)
    <2>1. Good(q, r, makeunique(q), n) /\ Good(q, r, q, n)
      BY <1>1, <1>2, UniqueMade, GoodSelf
    <2> QED BY <1>1, <2>1
  <1>3. Sound(s, r) /\ Untouched(q, s, r) /\ s.fsize = n /\ Elements(s) = Contents(h)
    <2>1. Elements(q) = Contents(h)
      BY <1>1, ContentsAre
    <2>2. Sound(s, r) /\ Untouched(q, s, r) /\ s.fsize = n /\ n = q.fsize
      BY <1>1, <1>3a DEF Good
    <2>3. CASE kind = "string"
      <3>1. s = makeunique(q)
        BY <1>1, <2>3
      <3>2. Retains(q, s, q.fsize)
        BY <1>2, <3>1, UniqueRetains
      <3>3. Elements(s) = Elements(q)
        BY <1>2, <2>2, <3>2, ElementsRetained
      <3> QED BY <2>1, <2>2, <3>3
    <2>4. CASE kind # "string"
      BY <1>1, <2>1, <2>2, <2>4
    <2> QED BY <2>3, <2>4
  <1>4. PICK b, c : b = s.fstorage /\ c = s.sdata + i OBVIOUS
  <1>5. PICK t : t = copydata(s, b, c, <<v>>) OBVIOUS
  <1>6. i < s.fsize
    BY <1>1, <1>3, SizeIs
  <1>7. CellChanged(s, t, b, c, v) /\ \A d \in Blocks : d # b => t.heap[d] = s.heap[d]
    BY <1>3, <1>4, <1>5, <1>6, WriteChanges
  <1>8. s \in States /\ c \in Nat /\ b \in Blocks /\ v \in CellValues
    <2>1. s \in States /\ s.sdata \in Nat
      BY <1>3, SoundIs
    <2>2. b \in Blocks
      BY <1>7 DEF CellChanged
    <2> QED BY <1>4, <2>1, <2>2 DEF CellValues
  <1>9. PICK o : o = CallOf("write", h, i, 0, <<v>>) OBVIOUS
  <1>10. o.op = "write" /\ o.at = i /\ o.data[1] = v
    BY <1>9 DEF CallOf
  <1>11. Elements(t) = Arrays!After(Contents(h), o)
    <2>1. Elements(t) = [Elements(s) EXCEPT ![i + 1] = v]
      <3>1. CellChanged(s, t, b, c, v)
        BY <1>7
      <3>2. ChangedAt(s, t, c, v)
        BY <1>8, <3>1, ElementsChanged
      <3> QED BY <1>4, <1>6, <3>2 DEF ChangedAt
    <2>2. Arrays!After(Contents(h), o) = [Contents(h) EXCEPT ![i + 1] = v]
      BY <1>10 DEF Arrays!After
    <2> QED BY <1>3, <2>1, <2>2
  <1>12. ASSUME NEW k \in Handles, k # h PROVE ShownBy(t.heap, arr[k]) \in Arrays!Beside(Contents(k), o)
    <2>1. PICK e : e = Contents(k) OBVIOUS
    <2>2. CASE arr[k].fstorage = b
      <3>1. r[b] > 0
        BY <1>1, <1>8, <1>12, <2>2, OthersAre
      <3>2. kind # "string"
        <4>1. SUFFICES ASSUME kind = "string" PROVE FALSE OBVIOUS
        <4>2. s = makeunique(q)
          BY <1>1, <4>1
        <4>3. q.fsize > 0
          BY <1>1, SizeIs
        <4>4. r[b] = 0
          BY <1>2, <1>4, <4>2, <4>3, UniqueAlone
        <4> QED BY <3>1, <4>4
      <3>3. s.heap[b].fdata = heap[b].fdata
        BY <1>1, <3>2, ThisFields
      <3>4. OneChanged(e, ShownBy(t.heap, arr[k]), v)
        BY <1>7, <1>8, <2>1, <2>2, <3>3, WriteBeside
      <3> QED BY <1>10, <2>1, <3>2, <3>4 DEF Arrays!Beside, OneChanged
    <2>3. CASE arr[k].fstorage # b
      <3>1. ASSUME arr[k].fstorage # Null PROVE t.heap[arr[k].fstorage].fdata = heap[arr[k].fstorage].fdata
        <4>1. PICK d \in Blocks : d = arr[k].fstorage
          BY <3>1 DEF RcInv
        <4>2. r[d] > 0
          BY <1>1, <1>12, <4>1, OthersAre
        <4>3. s.heap[d].fdata = heap[d].fdata
          BY <1>1, <1>3, <4>2, ThisFields DEF Untouched
        <4>4. t.heap[d] = s.heap[d]
          BY <1>7, <2>3, <4>1
        <4> QED BY <4>1, <4>3, <4>4
      <3>2. SameData(t.heap, arr[k].fstorage)
        BY <3>1 DEF SameData
      <3>3. ShownBy(t.heap, arr[k]) = e
        BY <2>1, <3>2, SameShown
      <3> QED BY <2>1, <3>3 DEF Arrays!Beside
    <2> QED BY <2>2, <2>3
  <1>13. Means(h, t, o)
    BY <1>11, <1>12 DEF Means
  <1>14. OneSafe(h, t)
    <2>1. i < n /\ n \in 0 .. MaxSize
      BY <1>1, SizeIs
    <2>2. Safe(q, r, t, n)
      BY <1>3a, <1>4, <1>5, <2>1, Written
    <2> QED BY <1>1, <2>1, <2>2 DEF OneSafe
  <1> QED BY <1>4, <1>5, <1>9, <1>13, <1>14 DEF Right

LEMMA NextCorrect ==
  ASSUME RcInv, Next
  PROVE  Correct
  <1>1. 0 .. MaxSize \subseteq Nat /\ 1 .. MaxSize \subseteq Nat /\ 0 .. MaxSize - 1 \subseteq Nat
    BY SizesAssumption
  <1>2. PICK h \in Handles :
    \/ Clear(h) \/ MakeUnique(h)
    \/ \E d \in Data : AssignData(h, d) \/ \E pos \in 0 .. Size(h) : Insert(h, pos, d)
    \/ \E n \in 0 .. MaxSize : AssignConst(h, n) \/ Resize(h, n) \/ Reserve(h, n)
    \/ \E pos \in 0 .. MaxSize, n \in 1 .. MaxSize : Erase(h, pos, n)
    \/ \E i \in 0 .. MaxSize - 1, v \in Values : Write(h, i, v)
    \/ \E k \in Handles :
         \/ Assign(h, k)
         \/ \E from, n \in 0 .. MaxSize :
              Slice(h, k, from, n) \/ AssignPart(h, k, from, n)
              \/ \E pos \in 0 .. Size(h) : InsertPart(h, pos, k, from, n)
    BY DEF Next
  <1>3. "keep" \in Arrays!Calls /\ "assign" \in Arrays!Calls /\ "insert" \in Arrays!Calls
        /\ "erase" \in Arrays!Calls /\ "resize" \in Arrays!Calls /\ "write" \in Arrays!Calls
    BY DEF Arrays!Calls
  <1>4. PICK s, r : s = This(h) /\ r = Others(h) OBVIOUS
  <1>4a. Sound(s, r) /\ Room(s, r)
    BY <1>4, ThisSound
  <1>5. CASE Clear(h)
    <2>1. PICK t, list : t = done(This(h)) /\ list = <<>> OBVIOUS
    <2>2. Right(h, t, CallOf("assign", h, 0, 0, list)) /\ Becomes(h, t, "assign", 0, 0, list)
      BY <1>5, <2>1, ClearRight DEF Clear, Gets
    <2> QED BY <1>3, <2>2, StepRight
  <1>6. CASE MakeUnique(h)
    <2>1. PICK t : t = makeunique(s) OBVIOUS
    <2>2. NewAs(s, r, t)
      BY <1>4a, <2>1, UniqueMade DEF Good, NewAs
    <2>3. Retains(s, t, s.fsize)
      BY <1>4a, <2>1, UniqueRetains
    <2>4. PICK list : list = <<>> OBVIOUS
    <2>5. Right(h, t, CallOf("keep", h, 0, 0, list))
      BY <1>4, <2>2, <2>3, <2>4, RetainedRight
    <2>6. Becomes(h, t, "keep", 0, 0, list)
      BY <1>4, <1>6, <2>1, <2>4 DEF MakeUnique, Keeps
    <2> QED BY <1>3, <2>5, <2>6, StepRight
  <1>7. ASSUME NEW d \in Data, AssignData(h, d) PROVE Correct
    <2>1. PICK p, n : p = Outside(d) /\ n = Len(d) OBVIOUS
    <2>2. n \in 0 .. MaxSize /\ n \in Nat /\ Readable(s, Pinned(s, r, p, n), p, n) /\ Lists(s, p, n, d)
      BY <1>4, <2>1, OutsideReadable, OutsideLists, SizesAssumption
    <2>3. PICK t : t = lassign_data(s, p, n) OBVIOUS
    <2>4. Right(h, t, CallOf("assign", h, 0, 0, d))
      BY <1>4, <2>2, <2>3, DataRight
    <2>5. Becomes(h, t, "assign", 0, 0, d)
      BY <1>4, <1>7, <2>1, <2>3 DEF AssignData, Gets
    <2> QED BY <1>3, <2>4, <2>5, StepRight
  <1>8. ASSUME NEW d \in Data, NEW pos \in 0 .. Size(h), Insert(h, pos, d) PROVE Correct
    <2>1. PICK p, n : p = Outside(d) /\ n = Len(d) OBVIOUS
    <2>2. n \in 0 .. MaxSize /\ n \in Nat /\ Readable(s, Pinned(s, r, p, n), p, n) /\ Lists(s, p, n, d)
      BY <1>4, <2>1, OutsideReadable, OutsideLists, SizesAssumption
    <2>3. PICK t : t = linsert(s, pos, p, n) OBVIOUS
    <2>4. Right(h, t, CallOf("insert", h, pos, 0, d))
      <3>1. Size(h) + n <= MaxSize
        BY <1>8, <2>1 DEF Insert
      <3> QED BY <1>4, <1>8, <2>2, <2>3, <3>1, InsertRight
    <2>5. Becomes(h, t, "insert", pos, 0, d)
      BY <1>4, <1>8, <2>1, <2>3 DEF Insert
    <2> QED BY <1>3, <2>4, <2>5, StepRight
  <1>9. ASSUME NEW n \in 0 .. MaxSize, AssignConst(h, n) PROVE Correct
    <2>1. PICK t, list : t = [done(This(h)) EXCEPT !.fsize = n] /\ list = SubSeq(Literal, 1, n) OBVIOUS
    <2>2. n <= Len(Literal) /\ Becomes(h, t, "assign", 0, 0, list)
      BY <1>9, <2>1 DEF AssignConst, Gets
    <2>3. Right(h, t, CallOf("assign", h, 0, 0, list))
      BY <2>1, <2>2, ConstRight
    <2> QED BY <1>3, <2>2, <2>3, StepRight
  <1>10. ASSUME NEW n \in 0 .. MaxSize, Resize(h, n) PROVE Correct
    <2>1. PICK t, list : t = doresize(This(h), n, {"Unique"}) /\ list = <<>> OBVIOUS
    <2>2. Becomes(h, t, "resize", 0, n, list)
      BY <1>10, <2>1 DEF Resize
    <2>3. Right(h, t, CallOf("resize", h, 0, n, list))
      BY <2>1, ResizeRight
    <2> QED BY <1>3, <2>2, <2>3, StepRight
  <1>11. ASSUME NEW n \in 0 .. MaxSize, Reserve(h, n) PROVE Correct
    <2>1. PICK t : t = doreserve(s, n) OBVIOUS
    <2>2. n \in Nat
      BY <1>1
    <2>3. NewAs(s, r, t)
      BY <1>4a, <2>1, <2>2, Reserved
    <2>4. Retains(s, t, s.fsize)
      BY <1>4a, <2>1, <2>2, ReserveRetains
    <2>5. PICK list : list = <<>> OBVIOUS
    <2>6. Right(h, t, CallOf("keep", h, 0, 0, list))
      BY <1>4, <2>3, <2>4, <2>5, RetainedRight
    <2>7. Becomes(h, t, "keep", 0, 0, list)
      BY <1>4, <1>11, <2>1, <2>5 DEF Reserve, Keeps
    <2> QED BY <1>3, <2>6, <2>7, StepRight
  <1>12. ASSUME NEW pos \in 0 .. MaxSize, NEW n \in 1 .. MaxSize, Erase(h, pos, n) PROVE Correct
    <2>1. PICK t, list : t = lerase(This(h), pos, n) /\ list = <<>> OBVIOUS
    <2>2. Becomes(h, t, "erase", pos, n, list)
      BY <1>12, <2>1 DEF Erase
    <2>3. pos \in Nat /\ n \in Nat /\ 0 < n
      BY <1>1
    <2>4. Right(h, t, CallOf("erase", h, pos, n, list))
      BY <2>1, <2>3, EraseRight
    <2> QED BY <1>3, <2>2, <2>4, StepRight
  <1>13. ASSUME NEW i \in 0 .. MaxSize - 1, NEW v \in Values, Write(h, i, v) PROVE Correct
    <2>1. PICK q : q = IF kind = "string" THEN makeunique(This(h)) ELSE This(h) OBVIOUS
    <2>2. PICK t, list : t = copydata(q, q.fstorage, q.sdata + i, <<v>>) /\ list = <<v>> OBVIOUS
    <2>3. i < Size(h) /\ q.fstorage # Null /\ Becomes(h, t, "write", i, 0, list)
      BY <1>13, <2>1, <2>2 DEF Write
    <2>4. Right(h, t, CallOf("write", h, i, 0, list))
      BY <1>1, <2>1, <2>2, <2>3, WriteRight
    <2> QED BY <1>3, <2>3, <2>4, StepRight
  <1>14. ASSUME NEW k \in Handles, Assign(h, k) PROVE Correct
    <2>1. PICK d : d = arr[k] OBVIOUS
    <2>2. PICK t : t = lassign(This(h), d) OBVIOUS
    <2>3. PICK from \in Nat, n \in 0 .. MaxSize : from = 0 /\ n = Size(k)
      BY SizeIs
    <2>4. from + n <= Size(k) /\ d.fstorage = arr[k].fstorage /\ d.sdata = arr[k].sdata + from /\ d.fsize = n
      <3>1. arr[k].sdata \in Nat /\ Size(k) \in Nat
        BY SizeIs DEF RcInv
      <3> QED BY <2>1, <2>3, <3>1 DEF Size
    <2>5. PICK list : list = Slots(k, from, n) OBVIOUS
    <2>6. Right(h, t, CallOf("assign", h, 0, 0, list))
      BY <2>2, <2>4, <2>5, ViewRight
    <2>7. Becomes(h, t, "assign", 0, 0, list)
      BY <1>14, <2>1, <2>2, <2>3, <2>5 DEF Assign, Gets
    <2> QED BY <1>3, <2>6, <2>7, StepRight
  <1>15. ASSUME NEW k \in Handles, NEW from \in 0 .. MaxSize, NEW n \in 0 .. MaxSize, Slice(h, k, from, n)
         PROVE Correct
    <2>1. PICK d : d = [arr[k] EXCEPT !.sdata = @ + from, !.fsize = n] OBVIOUS
    <2>2. PICK t, list : t = lassign(This(h), d) /\ list = Slots(k, from, n) OBVIOUS
    <2>3. from + n <= Size(k) /\ Becomes(h, t, "assign", 0, 0, list)
      BY <1>15, <2>1, <2>2 DEF Slice, Gets
    <2>4. d.fstorage = arr[k].fstorage /\ d.sdata = arr[k].sdata + from /\ d.fsize = n
      BY <2>1 DEF RcInv
    <2>5. Right(h, t, CallOf("assign", h, 0, 0, list))
      BY <1>1, <2>2, <2>3, <2>4, ViewRight
    <2> QED BY <1>3, <2>3, <2>5, StepRight
  <1>16. ASSUME NEW k \in Handles, NEW from \in 0 .. MaxSize, NEW n \in 0 .. MaxSize, AssignPart(h, k, from, n)
         PROVE Correct
    <2>1. PICK p, list : p = Part(k, from) /\ list = Slots(k, from, n) OBVIOUS
    <2>2. PICK t : t = lassign_data(s, p, n) OBVIOUS
    <2>3. from + n <= Size(k) /\ Becomes(h, t, "assign", 0, 0, list)
      BY <1>4, <1>16, <2>1, <2>2 DEF AssignPart, Gets
    <2>4. from \in Nat /\ n \in Nat
      BY <1>1
    <2>5. Lists(s, p, n, list)
      BY <1>4, <2>1, <2>3, <2>4, PartLists DEF Part, Pointer
    <2>6. n > 0 => Readable(s, Pinned(s, r, p, n), p, n)
      BY <1>4, <2>1, <2>3, <2>4, PartReadable
    <2>7. Right(h, t, CallOf("assign", h, 0, 0, list))
      BY <1>4, <2>2, <2>4, <2>5, <2>6, DataRight
    <2> QED BY <1>3, <2>3, <2>7, StepRight
  <1>17. ASSUME NEW k \in Handles, NEW from \in 0 .. MaxSize, NEW n \in 0 .. MaxSize,
                NEW pos \in 0 .. Size(h), InsertPart(h, pos, k, from, n)
         PROVE Correct
    <2>1. PICK p, list : p = Part(k, from) /\ list = Slots(k, from, n) OBVIOUS
    <2>2. PICK t : t = linsert(s, pos, p, n) OBVIOUS
    <2>3. from + n <= Size(k) /\ Size(h) + n <= MaxSize /\ Becomes(h, t, "insert", pos, 0, list)
      BY <1>4, <1>17, <2>1, <2>2 DEF InsertPart
    <2>4. from \in Nat /\ n \in Nat
      BY <1>1
    <2>5. Lists(s, p, n, list)
      BY <1>4, <2>1, <2>3, <2>4, PartLists DEF Part, Pointer
    <2>6. n > 0 => Readable(s, Pinned(s, r, p, n), p, n)
      BY <1>4, <2>1, <2>3, <2>4, PartReadable
    <2>7. Right(h, t, CallOf("insert", h, pos, 0, list))
      BY <1>4, <1>17, <2>2, <2>3, <2>4, <2>5, <2>6, InsertRight
    <2> QED BY <1>3, <2>3, <2>7, StepRight
  <1> QED BY <1>2, <1>5, <1>6, <1>7, <1>8, <1>9, <1>10, <1>11, <1>12, <1>13, <1>14, <1>15, <1>16, <1>17

LEMMA SameRcInv ==
  ASSUME RcInv, UNCHANGED vars
  PROVE  RcInv'
  <1>1. kind' = kind /\ heap' = heap /\ arr' = arr /\ faults' = faults
    BY DEF vars
  <1>2. \A b \in Blocks : Sharers(b)' = Sharers(b)
    BY <1>1 DEF Sharers
  <1>3. \A b \in Blocks : BlockSound(Heap, b)'
    BY <1>1 DEF RcInv, BlockSound, Heap, Live, HasLifetime, Cells, freserve
  <1>4. \A g \in Handles : CanShow(Heap, arr[g])'
    BY <1>1 DEF RcInv, CanShow, Heap
  <1> QED BY <1>1, <1>2, <1>3, <1>4 DEF RcInv, NoLifetimeFault

\* RcInv is an invariant.
THEOREM RcCorrect == Spec => []RcInv
  <1>1. Init => RcInv
    BY InitRcInv
  <1>2. RcInv /\ [Next]_vars => RcInv'
    BY NextCorrect, SameRcInv DEF Correct
  <1> QED BY <1>1, <1>2, PTL DEF Spec

\* A block is counted by the arrays that show a part of it and freed with the last of them, its
\* first countchars cells hold objects and no others, and every array shows objects.
THEOREM BlocksCorrect == Spec => []BlocksConsistent
  <1>1. RcInv => BlocksConsistent
    <2> SUFFICES ASSUME RcInv PROVE BlocksConsistent OBVIOUS
    <2>2. faults \subseteq Faults
      BY DEF RcInv, NoLifetimeFault, Faults
    <2>3. \A b \in Blocks : heap[b].refcnt \in Nat /\ heap[b].countchars \in Nat
      BY DEF RcInv, Headers
    <2>4. ASSUME NEW b \in Blocks, NEW i \in DOMAIN heap[b].fdata
          PROVE  heap[b].fdata[i] \in Values \cup {Zero, Raw} /\ i \in Nat
      <3>1. heap[b].fdata \in CellArrays
        BY DEF RcInv, Headers
      <3>2. PICK c \in Nat : heap[b].fdata \in [0 .. c - 1 -> CellValues]
        BY <3>1 DEF CellArrays
      <3> QED BY <2>4, <3>2 DEF CellValues
    <2>5. ASSUME HasLifetime, NEW b \in Blocks, NEW i \in DOMAIN heap[b].fdata
          PROVE  heap[b].fdata[i] # Raw <=> i < heap[b].countchars
      <3>1. Live(Heap, b, 0 .. heap[b].countchars - 1)
        BY DEF RcInv, BlockSound, Heap
      <3>2. heap[b].fdata[i] # Raw <=> i \in 0 .. heap[b].countchars - 1
        BY <2>5, <3>1 DEF Live, Heap, Cells
      <3> QED BY <2>3, <2>4, <3>2
    <2>6. ASSUME NEW h \in Handles, arr[h].fstorage # Null
          PROVE  arr[h].sdata + Size(h) <= heap[arr[h].fstorage].countchars
      BY <2>6 DEF RcInv, CanShow, Heap, Size
    <2> QED BY <2>2, <2>3, <2>4, <2>5, <2>6 DEF RcInv, BlocksConsistent
  <1> QED BY <1>1, RcCorrect, PTL

\* No operation constructs over an object, or destroys, assigns or moves one that is not there.
THEOREM LifetimesCorrect == Spec => []NoLifetimeFault
  <1>1. RcInv => NoLifetimeFault
    BY DEF RcInv
  <1> QED BY <1>1, RcCorrect, PTL

\* Objects are lost only by the array that shows the first of several objects of a block that is its
\* alone, when it leaves that block (reserve, makenew), and built past a block only by an empty array
\* that begins inside a block it owns, when it grows (doresize, repack).
THEOREM FaultsCorrect == Spec => FaultsHaveCause
  <1>1. RcInv /\ [Next]_vars => [Caused]_vars
    BY NextCorrect DEF Correct
  <1> QED BY <1>1, RcCorrect, PTL DEF Spec, FaultsHaveCause, Caused

LEMMA InitMeans == Init => Arrays!Init
  <1>1. SUFFICES ASSUME Init PROVE Arrays!Init OBVIOUS
  <1>2. RcInv
    BY <1>1, InitRcInv
  <1>3. ASSUME NEW h \in Handles PROVE Contents(h) = <<>>
    <2>1. This(h).fsize = 0
      BY <1>1 DEF Init, This, Empty
    <2>2. Sound(This(h), Others(h))
      BY <1>2, ThisSound
    <2>3. PICK e : e = Elements(This(h)) OBVIOUS
    <2>4. e \in Texts /\ Len(e) = 0
      BY <2>1, <2>2, <2>3, ElementsAre
    <2>5. e = <<>>
      BY <2>4, EmptySeq DEF Texts
    <2> QED BY <2>3, <2>5, ContentsAre
  <1>4. call.op = "keep" /\ (kind # "string") \in BOOLEAN
    BY <1>1 DEF Init, NoCall
  <1> QED BY <1>3, <1>4 DEF Arrays!Init

LEMMA SameMeans ==
  ASSUME UNCHANGED vars
  PROVE  UNCHANGED Arrays!vars
  <1>1. kind' = kind /\ heap' = heap /\ arr' = arr /\ call' = call
    BY DEF vars
  <1>2. ASSUME NEW h \in Handles PROVE Contents(h)' = Contents(h)
    BY <1>1, ContentsAre
  <1> QED BY <1>1, <1>2 DEF Arrays!vars

\* Arrays and strings behave as values, whatever they share: an operation gives the array it is
\* called on what the call means for a sequence, and no other array changes, but for an element
\* written through an array that shares its block (rc_array; a string is made unique first).
THEOREM ArraysCorrect == Spec => ArraySpec
  <1>1. Init => Arrays!Init
    BY InitMeans
  <1>2. RcInv /\ [Next]_vars => [Arrays!Next]_(Arrays!vars)
    BY NextCorrect, SameMeans DEF Correct
  <1> QED BY <1>1, <1>2, RcCorrect, PTL DEF Spec, ArraySpec, Arrays!Spec
=============================================================================
