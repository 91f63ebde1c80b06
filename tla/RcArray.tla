------------------------------- MODULE RcArray -------------------------------
(***************************************************************************)
(* The arrays and strings of src/gdata/t_array.h: rc_basic_array, a view   *)
(* (fstorage, sdata, fsize) of a reference-counted block, copied on resize *)
(* (arrays) or on any write (strings), sliced without copying.             *)
(*                                                                         *)
(* One action per public operation.  Its body follows the code on a record *)
(* s: the heap, the lifetime faults so far, and the three fields of the    *)
(* array it is called on.  A cell of a block holds a value when an object  *)
(* is constructed there and Raw when none is.                              *)
(***************************************************************************)
EXTENDS Integers, Sequences, FiniteSets

CONSTANTS
  Handles,      \* the arrays of the program
  Blocks,       \* storage blocks malloc can give out
  Values,       \* what an element can hold besides the default
  Literal,      \* the constant segment: a sequence of values
  Data,         \* the data a program assigns and inserts
  MinCapacity,  \* capacity_newsz gives no less (16 in the code)
  MaxSize,      \* bound: size of an array
  Null, Raw, Zero

ASSUME BlocksAssumption ==
  IsFiniteSet(Handles) /\ IsFiniteSet(Blocks) /\ Cardinality(Blocks) > Cardinality(Handles)
ASSUME ValuesAssumption == /\ Literal \in Seq(Values) /\ Data \subseteq Seq(Values \cup {Zero})
                           /\ {Raw, Zero} \cap Values = {} /\ Raw # Zero
ASSUME SizesAssumption == MinCapacity \in Nat /\ MaxSize \in Nat /\ \A d \in Data : Len(d) <= MaxSize
ASSUME NullAssumption == Null \notin Blocks

VARIABLES
  kind,    \* the element type: "movable" (bitwise), "copied", or "string"
  heap,    \* rc_string_header of each block
  arr,     \* rc_basic_array of each handle
  faults,  \* history: what the elements' constructors and destructors saw wrong in the last call
  call     \* history: the last call, as what it means for a sequence

vars == <<kind, heap, arr, faults, call>>

Kinds == {"movable", "copied", "string"}
Faults == {"construct", "destruct", "move", "overrun", "lost"}
eAddZeroE == IF kind = "string" THEN 1 ELSE 0
MI_ISMOVED == kind \in {"movable", "string"}
\* Strings are binary: no constructor or destructor runs.
HasLifetime == kind # "string"

Freed == [refcnt |-> 0, countchars |-> 0, fdata |-> <<>>]
Empty == [fstorage |-> Null, sdata |-> 0, fsize |-> 0]

NoCall == [op |-> "keep", on |-> Null, at |-> 0, n |-> 0, data |-> <<>>]

Init ==
  /\ kind \in Kinds
  /\ heap = [b \in Blocks |-> Freed]
  /\ arr = [h \in Handles |-> Empty]
  /\ faults = {}
  /\ call = NoCall

Larger(a, b) == IF a < b THEN b ELSE a
Smaller(a, b) == IF a < b THEN a ELSE b
Cells(s, b) == DOMAIN s.heap[b].fdata
Storage(s) == s.heap[s.fstorage]
freserve(s, b) == Cardinality(Cells(s, b))
\* What a cell holds; past the block there is nothing.
Cell(s, b, i) == IF i \in Cells(s, b) THEN s.heap[b].fdata[i] ELSE Raw

\* What the array shows; n elements from the i-th of what p points at.
Read(s, p, i, n) ==
  [j \in 1..n |-> IF p.fstorage = Null THEN p.data[p.sdata + i + j]
                  ELSE Cell(s, p.fstorage, p.sdata + i + j - 1)]
Pointer(a) == [fstorage |-> a.fstorage, sdata |-> a.sdata, data |-> Literal]

(***************************************************************************)
(* rc_string_header: objects in the cells of a block.                      *)
(***************************************************************************)
SetCells(s, b, f, fault) ==
  [s EXCEPT !.heap[b].fdata = f, !.faults = @ \cup fault]
Fault(name, condition) == IF condition THEN {name} ELSE {}

constructorarray(s, b, at, vs) ==
  LET new == at .. at + Len(vs) - 1 IN
  SetCells(s, b,
    [i \in Cells(s, b) |-> IF i \in new THEN vs[i - at + 1] ELSE Cell(s, b, i)],
    Fault("overrun", ~(new \subseteq Cells(s, b)))
      \cup Fault("construct", HasLifetime /\ \E i \in new : Cell(s, b, i) # Raw))

destructorarray(s, b, from, to) ==
  LET old == from .. to - 1 IN
  IF ~HasLifetime THEN s
  ELSE SetCells(s, b,
         [i \in Cells(s, b) |-> IF i \in old THEN Raw ELSE Cell(s, b, i)],
         Fault("destruct", \E i \in old : Cell(s, b, i) = Raw))

\* copydata: over objects that are there.
copydata(s, b, at, vs) ==
  LET over == at .. at + Len(vs) - 1 IN
  SetCells(s, b,
    [i \in Cells(s, b) |-> IF i \in over THEN vs[i - at + 1] ELSE Cell(s, b, i)],
    Fault("overrun", ~(over \subseteq Cells(s, b)))
      \cup Fault("move", HasLifetime /\ \E i \in over \cap Cells(s, b) : Cell(s, b, i) = Raw))

\* movedataX: n objects from cell src of block c to cell dst of block b.  The
\* destination's old objects are destroyed (destIsInit) or there are none; no
\* object is left where one was moved from.
movedataX(s, b, dst, c, src, n, destIsInit) ==
  LET from == src .. src + n - 1
      to   == dst .. dst + n - 1
      left == IF b = c THEN from \ to ELSE from
      taken == IF b = c THEN to \ from ELSE to
      vs   == [i \in 1..n |-> Cell(s, c, src + i - 1)]
      isObject(i) == Cell(s, b, i) # Raw
      wrong == \/ \E i \in 1..n : vs[i] = Raw
               \/ \E i \in taken : isObject(i) # destIsInit
      void == IF HasLifetime THEN Raw ELSE Zero
      put(t) ==
        [i \in Cells(t, b) |-> IF i \in to THEN vs[i - dst + 1] ELSE t.heap[b].fdata[i]]
      move(t) == SetCells(t, b, put(t), {})
  IN move(SetCells(s, c, [i \in Cells(s, c) |-> IF i \in left THEN void ELSE Cell(s, c, i)],
                   Fault("move", HasLifetime /\ wrong)))

set_size(s, b, n) == [s EXCEPT !.heap[b].countchars = n]
ConstructFrom(s, b, at, vs) ==
  set_size(constructorarray(s, b, at, vs), b, Larger(s.heap[b].countchars, at + Len(vs)))
ConstructFor(s, b, at, n) == ConstructFrom(s, b, at, [i \in 1..n |-> Zero])
DestructFrom(s, b, n) ==
  set_size(IF n < s.heap[b].countchars
             THEN destructorarray(s, b, n, s.heap[b].countchars) ELSE s, b, n)

incuse(s, b) == [s EXCEPT !.heap[b].refcnt = @ + 1]
freed(s, b) ==
  [s EXCEPT !.heap[b] = Freed,
            !.faults = @ \cup Fault("lost", HasLifetime /\ \E i \in Cells(s, b) : Cell(s, b, i) # Raw)]
decuse(s, b) ==
  IF s.heap[b].refcnt <= 1 THEN freed(destructorarray(s, b, 0, s.heap[b].countchars), b)
  ELSE [s EXCEPT !.heap[b].refcnt = @ - 1]

Free(s) == CHOOSE b \in Blocks : s.heap[b].refcnt = 0
\* malloc and initthis.
MakeStorage(s, b, cnt, cap) ==
  [s EXCEPT !.heap[b] = [refcnt |-> 1, countchars |-> cnt, fdata |-> [i \in 0 .. cap - 1 |-> Raw]]]

(***************************************************************************)
(* rc_basic_array: what the operations are made of.                        *)
(***************************************************************************)
isUnique(s) == s.fstorage # Null /\ Storage(s).refcnt = 1
isSlice(s)  == s.fstorage # Null /\ s.sdata # 0 /\ Storage(s).countchars # s.fsize
startshift(s) == IF s.fstorage = Null THEN 0 ELSE s.sdata
capacityIgnoringShift(s) ==
  IF s.fstorage = Null \/ freserve(s, s.fstorage) = 0 THEN 0 ELSE freserve(s, s.fstorage) - eAddZeroE
capacity(s) ==
  LET r == IF s.fstorage = Null THEN 0 ELSE freserve(s, s.fstorage) - startshift(s)
  IN IF r = 0 THEN 0 ELSE r - eAddZeroE
capacity_newsz(n) == Larger(MinCapacity, n + (n * 25) \div 100)
View(s, from, n) == Read(s, Pointer(s), from, n)

putzero_toend(s) ==
  IF kind = "string" THEN constructorarray(s, s.fstorage, s.sdata + s.fsize, <<Zero>>) ELSE s
DestructStorageAtEnd(s) ==
  IF isUnique(s) THEN DestructFrom(s, s.fstorage, s.sdata + s.fsize) ELSE s
set_fsize(s, n) ==
  IF isUnique(s) THEN putzero_toend(DestructStorageAtEnd([s EXCEPT !.fsize = n]))
                 ELSE [s EXCEPT !.fsize = n]
reset_nodone(s) == [s EXCEPT !.fstorage = Null, !.sdata = 0, !.fsize = 0]
done(s) == reset_nodone(IF s.fstorage = Null THEN s ELSE decuse(s, s.fstorage))

\* Options of doresize and makenew: NoNew (eoptNoNewConstruct), NoCopy, NoDecUse,
\* Increase (eoptIncreaseCapacity), Unique (eoptMakeUnique).
newStorage(s, b, newcnt, wanted, opts) ==
  MakeStorage(s, b, newcnt, IF "Increase" \in opts THEN capacity_newsz(wanted) ELSE wanted)
\* The elements kept, moved or copied from the array's block to block b.
fillNew(s, b, n, opts) ==
  IF "NoCopy" \in opts \/ s.fsize = 0 THEN s
  ELSE IF MI_ISMOVED /\ isUnique(s) /\ ~isSlice(s)
    THEN set_size(movedataX(s, b, 0, s.fstorage, s.sdata, n, FALSE), s.fstorage, s.sdata)
    ELSE ConstructFrom(s, b, 0, View(s, 0, n))
takeNew(s, b, newcnt, opts) ==
  set_fsize([(IF "NoDecUse" \in opts THEN reset_nodone(s) ELSE done(s)) EXCEPT !.fstorage = b], newcnt)
makenew(s, newcnt, capa, opts) ==
  LET b == Free(s)
      wanted == capa + eAddZeroE
      full == fillNew(newStorage(s, b, newcnt, wanted, opts), b, Smaller(s.fsize, newcnt), opts)
      more == IF newcnt > s.fsize /\ "NoNew" \notin opts THEN newcnt - s.fsize ELSE 0
  IN IF more > 0 THEN ConstructFor(takeNew(full, b, newcnt, opts), b, s.fsize, more)
                 ELSE takeNew(full, b, newcnt, opts)

repackUnsized(s) ==
  IF s.fsize = 0 \/ startshift(s) = 0 \/ ~isUnique(s) THEN s
  ELSE DestructStorageAtEnd([movedataX(DestructStorageAtEnd(s), s.fstorage, 0, s.fstorage,
                                       s.sdata, s.fsize, TRUE) EXCEPT !.sdata = 0])
repack(s) ==
  IF s.fsize = 0 \/ startshift(s) = 0 \/ ~isUnique(s) THEN s
  ELSE LET b == s.fstorage IN
       DestructStorageAtEnd(
         [set_size(movedataX(DestructStorageAtEnd(s), b, 0, b, s.sdata, s.fsize, TRUE), b, s.sdata)
            EXCEPT !.sdata = 0])

\* The new elements of a resize in place, then the size.
GrowHere(s, n, opts) ==
  set_fsize(IF "NoNew" \in opts THEN s
            ELSE ConstructFor(s, s.fstorage, s.sdata + s.fsize, n - s.fsize), n)

doresize(s, n, opts) ==
  LET unshare == ~isUnique(s) /\ "Unique" \in opts
      inPlace == isUnique(s) /\ freserve(s, s.fstorage) > 0
      fits == n <= capacity(s)
      Grow(trimmed) == GrowHere(IF fits THEN trimmed ELSE repack(trimmed), n, opts)
  IN CASE n = s.fsize /\ ~unshare -> s
       [] n # s.fsize /\ n = 0 -> DestructStorageAtEnd(set_fsize(s, 0))
       [] 0 < n /\ n < s.fsize /\ ~unshare -> set_fsize(s, n)
       [] n > s.fsize /\ inPlace /\ n <= startshift(s) + capacity(s) -> Grow(DestructStorageAtEnd(s))
       [] OTHER -> makenew(IF inPlace THEN DestructStorageAtEnd(s) ELSE s, n, n, opts)

doreserve(s, new_capa) ==
  LET n == Larger(new_capa, s.fsize)
  IN IF n = capacity(s) THEN s
     ELSE IF isUnique(s) /\ startshift(s) + capacity(s) = n THEN repack(s)
     ELSE makenew(s, s.fsize, n, {})

makeunique(s) ==
  IF isUnique(s) \/ s.fsize = 0 THEN s ELSE makenew(s, s.fsize, s.fsize, {})

lassign(s, d) ==
  LET t == IF d.fstorage = s.fstorage THEN s
           ELSE done(IF d.fstorage = Null THEN s ELSE incuse(s, d.fstorage))
  IN [t EXCEPT !.fstorage = d.fstorage, !.sdata = d.sdata, !.fsize = d.fsize]

\* lassign of data: p points at n elements, of this array, of another one or of
\* none.  If it points into this array, the block is kept alive meanwhile.
NeverIntersects(s, p, n) == FALSE
intersects(s, p, n) ==
  /\ s.fstorage # Null /\ p.fstorage = s.fstorage
  /\ (s.sdata .. s.sdata + s.fsize - 1) \cap (p.sdata .. p.sdata + n - 1) # {}
Keep(s, p, n) == IF intersects(s, p, n) THEN incuse(s, s.fstorage) ELSE s
ReleaseNothing(t, s, p, n) == t
Release(t, s, p, n) == IF intersects(s, p, n) THEN decuse(t, s.fstorage) ELSE t

Whole(s) ==
  IF isUnique(s) THEN [s EXCEPT !.sdata = 0, !.fsize = Storage(s).countchars] ELSE s
\* Over the first cells, which hold objects, and then behind them.
PutOver(s, at, p, over, n) ==
  ConstructFrom(copydata(s, s.fstorage, at, Read(s, p, 0, over)),
                s.fstorage, at + over, Read(s, p, over, n - over))
Refill(whole, p, n) ==
  LET put(s) == PutOver(s, s.sdata, p, IF s.fstorage = whole.fstorage THEN Smaller(whole.fsize, n)
                                       ELSE 0, n)
  IN put(doresize(whole, n, {"NoCopy", "NoNew", "Unique"}))
lassign_data(s, p, n) ==
  IF n = 0 THEN done(s) ELSE Release(Refill(Whole(Keep(s, p, n)), p, n), s, p, n)

\* linsert, the new storage: the elements around the gap move or are copied.
InsertMoved(s, kept, pos, n) ==
  LET b == s.fstorage
      old == kept.fstorage
      low(cut) == movedataX(cut, b, 0, old, kept.sdata, pos, FALSE)
      high(t) == movedataX(t, b, pos + n, old, kept.sdata + pos, kept.fsize - pos, FALSE)
  IN set_size(high(low(DestructFrom(s, old, kept.sdata + kept.fsize))), old, kept.sdata)
InsertCopied(s, kept, pos, n) ==
  LET old == Pointer(kept)
  IN ConstructFrom(ConstructFrom(s, s.fstorage, 0, Read(s, old, 0, pos)),
                   s.fstorage, pos + n, Read(s, old, pos, kept.fsize - pos))
InsertElsewhere(s, kept, pos, p, n) ==
  LET fill(t) == ConstructFrom(t, t.fstorage, pos, Read(t, p, 0, n))
      leave(t) == IF kept.fstorage = Null THEN t ELSE decuse(t, kept.fstorage)
  IN leave(fill(IF kept.fsize = 0 THEN s
                ELSE IF isUnique(kept) /\ MI_ISMOVED THEN InsertMoved(s, kept, pos, n)
                ELSE InsertCopied(s, kept, pos, n)))
\* The same storage: the tail shifts up by n, then the gap is filled.
ShiftCopied(s, pos, tail, n) ==
  LET at == s.sdata + pos
      inner == Smaller(n, tail)       \* cells of the gap that hold objects
  IN ConstructFrom(copydata(s, s.fstorage, at + n, View(s, pos, tail - inner)),
                   s.fstorage, at + n + tail - inner, View(s, pos + tail - inner, inner))
InsertHere(s, kept, pos, p, n) ==
  LET b == s.fstorage
      at == s.sdata + pos
      tail == kept.fsize - pos
      fill(t, over) == PutOver(t, at, p, over, n)
  IN IF tail = 0 THEN fill(s, 0)
     ELSE IF MI_ISMOVED THEN fill(movedataX(s, b, at + n, b, at, tail, FALSE), 0)
     ELSE fill(ShiftCopied(s, pos, tail, n), Smaller(n, tail))

InsertKept(kept, pos, p, n) ==
  LET put(s) == IF s.fstorage # kept.fstorage THEN InsertElsewhere(s, kept, pos, p, n)
                ELSE InsertHere(s, kept, pos, p, n)
  IN put(doresize(kept, kept.fsize + n, {"NoDecUse", "NoCopy", "NoNew", "Unique", "Increase"}))
linsert(s, position, p, n) ==
  IF n = 0 THEN s
  ELSE Release(InsertKept(Keep(s, p, n), Smaller(position, s.fsize), p, n), s, p, n)

\* The count the erased block is given is that of the tail that moved, so the
\* old objects behind the new end are destroyed after it.
erasedSize(s, pos, n) == s.sdata + s.fsize - Smaller(s.fsize - (pos + n), n)
lerase_here(s, pos, n) ==
  LET b == s.fstorage
      at == s.sdata + pos
      moved == movedataX(DestructStorageAtEnd(s), b, at, b, at + n, s.fsize - (pos + n), TRUE)
  IN putzero_toend(DestructStorageAtEnd(
       [set_size(moved, b, erasedSize(s, pos, n)) EXCEPT !.fsize = s.fsize - n]))
lerase_shared(s, pos, n) ==
  LET m == s.fsize - n
      low(t) == ConstructFrom(t, t.fstorage, 0, View(s, 0, pos))
      all(t) == ConstructFrom(t, t.fstorage, pos, View(s, pos + n, m - pos))
      leave(t) == IF s.fstorage = Null THEN t ELSE decuse(t, s.fstorage)
  IN leave(all(low(makenew(reset_nodone(s), m, m, {"NoCopy", "NoNew"}))))
eraseCount(s, pos, count) == Smaller(count, s.fsize - pos)
lerase(s, pos, count) ==
  LET n == eraseCount(s, pos, count)
  IN IF pos >= s.fsize THEN s
     ELSE IF n = s.fsize THEN doresize(s, 0, {"Unique"})
     ELSE IF isUnique(s) THEN lerase_here(s, pos, n)
     ELSE lerase_shared(s, pos, n)

(***************************************************************************)
(* The public operations.                                                  *)
(***************************************************************************)
This(h) == [heap |-> heap, faults |-> {}, fstorage |-> arr[h].fstorage,
            sdata |-> arr[h].sdata, fsize |-> arr[h].fsize]
\* A write past the block raises "range error" when the size is set after it;
\* nothing is modelled of a program that goes on from there.
Becomes(h, s, op, at, n, data) ==
  /\ "overrun" \notin faults
  /\ faults' = s.faults
  /\ IF "overrun" \in s.faults THEN call' = NoCall /\ UNCHANGED <<heap, arr>>
     ELSE /\ heap' = s.heap
          /\ arr' = [arr EXCEPT ![h] =
                       [fstorage |-> s.fstorage, sdata |-> s.sdata, fsize |-> s.fsize]]
          /\ call' = [op |-> op, on |-> h, at |-> at, n |-> n, data |-> data]
  /\ UNCHANGED kind
Gets(h, s, data) == Becomes(h, s, "assign", 0, 0, data)
Keeps(h, s) == Becomes(h, s, "keep", 0, 0, <<>>)
Size(h) == arr[h].fsize
Slots(h, from, n) == View(This(h), from, n)

\* Where the data of an assign, append or insert can be.
Outside(d) == [fstorage |-> Null, sdata |-> 0, data |-> d]
Part(k, from) == [Pointer(arr[k]) EXCEPT !.sdata = @ + from]

AssignData(h, d) == Gets(h, lassign_data(This(h), Outside(d), Len(d)), d)
AssignPart(h, k, from, n) ==
  from + n <= Size(k) /\ Gets(h, lassign_data(This(h), Part(k, from), n), Slots(k, from, n))
Assign(h, k) == Gets(h, lassign(This(h), arr[k]), Slots(k, 0, Size(k)))
AssignConst(h, n) ==
  n <= Len(Literal) /\ Gets(h, [done(This(h)) EXCEPT !.fsize = n], SubSeq(Literal, 1, n))
Insert(h, pos, d) ==
  Size(h) + Len(d) <= MaxSize
    /\ Becomes(h, linsert(This(h), pos, Outside(d), Len(d)), "insert", pos, 0, d)
InsertPart(h, pos, k, from, n) ==
  /\ from + n <= Size(k) /\ Size(h) + n <= MaxSize
  /\ Becomes(h, linsert(This(h), pos, Part(k, from), n), "insert", pos, 0, Slots(k, from, n))
Erase(h, pos, n) == Becomes(h, lerase(This(h), pos, n), "erase", pos, n, <<>>)
Resize(h, n) == Becomes(h, doresize(This(h), n, {"Unique"}), "resize", 0, n, <<>>)
Reserve(h, n) == Keeps(h, doreserve(This(h), n))
MakeUnique(h) == Keeps(h, makeunique(This(h)))
Clear(h) == Gets(h, done(This(h)), <<>>)
\* k = h.slice(from, n)
Slice(k, h, from, n) ==
  /\ from + n <= Size(h)
  /\ Gets(k, lassign(This(k), [arr[h] EXCEPT !.sdata = @ + from, !.fsize = n]), Slots(h, from, n))
\* at(i) = v: a string makes itself unique first.
Write(h, i, v) ==
  LET s == IF kind = "string" THEN makeunique(This(h)) ELSE This(h)
  IN /\ i < Size(h) /\ s.fstorage # Null
     /\ Becomes(h, copydata(s, s.fstorage, s.sdata + i, <<v>>), "write", i, 0, <<v>>)

Next ==
  \E h \in Handles :
    \/ Clear(h) \/ MakeUnique(h)
    \/ \E d \in Data : AssignData(h, d) \/ \E pos \in 0 .. Size(h) : Insert(h, pos, d)
    \/ \E n \in 0 .. MaxSize : AssignConst(h, n) \/ Resize(h, n) \/ Reserve(h, n)
    \/ \E pos \in 0 .. MaxSize, n \in 1 .. MaxSize : Erase(h, pos, n)
    \/ \E i \in 0 .. MaxSize - 1, v \in Values : Write(h, i, v)
    \/ \E k \in Handles :
         \/ Assign(h, k)
         \/ \E from, n \in 0 .. MaxSize :
              Slice(h, k, from, n) \/ AssignPart(h, k, from, n)
              \/ \E pos \in 0 .. Size(h) : InsertPart(h, pos, k, from, n)

Spec == Init /\ [][Next]_vars

(***************************************************************************)
(* Properties.                                                             *)
(***************************************************************************)
Sharers(b) == {h \in Handles : arr[h].fstorage = b}
Contents(h) == Slots(h, 0, Size(h))

\* The types of the variables; the reference count of a block is the number of arrays that show a
\* part of it, so that it is freed with the last of them (rc_string_header::incuse, decuse);
\* between operations the objects of a block are its first countchars cells and no
\* others, and every array shows objects (set_size, ConstructFrom, DestructFrom).
BlocksConsistent ==
  /\ kind \in Kinds /\ faults \subseteq Faults
  /\ \A b \in Blocks : /\ heap[b].refcnt \in Nat /\ heap[b].countchars \in Nat
                       /\ \A i \in DOMAIN heap[b].fdata :
                            heap[b].fdata[i] \in Values \cup {Zero, Raw}
  /\ arr \in [Handles -> [fstorage : Blocks \cup {Null}, sdata : Nat, fsize : 0 .. MaxSize]]
  /\ \A b \in Blocks : heap[b].refcnt = Cardinality(Sharers(b))
  /\ HasLifetime => \A b \in Blocks : \A i \in DOMAIN heap[b].fdata :
       heap[b].fdata[i] # Raw <=> i < heap[b].countchars
  /\ \A h \in Handles : arr[h].fstorage # Null =>
       arr[h].sdata + Size(h) <= heap[arr[h].fstorage].countchars

\* No operation constructs over an object, or destroys, assigns or moves one
\* that is not there: the exceptions "Invalid construct" and "Invalid destruct"
\* of the test's tObjMapAlloc.
NoLifetimeFault == faults \subseteq {"lost", "overrun"}

\* Every object that was constructed is destroyed with its block: the test's
\* "remained undeleted object!".
NothingLost == "lost" \notin faults

\* An array shows the first elements of a block that is its alone.
ShowsPrefix(h) ==
  /\ arr[h].fstorage # Null /\ heap[arr[h].fstorage].refcnt = 1
  /\ arr[h].sdata = 0 /\ Size(h) < heap[arr[h].fstorage].countchars
\* Objects are lost only where reserve (makenew) moves a prefix slice that has become the only
\* owner of its block, and built past a block only where an empty slice that does not begin
\* its block, and owns it, grows: repack leaves an empty view where it is.
FaultsHaveCause ==
  [][/\ ~NothingLost' =>
          \E h \in Handles : ShowsPrefix(h) /\ arr'[h].fstorage # arr[h].fstorage
     /\ "overrun" \notin faults /\ "overrun" \in faults' =>
          \E h \in Handles : /\ Size(h) = 0 /\ arr[h].sdata > 0 /\ arr[h].fstorage # Null
                             /\ heap[arr[h].fstorage].refcnt = 1]_vars

Arrays == INSTANCE ArraySem WITH val <- [h \in Handles |-> Contents(h)], Default <- Zero,
                                 shared <- kind # "string"
\* Arrays and strings behave as values: an operation changes the contents of the
\* one array it is called on (an element written through an array that shares
\* its block is the one exception, as ReadMe.txt says), and copying, slicing,
\* reserving and reference counts are invisible.
ArraySpec == Arrays!Spec
=============================================================================
