------------------------------ MODULE Serialize ------------------------------
(***************************************************************************)
(* Serializing in memory (src/gdata/t_serialize.cpp, tb_serialize.h): the  *)
(* bytes and a position in them, frames that carry the digest of what they *)
(* hold, arrays and maps.  fault is the exception that ended the reading.  *)
(***************************************************************************)
EXTENDS Hashes

Opened(bytes) == [buff |-> bytes, r_position |-> 0, fault |-> "none"]
Size(st) == Len(st.buff)
HeadSize == 4 + HashSize("MD5")

seek(st, pos) == IF pos > Size(st) THEN st ELSE [st EXCEPT !.r_position = pos]
checkread(st, sz) == sz >= 0 /\ sz <= Size(st) - st.r_position
Fault(st, f) == [st EXCEPT !.fault = IF @ = "none" THEN f ELSE @]

\* Both calls take the address of the byte at the position, also when they move none: where the
\* bytes end that throws, but for an array of no bytes.
PastEnd(st) == st.r_position # 0 /\ st.r_position >= Size(st)
write(st, data) ==
  IF st.fault # "none" THEN st
  ELSE IF data = <<>> /\ PastEnd(st) THEN Fault(st, "range error")
  ELSE [st EXCEPT !.buff = SubSeq(@, 1, st.r_position) \o data \o SubSeq(@, st.r_position + Len(data) + 1, Len(@)),
                  !.r_position = @ + Len(data)]
\* What is read, and the serializer behind it.
NotRead(st, sz, f) == [v |-> Zeros(sz), st |-> Fault(st, f)]
readBytes(st, sz) ==
  IF st.fault # "none" \/ ~checkread(st, sz) THEN NotRead(st, sz, "ReadEOF")
  ELSE IF PastEnd(st) THEN NotRead(st, sz, "range error")
  ELSE [v |-> SubSeq(st.buff, st.r_position + 1, st.r_position + sz), st |-> [st EXCEPT !.r_position = @ + sz]]

\* int32: four bytes, the lowest first.
IntBytes(n) == [i \in 1 .. 4 |-> (n \div 256 ^ (i - 1)) % 256]
IntOf(b) == b[1] + 256 * b[2] + 65536 * b[3] + 16777216 * (IF b[4] < 128 THEN b[4] ELSE b[4] - 256)
AsInt(r) == [v |-> IntOf(r.v), st |-> r.st]
readInt(st) == AsInt(readBytes(st, 4))

-----------------------------------------------------------------------------
(* Frames: the size of what follows, and its digest. *)

make_start_crc(st) == write(st, Zeros(HeadSize))
\* calc_crc_cmp from start to end: the digest, unless it does not get to read them.
calc_crc(st, start, end) ==
  IF end < start \/ ~checkread(seek(st, start), end - start) THEN <<>>
  ELSE CalcHash("MD5", SubSeq(st.buff, start + 1, end))
fix_end_crc(st, label) ==
  LET start == label + HeadSize
      head == IntBytes(st.r_position - start) \o calc_crc(st, start, st.r_position)
  IN  IF st.fault # "none" THEN st ELSE seek(write(seek(st, label), head), st.r_position)
\* A frame of no size holds nothing to check; one that ends behind the bytes does not hold.
HoldsUnread(st, sz, digest) == sz = 0 \/ (sz > 0 /\ calc_crc(st, st.r_position, st.r_position + sz) \in {<<>>, digest})
Holds(st, sz, digest) == sz = 0 \/ (sz > 0 /\ calc_crc(st, st.r_position, st.r_position + sz) = digest)
Checked(head) == [v |-> Holds(head.st, IntOf(SubSeq(head.v, 1, 4)), SubSeq(head.v, 5, HeadSize)), st |-> head.st]
check_crc(st) == Checked(readBytes(st, HeadSize))

-----------------------------------------------------------------------------
(* Arrays of bytes, of strings, and maps from strings to numbers. *)

push_array(st, s) == write(write(st, IntBytes(Len(s))), s)
push_strings(st, ss) == FoldLeft(push_array, write(st, IntBytes(Len(ss))), ss)

Refused(st) == Fault(st, "ReadInvalidArray")
\* pop_check_array of bytes; the limit is none for pop_array.
BytesAfter(n, maxsize) ==
  IF (maxsize >= 0 /\ n.v > maxsize) \/ ~checkread(n.st, n.v) THEN [v |-> <<>>, st |-> Refused(n.st)]
  ELSE readBytes(n.st, n.v)
pop_array(st, maxsize) == BytesAfter(readInt(st), maxsize)
\* Of elements that are no plain data: there are as many bytes left as there are elements at least.
WithString(v, s) == [v |-> Append(v, s.v), st |-> s.st]
RECURSIVE Strings(_, _)
Strings(r, n) ==
  IF n <= 0 \/ r.st.fault # "none" THEN r ELSE Strings(WithString(r.v, pop_array(r.st, -1)), n - 1)
ElementsAfter(n) ==
  IF ~checkread(n.st, n.v) THEN [v |-> <<>>, st |-> Refused(n.st)] ELSE Strings([v |-> <<>>, st |-> n.st], n.v)
pop_strings(st) == ElementsAfter(readInt(st))

\* A map in the order of its keys.  Reading takes each key and writes a value over the one it has
\* for it: the values of the map that is read are those of a new object.
push_map(st, keys, m) == FoldLeft(LAMBDA s, k : write(push_array(s, k), IntBytes(m[k])), write(st, IntBytes(Len(keys))), keys)
WithKey(v, k) == [v |-> v \cup {k.v}, st |-> write(k.st, Zeros(4))]
RECURSIVE Keys(_, _)
Keys(r, n) == IF n <= 0 \/ r.st.fault # "none" THEN r ELSE Keys(WithKey(r.v, pop_array(r.st, -1)), n - 1)
KeysAfter(n) == Keys([v |-> {}, st |-> n.st], n.v)
pop_map(st) == KeysAfter(readInt(st))

-----------------------------------------------------------------------------
(* A tree as the repository's test keeps one: each node in a frame of its own, with the nodes below *)
(* it inside.  left and right hold a node or none.                                                  *)

RECURSIVE push_node(_, _)
push_node(st, n) ==
  LET own == write(push_strings(push_array(make_start_crc(st), n.dai8), n.sa), IntBytes(Len(n.left) + 2 * Len(n.right)))
  IN  fix_end_crc(FoldLeft(push_node, own, n.left \o n.right), st.r_position)

\* A frame that fails its check ends the reading of the tree.
\* n is the node so far, with the serializer behind it.
NoNode(st) == [st |-> st, dai8 |-> <<>>, sa |-> <<>>, lre |-> 0, left |-> <<>>, right |-> <<>>]
FillIn(n, field, r) == [n EXCEPT ![field] = r.v, !.st = r.st]
Alone(n) == [st |-> n.st, v |-> <<[dai8 |-> n.dai8, sa |-> n.sa, left |-> n.left, right |-> n.right]>>]
PutArray(n) == FillIn(n, "dai8", pop_array(n.st, -1))
PutStrings(n) == FillIn(n, "sa", pop_strings(n.st))
PutSides(n) == FillIn(n, "lre", readInt(n.st))
RECURSIVE pop_node(_), PutLeft(_), PutRight(_), NodeAfter(_)
PutLeft(n) == IF n.st.fault = "none" /\ n.lre % 2 = 1 THEN FillIn(n, "left", Alone(pop_node(n.st))) ELSE n
PutRight(n) == IF n.st.fault = "none" /\ (n.lre \div 2) % 2 = 1 THEN FillIn(n, "right", Alone(pop_node(n.st))) ELSE n
NodeAfter(crc) ==
  IF crc.st.fault # "none" THEN NoNode(crc.st)
  ELSE IF ~crc.v THEN NoNode([crc.st EXCEPT !.fault = "crc"])
  ELSE PutRight(PutLeft(PutSides(PutStrings(PutArray(NoNode(crc.st))))))
pop_node(st) == NodeAfter(check_crc(st))

-----------------------------------------------------------------------------
(* What is promised. *)

\* The sizes of the pieces that are written, one behind the other; the first one is at the place at.
ArrayPieces(a) == <<4, Len(a)>>
RECURSIVE NodePieces(_)
NodePieces(n) ==
  <<HeadSize>> \o ArrayPieces(n.dai8) \o <<4>> \o FlattenSeq([i \in DOMAIN n.sa |-> ArrayPieces(n.sa[i])]) \o <<4>>
  \o FlattenSeq([i \in DOMAIN (n.left \o n.right) |-> NodePieces((n.left \o n.right)[i])])
AllPieces(tree, behind, keys) ==
  NodePieces(tree) \o ArrayPieces(behind) \o <<4>> \o FlattenSeq([i \in DOMAIN keys |-> ArrayPieces(keys[i]) \o <<4>>])
PlaceOfPiece(pieces, at, i) == at + FoldLeft(+, 0, SubSeq(pieces, 1, i - 1))

\* What is written is read, with what stands behind it, wherever in the bytes it begins, and the
\* bytes around it stay; but nothing that is empty can be written where the bytes end so far.
ComesTo(r, v) == r.v = v /\ r.st.fault = "none"
MapIsLeft(m, keys, end) == ComesTo(m, Range(keys)) /\ m.st.r_position = end
BehindIsLeft(b, behind, keys, end) == ComesTo(b, behind) /\ MapIsLeft(pop_map(b.st), keys, end)
TreeIsLeft(t, tree, behind, keys, end) ==
  ComesTo(t, <<tree>>) /\ BehindIsLeft(pop_array(t.st, Len(behind)), behind, keys, end)
WrittenIsLeft(st, tree, before, at, behind, keys, end) ==
  /\ st.fault = "none" /\ st.r_position = end
  /\ SubSeq(st.buff, 1, at) = SubSeq(before, 1, at)
  /\ SubSeq(st.buff, end + 1, Size(st)) = SubSeq(before, end + 1, Len(before))
  /\ TreeIsLeft(Alone(pop_node(seek(Opened(st.buff), at))), tree, behind, keys, end)
EmptyAtEnd(pieces, before, at) ==
  \E i \in DOMAIN pieces : pieces[i] = 0 /\ PlaceOfPiece(pieces, at, i) >= Len(before)
SerializedComesBack(tree, before, at, behind, keys) ==
  LET pieces == AllPieces(tree, behind, keys)
      st == push_map(push_array(push_node(seek(Opened(before), at), tree), behind), keys, [k \in Range(keys) |-> 1])
  IN  IF EmptyAtEnd(pieces, before, at) THEN st.fault = "range error"
      ELSE WrittenIsLeft(st, tree, before, at, behind, keys, PlaceOfPiece(pieces, at, Len(pieces) + 1))

\* A tree of which a byte was spoilt, or the end lost, is never read as if it were whole; but that
\* a frame of no size is not checked: the tree is then the whole one, for all that was spoilt is
\* the size of the outermost frame.
RoomFor(tree) == PlaceOfPiece(NodePieces(tree), 0, Len(NodePieces(tree)) + 1)
TreeBytes(tree) == SubSeq(push_node(Opened(Zeros(RoomFor(tree) + 1)), tree).buff, 1, RoomFor(tree))
Cut(bytes, place) == SubSeq(bytes, 1, place % Len(bytes))
Spoilt(bytes, place, byte) == [bytes EXCEPT ![1 + (place % Len(bytes))] = (@ + byte) % 256]
ToldBy(bytes, r, tree) == r.st.fault # "none" \/ (IntOf(SubSeq(bytes, 1, 4)) = 0 /\ r.v = <<tree>>)
SpoiltIsTold(tree, place, byte) ==
  \A whole \in {TreeBytes(tree)} :
    \A bytes \in {Cut(whole, place), Spoilt(whole, place, byte)} : ToldBy(bytes, Alone(pop_node(Opened(bytes))), tree)
=============================================================================
