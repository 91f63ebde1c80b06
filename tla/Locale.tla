------------------------------- MODULE Locale -------------------------------
(***************************************************************************)
(* Code pages and case (src/gdata/tbt_locale.cpp), and the hash of a text  *)
(* without regard to case (src/gdata/hash_functions.cpp).  A narrow text   *)
(* is a sequence of bytes, a wide one of the 16-bit units codecvt makes.   *)
(***************************************************************************)
EXTENDS Integers, SequencesExt

CONSTANTS
  UpperUnit,   \* the upper case of the units that have one (ctype<wchar_t>)
  CaseBuffer   \* units a local buffer holds: 1024 to compare or convert, 2048 to change case, 512 to hash

ASSUME CaseBufferAssumption == CaseBuffer \in Nat /\ CaseBuffer >= 2

-----------------------------------------------------------------------------
(* std::codecvt_utf8_utf16: from and to with a place for room units or bytes. *)

Utf8(u) ==
  LET tail(k) == 128 + ((u \div 64 ^ k) % 64)
  IN  CASE u < 128   -> <<u>>
        [] u < 2048  -> <<192 + u \div 64, tail(0)>>
        [] u < 65536 -> <<224 + u \div 4096, tail(1), tail(0)>>
        [] OTHER     -> <<240 + u \div 262144, tail(2), tail(1), tail(0)>>
Continues == 128 .. 191
Tails(lead) == CASE lead < 128 -> 0 [] lead < 192 -> -1 [] lead < 224 -> 1 [] lead < 240 -> 2 [] lead < 248 -> 3 [] OTHER -> -1
RECURSIVE PointFrom(_, _)
PointFrom(u, tail) == IF tail = <<>> THEN u ELSE PointFrom(u * 64 + (Head(tail) % 64), Tail(tail))
Point(c) ==
  PointFrom(CASE Len(c) = 1 -> c[1] [] Len(c) = 2 -> c[1] % 32 [] Len(c) = 3 -> c[1] % 16 [] OTHER -> c[1] % 8, Tail(c))
\* The first n bytes have the form of a character; and are its shortest form.
Formed(s, n) == n <= Len(s) /\ Tails(s[1]) = n - 1 /\ \A i \in 2 .. n : s[i] \in Continues
Shortest(c) == Utf8(Point(c)) = c /\ Point(c) <= 1114111
IsPoint(s, n) == Formed(s, n) /\ Shortest(SubSeq(s, 1, n))
\* The bytes begin a character that is cut off: with low or with high bytes behind them they are one.
Extended(s, byte) == s \o [i \in 1 .. Tails(s[1]) + 1 - Len(s) |-> byte]
CutOff(s) == Tails(s[1]) >= Len(s) /\ \A i \in 2 .. Len(s) : s[i] \in Continues
Begun(s) == CutOff(s) /\ \E byte \in {128, 191} : Shortest(Extended(s, byte))

High == 55296 .. 56319
Low  == 56320 .. 57343
Units(u) == IF u < 65536 THEN <<u>> ELSE <<55296 + (u - 65536) \div 1024, 56320 + ((u - 65536) % 1024)>>
Paired(w) == Len(w) > 1 /\ w[1] \in High /\ w[2] \in Low
Lone(w) == ~Paired(w) /\ w[1] \in High \cup Low

\* The character that stands at the beginning: how many bytes or units it is, what it becomes,
\* and what ends the conversion there, if anything does.
Ends(rl) == [n |-> 0, new |-> <<>>, rl |-> rl]
Becomes(n, new) == [n |-> n, new |-> new, rl |-> "more"]
NextIn(rest, full) ==
  IF rest = <<>> \/ full THEN Ends("ok")
  ELSE IF ~\E n \in 1 .. 4 : IsPoint(rest, n) THEN Ends(IF Begun(rest) THEN "partial" ELSE "error")
  ELSE LET n == Tails(rest[1]) + 1 IN Becomes(n, Units(Point(SubSeq(rest, 1, n))))
NextOut(rest) ==
  IF rest = <<>> THEN Ends("ok")
  ELSE IF Lone(rest) THEN Ends("error")
  ELSE IF Paired(rest) THEN Becomes(2, Utf8(65536 + (rest[1] - 55296) * 1024 + (rest[2] - 56320)))
  ELSE Becomes(1, Utf8(rest[1]))

\* st is how far it got, c the next character.
Full(st, c, room) == Len(st.out) + Len(c.new) > room
Stopped(st, c) == [st EXCEPT !.rl = IF c.rl # "more" THEN c.rl ELSE "partial"]
Took(st, c) == [read |-> st.read + c.n, out |-> st.out \o c.new, rl |-> "more"]
RECURSIVE InFrom(_, _, _, _), OutFrom(_, _, _, _)
InFrom(s, st, c, room) ==
  IF c.rl # "more" \/ Full(st, c, room) THEN Stopped(st, c)
  ELSE InFrom(SubSeq(s, c.n + 1, Len(s)), Took(st, c),
              NextIn(SubSeq(s, c.n + 1, Len(s)), Len(st.out) + Len(c.new) = room), room)
OutFrom(w, st, c, room) ==
  IF c.rl # "more" \/ Full(st, c, room) THEN Stopped(st, c)
  ELSE OutFrom(SubSeq(w, c.n + 1, Len(w)), Took(st, c), NextOut(SubSeq(w, c.n + 1, Len(w))), room)
Begin == [read |-> 0, out |-> <<>>, rl |-> "more"]
In(s, room) == InFrom(s, Begin, NextIn(s, room = 0), room)
Out(w, room) == OutFrom(w, Begin, NextOut(w), room)

-----------------------------------------------------------------------------
(* utf8_Validate: text is what it is asked about, behind what stands in memory after it. *)

utf8_to_utf32(mem, i) ==
  LET need == Tails(mem[i])
      bad == {k \in 1 .. need : mem[i + k] \notin Continues}
  IN  CASE need < 0  -> [valid |-> FALSE, next |-> i + 1]
        [] bad # {}  -> [valid |-> FALSE, next |-> i + Min(bad) + 1]
        [] OTHER     -> [valid |-> Point(SubSeq(mem, i, i + need)) # 1114112, next |-> i + need + 1]
\* part is the length of validpart: it ends behind the bad character.
RECURSIVE ValidFrom(_, _, _)
ValidFrom(text, behind, part) ==
  LET r == utf8_to_utf32(text \o behind, part + 1)
  IN  IF part >= Len(text) THEN [valid |-> TRUE, part |-> Len(text)]
      ELSE IF r.valid THEN ValidFrom(text, behind, r.next - 1)
      ELSE [valid |-> FALSE, part |-> r.next - 1]
utf8_Validate(text, behind) == ValidFrom(text, behind, 0)

-----------------------------------------------------------------------------
(* Case. *)

Up(w) == [i \in DOMAIN w |-> IF w[i] \in DOMAIN UpperUnit THEN UpperUnit[w[i]] ELSE w[i]]
Down(w) == [i \in DOMAIN w |-> IF \E u \in DOMAIN UpperUnit : UpperUnit[u] = w[i]
                               THEN CHOOSE u \in DOMAIN UpperUnit : UpperUnit[u] = w[i] ELSE w[i]]
InMemory(w) == FlattenSeq([i \in DOMAIN w |-> <<w[i] % 256, w[i] \div 256, 0, 0>>])
Sign(n) == IF n < 0 THEN -1 ELSE IF n > 0 THEN 1 ELSE 0
\* The sign of memcmp over the units both have.
memcmp(l, r) ==
  LET a == InMemory(l)
      b == InMemory(r)
      differ == {i \in 1 .. (IF Len(a) < Len(b) THEN Len(a) ELSE Len(b)) : a[i] # b[i]}
  IN  IF differ = {} THEN 0 ELSE Sign(a[Min(differ)] - b[Min(differ)])

\* codec_case_utf16::icmp, buffer by buffer.
icmp16(l, r) ==
  LET sz == IF Len(l) < Len(r) THEN Len(l) ELSE Len(r)
      from[i \in 0 .. sz] ==
        LET to == IF sz - i < CaseBuffer THEN sz ELSE i + CaseBuffer
            d == memcmp(Up(SubSeq(l, i + 1, to)), Up(SubSeq(r, i + 1, to)))
        IN  IF i = sz THEN Sign(Len(l) - Len(r)) ELSE IF d # 0 THEN d ELSE from[to]
  IN  from[0]
\* codec_case_utf8::icmp: what of both converts to a buffer, and the rest again.
icmp8(l, r) ==
  LET from[i \in 0 .. Len(l), j \in 0 .. Len(r)] ==
        LET a == In(SubSeq(l, i + 1, Len(l)), CaseBuffer)
            b == In(SubSeq(r, j + 1, Len(r)), CaseBuffer)
            d == memcmp(Up(a.out), Up(b.out))
        IN  CASE i = Len(l) \/ j = Len(r) -> Sign((Len(l) - i) - (Len(r) - j))
              [] a.out = <<>> \/ b.out = <<>> -> Sign(Len(a.out) - Len(b.out))
              [] d # 0 -> d
              [] Len(a.out) # Len(b.out) -> Sign(Len(a.out) - Len(b.out))
              [] OTHER -> from[i + a.read, j + b.read]
  IN  from[0, 0]

\* f_ul: buffer by buffer in place; it throws when a buffer comes back with another length.
Cased(opcode, w) == IF opcode = 1 THEN Up(w) ELSE Down(w)
RECURSIVE CasedFrom(_, _, _)
CasedFrom(opcode, done, rest) ==
  LET r == In(rest, CaseBuffer)
      o == Out(Cased(opcode, r.out), Len(rest)).out
      written == o \o SubSeq(rest, Len(o) + 1, Len(rest))
  IN  IF r.out = <<>> THEN [text |-> done \o rest, threw |-> FALSE]
      ELSE IF Len(o) # r.read THEN [text |-> done \o written, threw |-> TRUE]
      ELSE CasedFrom(opcode, done \o o, SubSeq(rest, r.read + 1, Len(rest)))
f_ul(opcode, text) == CasedFrom(opcode, <<>>, text)

-----------------------------------------------------------------------------
(* What a hash without case is given: the bytes, and whether it throws or overruns its buffer of *)
(* CaseBuffer units.                                                                             *)

prepareforHashIcase8(cs) ==
  LET r == In(cs, CaseBuffer)
      left == SubSeq(cs, r.read + 1, Len(cs))
      asz == IF r.rl = "error" THEN Min({Len(left), 4 * (CaseBuffer - Len(r.out))}) ELSE 0
  IN  [bytes |-> InMemory(Up(r.out)) \o SubSeq(left, 1, asz), read |-> r.read + asz, overrun |-> FALSE]
\* The wide form takes the bytes of its buffer for a count of units.
prepareforHashIcase16(cs) ==
  LET sz == Min({Len(cs), 4 * CaseBuffer})
  IN  [bytes |-> InMemory(Up(SubSeq(cs, 1, sz))), read |-> sz, overrun |-> sz > CaseBuffer]
\* All that is hashed, in order.
icase_DefHash4_value(prepareforHashIcase(_), s) ==
  LET from[i \in 0 .. Len(s)] ==
        LET p == prepareforHashIcase(SubSeq(s, i + 1, Len(s)))
            rest == from[i + p.read]
        IN  CASE i = Len(s)     -> [bytes |-> <<>>, threw |-> FALSE, overrun |-> FALSE]
              [] p.bytes = <<>> -> [bytes |-> <<>>, threw |-> TRUE, overrun |-> FALSE]
              [] OTHER          -> [rest EXCEPT !.bytes = p.bytes \o @, !.overrun = @ \/ p.overrun]
  IN  from[0]
icase_DefHash8(s) == icase_DefHash4_value(prepareforHashIcase8, s)
icase_DefHash16(w) == icase_DefHash4_value(prepareforHashIcase16, w)

-----------------------------------------------------------------------------
(* Conversions between the widths. *)

\* The loop goes on from where the codec stopped: for ever if it stops where it began.
RECURSIVE NarrowFrom(_, _)
NarrowFrom(res, w) ==
  LET o == Out(w, 4 * CaseBuffer)
  IN  IF w = <<>> \/ o.read = 0 THEN [text |-> res, ends |-> w = <<>>]
      ELSE NarrowFrom(res \o o.out, SubSeq(w, o.read + 1, Len(w)))
wide_to_utf8_add(res, w) ==
  LET r == NarrowFrom(res, w)
  IN  [text |-> r.text, slice |-> SubSeq(r.text, Len(res) + 1, Len(r.text)), ends |-> r.ends]
\* A long source is converted in the destination, a short one in a buffer.
utf8_to_wide_add(dest, src) ==
  LET r == In(src, Max({Len(src), CaseBuffer})) IN [dest |-> dest \o r.out, cntadded |-> Len(r.out)]
wide_to_utf8_b(w, csz) == LET o == Out(w, csz) IN [cntread_wc |-> o.read, buff |-> o.out]
\* Each round converts from the beginning of src again.
RECURSIVE Pushed(_, _)
Pushed(src, cnt) ==
  LET r == wide_to_utf8_b(SubSeq(src, 1, cnt), CaseBuffer)
  IN  IF cnt = 0 \/ r.buff = <<>> THEN <<>> ELSE r.buff \o Pushed(src, cnt - r.cntread_wc)
push2stream(w) == Pushed(w, Len(w))

-----------------------------------------------------------------------------
(* What is promised of texts that stand for sequences of characters (points). *)

NarrowOf(ps) == FlattenSeq([i \in DOMAIN ps |-> Utf8(ps[i])])
WideOf(ps) == FlattenSeq([i \in DOMAIN ps |-> Units(ps[i])])
CasedText(opcode, ps) ==
  FlattenSeq([i \in DOMAIN ps |-> Utf8(IF ps[i] < 65536 THEN Cased(opcode, <<ps[i]>>)[1] ELSE ps[i])])
SameLength(opcode, ps) == \A i \in DOMAIN ps : Len(CasedText(opcode, <<ps[i]>>)) = Len(Utf8(ps[i]))

\* Both widths say the same text, whatever the buffers cut, and what was there before stays.
WidthsAgree(ps, before) ==
  /\ utf8_to_wide_add(WideOf(before), NarrowOf(ps)) = [dest |-> WideOf(before \o ps), cntadded |-> Len(WideOf(ps))]
  /\ LET r == wide_to_utf8_add(NarrowOf(before), WideOf(ps))
     IN  r.ends /\ r.text = NarrowOf(before \o ps) /\ r.slice = NarrowOf(ps)
  /\ Len(NarrowOf(ps)) <= CaseBuffer => push2stream(WideOf(ps)) = NarrowOf(ps)
\* Comparing without case is an order, in which two texts are equal when their upper cases are,
\* and only texts that are equal have one hash: a map may be keyed by them.
CaselessOrder(ps, qs, rs) ==
  LET l == NarrowOf(ps)  r == NarrowOf(qs)  m == NarrowOf(rs)
      same == Up(WideOf(ps)) = Up(WideOf(qs))
      wide(xs) == icase_DefHash16(WideOf(xs))
      lr == icmp8(l, r)
  IN  /\ (lr = 0) <=> same
      /\ lr = -icmp8(r, l)
      /\ lr <= 0 /\ icmp8(r, m) <= 0 => icmp8(l, m) <= 0
      /\ (icmp16(WideOf(ps), WideOf(qs)) = 0) <=> same
      /\ ~icase_DefHash8(l).threw
      /\ (icase_DefHash8(l).bytes = icase_DefHash8(r).bytes) <=> same
      /\ ~wide(ps).threw /\ wide(ps).bytes = icase_DefHash8(l).bytes
      /\ Len(WideOf(ps)) <= CaseBuffer => ~wide(ps).overrun
\* Changing the case in place changes every character and no length, or says that it did not.
CaseKeepsPlaces(ps, bad) ==
  \A opcode \in 0 .. 1 :
    LET r == f_ul(opcode, NarrowOf(ps) \o bad)
    IN  /\ SameLength(opcode, ps) => ~r.threw /\ r.text = CasedText(opcode, ps) \o bad
        /\ ~r.threw => Len(CasedText(opcode, ps)) = Len(NarrowOf(ps))
\* A text is valid when it comes apart into the forms of characters; bytes behind the text matter
\* only to a text that is cut in the middle of one; whole characters stay in the valid part.
ValidationReadsForms(text, behind) ==
  LET piece(i, n) == Formed(SubSeq(text, i, Len(text)), n)
      from[i \in 1 .. Len(text) + 1] == IF \E n \in 1 .. 4 : i <= Len(text) /\ piece(i, n)
                                        THEN from[i + (CHOOSE n \in 1 .. 4 : piece(i, n))] ELSE i
      stop == from[1]
      cut == stop <= Len(text) /\ CutOff(SubSeq(text, stop, Len(text)))
      v == utf8_Validate(text, behind)
  IN  /\ ~cut => v.valid = (stop > Len(text))
      /\ cut => v.valid = Formed(SubSeq(text, stop, Len(text)) \o behind, 1 + Tails(text[stop]))
      /\ v.part >= stop - 1
      /\ ~cut => v.part <= Len(text)
=============================================================================
