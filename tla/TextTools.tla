------------------------------ MODULE TextTools ------------------------------
(***************************************************************************)
(* The helpers on texts: searching, splitting and trimming (tb_string.cpp, *)
(* t_string.cpp), formatting and the stream with a limited buffer          *)
(* (t_str_utils.cpp, t_format.h).  A text is a sequence of characters.     *)
(***************************************************************************)
EXTENDS Integers, SequencesExt

CONSTANTS
  FormatBuffer,   \* characters the local buffer of vbformat holds
  NumberBuffer,   \* characters the local buffer holds that a number is printed into
  MaxSpaces       \* texts of spaces that getSpaceAlignedString keeps

ASSUME TextToolsAssumption ==
  FormatBuffer \in Nat \ {0} /\ NumberBuffer \in Nat \ {0} /\ MaxSpaces \in Nat /\ MaxSpaces >= 2

Space == {" ", "\n"}
OfDigit == [c \in {"0", "1", "2", "5"} |-> CASE c = "0" -> 0 [] c = "1" -> 1 [] c = "2" -> 2 [] OTHER -> 5]
LesserOf(a, b) == IF a < b THEN a ELSE b

-----------------------------------------------------------------------------
(* Searching.  A place is counted from 1; 0 says that there is none. *)

FirstOf(places) == IF places = {} THEN 0 ELSE CHOOSE p \in places : \A q \in places : p <= q
StandsAt(mem, p, sub) == p + Len(sub) - 1 <= Len(mem) /\ SubSeq(mem, p, p + Len(sub) - 1) = sub
\* find_str on narrow texts looks for the first character in the text, and compares the rest with
\* whatever stands in memory there, but has no slice for what it finds beyond the end; on wide ones
\* it stops where the text is too short.
RangeError == -1
SliceAt(text, p, len) == IF p > 0 /\ p + len - 1 > Len(text) THEN RangeError ELSE p
find_str(text, behind, sub) ==
  SliceAt(text, FirstOf({p \in DOMAIN text : text[p] = sub[1] /\ StandsAt(text \o behind, p, sub)}), Len(sub))
find_strW(text, sub) == FirstOf({p \in 1 .. Len(text) - Len(sub) + 1 : StandsAt(text, p, sub)})

Found(wide, text, sub) == IF wide THEN find_strW(text, sub) ELSE find_str(text, <<>>, sub)
RECURSIVE split_str(_, _, _)
split_str(wide, text, sub) ==
  LET p == Found(wide, text, sub)
  IN  IF p = 0 THEN <<text>>
      ELSE <<SubSeq(text, 1, p - 1)>> \o split_str(wide, SubSeq(text, p + Len(sub), Len(text)), sub)
JoinedBy(parts, sep) == FoldLeft(LAMBDA t, q : t \o sep \o q, Head(parts), Tail(parts))
\* replace_str_t appends what stands before each place and the new text, and the rest at last.
replace_str(wide, text, from, to) == JoinedBy(split_str(wide, text, from), to)

\* The parts between separators that are not empty.
split_strC(text, sep) ==
  LET cut == {i \in 0 .. Len(text) + 1 : i \in {0, Len(text) + 1} \/ text[i] = sep}
      runs == {<<i, j>> \in cut \X cut : j > i + 1 /\ \A k \in cut : k <= i \/ k >= j}
      order == SetToSortSeq(runs, LAMBDA r, s : r[1] < s[1])
  IN  [i \in DOMAIN order |-> SubSeq(text, order[i][1] + 1, order[i][2] - 1)]
split_str2(text, sep) ==
  LET p == FirstOf({i \in DOMAIN text : text[i] = sep})
  IN  IF p = 0 THEN [cnt |-> 0, l |-> text, r |-> <<>>]
      ELSE [cnt |-> 1, l |-> SubSeq(text, 1, p - 1), r |-> SubSeq(text, p + 1, Len(text))]

string_trim(text) ==
  LET kept == {i \in DOMAIN text : text[i] \notin Space}
  IN  IF kept = {} THEN <<>> ELSE SubSeq(text, Min(kept), Max(kept))
replacechars(text, set, repl) == FlattenSeq([i \in DOMAIN text |-> IF text[i] \in set THEN repl ELSE <<text[i]>>])
\* The distance to the end of the text, which is below 0; and -1 when there is none.
findchars(text, set) ==
  LET p == FirstOf({i \in DOMAIN text : text[i] \in set}) IN IF p = 0 THEN -1 ELSE p - 1 - Len(text)

-----------------------------------------------------------------------------
(* format_to: a text with places for arguments, and the arguments. *)

FlagChars == {"-", "+", " ", "#", "0"}
LengthChars == {"h", "l", "j", "z", "t", "L"}
SpecChars == {"d", "u", "x", "s", "S", "f", "c"}
RunEnd(text, i, S) == FirstOf({j \in i .. Len(text) + 1 : j > Len(text) \/ text[j] \notin S})
CharAt(text, i) == IF i <= Len(text) THEN text[i] ELSE ""
NumberOf(digits) == FoldLeft(LAMBDA n, c : 10 * n + OfDigit[c], 0, digits)

\* A number or a star; a point with one; a letter or two for the length.
NumberEnd(f, i) == IF CharAt(f, i) = "*" THEN i + 1 ELSE RunEnd(f, i, DOMAIN OfDigit)
PrecisionEnd(f, i) == IF CharAt(f, i) = "." THEN NumberEnd(f, i + 1) ELSE i
LengthEnd(f, i) ==
  IF CharAt(f, i) \notin LengthChars THEN i
  ELSE IF CharAt(f, i) \in {"h", "l"} /\ CharAt(f, i + 1) = CharAt(f, i) THEN i + 2 ELSE i + 1
SpecBehind(f, flags, width, star, i, j) ==
  [left |-> "-" \in Range(flags), star |-> star, width |-> NumberOf(width), length |-> j > i,
   specifer |-> IF CharAt(f, j) \in SpecChars THEN CharAt(f, j) ELSE "", next |-> LesserOf(j, Len(f)) + 1]
\* format_parse_specifier, from behind the % on: what it says, and where it ends.
SpecAfterWidth(f, flags, i, j) ==
  LET number == SubSeq(f, i, j - 1)
      stars == Range(SubSeq(f, i, PrecisionEnd(f, j) - 1))
  IN  SpecBehind(f, flags, IF number = <<"*">> THEN <<>> ELSE number, "*" \in stars,
                 PrecisionEnd(f, j), LengthEnd(f, PrecisionEnd(f, j)))
SpecAfterFlags(f, flags, i) == SpecAfterWidth(f, flags, i, NumberEnd(f, i))
SpecFrom(f, i, j) == SpecAfterFlags(f, SubSeq(f, i, j - 1), j)
format_parse_specifier(f, i) ==
  IF CharAt(f, i) = "%" THEN [specifer |-> "", next |-> i + 1] ELSE SpecFrom(f, i, RunEnd(f, i, FlagChars))

\* format_parse: the text up to the next argument's place.  What is no place is written from its
\* last character on; at the end of the text fmtstr stays as it is.
RECURSIVE ParsedFrom(_, _), ParsedAt(_, _, _), ParsedBehind(_, _, _)
ParsedBehind(ctx, literal, fspec) ==
  LET parsed == [ctx EXCEPT !.fspec = fspec] IN IF fspec.specifer # "" THEN parsed ELSE ParsedFrom(parsed, literal)
ParsedAt(ctx, literal, p) ==
  LET f == ctx.fmtstr
      fspec == format_parse_specifier(f, p + 1)
  IN  IF p = 0 THEN [ctx EXCEPT !.out = @ \o literal \o f]
      ELSE ParsedBehind([ctx EXCEPT !.fmtstr  = SubSeq(f, fspec.next, Len(f)),
                                    !.currfmt = SubSeq(f, p, fspec.next - 1),
                                    !.out     = @ \o literal \o SubSeq(f, 1, p - 1)
                                                \o (IF CharAt(f, p + 1) = "%" THEN <<"%">> ELSE <<>>)],
                        <<f[fspec.next - 1]>>, fspec)
ParsedFrom(ctx, literal) == ParsedAt(ctx, literal, FirstOf({i \in DOMAIN ctx.fmtstr : ctx.fmtstr[i] = "%"}))
format_parse(ctx) == ParsedFrom(ctx, <<>>)

Repeated(c, n) == [i \in 1 .. n |-> c]
\* What snprintf makes of a number: told apart by the text it is given for it.
Printed(fs, d) == <<"{">> \o fs \o <<"}">> \o d
WriteOut(ctx, text) == [ctx EXCEPT !.out = @ \o text]
Ended(ctx, how) == [ctx EXCEPT !.end = how]
format_out_data_string(ctx, d) ==
  LET blanks == Repeated(" ", ctx.fspec.width - Len(d)) IN WriteOut(ctx, IF ctx.fspec.left THEN d \o blanks ELSE blanks \o d)
\* A number is printed into a buffer of its own and copied from there, as long as it is.
format_out_data_number(ctx, fs, d) ==
  IF Max({ctx.fspec.width, Len(d)}) >= NumberBuffer THEN Ended(ctx, "undefined") ELSE WriteOut(ctx, Printed(fs, d))
\* In the place of a string a number is asserted away; a build without assertions writes it, and
\* then has snprintf take it for the address of a text.
format_out_data(ctx, arg) ==
  LET fs == ctx.currfmt
  IN  CASE arg.kind = "string" -> format_out_data_string(ctx, arg.d)
        [] arg.kind # "string" /\ ctx.fspec.specifer \in {"s", "S"} ->
             IF ctx.asserts THEN Ended(ctx, "assertion") ELSE Ended(WriteOut(ctx, arg.d), "undefined")
        [] arg.kind = "int64" /\ ctx.fspec.specifer \notin {"s", "S"} /\ ~ctx.fspec.length ->
             format_out_data_number(ctx, SubSeq(fs, 1, Len(fs) - 1) \o <<"l", "l", fs[Len(fs)]>>, arg.d)
        [] OTHER -> format_out_data_number(ctx, fs, arg.d)

\* formatRec: the arguments one by one, and the rest of the text.
RECURSIVE formatRec(_, _, _), formatAt(_, _)
formatAt(at, args) ==
  IF at.fspec.specifer = "" THEN at
  ELSE IF at.fspec.star THEN formatRec(at, TRUE, Tail(args))
  ELSE formatRec(format_out_data(at, Head(args)), FALSE, Tail(args))
formatRec(ctx, starred, args) ==
  IF ctx.end # "done" THEN ctx
  ELSE IF args = <<>> THEN WriteOut(ctx, ctx.fmtstr)
  ELSE formatAt(IF starred THEN ctx ELSE format_parse(ctx), args)
\* asserts: whether the build checks its assertions.
format(fmt, args, asserts) ==
  formatRec([fmtstr |-> fmt, currfmt |-> <<>>, fspec |-> [specifer |-> ""], out |-> <<>>, end |-> "done", asserts |-> asserts],
            FALSE, args)

-----------------------------------------------------------------------------
(* limit_rc_stringbuf: buff, and the texts it has given to flush_dest. *)

flush(st) == IF st.buff = <<>> THEN st ELSE [buff |-> <<>>, flushed |-> Append(st.flushed, st.buff)]
RECURSIVE write_proc(_, _, _)
write_proc(st, s, capa) ==
  LET nn == LesserOf(capa - Len(st.buff), Len(s))
      filled == [st EXCEPT !.buff = @ \o SubSeq(s, 1, nn)]
  IN  IF capa < 2 THEN [st EXCEPT !.flushed = Append(@, s)]
      ELSE IF s = <<>> THEN st
      ELSE write_proc(IF Len(filled.buff) = capa THEN flush(filled) ELSE filled, SubSeq(s, nn + 1, Len(s)), capa)

\* vbformat: f is what the format and its variables stand for.  vsnprintf fills the buffer but for
\* its end; a text that is too long for it is printed again, from variables that were used up.
vbformat(res, f, again) ==
  LET r == Len(f)
      first == SubSeq(f, 1, LesserOf(r, FormatBuffer - 1)) \o <<"nul">>
  IN  res \o IF r <= FormatBuffer THEN SubSeq(first, 1, r) ELSE SubSeq(again, 1, r)

\* The last of the texts is added until what is left has a text of its own.
getSpaceAlignedString(level) ==
  LET most == MaxSpaces - 1
      times == IF level < MaxSpaces THEN 0 ELSE 1 + (level - MaxSpaces) \div most
  IN  FoldLeft(LAMBDA t, i : t \o Repeated(" ", most), <<>>, Repeated(0, times)) \o Repeated(" ", level - times * most)

-----------------------------------------------------------------------------
(* What is promised. *)

\* A text comes apart at each place the other stands, from the left, and only there; putting it
\* together gives it back, and replacing puts something else between; what lies behind a slice is
\* never found in it, but the search throws when the first place, all the same, begins in the slice
\* and ends behind it.
SplitComesTogether(text, behind, sub) ==
  \A wide \in BOOLEAN :
    LET parts == split_str(wide, text, sub)
    IN  /\ JoinedBy(parts, sub) = text
        /\ \A i \in DOMAIN parts :
             find_strW(parts[i] \o (IF i < Len(parts) THEN sub ELSE <<>>), sub) = (IF i < Len(parts) THEN Len(parts[i]) + 1 ELSE 0)
        /\ replace_str(wide, text, sub, sub) = text
        /\ find_str(text, behind, sub) =
             IF find_strW(text, sub) # 0 THEN find_strW(text, sub)
             ELSE IF find_strW(text \o behind, sub) \in DOMAIN text THEN RangeError ELSE 0
\* Splitting at a character keeps every other character in its order, and in two the whole text;
\* trimming takes blanks alone, and all of them at both ends.
PartsKeepText(text, sep) ==
  LET two == split_str2(text, sep)
      t == string_trim(text)
      others == SelectSeq(text, LAMBDA c : c # sep)
  IN  /\ FlattenSeq(split_strC(text, sep)) = others /\ replacechars(text, {sep}, <<>>) = others
      /\ \A i \in DOMAIN split_strC(text, sep) : split_strC(text, sep)[i] # <<>>
      /\ two.l \o (IF two.cnt = 1 THEN <<sep>> ELSE <<>>) \o two.r = text /\ sep \notin Range(two.l)
      /\ t # <<>> => t[1] \notin Space /\ t[Len(t)] \notin Space
      /\ \E i \in 0 .. Len(text) : /\ SubSeq(text, i + 1, i + Len(t)) = t
                                   /\ \A k \in DOMAIN text : k \in i + 1 .. i + Len(t) \/ text[k] \in Space
      /\ sep \in Range(text) => findchars(text, {sep}) + Len(text) + 1 = Len(two.l) + 1
\* Each place in a format shows its argument as it says, in the width it says, and the text between
\* stays; places without an argument stay too.  The text is written up to the first number that
\* stands in the place of a string, where an assertion fails, or that its buffer does not hold:
\* no build gets past either.
FormatMeansPlaces(pieces, last, args) ==
  LET place(p) == <<"%">> \o p.flags \o p.width \o p.len \o <<p.type>>
      raw(p) == p.lit \o place(p)
      blanks(p, d) == Repeated(" ", NumberOf(p.width) - Len(d))
      shown(p, a) ==
        IF a.kind # "string"
        THEN Printed(<<"%">> \o p.flags \o p.width \o (IF a.kind = "int64" /\ p.len = <<>> THEN <<"l", "l">> ELSE p.len) \o <<p.type>>, a.d)
        ELSE IF "-" \in Range(p.flags) THEN a.d \o blanks(p, a.d) ELSE blanks(p, a.d) \o a.d
      want(i) == IF i <= Len(args) THEN pieces[i].lit \o shown(pieces[i], args[i]) ELSE raw(pieces[i])
      number(i) == i <= Len(args) /\ args[i].kind # "string"
      misplaced(i) == number(i) /\ pieces[i].type \in {"s", "S"}
      long(i) == number(i) /\ (NumberOf(pieces[i].width) >= NumberBuffer \/ Len(args[i].d) >= NumberBuffer)
      bad == {i \in DOMAIN pieces : misplaced(i) \/ long(i)}
      fmt == FlattenSeq([i \in DOMAIN pieces |-> raw(pieces[i])]) \o last
      upto(n) == FlattenSeq([i \in 1 .. n - 1 |-> want(i)]) \o pieces[n].lit
  IN  \A asserts \in BOOLEAN :
        LET r == format(fmt, args, asserts)
        IN  IF bad = {} THEN r.end = "done" /\ r.out = FlattenSeq([i \in DOMAIN pieces |-> want(i)]) \o last
            ELSE /\ r.end = (IF misplaced(Min(bad)) /\ asserts THEN "assertion" ELSE "undefined")
                 /\ r.out = upto(Min(bad)) \o (IF misplaced(Min(bad)) /\ ~asserts THEN args[Min(bad)].d ELSE <<>>)
\* A limited stream hands on what was written, all of it, once and in order, in pieces its buffer
\* holds; formatting a text that fits its buffer adds it, and blanks are as many as were asked for.
StreamHandsOn(writes, capa) ==
  LET st == FoldLeft(LAMBDA s, w : write_proc(s, w, capa), [buff |-> <<>>, flushed |-> <<>>], writes)
  IN  /\ FlattenSeq(flush(st).flushed) = FlattenSeq(writes)
      /\ capa > 1 => Len(st.buff) < capa /\ \A i \in DOMAIN st.flushed : Len(st.flushed[i]) = capa
      /\ \A w \in Range(writes) : Len(w) < FormatBuffer => vbformat(<<"a">>, w, <<>>) = <<"a">> \o w
      /\ \A level \in 0 .. 3 * MaxSpaces : getSpaceAlignedString(level) = Repeated(" ", level)
=============================================================================
