---------------------------- MODULE ArithCoding ----------------------------
(***************************************************************************)
(* The arithmetic coder of gdata/pack.  encode_string narrows an interval  *)
(* of codes character by character and writes the bits that are decided;   *)
(* decode_string follows it from the bits.  A step is one symbol, or one   *)
(* turn of the loop that doubles the interval.  The three coders of the    *)
(* code (one alphabet, several alphabets, several alphabets with n-grams)  *)
(* differ in how a character becomes codes, and in the table in force.     *)
(* Codes of symbols are numbers from 0; a table w has Len(w)-1 symbols and *)
(* gives the symbol cc the part from w[cc + 1] to w[cc + 2].               *)
(* Before that the coders prepare their alphabets: rates become tables of  *)
(* summed rates (alignRate), characters get codes.  Rates are whole        *)
(* numbers; a quotient of doubles is the exact one.  LearnedRates counts a *)
(* text as t_ac_text_learn::fordata does.                                  *)
(***************************************************************************)
EXTENDS Integers, Sequences, SequencesExt, FiniteSetsExt

CONSTANTS CODE_LEN,      \* bits of the interval's bounds (t_scale_vars)
          First_qtr,     \* a quarter of the range of codes
          Coders,        \* coders whose alphabets are prepared
          Texts,         \* Texts[n] holds what the n-th call of a coder may encode
          Max_frequency, \* the whole of a table: a quarter of the codes, less one
          Min_frequency, \* the least part of a symbol
          EndCharShare   \* rate_endchar is one part in so many

ASSUME ScaleAssumption == /\ CODE_LEN \in Nat /\ First_qtr \in Nat \ {0}
                          /\ 4 * First_qtr = 2^CODE_LEN
ASSUME RateAssumption == /\ Max_frequency \in Nat \ {0} /\ Min_frequency \in Nat \ {0}
                         /\ EndCharShare \in Nat \ {0}

AlignRate(num, den, least) ==
  LET iv == (num * Max_frequency) \div den IN IF iv < least THEN least ELSE iv

\* A table: 0, then the sums of the parts.
Table(parts) ==
  LET t[i \in 0 .. Len(parts)] == IF i = 0 THEN 0 ELSE t[i - 1] + parts[i]
  IN [i \in 1 .. Len(parts) + 1 |-> t[i - 1]]

Total(s) == FoldSeq(LAMBDA x, y : x + y, 0, s)
Freqs(rates) == [i \in 1 .. Len(rates) |-> rates[i].freq]
Least(s) == Min({s[i] : i \in 1 .. Len(s)})
Chars(rates) == {rates[i].ch : i \in 1 .. Len(rates)}
Parts(f, sum, least) == [i \in 1 .. Len(f) |-> AlignRate(f[i], sum, least)]

-----------------------------------------------------------------------------
(* One alphabet; the end of a text is the code 0. *)

PreparedC(rates) ==
  LET f == Freqs(rates)  sum == Total(f)
      code == [ch \in Chars(rates) |-> Max({i \in 1 .. Len(rates) : rates[i].ch = ch})]
  IN [kind |-> "c", start |-> 1, term |-> 1, bad |-> FALSE, home |-> [ch \in Chars(rates) |-> 1],
      alphas |-> <<[code |-> code, char |-> [i \in 1 .. Len(rates) |-> rates[i].ch],
                    to |-> <<>>, codeOf |-> <<>>, single |-> FALSE, term |-> 0,
                    lines |-> [l \in {0} |-> Table(<<AlignRate(Least(f), 10 * sum, Min_frequency)>>
                                                   \o Parts(f, sum, Min_frequency))]]>>]

-----------------------------------------------------------------------------
(* Several alphabets.  An input alphabet has rates, weight, single, transit.  The codes begin  *)
(* with the changes to other alphabets, then the end, in the alphabet that weighs most. *)

Heaviest(as) == Min({i \in 1 .. Len(as) : \A j \in 1 .. Len(as) : as[j].weight <= as[i].weight})

\* A character that is there twice, or 0 beside the end, is an error and gets no code.
Distinct(rates, hasterm) ==
  SelectSeq([i \in 1 .. Len(rates) |->
               IF (hasterm /\ rates[i].ch = "nul") \/ \E j \in 1 .. i - 1 : rates[j].ch = rates[i].ch
               THEN [ch |-> "", freq |-> 0] ELSE rates[i]],
            LAMBDA r : r.ch # "")

PreparedAlphaM(as, i, wsum) ==
  LET a == as[i]
      hasterm == i = Heaviest(as)
      others == IF a.single THEN <<>> ELSE SelectSeq([j \in 1 .. Len(as) |-> j], LAMBDA j : j # i)
      nsw == Len(others)
      rates == Distinct(a.rates, hasterm)
      first == IF hasterm THEN nsw + 1 ELSE nsw
      sum == Total(Freqs(a.rates)) + (IF a.single THEN 0 ELSE Total(a.transit))
      index == [ch \in Chars(rates) |-> first + (CHOOSE k \in 1 .. Len(rates) : rates[k].ch = ch) - 1]
  IN [code |-> [ch \in DOMAIN index \cup (IF hasterm THEN {"nul"} ELSE {}) |->
                  IF ch \in DOMAIN index THEN index[ch] ELSE nsw],
      char |-> [c \in first .. first + Len(rates) - 1 |-> rates[c - first + 1].ch],
      to |-> [c \in 0 .. nsw - 1 |-> others[c + 1]],
      codeOf |-> [j \in ToSet(others) |-> (CHOOSE k \in 1 .. nsw : others[k] = j) - 1],
      single |-> a.single, term |-> IF hasterm THEN nsw ELSE -1,
      lines |-> [l \in {0} |-> Table(
         [k \in 1 .. nsw |-> AlignRate(as[others[k]].weight, Len(a.rates) * wsum, Min_frequency)]
         \o (IF hasterm THEN <<AlignRate(Least(Freqs(a.rates)), 10 * sum, Min_frequency)>> ELSE <<>>)
         \o Parts(Freqs(rates), sum, Min_frequency))]]

\* A character of several alphabets belongs to the heaviest one, else to the last.
HomeM(as, ch) ==
  IF ch \in Chars(as[Heaviest(as)].rates) THEN Heaviest(as)
  ELSE Max({i \in 1 .. Len(as) : ch \in Chars(as[i].rates)})

PreparedM(as) ==
  LET wsum == Total([i \in 1 .. Len(as) |-> as[i].weight])
      pa == [i \in 1 .. Len(as) |-> PreparedAlphaM(as, i, wsum)]
  IN [kind |-> "m", start |-> Heaviest(as), term |-> Heaviest(as), alphas |-> pa,
      bad |-> \E i \in 1 .. Len(as) : Distinct(as[i].rates, i = Heaviest(as)) # as[i].rates,
      home |-> [ch \in UNION {Chars(as[i].rates) : i \in 1 .. Len(as)} |-> HomeM(as, ch)]]

-----------------------------------------------------------------------------
(* n-grams.  An input alphabet has chars, ngramm, single and rates, a function from numbers of *)
(* lines to the rates of the codes: the end, the changes of alphabet, the characters.          *)

Power(b, n) == FoldLeft(LAMBDA x, i : x * b, 1, [i \in 1 .. n |-> i])
NgLines(a) == Total([i \in 1 .. a.ngramm |-> Power(Len(a.chars), i - 1)])

\* init_set_fin_weigth and init_finalize: the end has its share of the line, an alphabet never
\* changes to itself, a Single one to none; a line of zeros is one of equals.
NgTable(a, id, nalpha, line) ==
  LET size == 1 + nalpha + Len(a.chars)
      weighed == [i \in 1 .. size |-> IF i = 1 THEN Total(line)
                                      ELSE IF i = 1 + id \/ (a.single /\ i <= 1 + nalpha) THEN 0
                                      ELSE line[i] * EndCharShare]
      f == IF Total(weighed) = 0 THEN [i \in 1 .. size |-> 1] ELSE weighed
  IN Table(Parts(f, Total(f), 1))

\* Lines beyond the first are found only for n-grams of at most two (fullngramm).
PreparedAlphaNg(a, id, nalpha) ==
  LET found == IF a.ngramm <= 2 THEN 0 .. NgLines(a) - 1 ELSE {0}
      empty == [i \in 1 .. 1 + nalpha + Len(a.chars) |-> 0]
  IN [code |-> [ch \in ToSet(a.chars) |-> nalpha + Max({i \in 1 .. Len(a.chars) : a.chars[i] = ch})],
      char |-> [c \in nalpha + 1 .. nalpha + Len(a.chars) |-> a.chars[c - nalpha]],
      to |-> [c \in 1 .. nalpha |-> c], codeOf |-> [j \in 1 .. nalpha |-> j],
      single |-> a.single, term |-> 0,
      base |-> Len(a.chars), maxdeg |-> Power(Len(a.chars), a.ngramm - 1), first |-> nalpha + 1,
      lines |-> [l \in found |->
        NgTable(a, id, nalpha, IF l \in DOMAIN a.rates THEN a.rates[l] ELSE empty)]]

\* A character of several alphabets belongs to the first; the first holds the end.
PreparedNg(as) ==
  [kind |-> "ng", start |-> 1, term |-> 1, bad |-> FALSE,
   alphas |-> [i \in 1 .. Len(as) |-> PreparedAlphaNg(as[i], i, Len(as))],
   home |-> [ch \in UNION {ToSet(as[i].chars) : i \in 1 .. Len(as)} |->
               Min({i \in 1 .. Len(as) : ch \in ToSet(as[i].chars)})]]

-----------------------------------------------------------------------------
(* Learning.  A hit is an alphabet, a line and a code that fordata counts. *)

IndexOf(s, x) == Max({i \in 1 .. Len(s) : s[i] = x})

\* INC_MAPSCODE: the line of each length the run of this alphabet is long enough for.
Hits(as, st, code) ==
  LET n == Len(as[st.ab].chars)
      long(k) == as[st.ab].ngramm > k /\ st.cnt > k
  IN <<<<st.ab, 0, code>>>>
     \o (IF long(1) THEN <<<<st.ab, 1 + (st.stk % n), code>>>> ELSE <<>>)
     \o (IF long(2) THEN <<<<st.ab, 1 + n + (st.stk % (n * n)), code>>>> ELSE <<>>)

\* One character: blanks behind blanks and stops are skipped, unknown characters too; another
\* alphabet starts a new run, and its code is counted where the last one ends.
LearnChar(as, special, st, ch, last) ==
  LET own == {i \in 1 .. Len(as) : ch \in ToSet(as[i].chars)}
      stays == st.ab # 0 /\ ch \in ToSet(as[st.ab].chars)
      moved == IF stays THEN st
               ELSE [ab |-> Min(own), stk |-> 0, cnt |-> 0,
                     hits |-> IF st.ab = 0 THEN st.hits ELSE st.hits \o Hits(as, st, Min(own))]
      n == Len(as[moved.ab].chars)
      i == IndexOf(as[moved.ab].chars, ch)
      more == [moved EXCEPT !.cnt = @ + 1]
  IN IF (ch = " " /\ last \in special) \/ own = {} THEN st
     ELSE [more EXCEPT !.hits = @ \o Hits(as, more, Len(as) + i),
                       !.stk = (@ * n + i - 1) % Power(n, as[moved.ab].ngramm)]

LearnedHits(as, special, data) ==
  FoldLeft(LAMBDA st, i : LearnChar(as, special, st, data[i], IF i = 1 THEN "" ELSE data[i - 1]),
           [ab |-> 0, stk |-> 0, cnt |-> 0, hits |-> <<>>], [i \in 1 .. Len(data) |-> i]).hits

\* init_ac: the counts are the rates.
LearnedRates(as, special, data) ==
  LET hits == LearnedHits(as, special, data)
      count(i, l, c) == Cardinality({h \in 1 .. Len(hits) : hits[h] = <<i, l, c>>})
  IN [i \in 1 .. Len(as) |->
        [chars |-> as[i].chars, ngramm |-> as[i].ngramm, single |-> as[i].single,
         rates |-> [l \in 0 .. NgLines(as[i]) - 1 |->
                      [c \in 1 .. 1 + Len(as) + Len(as[i].chars) |->
                         IF c = 1 THEN 0 ELSE count(i, l, c - 1)]]]]

-----------------------------------------------------------------------------
(* Coding and decoding. *)

Half == 2 * First_qtr
Third_qtr == 3 * First_qtr
Top_value == 4 * First_qtr - 1

VARIABLES
  coder,  \* the coder object: kind, alphas, start, term, home, bad
  text,   \* the text of this call
  pos,    \* the next character of it
  ctx,    \* curr, prev, nxt: alphabets; seq: the n-gram; w, nw: tables; special
  wv,     \* t_work_values: low, high, follow, value, bits, popped
  sym,    \* the symbol decode_char found
  out,    \* the text decoded so far
  err,    \* an error was pushed; the coder keeps it
  textCalls,  \* textCalls begun
  coderPc

arithVars == <<coder, text, pos, ctx, wv, sym, out, err, textCalls, coderPc>>

Alpha(id) == coder.alphas[id]

-----------------------------------------------------------------------------
(* An n-gram is deg, offs, cur: the number of n-grams of its length, of     *)
(* shorter ones, and its own number among those of its length.              *)

StartSeq == [deg |-> 1, offs |-> 0, cur |-> 0]

NgNext(a, s, cc) ==
  LET grow == s.deg < a.maxdeg
  IN [deg  |-> IF grow THEN s.deg * a.base ELSE s.deg,
      offs |-> IF grow THEN s.offs + s.deg ELSE s.offs,
      cur  |-> (s.cur * a.base + (cc - a.first)) % a.maxdeg]

NgDown(a, s) ==
  LET d == s.deg \div a.base IN [deg |-> d, offs |-> s.offs - d, cur |-> s.cur % d]

\* The longest end of the n-gram that has a line of its own.
FindLine(a, seq) ==
  LET find[s \in [deg : Nat, offs : Nat, cur : Nat]] ==
        IF s.cur + s.offs \in DOMAIN a.lines THEN s ELSE find[NgDown(a, s)]
  IN find[seq]

LineOf(a, s) == a.lines[s.cur + s.offs]

-----------------------------------------------------------------------------
(* Alphabets in force. *)

SetAlphabet(c, id, ispush) ==
  LET a == Alpha(id)
  IN [c EXCEPT !.prev = IF ispush THEN c.curr ELSE @, !.curr = id,
               !.w = LineOf(a, StartSeq), !.nw = LineOf(a, StartSeq), !.seq = StartSeq]

FreshCtx == LET w == LineOf(Alpha(coder.start), StartSeq)
            IN [curr |-> coder.start, prev |-> coder.start, nxt |-> coder.start,
                seq |-> StartSeq, w |-> w, nw |-> w, special |-> FALSE]

\* What encode_tchar begins with: the alphabet that was put off, or the next line.
Pending(c) ==
  IF c.nxt # c.curr THEN SetAlphabet(c, c.nxt, FALSE) ELSE [c EXCEPT !.w = c.nw]

\* A result: er < 0 an error, 0 the character is done, 1 call again.
Failed(c) == [er |-> -1, cc |-> 0, ctx |-> c]

\* A character the alphabet lacks is put off until its own one is in force.
SwitchFor(c, tc) ==
  IF tc \notin DOMAIN coder.home THEN Failed(c)
  ELSE [er |-> 1, cc |-> Alpha(c.curr).codeOf[coder.home[tc]],
        ctx |-> [c EXCEPT !.prev = c.curr, !.nxt = coder.home[tc]]]

EncodeC(c, tc) ==
  IF tc \in DOMAIN Alpha(c.curr).code THEN [er |-> 0, cc |-> Alpha(c.curr).code[tc], ctx |-> c]
  ELSE Failed(c)

EncodeM(c0, tc) ==
  LET c == Pending(c0)  a == Alpha(c.curr)
  IN IF tc \notin DOMAIN a.code THEN SwitchFor(c, tc)
     ELSE [er |-> 0, cc |-> a.code[tc],
           ctx |-> IF a.single THEN [c EXCEPT !.nxt = c.prev] ELSE c]

EncodeNg(c0, tc) ==
  LET c == Pending(c0)  a == Alpha(c.curr)
  IN IF tc \notin DOMAIN a.code THEN SwitchFor(c, tc)
     ELSE [er |-> 0, cc |-> a.code[tc],
           ctx |-> IF a.single THEN [c EXCEPT !.nxt = c.prev]
                   ELSE LET s == FindLine(a, NgNext(a, c.seq, a.code[tc]))
                        IN [c EXCEPT !.seq = s, !.nw = LineOf(a, s)]]

EncodeOf(c, tc) == CASE coder.kind = "c"  -> EncodeC(c, tc)
                     [] coder.kind = "m"  -> EncodeM(c, tc)
                     [] coder.kind = "ng" -> EncodeNg(c, tc)

\* The end of a text is a symbol of one alphabet only.
EncodeEndOf(c0) ==
  LET c == Pending(c0)
  IN IF Alpha(c.curr).term >= 0 THEN [er |-> 0, cc |-> Alpha(c.curr).term, ctx |-> c]
     ELSE [er |-> 1, cc |-> Alpha(c.curr).codeOf[coder.term], ctx |-> [c EXCEPT !.nxt = coder.term]]

\* A decoded code is a change of alphabet ...
IsSwitch(cc) == cc \in DOMAIN Alpha(ctx.curr).to

\* ... or a character, after which a Single alphabet gives way to the last one.
AfterCharStays(cc) == [ctx EXCEPT !.special = FALSE]
AfterChar(cc) ==
  LET a == Alpha(ctx.curr)  c == [ctx EXCEPT !.special = FALSE]
  IN IF a.single THEN SetAlphabet(c, c.prev, FALSE)
     ELSE IF coder.kind # "ng" THEN c
     ELSE LET s == FindLine(a, NgNext(a, c.seq, cc))
          IN [c EXCEPT !.seq = s, !.w = LineOf(a, s)]

-----------------------------------------------------------------------------
(* The interval. *)

MulDiv(m1, m2, d) == (m1 * m2) \div d

Narrowed(v, w, cc) ==
  LET range == v.high - v.low + 1
      summ == w[Len(w)]
  IN [v EXCEPT !.high = v.low + MulDiv(range, w[cc + 2], summ) - 1,
               !.low  = v.low + MulDiv(range, w[cc + 1], summ)]

InLower(v)  == v.high < Half
InUpper(v)  == v.low >= Half
InMiddle(v) == v.low >= First_qtr /\ v.high < Third_qtr

\* What both loops take off the bounds before they double them.
Common(v) == IF InLower(v) THEN 0 ELSE IF InUpper(v) THEN Half ELSE First_qtr

Doubled(v) == [v EXCEPT !.low = 2 * (v.low - Common(v)), !.high = 2 * (v.high - Common(v)) + 1]

\* bit_plus_follow: the bit, and its opposites that were put off.
Emit(v, bit) == [v EXCEPT !.bits = @ \o <<bit>> \o [i \in 1 .. v.follow |-> 1 - bit], !.follow = 0]

\* t_bitstream::pop gives zeros behind the end.
BitAt(bits, i) == IF i <= Len(bits) THEN bits[i] ELSE 0

FreshWork(bits) == [low |-> 0, high |-> Top_value, follow |-> 0, value |-> 0, bits |-> bits, popped |-> 0]

\* finish_push: whole bytes.
Padded(bits) == bits \o [i \in 1 .. (8 - (Len(bits) % 8)) % 8 |-> 0]

FirstBits(bits) ==
  LET v[n \in 0 .. CODE_LEN] == IF n = 0 THEN 0 ELSE 2 * v[n - 1] + BitAt(bits, n) IN v[CODE_LEN]

-----------------------------------------------------------------------------
(* Encoding. *)

BeginText(t) ==
  /\ text' = t /\ pos' = 1 /\ out' = <<>> /\ sym' = 0
  /\ ctx' = FreshCtx /\ wv' = FreshWork(<<>>)
  /\ err' = (err \/ coder.bad)
  /\ textCalls' = textCalls + 1 /\ coderPc' = "text"
  /\ UNCHANGED coder

\* encode_char of the code that encode_tchar or encode_endchar gave.
EncodeSymbol(r, last) ==
  LET v == Narrowed(wv, r.ctx.w, r.cc)
  IN /\ ctx' = r.ctx /\ wv' = v
     /\ coderPc' = IF v.high < v.low THEN "broken" ELSE IF last THEN "lastshift" ELSE "shift"
     /\ UNCHANGED <<coder, text, sym, out, err, textCalls>>

EncodeChar ==
  /\ coderPc = "text" /\ ~err /\ pos <= Len(text)
  /\ LET r == EncodeOf(ctx, text[pos])
     IN IF r.er < 0
        THEN /\ err' = TRUE /\ ctx' = r.ctx
             /\ UNCHANGED <<coder, text, pos, wv, sym, out, textCalls, coderPc>>
        ELSE /\ EncodeSymbol(r, FALSE)
             /\ pos' = IF r.er = 0 THEN pos + 1 ELSE pos

EncodeEndChar ==
  /\ coderPc = "text" /\ ~err /\ pos > Len(text)
  /\ LET r == EncodeEndOf(ctx) IN EncodeSymbol(r, r.er = 0)
  /\ UNCHANGED pos

ShiftOut ==
  /\ coderPc \in {"shift", "lastshift"}
  /\ \/ /\ InLower(wv)
        /\ wv' = Doubled(Emit(wv, 0))
     \/ /\ ~InLower(wv) /\ InUpper(wv)
        /\ wv' = Doubled(Emit(wv, 1))
     \/ /\ ~InLower(wv) /\ ~InUpper(wv) /\ InMiddle(wv)
        /\ wv' = [Doubled(wv) EXCEPT !.follow = @ + 1]
  /\ UNCHANGED <<coder, text, pos, ctx, sym, out, err, textCalls, coderPc>>

Settled(v) == ~InLower(v) /\ ~InUpper(v) /\ ~InMiddle(v)

ShiftedOut ==
  /\ coderPc \in {"shift", "lastshift"} /\ Settled(wv)
  /\ coderPc' = IF coderPc = "shift" THEN "text" ELSE "coded"
  /\ UNCHANGED <<coder, text, pos, ctx, wv, sym, out, err, textCalls>>

\* encode_end, also after an error; two bits name a quarter inside the interval.
EncodeEnd ==
  /\ coderPc = "coded" \/ (coderPc = "text" /\ err)
  /\ LET v == Emit([wv EXCEPT !.follow = @ + 1], IF wv.low < First_qtr THEN 0 ELSE 1)
     IN wv' = [v EXCEPT !.bits = Padded(v.bits)]
  /\ coderPc' = "encoded"
  /\ UNCHANGED <<coder, text, pos, ctx, sym, out, err, textCalls>>

-----------------------------------------------------------------------------
(* Decoding. *)

DecodeStart ==
  /\ coderPc = "encoded"
  /\ wv' = [FreshWork(wv.bits) EXCEPT !.value = FirstBits(wv.bits), !.popped = CODE_LEN]
  /\ ctx' = FreshCtx
  /\ coderPc' = IF err THEN "done" ELSE "symbol"
  /\ UNCHANGED <<coder, text, pos, sym, out, err, textCalls>>

\* decode_char searches the symbol whose part holds the value.  Subtracting a low above the
\* value, or a table that ends before the value, is beyond what the code can survive.
FoundSymbol(v, w) ==
  LET cum == ((v.value - v.low + 1) * w[Len(w)] - 1) \div (v.high - v.low + 1)
  IN {s \in 0 .. Len(w) - 2 : w[s + 2] > cum /\ \A t \in 0 .. s - 1 : w[t + 2] <= cum}

DecodeSymbol ==
  /\ coderPc = "symbol"
  /\ IF wv.value < wv.low \/ FoundSymbol(wv, ctx.w) = {}
     THEN coderPc' = "broken" /\ UNCHANGED <<sym, wv>>
     ELSE \E s \in FoundSymbol(wv, ctx.w) :
            sym' = s /\ wv' = Narrowed(wv, ctx.w, s) /\ coderPc' = "shiftin"
  /\ UNCHANGED <<coder, text, pos, ctx, out, err, textCalls>>

ShiftIn ==
  /\ coderPc = "shiftin" /\ ~Settled(wv)
  /\ wv' = [Doubled(wv) EXCEPT
              !.value = (2 * (wv.value - Common(wv)) + BitAt(wv.bits, wv.popped + 1)) % (4 * First_qtr),
              !.popped = @ + 1]
  /\ UNCHANGED <<coder, text, pos, ctx, sym, out, err, textCalls, coderPc>>

IsEof(cc) == cc = Alpha(ctx.curr).term /\ cc >= 0

\* The rest of a turn of decode_algo, with decode_tchar and the look at the end of the bits.
TakeSymbol ==
  /\ coderPc = "shiftin" /\ Settled(wv)
  /\ IF IsEof(sym) THEN coderPc' = "done" /\ UNCHANGED <<ctx, out, err>>
     ELSE /\ IF IsSwitch(sym)
             THEN /\ ctx' = [SetAlphabet(ctx, Alpha(ctx.curr).to[sym], TRUE) EXCEPT !.special = TRUE]
                  /\ out' = out
             ELSE /\ ctx' = AfterChar(sym)
                  /\ out' = Append(out, Alpha(ctx.curr).char[sym])
          /\ err' = ((IsSwitch(sym) /\ ctx.special) \/ wv.popped - CODE_LEN >= Len(wv.bits))
          /\ coderPc' = IF err' THEN "done" ELSE "symbol"
  /\ UNCHANGED <<coder, text, pos, wv, sym, textCalls>>

-----------------------------------------------------------------------------
ArithInit ==
  /\ coder \in Coders
  /\ text = <<>> /\ pos = 1 /\ out = <<>> /\ sym = 0
  /\ ctx = FreshCtx /\ wv = FreshWork(<<>>)
  /\ err = FALSE /\ textCalls = 0 /\ coderPc = "done"

ArithNext ==
  \/ coderPc = "done" /\ textCalls < Len(Texts) /\ \E t \in Texts[textCalls + 1] : BeginText(t)
  \/ EncodeChar \/ EncodeEndChar \/ ShiftOut \/ ShiftedOut \/ EncodeEnd
  \/ DecodeStart \/ DecodeSymbol \/ ShiftIn \/ TakeSymbol

ArithSpec == ArithInit /\ [][ArithNext]_arithVars

-----------------------------------------------------------------------------
(* Properties. *)

KnownText(t) == \A i \in 1 .. Len(t) : t[i] \in DOMAIN coder.home

\* The text before the first character that has the code of the end (0, with several alphabets).
Readable(t) ==
  LET a == Alpha(coder.start)
      cut == {i \in 1 .. Len(t) : t[i] \in DOMAIN a.code /\ a.code[t[i]] = a.term}
  IN IF cut = {} THEN t ELSE SubSeq(t, 1, (CHOOSE i \in cut : \A j \in cut : i <= j) - 1)

LeastStep(w) == CHOOSE f \in {w[i + 1] - w[i] : i \in 1 .. Len(w) - 1} :
                  \A i \in 1 .. Len(w) - 1 : f <= w[i + 1] - w[i]

\* A text comes back from its code.  The only error is a character that no alphabet has, and
\* the coder that met one, whose error nobody resets, reports it for every later text.
\* A symbol loses its place in the interval only in a table whose rates, raised to the least
\* one, add up to more than the narrowest interval gives each symbol (alignRate checks no sum).
TextComesBack ==
  /\ coderPc = "done" /\ textCalls > 0 =>
       /\ ~err => out = Readable(text)
       /\ ~KnownText(SelectSeq(text, LAMBDA ch : ch # "nul")) => err
       /\ textCalls = 1 /\ KnownText(text) /\ ~coder.bad => ~err
  /\ coderPc = "broken" => LET w == ctx.w IN w[Len(w)] > LeastStep(w) * (First_qtr + 2)
=============================================================================
