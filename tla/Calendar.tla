------------------------------- MODULE Calendar -------------------------------
(***************************************************************************)
(* The dates of src/tsys/systime: a day is counted from 1 January of the   *)
(* year 1, and a cdatetime is a double of seconds from there.  Between the *)
(* years 1090 and 2177 that double has 2^-17 s steps, so a cdatetime is    *)
(* its day, its second of the day and a tick; what a sum or a product      *)
(* rounds is rounded here.  A time since 1970 is its day (since 1970) and  *)
(* its milliseconds or seconds of the day.  The host's time zone and the   *)
(* C library's mktime, gmtime, strftime, sscanf and sprintf are external.            *)
(***************************************************************************)
EXTENDS Integers, Sequences, SequencesExt

HMS == 24 * 60 * 60
Ticks == 131072        \* 2^17 in a second

\* n / d to the nearest integer, to the even one of two.
Nearest(n, d) ==
  LET q == n \div d
      r == 2 * (n % d)
  IN IF r < d \/ (r = d /\ q % 2 = 0) THEN q ELSE q + 1

-----------------------------------------------------------------------------
(* Days. *)

D1 == 365
D4 == D1 * 4 + 1
D100 == D4 * 25 - 1
D400 == D100 * 4 + 1
DayCntTable ==
  <<<<31, 28, 31, 30, 31, 30, 31, 31, 30, 31, 30, 31>>, <<31, 29, 31, 30, 31, 30, 31, 31, 30, 31, 30, 31>>>>
\* What prepare_DayFullTable puts into the tables.
startinY == [y \in 1 .. 2 |-> [m \in 1 .. 12 |-> FoldLeft(+, 0, SubSeq(DayCntTable[y], 1, m - 1))]]
IsBigYear(year) == IF year % 4 = 0 /\ (year % 100 # 0 \/ year % 400 = 0) THEN 1 ELSE 0

From1(n) == IF n > 1 THEN n - 1 ELSE 0
encodedate(ay, am, ad) ==
  LET y == From1(ay)
  IN y * 365 + y \div 4 - y \div 100 + y \div 400 + startinY[IsBigYear(ay) + 1][From1(am) + 1] + From1(ad)

\* A quotient of 4 is the last day of the cycle, which belongs to the year before.
Cycles(ac, ad) == LET d == ac \div ad IN IF d = 4 THEN <<3, (ac % ad) + ad>> ELSE <<d, ac % ad>>
MonthOf(starts, d) ==
  LET m == IF d \div 30 < 11 THEN d \div 30 ELSE 11
  IN IF d < starts[m + 1] THEN m - 1 ELSE IF m < 11 /\ d >= starts[m + 2] THEN m + 1 ELSE m
decodedate(ymd) ==
  LET o100 == Cycles(ymd % D400, D100)
      o4 == o100[2] % D4
      oD == Cycles(o4, D1)
      y == (ymd \div D400) * 400 + o100[1] * 100 + (o100[2] \div D4) * 4 + oD[1] + 1
      starts == startinY[IsBigYear(y) + 1]
      m == MonthOf(starts, oD[2])
  IN [wYear |-> y, wMonth |-> m + 1, wDay |-> oD[2] - starts[m + 1] + 1, wDayOfWeek |-> (ymd % 7) + 1]

-----------------------------------------------------------------------------
(* Times of the day, and the double that has both. *)

\* ms / 1000 s, to the tick.
TickOf(ms) == Nearest(ms * 16384, 125)
encodetime(h, m, s, ms) == [sec |-> h * 60 * 60 + m * 60 + s, tick |-> TickOf(ms)]
decodetime(dt) ==
  LET hms == dt.sec * 1000 + (dt.tick * 1000) \div Ticks
      m == hms \div 60000
  IN [wMilliseconds |-> hms % 1000, wSecond |-> (hms \div 1000) % 60, wMinute |-> m % 60, wHour |-> (m \div 60) % 24,
      bad |-> m \div 60 >= 24]

cdatetime(st) == [day |-> encodedate(st.wYear, st.wMonth, st.wDay)]
                 @@ encodetime(st.wHour, st.wMinute, st.wSecond, st.wMilliseconds)
toSYSTEMTIME(dt) == decodedate(dt.day) @@ decodetime(dt)

unixtimestart == encodedate(1970, 1, 1)
\* How many of the limits (powers of two, as days and what is left) a time has reached: a double
\* has that many bits fewer behind the point.
Reached(limits, day, rest) == Len(SelectSeq(limits, LAMBDA l : l[1] < day \/ (l[1] = day /\ l[2] <= rest)))

\* The product v * 1000 is rounded to steps of 2^-14 ms, from 2^39 ms on (1987) to twice that, and
\* so on; the cast cuts the rest off.
ProductLimits == <<<<6362, 75013888>>, <<12725, 71627776>>, <<25451, 56855552>>, <<50903, 27311104>>>>
to_msunixtime(dt) ==
  LET day == dt.day - unixtimestart
      exact == dt.tick * 125
      step == 2 ^ Reached(ProductLimits, day, dt.sec * 1000 + exact \div 16384)
  IN [day |-> day, ms |-> dt.sec * 1000 + (Nearest(exact, step) * step) \div 16384]
\* The quotient v / 1000 is rounded first, to steps of 2^-24 s, from 2^29 s on (1987) to twice
\* that, and so on; and then the sum.
QuotientLimits == <<<<6213, 67712000>>, <<12427, 49024000>>, <<24855, 11648000>>, <<49710, 23296000>>>>
as_msunixtime(v) ==
  LET rounded == 2 ^ Reached(QuotientLimits, v.day, v.ms)
  IN [day |-> unixtimestart + v.day, sec |-> v.ms \div 1000,
      tick |-> Nearest(Nearest((v.ms % 1000) * (2097152 \div rounded), 125), 128 \div rounded)]
to_systemtime(v) == toSYSTEMTIME(as_msunixtime(v))

-----------------------------------------------------------------------------
(* Dates as texts. *)

Field(c, dt) ==
  CASE c = "Y" -> dt.wYear [] c = "M" -> dt.wMonth [] c = "D" -> dt.wDay [] c = "h" -> dt.wHour
    [] c = "m" -> dt.wMinute [] c = "s" -> dt.wSecond [] c = "c" -> dt.wMilliseconds
FieldChars == {"Y", "M", "D", "h", "m", "s", "c"}
\* The last sz characters of %08d.
Numeral == <<"0", "1", "2", "3", "4", "5", "6", "7", "8", "9">>
LastDigits(val, sz) == [i \in 1 .. sz |-> Numeral[((val \div (10 ^ (sz - i))) % 10) + 1]]
\* A run of one letter shows as many digits of the field, four at most.
RunStart(frmt, i) == i = 1 \/ frmt[i - 1] # frmt[i]
RunLength(frmt, i) == CHOOSE n \in 1 .. Len(frmt) - i + 1 :
  /\ \A j \in i .. i + n - 1 : frmt[j] = frmt[i]
  /\ i + n <= Len(frmt) => frmt[i + n] # frmt[i]
Shown(frmt, i, dt) ==
  IF frmt[i] \notin FieldChars THEN <<frmt[i]>>
  ELSE IF ~RunStart(frmt, i) THEN <<>>
  ELSE LET n == RunLength(frmt, i) IN LastDigits(Field(frmt[i], dt), IF n < 4 THEN n ELSE 4)
format_datetime_to(frmt, dt) == FlattenSeq([i \in 1 .. Len(frmt) |-> Shown(frmt, i, dt)])

\* A zone of the host: seconds east of Greenwich, and the months of its summer time with what that adds.
Offset(zone, month) == zone.east + IF month \in zone.months THEN zone.summer ELSE 0
After(t, sec) == [day |-> t.day + (t.sec + sec) \div HMS, sec |-> (t.sec + sec) % HMS]
\* Days and seconds since 1970 in Greenwich, by the calendar.
LeapsBefore(y) == (y - 1) \div 4 - (y - 1) \div 100 + (y - 1) \div 400
LengthOf(y, m) == IF m = 2 THEN IF y % 400 = 0 \/ (y % 4 = 0 /\ y % 100 # 0) THEN 29 ELSE 28
                  ELSE IF m \in {4, 6, 9, 11} THEN 30 ELSE 31
CivilDay(y, m, d) == 365 * (y - 1) + LeapsBefore(y) + FoldLeft(+, 0, [k \in 1 .. m - 1 |-> LengthOf(y, k)]) + d - 1
Greenwich(f) == [day |-> CivilDay(f[1], f[2], f[3]) - CivilDay(1970, 1, 1), sec |-> f[4] * 3600 + f[5] * 60 + f[6]]
mktime(f, zone) == After(Greenwich(f), -Offset(zone, f[2]))
gmtime(t) ==
  LET n == t.day + CivilDay(1970, 1, 1)
      y == CHOOSE k \in n \div 366 + 1 .. n \div 365 + 1 : CivilDay(k, 1, 1) <= n /\ n < CivilDay(k + 1, 1, 1)
      m == CHOOSE k \in 1 .. 12 : CivilDay(y, k, 1) <= n /\ n <= CivilDay(y, k, LengthOf(y, k))
  IN <<y, m, n - CivilDay(y, m, 1) + 1, t.sec \div 3600, (t.sec \div 60) % 60, t.sec % 60>>

get_mktime_shift_sec(zone) == LET t == mktime(<<1970, 1, 2, 0, 0, 0>>, zone) IN (t.day - 1) * HMS + t.sec
\* A text is a sequence of characters and numbers.
Char(c) == [c |-> c]
Num(n) == [n |-> n]
IsChar(text, i, S) == i \in DOMAIN text /\ "c" \in DOMAIN text[i] /\ text[i].c \in S
IsNum(text, i) == i \in DOMAIN text /\ "n" \in DOMAIN text[i]
\* The places of a format: a number, and a run of characters that is kept, skipped, or one character long.
Number == [kind |-> "number"]
Run(S) == [kind |-> "run", set |-> S, kept |-> FALSE, one |-> FALSE]
Kept(S) == [Run(S) EXCEPT !.kept = TRUE]
One(c) == [Run({c}) EXCEPT !.one = TRUE]
RunTo(text, at, S) == CHOOSE q \in at .. Len(text) + 1 : ~IsChar(text, q, S) /\ \A i \in at .. q - 1 : IsChar(text, i, S)
\* sscanf: what is converted before the first place that finds nothing.
Scanned(st, text, place) ==
  LET p == RunTo(text, st.at, {" "})
      q == IF IsChar(text, p, {"+", "-"}) THEN p + 1 ELSE p
      e == IF IsChar(text, st.at, place.set) /\ place.one THEN st.at + 1 ELSE RunTo(text, st.at, place.set)
  IN  CASE ~st.going -> st
        [] place.kind = "number" ->
             IF IsNum(text, q) THEN [st EXCEPT !.at = q + 1, !.got = Append(@, IF IsChar(text, p, {"-"}) THEN -text[q].n ELSE text[q].n)]
             ELSE [st EXCEPT !.going = FALSE]
        [] OTHER ->
             IF e = st.at THEN [st EXCEPT !.going = FALSE]
             ELSE [st EXCEPT !.at = e, !.got = IF place.kept THEN Append(@, SubSeq(text, st.at, e - 1)) ELSE @]
sscanf(text, format) == FoldLeft(LAMBDA st, place : Scanned(st, text, place), [at |-> 1, got |-> <<>>, going |-> TRUE], format).got

\* One sign and blanks around it, or 0.
_scansignonly(s) ==
  LET sign == SelectSeq(s, LAMBDA t : t.c # " ") IN IF Len(sign) # 1 THEN 0 ELSE IF sign[1].c = "+" THEN 1 ELSE -1
DateFormat ==
  LET between == Run({"-", "/", ".", " "})
  IN  <<Number, between, Number, between, Number, Run({"T", " "}), Number, One(":"), Number, One(":"), Number,
        Kept({"-", "+", " "}), Number, One(":"), Number>>
str2msunixtime(text, zone) ==
  LET r == sscanf(text \o <<Char("+"), Num(0), Char(":"), Num(0)>>, DateFormat)
      minute == IF Len(r) < 9 THEN 0 ELSE r[9]
      signZ == _scansignonly(r[7])
      tD == mktime(SubSeq(r, 1, 6), zone)
  IN IF Len(r) < 8 THEN [code |-> -1]
     ELSE IF r[8] > 12 \/ minute > 59 THEN [code |-> -2]
     ELSE IF signZ = 0 THEN [code |-> -3]
     ELSE IF tD.day < 0 THEN [code |-> -1]
     ELSE [code |-> 0, res |-> After(tD, -get_mktime_shift_sec(zone) - signZ * (r[8] * 60 + minute) * 60)]
\* strftime's "%F %T".
DatePut(nums, seps) == FlattenSeq([i \in DOMAIN nums |-> (IF i = 1 THEN <<>> ELSE <<Char(seps[i - 1])>>) \o <<Num(nums[i])>>])
msunixtime2string(t) == DatePut(gmtime(t), <<"-", "-", " ", ":", ":">>)

-----------------------------------------------------------------------------
(* Properties, for one question. *)

\* Every date of a year has its own day, the days follow each other without a gap over the
\* ends of months, years and centuries, and a day is the date it was made from (encodedate, decodedate).
DatesComeBack(y) ==
  \A m \in 1 .. 12 : \A d \in 1 .. LengthOf(y, m) :
    LET n == encodedate(y, m, d)
        r == decodedate(n)
    IN n = CivilDay(y, m, d) /\ <<r.wYear, r.wMonth, r.wDay>> = <<y, m, d>>

\* A time comes back from the double and from milliseconds since 1970 as it was, or one
\* millisecond earlier (the casts cut off what the sums have rounded down); whole seconds
\* come back as they were.
Within(ms, was) == ms = was \/ (was % 1000 # 0 /\ ms = was - 1)
SameTime(r, st) ==
  /\ ~r.bad /\ Within(r.wMilliseconds, st.wMilliseconds)
  /\ \A f \in {"wYear", "wMonth", "wDay", "wHour", "wMinute", "wSecond"} : r[f] = st[f]
TimesComeBack(st) ==
  LET t == [day |-> Greenwich(<<st.wYear, st.wMonth, st.wDay, st.wHour, st.wMinute, st.wSecond>>).day,
            ms |-> (st.wHour * 3600 + st.wMinute * 60 + st.wSecond) * 1000 + st.wMilliseconds]
      u == to_msunixtime(cdatetime(st))
  IN /\ SameTime(toSYSTEMTIME(cdatetime(st)), st)
     /\ SameTime(to_systemtime(t), st)
     /\ u.day = t.day /\ Within(u.ms, t.ms)

\* A text with a date, a time and perhaps a zone is read as the moment it means, whatever the
\* zone of the host (in the host's summer time that moment less what the summer adds); one of an
\* earlier day, a wrong zone or no time is refused; and a moment that is written is read again.
TextMoment(f, seps, sign, zoneNums, zone) ==
  LET text == DatePut(f, seps) \o [i \in DOMAIN sign |-> Char(sign[i])] \o DatePut(zoneNums, <<":">>)
      r == str2msunixtime(text, zone)
      summer == Offset(zone, f[2]) - Offset(zone, 1)
      east == IF zoneNums = <<>> THEN 0 ELSE zoneNums[1] * 60 + IF Len(zoneNums) = 2 THEN zoneNums[2] ELSE 0
      meant == After(Greenwich(f), -(IF Contains(sign, "-") THEN -east ELSE east) * 60 - summer)
      again == str2msunixtime(msunixtime2string(r.res), zone)
      g == gmtime(r.res)
  IN /\ Len(f) < 6 => r.code # 0
     /\ r.code = 0 =>
          /\ r.res = meant
          /\ g[1] > 1970 => again = [code |-> 0, res |-> After(r.res, Offset(zone, 1) - Offset(zone, g[2]))]
     /\ Len(f) = 6 /\ seps[5] = ":" /\ sign \in {<<"+">>, <<" ", "-">>} /\ zoneNums # <<>> /\ zoneNums[1] <= 12 /\ (Len(zoneNums) = 2 => zoneNums[2] <= 59) /\ f[1] > 1970
          => r.code = 0

\* "YYYY.MM.DD hh:mm:ss" shows the fields of the date, and a longer run four digits.
FormatShowsFields(st) ==
  LET Value(s) == FoldLeft(LAMBDA n, c : 10 * n + (CHOOSE i \in 1 .. 10 : Numeral[i] = c) - 1, 0, s)
      text == format_datetime_to(<<"Y", "Y", "Y", "Y", ".", "M", "M", ".", "D", "D", " ", "h", "h", ":", "m", "m", ":", "s", "s", "c", "c", "c", "c", "c">>, st)
      At(i, n) == Value(SubSeq(text, i, i + n - 1))
  IN /\ Len(text) = 23
     /\ <<At(1, 4), At(6, 2), At(9, 2), At(12, 2), At(15, 2), At(18, 2), At(20, 4)>>
          = <<st.wYear, st.wMonth, st.wDay, st.wHour, st.wMinute, st.wSecond, st.wMilliseconds>>
=============================================================================
