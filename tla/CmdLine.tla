------------------------------ MODULE CmdLine ------------------------------
(***************************************************************************)
(* Names of files and arguments of a program: split_path and its kin in    *)
(* src/parse/t_parse.cpp, parsecmdline and r_cmdline_options of            *)
(* src/conf/tb_parsecmdl.  Texts are sequences of characters.              *)
(***************************************************************************)
EXTENDS Integers, Sequences, SequencesExt, FiniteSetsExt

Slash == {"/", "bs"}    \* bs: the other slash
OptionPlaces(s, C) == {i \in DOMAIN s : s[i] \in C}
Last0(S) == IF S = {} THEN 0 ELSE Max(S)

\* The last dot begins the extension, also one that stands in the directory.
split_path(p) ==
  LET dot == Last0(OptionPlaces(p, {"."}))
      sl  == Last0(OptionPlaces(p, Slash))
      dr  == Last0(OptionPlaces(p, {":"}))
      fn  == Max({sl, dr})
      rest == SubSeq(p, fn + 1, Len(p))
      drive == SubSeq(p, 1, dr - 1)
  IN [drive |-> drive,
      ddir  |-> IF sl # 0 THEN SubSeq(p, 1, sl - 1) ELSE drive,
      ext   |-> IF dot # 0 THEN SubSeq(p, dot + 1, Len(p)) ELSE <<>>,
      fname_ext |-> rest,
      fname |-> IF dot = 0 THEN rest
                ELSE IF dot > fn THEN SubSeq(p, fn + 1, dot - 1) ELSE <<"range error">>]

get_file_nameWithSlash(p) == SubSeq(p, Max({1, Last0(OptionPlaces(p, Slash))}), Len(p))
get_file_name(p) == SubSeq(p, Last0(OptionPlaces(p, Slash)) + 1, Len(p))
\* Slashes at the end are passed over; the first character, whatever it is, is
\* where the search stops.
get_file_dir(p) ==
  LET e == Max({1} \cup {i \in DOMAIN p : p[i] \notin Slash})
  IN IF p = <<>> THEN <<>>
     ELSE SubSeq(p, 1, Max({1} \cup {i \in 1 .. e : p[i] \in Slash}) - 1)
join2path(p, q) == IF p = <<>> THEN q ELSE IF q = <<>> THEN p ELSE p \o <<"/">> \o q
isBaseFileName(p) == OptionPlaces(p, Slash) = {}

\* A path that does not begin or end with a slash is what its directory and its
\* name join to, whatever the slashes; split_path agrees with that, and its
\* parts make the name up again, unless the last dot is in the directory: then
\* the name has no place to end, and taking it raises a range error.
SameSlash(s) == [i \in DOMAIN s |-> IF s[i] \in Slash THEN "/" ELSE s[i]]
PathsComeApart(p) ==
  LET d == split_path(p)
      dot == Last0(OptionPlaces(p, {"."}))
  IN p # <<>> /\ p[1] \notin Slash \cup {":"} /\ Last(p) \notin Slash \cup {":"} =>
       /\ SameSlash(join2path(get_file_dir(p), get_file_name(p))) = SameSlash(p)
       /\ isBaseFileName(get_file_name(p))
       /\ ":" \notin ToSet(p) =>
            d.ddir = get_file_dir(p) /\ d.fname_ext = get_file_name(p) /\ d.drive = <<>>
       /\ dot > Last0(OptionPlaces(p, Slash \cup {":"})) => d.fname \o <<".">> \o d.ext = d.fname_ext
       /\ dot = 0 => d.fname = d.fname_ext /\ d.ext = <<>>

-----------------------------------------------------------------------------
(* parsecmdline: the arguments of a line, between blanks that no quotes       *)
(* surround.                                                                  *)

QuoteChar == "q"
parsecmdline(cmd) ==
  LET step(st, c) ==
        CASE c = QuoteChar -> [st EXCEPT !.quoted = ~@]
          [] c = " " /\ ~st.quoted -> [st EXCEPT !.list = IF st.cpar = <<>> THEN @ ELSE Append(@, st.cpar), !.cpar = <<>>]
          [] OTHER -> [st EXCEPT !.cpar = Append(@, c)]
      end == FoldLeft(step, [quoted |-> FALSE, cpar |-> <<>>, list |-> <<>>], cmd)
  IN IF end.cpar = <<>> THEN end.list ELSE Append(end.list, end.cpar)

Line(args, blanks) ==
  FlattenSeq([i \in DOMAIN args |->
    (IF " " \in ToSet(args[i]) \/ args[i] = <<>> THEN <<QuoteChar>> \o args[i] \o <<QuoteChar>> ELSE args[i])
      \o blanks])
\* Arguments come back from a line, those with blanks from their quotes; one
\* that is empty does not, quotes or not.
ArgumentsComeBack(args, blanks) ==
  parsecmdline(Line(args, blanks)) = SelectSeq(args, LAMBDA a : a # <<>>)

-----------------------------------------------------------------------------
(* r_cmdline_options.  An option is [ids, user_id]; the argument -name=value  *)
(* is [opt |-> TRUE, name, value], any other [opt |-> FALSE, value].          *)

\* getdesc: the key as it is written, else without regard to case; of several
\* options with the key the last one.  0 for none.
getdesc(opts, key, fold) ==
  LET exact == {i \in DOMAIN opts : key \in ToSet(opts[i].ids)}
      folded == {i \in DOMAIN opts : \E k \in ToSet(opts[i].ids) : k \in DOMAIN fold /\ key \in DOMAIN fold /\ fold[k] = fold[key]}
  IN IF exact # {} THEN Max(exact) ELSE Last0(folded)

\* An option that has its value behind the equals sign, or is not known, takes
\* none of the arguments behind it; any other takes all up to the next option.
NoPack == [nm |-> <<>>, val |-> <<>>, ti |-> 0]
saveopt(st) ==
  [all |-> IF st.opt.nm = <<>> /\ st.opt.val = <<>> THEN st.all ELSE Append(st.all, st.opt), opt |-> NoPack]
newopt(st, opts, a, fold) ==
  LET saved == saveopt(st)
      ti == getdesc(opts, a.name, fold)
      opt == [nm |-> a.name, val |-> IF a.value = <<>> THEN <<>> ELSE <<a.value>>, ti |-> ti]
  IN IF a.value # <<>> \/ ti = 0 THEN saveopt([saved EXCEPT !.opt = opt]) ELSE [saved EXCEPT !.opt = opt]
addval(st, a) == IF a.value = <<>> THEN st ELSE [st EXCEPT !.opt.val = Append(@, a.value)]

parse_all(opts, args, fold) ==
  LET end == saveopt(FoldLeft(LAMBDA st, a : IF a.opt THEN newopt(st, opts, a, fold) ELSE addval(st, a),
                              [all |-> <<>>, opt |-> NoPack], args))
      known == SelectSeq(end.all, LAMBDA o : o.nm = <<>> \/ o.ti # 0)
  IN [list |-> known,
      error |-> \E i \in DOMAIN end.all : end.all[i].nm # <<>> /\ end.all[i].ti = 0,
      idx |-> [t \in {known[i].ti : i \in DOMAIN known} \ {0} |->
                 Max({i \in DOMAIN known : known[i].ti = t})]]
\* get: the values of an option, by any of its keys.
getvalues(opts, r, key, fold) ==
  LET t == getdesc(opts, key, fold)
  IN IF t \in DOMAIN r.idx THEN <<r.list[r.idx[t]].val>> ELSE <<>>

\* The same said of the arguments: those an option takes are its value, or
\* the plain arguments up to the next option.
TakenBy(opts, args, i, fold) ==
  LET behind == {j \in i + 1 .. Len(args) : \A k \in i + 1 .. j : ~args[k].opt}
      plain == SelectSeq(SubSeq(args, i + 1, Last0(behind)), LAMBDA a : a.value # <<>>)
  IN IF args[i].value # <<>> THEN <<args[i].value>> ELSE [j \in DOMAIN plain |-> plain[j].value]

\* Each option has the values of its last occurrence, by whichever of its keys
\* it is given or asked for; an option that is not known is an error and keeps
\* its values from the others; and no plain argument is lost.
OptionsHaveTheirValues(opts, args, fold) ==
  LET r == parse_all(opts, args, fold)
      named == {i \in DOMAIN args : args[i].opt /\ args[i].name # <<>>}
      is(i, t) == getdesc(opts, args[i].name, fold) = t
  IN /\ r.error <=> \E i \in named : is(i, 0)
     /\ \A t \in DOMAIN opts, n \in 1 .. 2 :
          n \in DOMAIN opts[t].ids /\ getdesc(opts, opts[t].ids[n], fold) = t =>
            LET at == {i \in named : is(i, t)}
            IN getvalues(opts, r, opts[t].ids[n], fold)
                 = IF at = {} THEN <<>> ELSE <<TakenBy(opts, args, Max(at), fold)>>
     /\ \A i \in DOMAIN args :
          ~args[i].opt /\ args[i].value # <<>> =>
            \E p \in DOMAIN r.list : args[i].value \in ToSet(r.list[p].val)

-----------------------------------------------------------------------------
(* rInputOptions, the older one: an option is asked for by its name, and the  *)
(* program says which ones it was not asked for.                              *)

Lowered(fold, n) == IF n \in DOMAIN fold THEN fold[n] ELSE n
parsearray(args, fold) ==
  LET given == SelectSeq(args, LAMBDA a : a.opt)
  IN [i \in DOMAIN given |-> [optname |-> Lowered(fold, given[i].name), optval |-> given[i].value, getscount |-> 0]]
\* getoption: the first of that name is counted, and gives the value.
getoption(opts, n, fold) ==
  LET i == SelectInSeq(opts, LAMBDA o : o.optname = Lowered(fold, n))
  IN IF i = 0 THEN opts ELSE [opts EXCEPT ![i].getscount = @ + 1]
Taken(opts) == Cardinality({i \in DOMAIN opts : opts[i].getscount > 0})
getUnknownOptions(opts) ==
  IF Taken(opts) = Len(opts) THEN <<>> ELSE SelectSeq(opts, LAMBDA o : o.getscount = 0)

\* What was never asked for is told; an option that was is told when it was
\* given a second time, and only then.
UnknownOptionsAreTold(args, asked, fold) ==
  LET given == parsearray(args, fold)
      left == getUnknownOptions(FoldLeft(LAMBDA o, n : getoption(o, n, fold), given, asked))
      wanted == {Lowered(fold, asked[i]) : i \in DOMAIN asked}
      times(n) == Cardinality({i \in DOMAIN given : given[i].optname = n})
      told(n) == Cardinality({i \in DOMAIN left : left[i].optname = n})
  IN \A i \in DOMAIN given :
       LET n == given[i].optname
       IN told(n) = IF n \in wanted THEN times(n) - 1 ELSE times(n)
=============================================================================
