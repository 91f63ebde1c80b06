------------------------------ MODULE ConfText ------------------------------
(***************************************************************************)
(* The texts of src/conf that are no JSON.  Of tbcfg_parse.cpp the lexemes *)
(* of a HOCON text (hoconT_parse_ctx::parseLexem) and the lines of an INI  *)
(* text (load_tbconfig_ini_list).  Of tbconf.cpp the list configuration:   *)
(* its lexemes (getnexttag), the cells it is read into                     *)
(* (load_tbconfig_list), and the links between them (tbconfig_relinks).    *)
(* A text is a sequence of characters; the words true and false are one    *)
(* character, as in JsonText.                                              *)
(***************************************************************************)
EXTENDS ConfExpand, TextTools

CONSTANTS
  PrgDir,     \* the directory of the program
  CfgDir,     \* the directory of the configuration
  CfgFiles    \* the files a configuration may name: a function from names to contents

NewLine == "\n"
Blank   == {" ", Tab, NewLine}
Hex     == Digit @@ ("a" :> 10) @@ ("E" :> 14) @@ ("f" :> 15)

\* char_inSYMe; char_inSYM is without the minus.
SymbolE == {"a", "f", "t", "x", "E", "b"} \cup DOMAIN Digit \cup DOMAIN Word \cup {"-", "_"}
Symbol  == SymbolE \ {"-"}

\* The place behind the characters of S that begin at i.
Behind(text, i, S) ==
  CHOOSE j \in i .. Len(text) + 1 :
    /\ \A k \in i .. j - 1 : text[k] \in S
    /\ j <= Len(text) => text[j] \notin S
\* goto_nextline: behind the end of the line and the empty lines that follow.
NextLine(text, i) ==
  LET rest == {j \in i .. Len(text) : text[j] = NewLine}
  IN IF rest = {} THEN Len(text) + 1 ELSE Behind(text, Min(rest), {NewLine})

\* unescape_std_str: JSON's letters and a, the bell.
Bell == "bell"
StdEscape == ("t" :> Tab) @@ ("a" :> Bell)
unescape_std_str(d) ==
  LET from[i \in 1 .. Len(d) + 1] ==
        IF i > Len(d) THEN <<>>
        ELSE IF d[i] # Backslash THEN <<d[i]>> \o from[i + 1]
        ELSE <<IF d[i + 1] \in DOMAIN StdEscape THEN StdEscape[d[i + 1]] ELSE d[i + 1]>> \o from[i + 2]
  IN from[1]

\* A string ends at the quote it began with.
StringEnd(text, from, quote) ==
  LET at[i \in from .. Len(text) + 2] ==
        IF i > Len(text) THEN 0
        ELSE IF text[i] = Backslash THEN at[i + 2]
        ELSE IF text[i] = quote THEN i ELSE at[i + 1]
  IN at[from]
HoconString(text, i) ==
  LET e == StringEnd(text, i + 1, text[i])
  IN IF e = 0 THEN [lex |-> Invalid, next |-> Len(text) + 1]
     ELSE [lex |-> LexStr(unescape_std_str(SubSeq(text, i + 1, e - 1))), next |-> e + 1]

HoconHex(text, i) ==
  LET e == Behind(text, i + 2, DOMAIN Hex)
      n == FoldLeft(LAMBDA v, c : 16 * v + Hex[c], 0, SubSeq(text, i + 2, e - 1))
  IN [lex |-> IF e > i + 2 THEN LexInt(SubSeq(text, i, e - 1), n) ELSE Invalid, next |-> e]
HoconNumber(text, i) ==
  IF text[i] = "0" /\ i < Len(text) /\ text[i + 1] = "x" THEN HoconHex(text, i)
  ELSE WaitNumericLexem(text, i)

\* A bare word; in front of a string it says what becomes of the string, and
\* E, to put the variables of the environment into it, is all it can say.
NoVariables == [name \in {} |-> <<>>]
HoconLiteral(text, i) ==
  LET e == Behind(text, i, SymbolE)
      word == SubSeq(text, i, e - 1)
      str == HoconString(text, e)
  IN CASE e <= Len(text) /\ text[e] \in {Quote, "'"} ->
            IF word # <<"E">> THEN [lex |-> Invalid, next |-> e + 1]
            ELSE IF str.lex = Invalid THEN str
            ELSE [str EXCEPT !.lex = LexStr(Expand(NoVariables, <<>>, str.lex.str).res)]
       [] ~(e <= Len(text) /\ text[e] \in {Quote, "'"}) ->
            [lex |-> IF Len(word) = 1 /\ word[1] \in DOMAIN Word THEN LexBool(Word[word[1]])
                     ELSE LexStr(word),
             next |-> e]

HoconPunctuation == Punctuation @@ (";" :> "Separator") @@ ("=" :> "Assign")
HoconSkips(text, i) == text[i] \in Blank \cup {"#"} \/ (text[i] = "/" /\ i < Len(text) /\ text[i + 1] = "/")
HoconSkip(text, i) == IF text[i] \in Blank THEN i + 1 ELSE NextLine(text, i)

HoconLexem(text, i) ==
  CASE text[i] \in {Quote, "'"} -> HoconString(text, i)
    [] text[i] \in DOMAIN HoconPunctuation ->
         [lex |-> [id |-> HoconPunctuation[text[i]]], next |-> i + 1]
    [] text[i] \in DOMAIN Digit \cup {"-"} -> HoconNumber(text, i)
    [] text[i] \in Symbol \ DOMAIN Digit -> HoconLiteral(text, i)
    [] OTHER -> [lex |-> Invalid, next |-> i + 1]

HoconLexemes(text) ==
  LET from[i \in 1 .. Len(text) + 1] ==
        IF i > Len(text) THEN <<>>
        ELSE IF HoconSkips(text, i) THEN from[HoconSkip(text, i)]
        ELSE LET l == HoconLexem(text, i)
             IN <<l.lex>> \o (IF l.lex = Invalid THEN <<>> ELSE from[l.next])
  IN from[1]

Occurs(part, text) ==
  \E i \in 1 .. Len(text) - Len(part) + 1 : SubSeq(text, i, i + Len(part) - 1) = part

\* What JSON's lexer takes, HOCON's lexer takes for the same, but for the bell
\* and a word that runs on (true1 and true"" are two lexemes in JSON); and a comment between
\* two texts changes neither of them.
WordRunsOn(text) == \E w \in DOMAIN Word, c \in SymbolE \cup {Quote} : Occurs(<<w, c>>, text)
HoconReadsJson(text) ==
  LET json == Lexemes(text)
  IN Invalid \notin ToSet(json) /\ ~Occurs(<<Backslash, "a">>, text) /\ ~WordRunsOn(text) =>
       HoconLexemes(text) = json
HoconSkipsComments(text, note, more) ==
  LET left == HoconLexemes(text)
  IN Invalid \notin ToSet(left) /\ NewLine \notin ToSet(note) =>
       HoconLexemes(text \o <<"#">> \o note \o <<NewLine>> \o more) = left \o HoconLexemes(more)

-----------------------------------------------------------------------------
(***************************************************************************)
(* INI.  Each line is a section "[name]", a member "key = value" of the    *)
(* last section, or nothing.  Lines that are none of these are passed      *)
(* over.                                                                   *)
(***************************************************************************)
Trimmed(s) ==
  LET a == Behind(s, 1, Blank)
      b == Max({0} \cup {i \in DOMAIN s : s[i] \notin Blank})
  IN SubSeq(s, a, b)
WordAt(s, i) == SubSeq(s, i, Behind(s, i, SymbolE) - 1)

\* The first bracket or equals sign says what the line is.
IniLine(raw) ==
  LET line == SubSeq(raw, Behind(raw, 1, Blank), Len(raw))
      marks == {i \in DOMAIN line : line[i] \in {"[", "="}}
      s == Min(marks)
      close == {i \in DOMAIN line : i > s /\ line[i] = "]"}
      first == {i \in DOMAIN line : i > s /\ line[i] \in SymbolE}
      nothing == [is |-> "nothing"]
  IN CASE line = <<>> \/ marks = {} -> nothing
       [] line # <<>> /\ marks # {} /\ line[1] \notin SymbolE \cup {"["} -> nothing
       [] line # <<>> /\ marks # {} /\ line[1] \in SymbolE \cup {"["} /\ line[s] = "[" ->
            IF close = {} \/ {i \in first : i < Min(close)} = {} THEN nothing
            ELSE [is |-> "section", name |-> WordAt(SubSeq(line, 1, Min(close) - 1), Min(first))]
       [] line # <<>> /\ marks # {} /\ line[1] \in SymbolE \cup {"["} /\ line[s] = "=" ->
            [is |-> "member", name |-> WordAt(line, 1), value |-> Trimmed(SubSeq(line, s + 1, Len(line)))]

\* A member in front of every section is a member of the document: there the
\* last section is the document itself.
IniTree(lines) ==
  FoldLeft(LAMBDA tree, raw :
             LET l == IniLine(raw)
             IN CASE l.is = "nothing" -> tree
                  [] l.is = "section" -> Append(tree, [name |-> l.name, members |-> <<>>])
                  [] l.is = "member"  ->
                       [tree EXCEPT ![Len(tree)].members = Append(@, <<l.name, l.value>>)],
           <<[name |-> <<>>, members |-> <<>>]>>, lines)

\* The lines of a text.  The loop over the last line leaves ss where it is
\* when no end of line follows, and reads that line again without end.
LinesOf(text) ==
  FoldLeft(LAMBDA ls, c : IF c = NewLine THEN Append(ls, <<>>)
                          ELSE [ls EXCEPT ![Len(ls)] = Append(@, c)], <<<<>>>>, text)
IniEnds(text) == text = <<>> \/ Last(text) = NewLine
load_tbconfig_ini_list(text) ==
  IF IniEnds(text) THEN [ends |-> TRUE, tree |-> IniTree(LinesOf(text))] ELSE [ends |-> FALSE]

\* Sections and members that are written the plain way, whatever blanks and
\* lines of no meaning stand between them, are what is loaded.
IniWritten(tree, blanks, between) ==
  FlattenSeq([i \in DOMAIN tree |->
    between \o (IF i = 1 THEN <<>> ELSE <<"[">> \o tree[i].name \o <<"]">> \o blanks \o <<NewLine>>)
    \o FlattenSeq([j \in DOMAIN tree[i].members |->
         blanks \o tree[i].members[j][1] \o <<"=">> \o blanks \o tree[i].members[j][2]
         \o blanks \o <<NewLine>> \o between])])
IniReadsBack(tree, blanks, between) ==
  load_tbconfig_ini_list(IniWritten(tree, blanks, between)) = [ends |-> TRUE, tree |-> tree]

-----------------------------------------------------------------------------
(* Lexemes.  wait_endstring keeps the text as it is written.  Behind the end *)
(* of a line it leaves out the first character of the next line, which may   *)
(* be the quote or the backslash it waits for.                               *)

StringEndOf(text, from, quote) ==
  LET at[i \in from .. Len(text) + 2] ==
        IF i > Len(text) THEN 0
        ELSE IF text[i] = NewLine THEN at[NextLine(text, i) + 1]
        ELSE IF text[i] = Backslash THEN at[i + 2]
        ELSE IF text[i] = quote THEN i ELSE at[i + 1]
  IN at[from]

TbPunctuation == ("=" :> "Assign") @@ (";" :> "Coma") @@ ("," :> "Coma")
                   @@ ("{" :> "Left") @@ ("}" :> "Right")
TbBad == [id |-> "Bad"]
TbString(text, i, id, tag) ==
  LET e == StringEndOf(text, i + 1, text[i])
  IN IF e = 0 \/ (e < Len(text) /\ text[e + 1] \in Symbol)
       THEN [lex |-> TbBad, next |-> Len(text) + 1]
       ELSE [lex |-> [id |-> id, tag |-> tag, str |-> SubSeq(text, i + 1, e - 1)], next |-> e + 1]

\* A word, or the type of the string it stands in front of.
waitid(text, i) ==
  LET e == Behind(text, i, Symbol)
  IN IF e > Len(text) THEN [lex |-> TbBad, next |-> e]
     ELSE IF text[e] \in {Quote, "'"} THEN TbString(text, e, "CtrStr", SubSeq(text, i, e - 1))
     ELSE [lex |-> [id |-> "Str", tag |-> <<>>, str |-> SubSeq(text, i, e - 1)], next |-> e]

\* A slash ends the line, one or two: the test for the second looks at the first.
getnexttag(text) ==
  LET from[i \in 1 .. Len(text) + 1] ==
        IF i > Len(text) THEN <<>>
        ELSE IF text[i] \in {"#", "/"} THEN from[NextLine(text, i)]
        ELSE IF text[i] \in DOMAIN TbPunctuation THEN <<[id |-> TbPunctuation[text[i]]]>> \o from[i + 1]
        ELSE IF text[i] \in {Quote, "'"} \cup Symbol
          THEN LET l == IF text[i] \in Symbol THEN waitid(text, i) ELSE TbString(text, i, "Str", <<>>)
               IN <<l.lex>> \o from[l.next]
        ELSE from[i + 1]
  IN from[1]

-----------------------------------------------------------------------------
(* Cells.  A cell is [key, tag, value, sub], sub is <<list>> or NoList.  The *)
(* call of load_tbconfig_list for each open list is an element of open.      *)
(* celstate is what the cell that is being read has: nothing, one word, a    *)
(* word and an equals sign, or a value.                                      *)

NoList == <<>>
NoCell == [key |-> <<>>, tag |-> <<>>, value |-> <<>>, sub |-> NoList]
NewList == [cells |-> <<>>, cel |-> NoCell, celstate |-> 0]

\* One word alone is a value.
closecell(l) ==
  CASE l.celstate = 0 -> l
    [] l.celstate = 1 -> [NewList EXCEPT !.cells = Append(l.cells, [l.cel EXCEPT !.value = l.cel.key, !.key = <<>>])]
    [] l.celstate = 3 -> [NewList EXCEPT !.cells = Append(l.cells, l.cel)]

TbError(st) == [st EXCEPT !.error = TRUE]
TopOf(st, l) == [st EXCEPT !.open[Len(st.open)] = l]
Closable(st, A) == IF Last(st.open).celstate = 2 THEN TbError(st) ELSE A

\* What follows the end of the outermost list is not read.
EndList(st) ==
  LET done == closecell(Last(st.open)).cells
      up == Front(st.open)
  IN IF up = <<>> THEN [st EXCEPT !.open = <<>>, !.res = <<done>>]
     ELSE TopOf([st EXCEPT !.open = up],
                closecell([Last(up) EXCEPT !.cel.sub = <<done>>, !.celstate = 3]))

\* A typed string is the value of its cell at once, in place of one that is there.
OnCtrStr(st, l, lex) ==
  IF l.celstate = 1 THEN TbError(st)
  ELSE TopOf(st, [l EXCEPT !.cel.tag = lex.tag, !.cel.value = lex.str, !.celstate = 3])
OnStr(st, l, lex) ==
  CASE l.celstate = 0 -> TopOf(st, [l EXCEPT !.cel.key = lex.str, !.celstate = 1])
    [] l.celstate = 2 -> TopOf(st, [l EXCEPT !.cel.value = lex.str, !.celstate = 3])
    [] OTHER -> TbError(st)

load_tbconfig_list(lexemes) ==
  LET step(st, lex) ==
        IF st.error \/ st.open = <<>> THEN st
        ELSE LET l == Last(st.open)
             IN CASE lex.id = "Bad"    -> TbError(st)
                  [] lex.id = "Assign" -> IF l.celstate # 1 THEN TbError(st) ELSE TopOf(st, [l EXCEPT !.celstate = 2])
                  [] lex.id = "Coma"   -> Closable(st, TopOf(st, closecell(l)))
                  [] lex.id = "Left"   -> IF l.celstate > 1 THEN TbError(st) ELSE [st EXCEPT !.open = Append(@, NewList)]
                  [] lex.id = "Right"  -> Closable(st, EndList(st))
                  [] lex.id = "CtrStr" -> OnCtrStr(st, l, lex)
                  [] lex.id = "Str"    -> OnStr(st, l, lex)
      end == FoldLeft(step, [open |-> <<NewList>>, res |-> NoList, error |-> FALSE], lexemes)
  IN IF end.error \/ end.open # <<>> THEN [ok |-> FALSE] ELSE [ok |-> TRUE, cells |-> end.res]

\* A text that does not begin with a list is no configuration, and no error.
load_tbconfig_fromtxt(text) ==
  LET ls == getnexttag(text)
  IN IF ls = <<>> \/ Head(ls).id # "Left" THEN [ok |-> TRUE, cells |-> NoList]
     ELSE load_tbconfig_list(Tail(ls))

\* How a list is written; between stands between the cells.
RECURSIVE TbWritten(_, _)
TbWritten(cells, between) ==
  LET quoted(c) == c.tag \o <<Quote>> \o c.value \o <<Quote>>
      of(c) == CASE c.sub # NoList -> c.key \o <<"{">> \o TbWritten(c.sub[1], between) \o <<"}">>
                 [] c.sub = NoList /\ c.key = <<>> -> quoted(c)
                 [] c.sub = NoList /\ c.key # <<>> -> c.key \o <<"=">> \o quoted(c)
  IN FlattenSeq([i \in DOMAIN cells |-> between \o of(cells[i]) \o <<";">>])

\* A list that is written is loaded as it was, over comments and ends of
\* lines, but for a value with the end of a line where a quote or a backslash
\* begins the next.
LineBeginsBadly(cells) ==
  LET text == TbWritten(cells, <<>>)
  IN \E i \in 1 .. Len(text) - 1 : text[i] = NewLine /\ text[i + 1] \in {Quote, Backslash}
ListReadsBack(cells, between) ==
  LET r == load_tbconfig_fromtxt(<<"{">> \o TbWritten(cells, between) \o <<"}">>)
  IN ~LineBeginsBadly(cells) => r = [ok |-> TRUE, cells |-> <<cells>>]

-----------------------------------------------------------------------------
(* Links.  lists are the lists in memory, the first the outermost; here a    *)
(* cell's sub is the number of a list, or 0.  The value of a cell with tag L *)
(* is the path of another cell; with D it is data in hexadecimal, with F the *)
(* name of a file, with E and CSV a text with names of directories.          *)

KeyIndex == ("0" :> 1) @@ ("1" :> 2)
eget(lists, l, key) ==
  LET same == {i \in DOMAIN lists[l] : FoldName(lists[l][i].key) = FoldName(key)}
      isNumber == Len(key) = 1 /\ key[1] \in DOMAIN KeyIndex
  IN IF same # {} THEN Min(same)
     ELSE IF isNumber /\ KeyIndex[key[1]] <= Len(lists[l]) THEN KeyIndex[key[1]] ELSE 0

\* get: <<list, cell>>, or NoTarget.
NoTarget == <<0, 0>>
PathKeys(path) == split_strC(path, "/")
getpath(lists, keys) ==
  LET down(at, key) ==
        IF at.l = 0 THEN [l |-> 0, e |-> NoTarget]
        ELSE LET i == eget(lists, at.l, key)
             IN IF i = 0 THEN [l |-> 0, e |-> NoTarget]
                ELSE [l |-> lists[at.l][i].sub, e |-> <<at.l, i>>]
  IN FoldLeft(down, [l |-> 1, e |-> NoTarget], keys).e

expand_env_str(text) ==
  replace_str(FALSE, replace_str(FALSE, text, <<"%", "prg", "%">>, PrgDir), <<"%", "search", "%">>, CfgDir)
\* A file that is not there, or empty, leaves the value as it is.
readbfile(text) ==
  LET name == expand_env_str(text)
  IN IF name \in DOMAIN CfgFiles /\ CfgFiles[name] # <<>> THEN CfgFiles[name] ELSE text

\* parsedata: groups of 2, 4 or 8 digits, each a number of which the lowest byte comes first, with
\* 0x in front or not, and something behind it.  A byte is written by its digits.
LowestFirst(digits) ==
  [i \in 1 .. Len(digits) \div 2 |-> digits[Len(digits) - 2 * i + 1] \o digits[Len(digits) - 2 * i + 2]]
RECURSIVE DataFrom(_, _, _)
DataFrom(text, i, buff) ==
  LET hex == {j \in i .. Len(text) : text[j] \in DOMAIN Hex}
      x0 == CharAt(text, Min(hex)) = "0" /\ CharAt(text, Min(hex) + 1) = "x"
      s == IF x0 THEN Min(hex) + 2 ELSE Min(hex)
      digits == SubSeq(text, s, Behind(text, s, DOMAIN Hex) - 1)
      next == s + Len(digits)
  IN IF hex = {} THEN [err |-> FALSE, buff |-> buff]
     ELSE IF next > Len(text) \/ Len(digits) \notin {2, 4, 8} THEN [err |-> TRUE, buff |-> buff]
     ELSE DataFrom(text, next, buff \o LowestFirst(digits))
parsedata(text) == DataFrom(text, 1, <<>>)

\* reparsenode.  The tag is taken away before a link is followed, so that a
\* ring of links has an end; and the cell a link leads to comes first.
UnLinked(st, c) == st.lists[c[1]][c[2]]
SetCell(st, c, cell) == [st EXCEPT !.lists[c[1]][c[2]] = cell]
AddError(st, c, err) == [st EXCEPT !.errors = IF err THEN @ \cup {c} ELSE @]
WorkedOut(e) ==
  CASE e.tag = <<"D">> -> parsedata(e.value).buff
    [] e.tag = <<"F">> -> readbfile(e.value)
    [] e.tag \in {<<"E">>, <<"CSV">>} -> expand_env_str(e.value)
ComesLater(cell) == FALSE
ComesFirst(cell) == cell.tag # <<>>
RECURSIVE reparsenode(_, _)
reparsenode(st, c) ==
  LET e == UnLinked(st, c)
      to == getpath(st.lists, PathKeys(e.value))
      cleared == SetCell(st, c, [e EXCEPT !.tag = <<>>])
      followed == IF ComesFirst(cleared.lists[to[1]][to[2]]) THEN reparsenode(cleared, to) ELSE cleared
      fe == followed.lists[to[1]][to[2]]
  IN CASE e.value = <<>> -> st
       [] e.value # <<>> /\ e.tag = <<"L">> ->
            IF to = NoTarget THEN AddError(cleared, c, TRUE)
            ELSE SetCell(followed, c, [followed.lists[c[1]][c[2]] EXCEPT !.value = fe.value, !.sub = fe.sub])
       [] e.value # <<>> /\ e.tag \in {<<"D">>, <<"F">>, <<"E">>, <<"CSV">>} ->
            AddError(SetCell(st, c, [e EXCEPT !.value = WorkedOut(e), !.tag = <<>>]), c,
                     e.tag = <<"D">> /\ parsedata(e.value).err)
       [] OTHER -> st

RECURSIVE rndsblist(_, _)
rndsblist(st, l) ==
  IF l \in st.itag THEN st
  ELSE FoldLeft(LAMBDA s, i :
                  LET c == s.lists[l][i]
                  IN IF c.sub # 0 THEN rndsblist(s, c.sub)
                     ELSE IF c.tag # <<>> THEN reparsenode(s, <<l, i>>) ELSE s,
                [st EXCEPT !.itag = @ \cup {l}], [i \in DOMAIN st.lists[l] |-> i])
relinks(lists) == rndsblist([lists |-> lists, itag |-> {}, errors |-> {}], 1)

\* When the links are resolved, each one is what the path it was leads to, in
\* the lists as they are then: also a link to a link, one of a ring, and one
\* whose path goes through a link.  A link is an error when its path leads
\* nowhere, or through a link, which it may have been too early for.
CellsOf(lists) == UNION {{l} \X DOMAIN lists[l] : l \in DOMAIN lists}
TaggedCells(lists, tags) == {c \in CellsOf(lists) : lists[c[1]][c[2]].tag \in tags}
Links(lists) == TaggedCells(lists, {<<"L">>})
ThroughLink(lists, keys) ==
  \E n \in 1 .. Len(keys) - 1 : getpath(lists, SubSeq(keys, 1, n)) \in Links(lists)
LinkMeans(lists, end, c, to) ==
  LET here == end.lists[c[1]][c[2]]
  IN /\ here.tag = <<>>
     /\ end.errors \cap Links(lists) = {} =>
          /\ to # NoTarget
          /\ here.value = end.lists[to[1]][to[2]].value
          /\ here.sub = end.lists[to[1]][to[2]].sub
LinksMean(lists, end) ==
  \A c \in Links(lists) :
    LET keys == PathKeys(lists[c[1]][c[2]].value)
    IN /\ LinkMeans(lists, end, c, getpath(end.lists, keys))
       /\ c \in end.errors => getpath(lists, keys) = NoTarget \/ ThroughLink(lists, keys)
\* Data, files and texts are worked out once each, whichever links lead to them and whenever; data is
\* an error when a group of its digits has another size or ends the text.
WorkedOutOnce(lists, end) ==
  \A c \in TaggedCells(lists, {<<"D">>, <<"F">>, <<"E">>, <<"CSV">>}) :
    LET e == lists[c[1]][c[2]]
    IN /\ end.lists[c[1]][c[2]] = [e EXCEPT !.tag = IF e.value = <<>> THEN @ ELSE <<>>,
                                            !.value = IF e.value = <<>> THEN @ ELSE WorkedOut(e)]
       /\ c \in end.errors <=> e.tag = <<"D">> /\ parsedata(e.value).err
LinksMeanTargets(lists) ==
  \A end \in {relinks(lists)} : LinksMean(lists, end) /\ WorkedOutOnce(lists, end)
=============================================================================
