----------------------------- MODULE MCLibrary -----------------------------
(***************************************************************************)
(* A small instance, for TLC, of the parts of the library that do not act  *)
(* on each other.  subject says which of them a behaviour is about; the    *)
(* other ones rest in an initial state.                                    *)
(***************************************************************************)
EXTENDS ArithCoding, Log, SharedStruct, ResourcePool, ConfExpand, HoconParser, BinMap, Dfa,
        ConfSchema, ConfText, CmdLine, Ciphers, Locale, TextTools, Serialize, Calendar, Files

CONSTANTS CommandFold   \* case folding of the names of options

VARIABLES subject,   \* the component a behaviour is about
          probe      \* a question to a component that keeps no state: kind, and what it is about

-----------------------------------------------------------------------------
(* Alphabets and texts of the coders. *)

MCRate(ch, f) == [ch |-> ch, freq |-> f]
MCRates == {<<MCRate("a", 1)>>, <<MCRate("b", 9), MCRate("a", 1), MCRate("c", 2)>>, <<MCRate("a", 2), MCRate("a", 1)>>}
MCAlphabet(r, w, s) == [rates |-> r, weight |-> w, single |-> s, transit |-> <<1>>]
MCAlphabets ==
  {<<MCAlphabet(r, 3, FALSE), MCAlphabet(<<MCRate("1", 1), MCRate("b", 1)>>, w, s)>> : r \in MCRates, w \in {1, 3}, s \in BOOLEAN}
  \cup {<<MCAlphabet(<<MCRate("1", 1)>>, 1, s), MCAlphabet(<<MCRate("a", 1)>>, 2, FALSE), MCAlphabet(<<MCRate("b", 5)>>, 1, TRUE)>>
        : s \in BOOLEAN}
MCNgAlphabets == {<<[chars |-> <<"a", "b">>, ngramm |-> n, single |-> FALSE],
                    [chars |-> <<"1", "b">>, ngramm |-> 1, single |-> s]>> : n \in 1 .. 2, s \in BOOLEAN}
MCLearned == {<<>>, <<"a">>, <<"b", "1", "b">>, <<"a", "b", " ">>, <<"a", " ", " ">>}

\* Three-grams with the first line alone; and ten characters the learned text has not beside
\* two it has, whose rates break the table.
MCFlat == <<[chars |-> <<"a", "b">>, ngramm |-> 3, single |-> FALSE, rates |-> [l \in {0} |-> <<0, 0, 3, 1>>]]>>
MCSparse == <<[chars |-> <<"a", "b", "c", "d", "e", "f", "g", "h", "i", "j", "k", "l">>, ngramm |-> 1, single |-> FALSE,
               rates |-> [l \in {0} |-> [i \in 1 .. 14 |-> CASE i = 3 -> 5 [] i = 4 -> 1 [] OTHER -> 0]]]>>

MCCoders == {PreparedC(r) : r \in MCRates} \cup {PreparedM(a) : a \in MCAlphabets}
            \cup {PreparedNg(LearnedRates(a, {" "}, d)) : a \in MCNgAlphabets, d \in MCLearned}
            \cup {PreparedNg(MCFlat), PreparedNg(MCSparse)}
MCCodedTexts == <<UNION {[1 .. n -> {"a", "b", "1", "nul"}] : n \in 0 .. 3}, {<<"a">>}>>

-----------------------------------------------------------------------------
(* Handles, variables, documents, lexemes, words. *)

MCOwner == (1 :> "t1") @@ (2 :> "t1") @@ (3 :> "t2")

Pct(n) == <<"%", n, "%">>
MCEnvKeys == <<<<"a">>, <<"b">>, <<"f">>>>
MCEnvTexts == {<<>>, <<"1">>, Pct("a"), Pct("b"), Pct("o"), Pct("u"), Pct("A") \o <<"1">>, <<"%", "%">>, <<"%", "a">>, Pct("b") \o Pct("o")}
MCEnvOuter == (<<"o">> :> <<"1", "1">>) @@ (<<"p">> :> Pct("p"))
MCEnvFold == ("A" :> "a")
MCLine(n, t, eq, sep) == [name |-> n, text |-> t, eq |-> eq, sep |-> sep]
MCEnvFiles == {<<MCLine(<<"A">>, Pct("b"), TRUE, TRUE), MCLine(<<"b">>, Pct("p"), TRUE, s), MCLine(<<"b">>, <<"1">>, TRUE, TRUE)>> : s \in BOOLEAN}
              \cup {<<MCLine(<<"b">>, <<"1">>, FALSE, TRUE), MCLine(<<"a">>, <<"1">>, TRUE, TRUE)>>}

Ob(ps) == [stype |-> "Object", a_data |-> <<>>, named_props |-> ps]
Arr(vs) == [stype |-> "Array", a_data |-> vs, named_props |-> <<>>]
Pr(k, v) == property(<<k>>, v)
PrText(k, t) == property(k, StrVariant(t))
NodeOf(tp, n) == [type |-> tp, node |-> n]

MCDisable == <<"!">>
MCFiledirName == <<"F">>
MCFiledirText == <<"1">>
MCDocuments ==
  {<<Ob(<<PrText(Pct("a"), t), PrText(Pct("b"), u), PrText(<<"x">>, v)>>)>> :
     t \in {Pct("b"), <<"1">>, Pct("b") \o Pct("o")}, u \in {Pct("a"), Pct("f"), Pct("u"), <<"1">>}, v \in {Pct("a"), Pct("A") \o Pct("u")}}
  \cup {<<Ob(<<Pr("!", x), PrText(Pct("a"), <<"1">>), Pr("x", NodeOf("Object", 2)), Pr("y", NodeOf("Array", 3))>>),
          Ob(<<Pr("x", NodeOf("Array", 4)), Pr("!", y), PrText(<<"y">>, Pct("a"))>>),
          Arr(<<StrVariant(Pct("a")), StrVariant(Pct("u"))>>), Arr(<<StrVariant(Pct("a"))>>)>> :
          x \in {BoolVariant(FALSE), BoolVariant(TRUE), IntVariant(1)}, y \in {BoolVariant(FALSE), BoolVariant(TRUE)}}
  \cup {<<Ob(<<Pr("x", NodeOf("Array", 2)), PrText(Pct("b"), <<"1">>)>>), Arr(<<NodeOf("Object", 3), StrVariant(Pct("b"))>>),
          Ob(<<property(Pct("a"), v), PrText(<<"y">>, Pct("a") \o <<"%">>)>>)>> : v \in {IntVariant(1), StrVariant(Pct("b"))}}

MCHoconTexts ==
  {LexStr(<<"a">>), LexInt(<<"9">>, 9), Invalid} \cup {[id |-> Punctuation[c]] : c \in DOMAIN Punctuation}

MCBits == {0, 1}
Sy(m, c) == [mask |-> m, chars |-> c]
MCSymbols == {Sy({0}, {{}}), Sy({1}, {{1}}), Sy({0, 1}, {{0}}), Sy({0, 1}, {{1}, {0, 1}})}
MCDfaWords == {[syms |-> <<a>>, ud |-> 1] : a \in MCSymbols} \cup {[syms |-> <<a, b>>, ud |-> 2] : a \in MCSymbols, b \in MCSymbols}
              \cup {[syms |-> <<a, Sy({0}, {{0}})>>, ud |-> 3] : a \in MCSymbols}

-----------------------------------------------------------------------------
(* Questions to the readers. *)

I(n) == IntVariant(n)
F(h) == [type |-> "Float", f |-> h]   \* h halves
T(t) == StrVariant(t)
Leaf(type, must) == Ob(<<property(fTypeKey, type), property(fMandatoryKey, must)>>)
LeafTypes == {I(0), T(<<>>), T(<<"1">>), NodeOf("Array", 3)}

\* A rule for the field a, another one for the fields "...", and a list of types.
MCSchemas ==
  {<<Ob(<<Pr("a", NodeOf("Object", 2)), property(k, NodeOf("Object", 4))>>), Leaf(t, m), Arr(<<I(0), BoolVariant(TRUE)>>), Leaf(I(0), n)>> :
     t \in LeafTypes, m \in {I(0), I(1), BoolVariant(TRUE)}, k \in {AnyName, <<"b">>, <<"A">>}, n \in {I(0), BoolVariant(TRUE)}}
  \cup {<<Ob(<<Pr("a", NodeOf("Object", 2))>>), Ob(<<property(fObjectKey, NodeOf("Array", 3))>> \o ps),
          Arr(<<NodeOf("Object", 4), NodeOf("Object", 5)>>), Leaf(I(0), I(0)), Ob(<<property(fObjectKey, NodeOf("Object", 6))>>),
          Ob(<<Pr("b", NodeOf("Object", 7))>>), Leaf(T(<<"1">>), I(m))>> :
          ps \in {<<>>, <<property(fMandatoryKey, I(1))>>, <<property(fTypeKey, NodeOf("Array", 8))>>, <<property(fTypeKey, NodeOf("Object", 4))>>},
          m \in {0, 1}}
  \cup {<<Ob(<<Pr("a", NodeOf("Object", 2))>>), Leaf(NodeOf("Array", 3), I(m)), Arr(<<NodeOf(n.stype, 4)>>), n>> :
          n \in {Ob(<<>>), Arr(<<>>)}, m \in {0, 1}}
MCLoadable(s) == \A n \in DOMAIN s : \A p \in ToSet(s[n].named_props) : isObjectType(p.data) => p.data.node \in DOMAIN s
MCValues == {I(1), T(<<>>), T(<<"a">>), BoolVariant(TRUE)}
MCChecked ==
  {<<Ob(<<Pr(j, v), Pr(k, w)>>)>> : j \in {"a", "c"}, v \in MCValues, k \in {"A", "b"}, w \in MCValues}
  \cup {<<Ob(<<>>)>>, <<Arr(<<I(1)>>)>>} \cup {<<Ob(<<Pr("a", NodeOf(n.stype, 2))>>), n>> : n \in {Arr(<<>>), Ob(<<Pr("b", I(1))>>)}}
  \cup {<<Ob(<<Pr("a", NodeOf("Array", 2))>>), Arr(<<v, NodeOf("Object", 3)>>), Ob(ps)>> :
          v \in MCValues, ps \in {<<>>} \cup {<<Pr("b", w)>> : w \in MCValues}}

\* Fields with and without a key, arrays shorter than others, containers and values under one key.
MCCompared ==
  {<<Ob(<<Pr(j, v), Pr("b", NodeOf("Object", 2))>>), Ob(<<Pr("b", w)>>)>> :
     j \in {"a", "A", "/"}, v \in {I(1), F(2), F(3), T(<<"1">>)}, w \in {I(1), BoolVariant(TRUE), F(3)}}
  \cup {<<Ob(<<Pr("b", NodeOf("Array", 2)), Pr("a", I(1))>>), Arr(vs)>> : vs \in {<<>>, <<I(1)>>, <<I(1), F(3)>>}}
  \cup {<<Ob(<<Pr(k, I(1)), property(<<>>, v)>>)>> : k \in {"a", "/"}, v \in {I(1), BoolVariant(TRUE)}}
  \cup {<<Ob(<<Pr("b", v)>>)>> : v \in {BoolVariant(TRUE), F(2)}}
  \cup {<<Ob(<<>>)>>, <<Ob(<<property(<<>>, NodeOf("Object", 2))>>), Ob(<<property(<<>>, I(1))>>)>>,
         <<Arr(<<I(1), NodeOf("Array", 2)>>), Arr(<<F(3)>>)>>, <<Arr(<<I(1)>>)>>}

SeqsUpTo(S, n) == UNION {[1 .. k -> S] : k \in 0 .. n}

MCIniWords == {<<"a">>, <<"b", "1">>}
MCIniMembers == {<<>>} \cup {<<<<k, v>>>> : k \in MCIniWords, v \in {<<>>, <<"1">>, <<"a", " ", "b">>, <<"1", "=">>}}
MCIniTrees == {<<[name |-> <<>>, members |-> m], [name |-> n, members |-> o]>> : m \in MCIniMembers, n \in MCIniWords, o \in MCIniMembers}

MCCell(k, g, v, s) == [key |-> k, tag |-> g, value |-> v, sub |-> s]
MCPlainCells == {MCCell(k, g, v, NoList) : k \in {<<>>, <<"a">>}, g \in {<<>>, <<"x">>},
                                           v \in {<<>>, <<"1">>, <<";", NewLine, "}">>, <<NewLine, Quote>>}}
MCCells == MCPlainCells \cup {MCCell(<<"b">>, <<>>, <<>>, <<s>>) : s \in {<<>>} \cup {<<c>> : c \in MCPlainCells}}

\* Links to cells, through a list, to nowhere; texts with a directory that has another one's name in
\* it, names of files, and data with groups of each kind and at the end of the text.
MCPrgDir == <<"1">>
MCCfgDir == <<"%", "prg", "%">>
MCCfgFiles == (<<"%", "prg", "%">> :> <<"2", "1">>) @@ (<<"1">> :> <<>>)
MCTaggedTexts == {<<<<>>, <<"1">>>>, <<<<"E">>, <<"%", "search", "%">>>>, <<<<"F">>, <<"%", "search", "%">>>>, <<<<"F">>, <<"1">>>>,
                <<<<"D">>, <<"0", "x", "1", "2", "f", "E", ";", "a", "1", ".">>>>, <<<<"D">>, <<"a", "1">>>>}
MCLinkCells(subs) == {MCCell(k, g[1], g[2], 0) : k \in {<<"a">>, <<"b">>},
                        g \in MCTaggedTexts \cup {<<<<"L">>, p>> : p \in {<<"a">>, <<"1">>, <<"b", "/", "0">>, <<"u">>}}}
                     \cup {MCCell(k, <<>>, <<>>, s) : k \in {<<"b">>}, s \in subs}
MCLinkLists == {l \in {<<cs, <<e>>>> : cs \in {<<c, d>> : c \in MCLinkCells({2}), d \in MCLinkCells({})}
                                       \cup {<<c, d>> : c \in MCLinkCells({}), d \in MCLinkCells({2})},
                               e \in MCLinkCells({})} : \E i \in 1 .. 2 : l[1][i].sub = 2}

MCOpt(n, v) == [opt |-> TRUE, name |-> n, value |-> v]
MCArgs == {MCOpt(n, v) : n \in {<<"c">>, <<"C">>, <<"u">>, <<"n">>}, v \in {<<>>, <<"1">>}}
          \cup {[opt |-> FALSE, value |-> v] : v \in {<<>>, <<"2">>, <<"3">>}}
MCOptSets == {<<[ids |-> <<<<"c">>, <<"d">>>>], [ids |-> <<<<"u">>>>]>>, <<[ids |-> <<<<"c">>, <<"u">>>>], [ids |-> <<<<"C">>>>]>>}
MCCommandFold == (<<"C">> :> <<"c">>) @@ (<<"c">> :> <<"c">>) @@ (<<"d">> :> <<"d">>) @@ (<<"u">> :> <<"u">>)

\* The texts of test_hash.cpp and of md5.cpp's list, and the ones of test_chifer.cpp.
MCDigits(n) == [i \in 1 .. n |-> 48 + (i % 10)]
MCPublished ==
  {<<"MD5", MCDigits(7), <<252, 234, 146, 15, 116, 18, 181, 218, 123, 224, 207, 66, 184, 201, 55, 89>>>>,
   <<"SHA256", MCDigits(7), <<139, 176, 207, 110, 185, 177, 125, 15, 125, 34, 180, 86, 241, 33, 37, 125, 193, 37, 78, 31, 1, 102, 83, 112, 71, 99, 131, 234, 119, 109, 244, 20>>>>,
   <<"MD5", MCDigits(10), <<232, 7, 241, 252, 248, 45, 19, 47, 155, 176, 24, 202, 103, 56, 161, 159>>>>,
   <<"SHA256", MCDigits(10), <<199, 117, 231, 183, 87, 237, 230, 48, 205, 10, 161, 17, 59, 209, 2, 102, 26, 179, 136, 41, 202, 82, 166, 66, 42, 183, 130, 134, 47, 38, 134, 70>>>>,
   <<"MD5", <<>>, <<212, 29, 140, 217, 143, 0, 178, 4, 233, 128, 9, 152, 236, 248, 66, 126>>>>,
   <<"MD5", MCDigits(80), <<87, 237, 244, 162, 43, 227, 201, 85, 172, 73, 218, 46, 33, 7, 182, 122>>>>}
MCUnikey(n) == [i \in 1 .. n |-> LET k == (i - 1) % 16 IN IF k < 10 THEN 48 + k ELSE 87 + k]
MCDatas == [i \in 1 .. 16 |-> IF i % 2 = 1 THEN 48 + i \div 2 ELSE 45]
MCVectors ==
  {<<24, "CBC", <<50, 243, 45, 98, 95, 154, 24, 161, 157, 208, 18, 192, 85, 70, 104, 147>>>>,
   <<24, "ECB", <<198, 137, 94, 54, 94, 181, 74, 32, 196, 146, 78, 70, 189, 108, 103, 86>>>>,
   <<32, "CBC", <<74, 63, 175, 124, 183, 160, 143, 14, 61, 120, 109, 157, 76, 94, 157, 132>>>>,
   <<32, "ECB", <<78, 215, 214, 17, 1, 132, 243, 82, 228, 207, 136, 9, 249, 170, 52, 193>>>>,
   <<16, "ECB", <<124, 223, 243, 173, 45, 173, 142, 166, 6, 144, 100, 126, 7, 39, 190, 229>>>>,
   <<16, "CBC", <<117, 131, 103, 119, 125, 73, 79, 236, 125, 230, 85, 188, 21, 247, 20, 37>>>>}
MCBytes(n) == [i \in 1 .. n |-> (i * 37) % 256]
MCCuts == {0, 1, 55, 56, 64, 65, 119, 128}
MCInParts(n, i, j) == <<MCBytes(i), SubSeq(MCBytes(n), i + 1, j), SubSeq(MCBytes(n), j + 1, n)>>
MCPartSizes == {<<>>, <<0>>, <<16, 32>>, <<17, 15>>, <<5>>, <<33>>}
MCPartsOf(sizes) == [i \in DOMAIN sizes |-> MCBytes(sizes[i])]

\* Characters of one to four bytes; upper cases as long as the lower ones, and one that is not.
MCUpperUnit == (97 :> 65) @@ (233 :> 201) @@ (305 :> 73) @@ (98 :> 66)
MCPoints == {97, 65, 66, 233, 8364, 66600}
MCCaseTexts == SeqsUpTo({97, 65, 233, 66600}, 2) \cup [1 .. 3 -> {97, 65, 66600}]

MCPiece(l, f, w, e, t) == [lit |-> l, flags |-> f, width |-> w, len |-> e, type |-> t]
MCPieces == {MCPiece(<<>>, <<>>, <<>>, <<>>, "d"), MCPiece(<<"a">>, <<"-">>, <<"5">>, <<>>, "s"),
             MCPiece(<<"d", "5">>, <<"+">>, <<"5">>, <<"l">>, "d"), MCPiece(<<>>, <<"-", "0">>, <<"2">>, <<"l", "l">>, "x"),
             MCPiece(<<"-">>, <<>>, <<"1", "2">>, <<>>, "s"), MCPiece(<<>>, <<>>, <<"1", "2">>, <<"l">>, "x")}
MCFormatArgs == {[kind |-> k, d |-> d] : k \in {"string", "int", "int64"}, d \in {<<>>, <<"1", "2", "5">>}}

MCNode(d, s, l, r) == [dai8 |-> d, sa |-> s, left |-> l, right |-> r]
MCLeaf == MCNode(<<>>, <<>>, <<>>, <<>>)
MCTrees == {MCLeaf, MCNode(<<1>>, <<>>, <<MCLeaf>>, <<>>), MCNode(<<1>>, <<>>, <<MCNode(<<2, 3>>, <<<<5>>>>, <<>>, <<>>)>>, <<>>),
            MCNode(<<>>, <<<<2>>>>, <<MCLeaf>>, <<MCNode(<<7, 0, 255>>, <<<<1>>, <<>>>>, <<>>, <<>>)>>)}

\* Years at the ends of cycles; times where the double's steps change, and ones that lose a
\* millisecond; texts of dates with and without zones.
MCYears == (1 .. 5) \cup {99, 100, 101, 399, 400, 401, 1582, 1600, 1601, 1899, 1900, 1904, 1970, 1999, 2000, 2001, 2023, 2024, 2096, 2100, 2400, 9999}
MCTimes == [wYear : {1970, 1987, 1988, 2004, 2022, 2024, 2039, 2110}, wMonth : {1, 6, 12}, wDay : {1, 30}, wHour : {0, 23},
            wMinute : {59}, wSecond : {59}, wMilliseconds : {0, 1, 14, 20, 21, 28, 42, 49, 444, 500, 555, 998, 999}]
MCZones == [east : {0, 10800, -18000}, summer : {0, 3600}, months : {4 .. 9}]
MCMoments ==
  {q \in [kind : {"moment"}, zone : MCZones, seps : {<<".", ".", " ", ":", ":">>, <<"-", "/", "T", ":", ":">>, <<"-", "-", " ", ":", " ">>},
          nums : {<<2022, 5, 5, 10, 22, 22>>, <<1970, 1, 2, 0, 0, 0>>, <<1970, 1, 1, 0, 0, 0>>, <<1969, 12, 31, 23, 0, 0>>,
                  <<2000, 2, 29, 23, 59, 59>>, <<2024, 12, 31, 0, 0, 1>>, <<2022, 5, 5>>, <<2022, 5, 5, 10, 22>>},
          sign : {<<>>, <<"+">>, <<"-">>, <<" ", "-">>, <<"+", "+">>, <<" ">>}, east : {<<>>, <<3, 0>>, <<3>>, <<13, 0>>, <<5, 60>>, <<5, 30>>}] :
     (q.sign = <<>> => q.east = <<>>) /\ (Len(q.nums) = 6 \/ q.seps[1] = ".")}

\* Trees of files.  In the first one z is a file where the source has an empty directory; in the
\* second one a name has another kind in the target; the third one has a directory too large.
MCDirs(ps) == [p \in ps |-> Directory]
MCFileAt(p, d) == p :> FileOf(d)
MCTreesOfFiles ==
  {MCDirs({<<"s">>, <<"s", "a">>, <<"s", "z">>, <<"t">>}) @@ MCFileAt(<<"s", "a", "f">>, <<1, 2, 3>>) @@ MCFileAt(<<"t", "z">>, <<1>>),
   MCDirs({<<"s">>, <<"s", "a">>, <<"t">>, <<"t", "f">>, <<"t", "a">>}) @@ MCFileAt(<<"s", "f">>, <<1>>) @@ MCFileAt(<<"s", "a", "z">>, <<>>)
     @@ MCFileAt(<<"t", "a", "z">>, <<1, 2>>),
   MCDirs({<<"s">>, <<"s", "a">>, <<"s", "a", "s">>}) @@ MCFileAt(<<"s", "a", "f">>, <<1>>) @@ MCFileAt(<<"s", "a", "z">>, <<2>>) @@ MCFileAt(<<"t">>, <<>>),
   MCDirs({<<"s">>, <<"s", "a">>, <<"t">>, <<"t", "a">>}) @@ MCFileAt(<<"s", "f">>, <<1, 2, 4>>) @@ MCFileAt(<<"s", "a", "f">>, <<1, 2, 3>>)}
MCDenied == {{}} \cup {{<<call, p>>} : call \in {"info", "list", "open", "remove", "copy", "make"},
                                      p \in {<<"s">>, <<"t">>, <<"s", "a">>, <<"t", "a">>, <<"s", "a", "f">>, <<"t", "a", "f">>, <<"t", "f">>, <<"t", "z">>}}
MCSystems == [os : {"windows", "linux"}, at : MCTreesOfFiles, order : {<<"a", "f", "s", "t", "z">>, <<"z", "t", "s", "f", "a">>},
              fails : MCDenied, net : BOOLEAN, env : {"v" :> <<"s", "a">>}]
MCWays == {<<"s">>, <<"t">>, <<"s", "a">>, <<"t", "f", "a">>}
MCFilePaths == {<<"s">>, <<"s", "f">>, <<"s", "a", "f">>, <<"t", "f">>, <<"t", "z">>, <<"u", "f">>}

\* The questions of each kind.
MCQuestions ==
  [validate |-> [kind : {"validate"}, s : {s \in MCSchemas : MCLoadable(s)}, d : MCChecked],
   compare |-> [kind : {"compare"}, l : MCCompared, r : MCCompared, ip : {{}, {<<<<"b">>, <<"b">>>>}, {<<>>}}, ik : {{}, {<<"a">>}, {<<>>}}],
   json |-> [kind : {"json"}, text : SeqsUpTo({Quote, Backslash, "t", "{", "-", "0", "x", "true", "E"}, 3)],
   comment |-> [kind : {"comment"}, text : SeqsUpTo({Quote, "E", "a", "#", NewLine, "0", "x"}, 2),
                note : SeqsUpTo({"#", Quote, "a"}, 1), more : {<<>>, <<"a">>, <<"{">>}],
   ini |-> [kind : {"ini"}, tree : MCIniTrees, blanks : {<<>>, <<" ">>},
            between : {<<>>, <<NewLine>>, <<"#", "=", "1", NewLine>>, <<"a", NewLine>>}],
   list |-> [kind : {"list"}, cells : SeqsUpTo(MCCells, 2), between : {<<NewLine>>, <<"/", "/", ";", NewLine>>}],
   links |-> [kind : {"links"}, lists : MCLinkLists],
   path |-> [kind : {"path"}, p : SeqsUpTo({"a", ".", "/", "bs", ":"}, 4)],
   line |-> [kind : {"line"}, args : SeqsUpTo({<<>>, <<"a">>, <<"a", " ", "b">>, <<" ">>}, 3), blanks : {<<" ">>, <<" ", " ">>}],
   options |-> [kind : {"options"}, opts : MCOptSets, args : SeqsUpTo(MCArgs, 3), asked : {<<<<"c">>, <<"D">>, <<"C">>>>}],
   copy |-> {q \in [kind : {"copy"}, fs : MCSystems, dest : MCWays, src : {<<"s">>, <<"t">>, <<"s", "a">>, <<"u">>}] :
               ~IsPrefix(q.src, q.dest) /\ ~IsPrefix(q.dest, q.src)},
   erase |-> {q \in [kind : {"erase"}, fs : MCSystems, path : MCWays] : ~q.fs.net},
   walk |-> {q \in [kind : {"walk"}, fs : MCSystems, base : MCWays, options : SUBSET {"efReadDir_RelFileName", "efReadDir_IncDirs"},
                    stop : {{}, {<<"s", "a", "f">>, <<"t", "a">>}}] : ~q.fs.net /\ q.fs.order[1] = "a"},
   contents |-> {q \in [kind : {"contents"}, fs : MCSystems, l : MCFilePaths, r : MCFilePaths] : ~q.fs.net /\ q.fs.order[1] = "a"},
   search |-> {q \in [kind : {"search"}, fs : MCSystems, dirs : {<<>>, <<<<"t">>, <<"v">>, <<"s">>>>, <<<<"s">>, <<>>>>}, name : {<<"f">>, <<>>},
                      path : {<<>>, <<"u">>, <<"t", "a", "f">>, <<"u", "a", "f", "z">>}] : q.fs.order[1] = "a"},
   digest |-> {[kind |-> "digest", hid |-> h, parts |-> MCInParts(n, i, j)] :
                 h \in {"MD5", "SHA256"}, <<n, i, j>> \in {c \in MCCuts \X MCCuts \X MCCuts : c[2] <= c[3] /\ c[3] <= c[1]}},
   published |-> {[kind |-> "published", hid |-> v[1], text |-> v[2], digest |-> v[3]] : v \in MCPublished},
   stretch |-> [kind : {"stretch"}, hid : {"MD5", "SHA256"}, d : {<<>>, MCBytes(3)}, n : 0 .. 2, size : {1, 16, 17, 40}],
   vector |-> {[kind |-> "vector", key |-> MCUnikey(v[1]), method |-> v[2], iv |-> MCUnikey(16), text |-> MCDatas, coded |-> v[3]] : v \in MCVectors},
   cipher |-> [kind : {"cipher"}, method : {"ECB", "CBC", "CTR"}, key : {MCUnikey(16)}, iv : {[i \in 1 .. 16 |-> 255 - i \div 16], [i \in 1 .. 16 |-> 255]},
               parts : {MCPartsOf(z) : z \in MCPartSizes}],
   key |-> [kind : {"key"}, resA : {MCBytes(n) : n \in {0, 5, 16, 24, 32, 40}}, resS : {MCBytes(n) : n \in {0, 3, 33}}, size : {16, 24, 32}],
   widths |-> [kind : {"widths"}, ps : SeqsUpTo(MCPoints, 3), before : {<<>>, <<66600, 97>>}],
   order |-> [kind : {"order"}, ps : MCCaseTexts, qs : MCCaseTexts, rs : {<<>>, <<97>>, <<66600>>, <<66, 233>>}],
   case |-> [kind : {"case"}, ps : SeqsUpTo({97, 65, 233, 66600, 305}, 3), bad : {<<>>, <<255>>, <<195>>, <<255, 97>>}],
   valid |-> [kind : {"valid"}, text : SeqsUpTo({97, 195, 169, 226, 240, 255}, 4), behind : {<<0, 0, 0>>, <<130, 130, 130>>}],
   split |-> [kind : {"split"}, text : SeqsUpTo({"a", "b"}, 5), behind : {<<>>, <<"b">>},
              part : {<<"a">>, <<"a", "b">>, <<"a", "a">>, <<"a", "b", "a">>}],
   parts |-> [kind : {"parts"}, text : SeqsUpTo({"a", "b", " "}, 5), sep : {"a", " "}],
   format |-> {[kind |-> "format", pieces |-> p, last |-> l, args |-> a] :
                 <<p, l, a>> \in {x \in SeqsUpTo(MCPieces, 2) \X {<<>>, <<"a", "5">>} \X SeqsUpTo(MCFormatArgs, 2) : Len(x[3]) <= Len(x[1])}},
   stream |-> [kind : {"stream"}, writes : SeqsUpTo(SeqsUpTo({"a", "b"}, 3), 2), capa : 1 .. 3],
   dates |-> [kind : {"dates"}, year : MCYears],
   times |-> [kind : {"times"}, time : MCTimes],
   moment |-> MCMoments,
   tree |-> {q \in [kind : {"tree"}, tree : MCTrees, before : {MCBytes(n) : n \in {0, 1, 60, 150}}, at : {0, 1, 60, 150},
                    behind : {<<>>, <<1, 2>>}, keys : {<<>>, <<<<1>>, <<1, 2>>>>}] : q.at \in {0, Len(q.before)}},
   spoilt |-> [kind : {"spoilt"}, tree : MCTrees, place : 0 .. 60, byte : {1, 128, 244}],
   shuffle |-> [kind : {"shuffle"}, key : {MCBytes(n) : n \in {0, 5, 16, 19}}, data : {MCBytes(n) : n \in {0, 1, 2, 7, 20}}]]
NoQuestion == [kind |-> "none"]

-----------------------------------------------------------------------------
(* What the components that keep no state promise, for one question at a   *)
(* time: a schema and a document, two documents, a text of one of the      *)
(* formats, lists with links, a path, a command line, a text in another    *)
(* width or case, a digest, a cipher, a serialized tree.                   *)

\* A schema decides what its rules say, and a comparison what a place-by-place look says.
SchemaMeansWhatItSays ==
  /\ probe.kind = "validate" => ValidatorMeetsSchema(probe.s, probe.d)
  /\ probe.kind = "compare"  => ComparisonMeansCover(probe.l, probe.r, probe.ip, probe.ik)

\* A text that is written by the rules of its format is read as what was written, with blanks,
\* comments and ends of lines in it; links are what they lead to; and HOCON's lexer agrees
\* with JSON's on JSON's texts.  A text is the same in either width and sorts and hashes without
\* regard to case as its upper case does, wherever a buffer cuts it; it comes apart at its
\* separators and together again, a format shows each argument in its place, and a stream with a
\* small buffer hands on what was written.  Dates, times and the texts of dates mean the same
\* moment in each of the forms the library keeps them in.
TextsMeanWhatTheySay ==
  /\ probe.kind = "json"    => HoconReadsJson(probe.text)
  /\ probe.kind = "comment" => HoconSkipsComments(probe.text, probe.note, probe.more)
  /\ probe.kind = "ini"     => IniReadsBack(probe.tree, probe.blanks, probe.between)
  /\ probe.kind = "list"    => ListReadsBack(probe.cells, probe.between)
  /\ probe.kind = "links"   => LinksMeanTargets(probe.lists)
  /\ probe.kind = "widths"  => WidthsAgree(probe.ps, probe.before)
  /\ probe.kind = "order"   => CaselessOrder(probe.ps, probe.qs, probe.rs)
  /\ probe.kind = "case"    => CaseKeepsPlaces(probe.ps, probe.bad)
  /\ probe.kind = "valid"   => ValidationReadsForms(probe.text, probe.behind)
  /\ probe.kind = "split"   => SplitComesTogether(probe.text, probe.behind, probe.part)
  /\ probe.kind = "parts"   => PartsKeepText(probe.text, probe.sep)
  /\ probe.kind = "format"  => FormatMeansPlaces(probe.pieces, probe.last, probe.args)
  /\ probe.kind = "stream"  => StreamHandsOn(probe.writes, probe.capa)
  /\ probe.kind = "dates"   => DatesComeBack(probe.year)
  /\ probe.kind = "times"   => TimesComeBack(probe.time) /\ FormatShowsFields(probe.time)
  /\ probe.kind = "moment"  => TextMoment(probe.nums, probe.seps, probe.sign, probe.east, probe.zone)

\* A path is its parts again, and a command line gives each option the values that stood
\* behind it and tells of every option nobody asked for.  A call that reports it has copied, erased,
\* listed or compared files has done so, and to them alone; one that does not had a reason.
CommandsMeanWhatTheySay ==
  /\ probe.kind = "path"    => PathsComeApart(probe.p)
  /\ probe.kind = "line"    => ArgumentsComeBack(probe.args, probe.blanks)
  /\ probe.kind = "options" =>
       /\ OptionsHaveTheirValues(probe.opts, probe.args, CommandFold)
       /\ UnknownOptionsAreTold(probe.args, probe.asked, CommandFold)
  /\ probe.kind = "copy"     => CopyMeansSame(probe.fs, probe.dest, probe.src)
  /\ probe.kind = "erase"    => EraseMeansEmpty(probe.fs, probe.path)
  /\ probe.kind = "walk"     => ListingMeansTree(probe.fs, probe.base, probe.options, probe.stop)
  /\ probe.kind = "contents" => CompareMeansEqual(probe.fs, probe.l, probe.r)
  /\ probe.kind = "search"   => PathsAreFound(probe.fs, probe.dirs, probe.name, probe.path)

\* A digest is the published one and depends on the text, not on the calls that brought it; a
\* cipher's block is the published one and its texts come back; keys have their sizes; and a
\* transposition loses nothing.  What was serialized is read again, and a tree whose bytes were
\* spoilt or cut off is told from a whole one by the digests of its frames.
DigestsAndCiphersMeetStandard ==
  /\ probe.kind = "digest"    => DigestIgnoresCuts(probe.hid, probe.parts)
  /\ probe.kind = "published" => DigestIsPublished(probe.hid, probe.text, probe.digest)
  /\ probe.kind = "stretch"   => HashesAreStretched(probe.hid, probe.d, probe.n, probe.size)
  /\ probe.kind = "vector"    => full_encode(MakeAes(probe.method, probe.key, probe.iv), probe.text) = probe.coded
  /\ probe.kind = "cipher"    =>
       LET c == MakeAes(probe.method, probe.key, probe.iv)
       IN  CipherGivesBack(c, probe.parts) /\ PaddingKeepsText(c, FlattenSeq(probe.parts), probe.iv)
  /\ probe.kind = "key"       =>
       /\ KeyHasItsSize(probe.resA, probe.resS, probe.size)
       /\ ~MakeThrows(initKey(probe.resA, probe.resS, probe.size), defkey)
  /\ probe.kind = "shuffle"   => TranspositionMovesAll(probe.key, probe.data)
  /\ probe.kind = "tree"      => SerializedComesBack(probe.tree, probe.before, probe.at, probe.behind, probe.keys)
  /\ probe.kind = "spoilt"    => SpoiltIsTold(probe.tree, probe.place, probe.byte)

-----------------------------------------------------------------------------
(* One subject at a time. *)

Subjects == {"coder", "log", "struct", "pool", "document", "hocon", "map", "dfa"} \cup DOMAIN MCQuestions

MCInit ==
  /\ subject \in Subjects
  /\ ArithInit /\ (subject # "coder" => coder = PreparedC(<<MCRate("a", 1)>>))
  /\ LogInit /\ (subject # "log" => level = 0)
  /\ StructInit /\ (subject # "struct" => fdata = [h \in StructHandles |-> NoStruct] /\ \A s \in Structs : value[s] = 1)
  /\ PoolInit /\ DocInit /\ HoconInit /\ MapInit /\ DfaInit
  /\ probe = NoQuestion

OthersRest ==
  /\ UNCHANGED subject
  /\ IF subject \in DOMAIN MCQuestions THEN TRUE ELSE UNCHANGED probe
  /\ IF subject = "coder"    THEN TRUE ELSE UNCHANGED arithVars
  /\ IF subject = "log"      THEN TRUE ELSE UNCHANGED logVars
  /\ IF subject = "struct"   THEN TRUE ELSE UNCHANGED sharedVars
  /\ IF subject = "pool"     THEN TRUE ELSE UNCHANGED poolVars
  /\ IF subject = "document" THEN TRUE ELSE UNCHANGED <<envVars, docVars>>
  /\ IF subject = "hocon"    THEN TRUE ELSE UNCHANGED parserVars
  /\ IF subject = "map"      THEN TRUE ELSE UNCHANGED mapVars
  /\ IF subject = "dfa"      THEN TRUE ELSE UNCHANGED dfaVars

MCNext ==
  \/ subject = "coder" /\ ArithNext /\ OthersRest
  \/ subject = "log" /\ LogNext /\ OthersRest
  \/ subject = "struct" /\ StructNext /\ OthersRest
  \/ subject = "pool" /\ PoolNext /\ OthersRest
  \/ subject = "document" /\ DocNext /\ OthersRest
  \/ subject = "hocon" /\ HoconNext /\ OthersRest
  \/ subject = "map" /\ MapNext /\ OthersRest
  \/ subject = "dfa" /\ DfaNext /\ OthersRest
  \/ subject \in DOMAIN MCQuestions /\ probe = NoQuestion /\ probe' \in MCQuestions[subject] /\ OthersRest

MCSpec == MCInit /\ [][MCNext]_<<subject, probe, arithVars, logVars, sharedVars, poolVars, envVars, docVars, parserVars, mapVars, dfaVars>>
=============================================================================
