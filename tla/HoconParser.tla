----------------------------- MODULE HoconParser -----------------------------
(***************************************************************************)
(* hoconT_parse_ctx::parse of src/conf/tbcfg_parse.cpp.  It is the parser  *)
(* of json_parser.cpp with one step more: behind a name the value may      *)
(* begin without a colon when it is an object or an array.  A bare word is *)
(* a lexeme of its own to the lexer; parse treats it as a string, and so   *)
(* it is one here.  The text is chosen lexeme by lexeme while it is read.  *)
(***************************************************************************)
EXTENDS JsonParser

CONSTANTS
  HoconTexts,    \* the lexemes of the texts
  MaxHoconText   \* how many of them a text has

ASSUME HoconAssumption == MaxHoconText \in Nat

\* The other steps look at one lexeme, these at two.
HoconWanted ==
  IF data # <<>> /\ \/ state = "WaitField" /\ lexem(1).id \in {"Str", "Int"}
                    \/ Len(nstack) = 1 /\ lexem(1).id \in DOMAIN CloseLexeme
    THEN 2 ELSE 1
HoconUnread == ~whole /\ error = NoError /\ Len(data) < HoconWanted
HoconTextGoesOn ==
  /\ HoconUnread /\ Len(read) + Len(data) < MaxHoconText
  /\ \E l \in HoconTexts : data' = Append(data, l)
  /\ UNCHANGED <<nodes, whole, read, state, lkey, nstack, root, error>>
HoconTextEnds ==
  /\ HoconUnread
  /\ whole' = TRUE
  /\ UNCHANGED <<nodes, data, read, state, lkey, nstack, root, error>>

\* The name of an object or an array is kept as the name of the next value,
\* where the next name, or the array, puts an end to it.
FirstInScopeWaits(open) == IF open = "OpenObj" THEN "WaitField" ELSE "WaitDataNC"
FirstInScope(open) == IF open = "OpenObj" THEN "WaitField" ELSE "WaitData"
HoconField ==
  /\ ReadingData /\ state = "WaitField"
  /\ lexem(1).id \in {"Str", "Int"} /\ Known(2) /\ lexem(2).id \in DOMAIN OpenLexeme
  /\ Take(2)
  /\ pushnode(OpenLexeme[lexem(2).id], lexem(1).str)
  /\ lkey' = lexem(1).str
  /\ state' = FirstInScope(lexem(2).id)
  /\ UNCHANGED <<root, error>>
HoconPlainField ==
  /\ ParseField
  /\ lexem(1).id \in {"Str", "Int"} => lexem(2).id \notin DOMAIN OpenLexeme

HoconStep ==
  \/ ParseFirst \/ ParseInvalid \/ ParseCloseMismatch \/ ParseClose
  \/ ParseData \/ ParseSeparator
  \/ HoconField \/ HoconPlainField

HoconInit == ParserInit /\ nodes = <<>> /\ data = <<>> /\ whole = FALSE
HoconNext == HoconTextGoesOn \/ HoconTextEnds \/ HoconStep

(***************************************************************************)
(* The grammar, by the places where a phrase that begins at i can end.     *)
(* JSON has it too, but for the colons.                                    *)
(***************************************************************************)
IdAt(t, i) == IF i <= Len(t) THEN t[i].id ELSE "EndSymbol"
IsValueName(t, i) ==
  IdAt(t, i) \in {"Str", "Int"} /\ IdAt(t, i + 1) \in {"Assign"} \cup DOMAIN OpenLexeme
AfterName(t, i) == IF IdAt(t, i + 1) = "Assign" THEN i + 2 ELSE i + 1

Phrases(t) ==
  LET ends[kind \in {"value", "members", "list"}, i \in 1 .. Len(t) + 2] ==
        LET closed(k, close) == {j + 1 : j \in {e \in ends[k, i + 1] : IdAt(t, e) = close}}
            after(k, js) == UNION {ends[k, j + 1] : j \in {e \in js : IdAt(t, e) = "Separator"}}
            member == IF IsValueName(t, i) THEN ends["value", AfterName(t, i)] ELSE {}
            value == ends["value", i]
        IN CASE kind = "value" ->
                  CASE IdAt(t, i) \in Scalar    -> {i + 1}
                    [] IdAt(t, i) = "OpenObj"   -> closed("members", "CloseObj")
                    [] IdAt(t, i) = "OpenArr"   ->
                         closed("list", "CloseArr")
                         \cup (IF IdAt(t, i + 1) = "CloseArr" THEN {i + 2} ELSE {})
                    [] OTHER -> {}
             [] kind = "members" -> {i} \cup member \cup after("members", member)
             [] kind = "list"    -> value \cup after("list", value)
  IN ends
IsHoconDocument(t) == IdAt(t, 1) = "OpenObj" /\ Len(t) + 1 \in Phrases(t)["value", 1]

\* What closes the scopes a text leaves open.
ClosersOf(t) ==
  FoldLeft(LAMBDA open, l :
             IF l.id \in DOMAIN OpenLexeme
               THEN <<[id |-> IF l.id = "OpenObj" THEN "CloseObj" ELSE "CloseArr"]>> \o open
             ELSE IF l.id \in DOMAIN CloseLexeme /\ open # <<>> THEN Tail(open) ELSE open,
           <<>>, t)
SomeValue == LexInt(<<"9">>, 9)
Endings == {<<>>, <<SomeValue>>, <<[id |-> "Assign"], SomeValue>>}
Completed(t) == {t \o e \o ClosersOf(t) : e \in Endings}

SaidByHocon(t) ==
  FlattenSeq([i \in DOMAIN t |->
    CASE t[i].id \in DOMAIN OpenLexeme  -> <<Open(OpenLexeme[t[i].id])>>
      [] t[i].id \in DOMAIN CloseLexeme -> <<Close>>
      [] IsValueName(t, i)              -> <<Name(t[i].str)>>
      [] t[i].id \in Scalar /\ ~IsValueName(t, i) -> <<Datum(t[i].data)>>
      [] OTHER -> <<>>])
\* What is read, up to a name whose value is not.
Complete == IF state = "WaitDataNC" /\ nodes[cnode].stype = "Object"
              THEN SubSeq(read, 1, Len(read) - 2) ELSE read
ClosedUp ==
  LET t == IF Complete # <<>> /\ Last(Complete).id = "Separator" THEN Front(Complete) ELSE Complete
  IN t \o ClosersOf(t)

\* The parser gives an error only for a text no ending makes a document of (or
\* that ends behind a name), it gives none before, and the nodes say at any
\* time what the text has said so far: the name that is kept over the bracket
\* of an array goes to none of its elements.
HoconMeetsGrammar ==
  /\ error = NoError /\ root # 0 =>
       /\ \E t \in Completed(read) : IsHoconDocument(t)
       /\ IsHoconDocument(ClosedUp)
       /\ Events(nodes, root) = SaidByHocon(ClosedUp)
  /\ error # NoError /\ read # <<>> /\ ~(whole /\ Last(read).id \in {"Str", "Int"}) =>
       \A t \in Completed(read) : ~IsHoconDocument(t)
=============================================================================
