------------------------------ MODULE JsonText ------------------------------
(***************************************************************************)
(* JSON text and its lexemes (src/conf/json_parser.cpp): screening of      *)
(* strings and json_parse_ctx::parseLexem.  A text is a sequence of        *)
(* characters, of which there are the few that matter; blanks, fractions   *)
(* and exponents are left out.  The words true and false are single        *)
(* characters here.                                                        *)
(***************************************************************************)
EXTENDS Integers, Sequences, SequencesExt, TLC

CONSTANT IntModulus    \* number of values of the type int: 2^32 in the code

ASSUME IntModulusAssumption == IntModulus \in Nat /\ IntModulus > 1 /\ IntModulus % 2 = 0

Quote     == "\""
Backslash == "\\"
Tab       == "\t"

\* json_encode_screening: the special characters and the letter each is written with.
Screened == (Quote :> Quote) @@ (Backslash :> Backslash) @@ (Tab :> "t")

encode_screening(d) ==
  FlattenSeq([i \in DOMAIN d |->
                IF d[i] \in DOMAIN Screened THEN <<Backslash, Screened[d[i]]>> ELSE <<d[i]>>])

Quoted(s) == <<Quote>> \o encode_screening(s) \o <<Quote>>

\* A letter stands for the character that is written with it, else for itself.
Unscreened(c) ==
  IF \E k \in DOMAIN Screened : Screened[k] = c
    THEN CHOOSE k \in DOMAIN Screened : Screened[k] = c ELSE c
decode_screening(d) ==
  LET from[i \in 1 .. Len(d) + 1] ==
        IF i > Len(d) THEN <<>>
        ELSE IF d[i] # Backslash THEN <<d[i]>> \o from[i + 1]
        ELSE <<Unscreened(d[i + 1])>> \o from[i + 2]
  IN from[1]

Digit == ("0" :> 0) @@ ("1" :> 1) @@ ("2" :> 2) @@ ("3" :> 3) @@ ("4" :> 4)
           @@ ("5" :> 5) @@ ("6" :> 6) @@ ("7" :> 7) @@ ("8" :> 8) @@ ("9" :> 9)
Digits(n) == LET c(k) == CHOOSE d \in DOMAIN Digit : Digit[d] = k
             IN IF n < 10 THEN <<c(n)>> ELSE <<c(n \div 10), c(n % 10)>>
\* "%d" of an integer of at most two digits.
NumberText(n) == IF n < 0 THEN <<"-">> \o Digits(-n) ELSE Digits(n)

\* int(n): what is left of a number in the type int.
ToInt(n) == LET r == n % IntModulus
            IN IF r < IntModulus \div 2 THEN r ELSE r - IntModulus

(***************************************************************************)
(* Lexemes: a record with an id, and for data curr_lex_variant.  Each of   *)
(* the operators below reads the lexeme that begins at text[i] and tells   *)
(* the place behind it.                                                    *)
(***************************************************************************)
StrVariant(s)  == [type |-> "Str", str |-> s]
IntVariant(n)  == [type |-> "Int", i |-> n]
BoolVariant(b) == [type |-> "Bool", b |-> b]

Invalid == [id |-> "Invalid"]
LexStr(s) == [id |-> "Str", str |-> s, data |-> StrVariant(s)]
LexInt(raw, n) == [id |-> "Int", str |-> raw, data |-> IntVariant(n)]
LexBool(b) == [id |-> "Bool", data |-> BoolVariant(b)]
Punctuation == ("{" :> "OpenObj") @@ ("}" :> "CloseObj") @@ ("[" :> "OpenArr")
                 @@ ("]" :> "CloseArr") @@ ("," :> "Separator") @@ (":" :> "Assign")
Word == ("true" :> TRUE) @@ ("false" :> FALSE)

\* A string ends at the first quote no backslash stands before.
closingQuote(text, from) ==
  LET at[i \in from .. Len(text) + 2] ==
        IF i > Len(text) THEN 0
        ELSE IF text[i] = Backslash THEN at[i + 2]
        ELSE IF text[i] = Quote THEN i ELSE at[i + 1]
  IN at[from]

WaitStringLexem(text, i) ==
  LET e == closingQuote(text, i + 1)
  IN IF e = 0 THEN [lex |-> Invalid, next |-> Len(text) + 1]
     ELSE [lex |-> LexStr(decode_screening(SubSeq(text, i + 1, e - 1))), next |-> e + 1]

\* An exponent behind a number without a point is refused.
WaitNumericLexem(text, i) ==
  LET sign == IF text[i] = "-" THEN -1 ELSE 1
      first == IF text[i] = "-" THEN i + 1 ELSE i
      end == CHOOSE j \in first .. Len(text) + 1 :
               /\ \A k \in first .. j - 1 : text[k] \in DOMAIN Digit
               /\ j <= Len(text) => text[j] \notin DOMAIN Digit
      n[j \in first - 1 .. end - 1] ==
        IF j < first THEN 0 ELSE n[j - 1] * 10 + Digit[text[j]]
  IN IF end <= Len(text) /\ text[end] = "E" THEN [lex |-> Invalid, next |-> end + 1]
     ELSE [lex |-> LexInt(SubSeq(text, i, end - 1), ToInt(sign * n[end - 1])), next |-> end]

parseLexem(text, i) ==
  CASE text[i] = Quote -> WaitStringLexem(text, i)
    [] text[i] \in DOMAIN Punctuation -> [lex |-> [id |-> Punctuation[text[i]]], next |-> i + 1]
    [] text[i] \in DOMAIN Digit \cup {"-"} -> WaitNumericLexem(text, i)
    [] text[i] \in DOMAIN Word -> [lex |-> LexBool(Word[text[i]]), next |-> i + 1]
    [] OTHER -> [lex |-> Invalid, next |-> i + 1]

\* The lexemes of a text, up to the first invalid one.
Lexemes(text) ==
  LET from[i \in 1 .. Len(text) + 1] ==
        IF i > Len(text) THEN <<>>
        ELSE LET l == parseLexem(text, i)
             IN <<l.lex>> \o (IF l.lex = Invalid THEN <<>> ELSE from[l.next])
  IN from[1]

(***************************************************************************)
(* What a document says, as a sequence of events: names, values, and the   *)
(* beginning and the end of each scope.                                    *)
(***************************************************************************)
Name(key) == [event |-> "name", str |-> key]
Open(tp)  == [event |-> tp]
Close     == [event |-> "end"]
Datum(v)  == [event |-> "data", data |-> v]
=============================================================================
