----------------------------- MODULE MCJsonConf -----------------------------
(***************************************************************************)
(* A small instance of JsonConf for TLC.                                   *)
(***************************************************************************)
EXTENDS JsonSem

MCKeys == {<<"a">>, <<"A">>}
MCPaths == {<<<<"a">>, <<"A">>>>}
MCValues == {None, IntVariant(-1), BoolVariant(TRUE), StrVariant(<<Backslash, Quote>>)}
MCStreamStrings == {<<"a">>}
MCTexts ==
  {LexStr(<<"a">>), LexInt(<<"9">>, ToInt(9)), Invalid}
    \cup {[id |-> p] : p \in {Punctuation[c] : c \in DOMAIN Punctuation}}
=============================================================================
