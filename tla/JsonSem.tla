------------------------------- MODULE JsonSem -------------------------------
(***************************************************************************)
(* What the documents of src/conf promise: the grammar the parser accepts, *)
(* and that what is written is what is read.                               *)
(***************************************************************************)
EXTENDS JsonConf

CONSTANT MaxDocument  \* the documents of the grammar have up to so many lexemes

ASSUME DocumentAssumption == MaxText \in Nat /\ MaxDocument \in Nat

(***************************************************************************)
(* The grammar: the texts of n lexemes of each kind.  It is JSON's, with a *)
(* name that may be a number, and a comma that may stand behind the last   *)
(* member of an object.                                                    *)
(***************************************************************************)
Scalars == {<<l>> : l \in {k \in Texts : k.id \in Scalar}}
Names   == {<<l, [id |-> "Assign"]>> : l \in {k \in Texts : k.id \in {"Str", "Int"}}}
Comma   == {<<[id |-> "Separator"]>>}
Cat(A, B) == {a \o b : a \in A, b \in B}
Enclosed(open, A, close) == {<<[id |-> open]>> \o a \o <<[id |-> close]>> : a \in A}

Grammar ==
  LET of[k \in {"object", "value", "members", "list"}, n \in Nat] ==
        CASE k = "object"  -> IF n < 2 THEN {} ELSE Enclosed("OpenObj", of["members", n - 2], "CloseObj")
          [] k = "value"   -> IF n = 1 THEN Scalars ELSE IF n < 2 THEN {} ELSE
                                of["object", n]
                                \cup Enclosed("OpenArr", of["list", n - 2] \cup (IF n = 2 THEN {<<>>} ELSE {}),
                                              "CloseArr")
          [] k = "members" -> (IF n = 0 THEN {<<>>} ELSE {})
                              \cup (IF n < 3 THEN {} ELSE Cat(Names, of["value", n - 2]))
                              \cup UNION {Cat(Cat(Names, of["value", a]), Cat(Comma, of["members", n - 3 - a]))
                                            : a \in 1 .. n - 3}
          [] k = "list"    -> of["value", n]
                              \cup UNION {Cat(of["value", a], Cat(Comma, of["list", n - 1 - a]))
                                            : a \in 1 .. n - 2}
  IN of
Documents == UNION {Grammar["object", n] : n \in 0 .. MaxDocument}

\* What a text says, lexeme by lexeme.
IsName(t, i) == t[i].id \in {"Str", "Int"} /\ i < Len(t) /\ t[i + 1].id = "Assign"
EventsOfText(t) ==
  FlattenSeq([i \in DOMAIN t |->
    CASE t[i].id \in DOMAIN OpenLexeme  -> <<Open(OpenLexeme[t[i].id])>>
      [] t[i].id \in DOMAIN CloseLexeme -> <<Close>>
      [] IsName(t, i)                   -> <<Name(t[i].str)>>
      [] t[i].id \in Scalar /\ ~IsName(t, i) -> <<Datum(t[i].data)>>
      [] OTHER -> <<>>])

\* What is read and has its place in the nodes: a name waits for its value.
Stored ==
  CASE state # "WaitDataNC" -> read
    [] state = "WaitDataNC" /\ nodes[cnode].stype = "Object" -> SubSeq(read, 1, Len(read) - 2)
    [] OTHER -> SubSeq(read, 1, Len(read) - 1)
Closers ==
  [i \in DOMAIN nstack |->
     [id |-> IF nodes[nstack[Len(nstack) + 1 - i]].stype = "Object" THEN "CloseObj" ELSE "CloseArr"]]

(***************************************************************************)
(* Properties.                                                             *)
(***************************************************************************)
\* The parser takes a text for a document (it returns no error and has left
\* every scope) exactly when the grammar does; and it gives an error only when
\* the text has left the grammar for good, or has ended where the first lexeme
\* or the colon behind a name is due: the states of parse and the stack say no
\* more and no less than the grammar.
ParserMeetsGrammar ==
  source = "text" /\ Parsed =>
    /\ (error = NoError /\ nstack = <<>>) <=> read \in Documents
    /\ error # NoError => \/ \A d \in Documents : ~ IsPrefix(read, d)
                          \/ whole /\ (read = <<>> \/ Last(read).id \in {"Str", "Int"})

\* As long as there is no error, closing the open scopes makes a document of
\* what was read, and the nodes say what that document says: no value is
\* dropped, doubled or put into another scope.  In particular a text that ends
\* early is accepted with what it said until then, although an "unexpected EOF
\* stream" is an error parse knows.
TreeHoldsWhatWasRead ==
  source = "text" /\ error = NoError /\ root # 0 =>
    /\ Stored \o Closers \in Documents
    /\ Events(nodes, root) = EventsOfText(Stored \o Closers)

\* json_print has a text for it: an object at the root, no None anywhere, and
\* no values without a key in an object.
Printable(n) ==
  /\ nodes[n].stype = "Object"
  /\ \A m \in Below(nodes, n) :
       /\ \A i \in DOMAIN nodes[m].a_data : nodes[m].a_data[i] # None
       /\ \A i \in DOMAIN nodes[m].named_props : nodes[m].named_props[i].data # None
       /\ nodes[m].stype = "Object" => nodes[m].a_data = <<>>

\* What was written is what parse reads, without an error.  Written by save from nodes a client
\* has built by any calls: keys and strings come back through the screening, nodes that are shared
\* come back in each place, keys that differ in case or occur twice in their order.  Written
\* to a stream that could be closed: what the accepted calls said, whatever calls were
\* refused in between, unless one of them left its comma in the text.
WrittenIsRead ==
  /\ source = "nodes" /\ Parsed /\ Printable(saved) =>
       /\ error = NoError /\ nstack = <<>>
       /\ Events(nodes, root) = Events(nodes, saved)
  /\ source = "stream" /\ Parsed /\ ~strayed =>
       /\ error = NoError /\ nstack = <<>>
       /\ Events(nodes, root) = said

\* Keys are told apart without regard to case, and set, set_path, set_node and
\* erase keep the keys of an object distinct in that sense, over any sequence
\* of calls through any reference; so does demand_node, but where the key holds
\* a value that is no node: it adds the key again, and the node it returns is
\* not the one the key leads to.
KeysApart ==
  source = "nodes" /\ ~whole =>
    \A n \in DOMAIN nodes \ doubled :
      \A i, j \in DOMAIN nodes[n].named_props :
        i # j => Lower(nodes[n].named_props[i].key) # Lower(nodes[n].named_props[j].key)
=============================================================================
