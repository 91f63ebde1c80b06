----------------------------- MODULE JsonParser -----------------------------
(***************************************************************************)
(* json_parse_ctx::parse of src/conf/json_parser.cpp: a JSON text read     *)
(* lexeme by lexeme into nodes, with a stack of the scopes that are open.  *)
(*                                                                         *)
(* data holds the lexemes that are still to be read.  The environment may  *)
(* choose the text while it is read: as long as whole is FALSE, more       *)
(* lexemes may follow the ones in data.                                    *)
(***************************************************************************)
EXTENDS ConfTree

VARIABLES
  nodes,    \* the nodes of ConfTree
  data,     \* the lexemes to read
  whole,    \* data is all that is left of the text
  read,     \* the lexemes read (history)
  state,    \* etState of parse
  lkey,     \* the key the next value is stored under
  nstack,   \* the open nodes, the innermost last
  root,     \* the node of the document, 0 for none
  error     \* error.error_id

parserVars == <<nodes, data, whole, read, state, lkey, nstack, root, error>>

NoError == "none"
NoKey   == <<>>
OpenLexeme  == ("OpenObj" :> "Object") @@ ("OpenArr" :> "Array")
CloseLexeme == ("CloseObj" :> "Object") @@ ("CloseArr" :> "Array")
Scalar == {"Str", "Int", "Bool"}

ParserInit ==
  /\ read = <<>>  /\ state = "Begin"  /\ lkey = NoKey
  /\ nstack = <<>>  /\ root = 0  /\ error = NoError

cnode == IF nstack = <<>> THEN 0 ELSE Last(nstack)

\* The text is known up to its k-th lexeme that is not read yet.
Known(k) == whole \/ Len(data) >= k
EndSymbol == [id |-> "EndSymbol"]
lexem(k) == IF k <= Len(data) THEN data[k] ELSE EndSymbol
Take(k) ==
  LET n == IF k <= Len(data) THEN k ELSE Len(data)
  IN /\ read' = read \o SubSeq(data, 1, n)
     /\ data' = SubSeq(data, n + 1, Len(data))
     /\ UNCHANGED whole

Fail(code) == error' = code /\ UNCHANGED <<nodes, state, lkey, nstack, root>>

pushnode(tp, key) ==
  LET n == Len(nodes) + 1
      made == newnode(nodes, tp)
  IN /\ nodes' = IF cnode = 0 THEN made ELSE push_back(made, cnode, key, NodeVariant(made, n))
     /\ nstack' = Append(nstack, n)
popped == Front(nstack)

\* The text has to begin with an object.
ParseFirst ==
  /\ state = "Begin" /\ error = NoError
  /\ Known(1)
  /\ Take(1)
  /\ \/ /\ lexem(1).id = "OpenObj"
        /\ pushnode("Object", NoKey)
        /\ root' = Len(nodes) + 1
        /\ state' = "WaitField"
        /\ UNCHANGED <<lkey, error>>
     \/ /\ lexem(1).id # "OpenObj"
        /\ Fail("ExpectedOS")

\* The loop of parse goes on while there is text and no error.
Reading == state # "Begin" /\ error = NoError /\ data # <<>>

ParseInvalid ==
  /\ Reading /\ lexem(1) = Invalid
  /\ Take(1)
  /\ Fail("InvalidLexem")

\* popnode: the innermost node has to have the type that is closed.
ParseCloseMismatch ==
  /\ Reading /\ lexem(1).id \in DOMAIN CloseLexeme
  /\ Take(1)
  /\ \/ /\ state = "WaitDataNC"
        /\ Fail("ExpectedData")
     \/ /\ state # "WaitDataNC"
        /\ nodes[cnode].stype # CloseLexeme[lexem(1).id]
        /\ Fail(IF lexem(1).id = "CloseArr" THEN "ExpectedCS" ELSE "ExpectedCA")

\* Behind the document there has to be nothing.
ParseClose ==
  /\ Reading /\ lexem(1).id \in DOMAIN CloseLexeme
  /\ state # "WaitDataNC"
  /\ nodes[cnode].stype = CloseLexeme[lexem(1).id]
  /\ nstack' = popped
  /\ \/ /\ popped # <<>>
        /\ Take(1)
        /\ state' = "WaitSeparator"
        /\ UNCHANGED error
     \/ /\ popped = <<>> /\ Known(2) /\ lexem(2) = EndSymbol
        /\ Take(2)
        /\ state' = "WaitSeparator"
        /\ UNCHANGED error
     \/ /\ popped = <<>> /\ Known(2) /\ lexem(2) # EndSymbol
        /\ Take(2)
        /\ error' = "UnExpectedEOF"
        /\ UNCHANGED state
  /\ UNCHANGED <<nodes, lkey, root>>

ReadingData == Reading /\ lexem(1) # Invalid /\ lexem(1).id \notin DOMAIN CloseLexeme

ParseData ==
  /\ ReadingData /\ state \in {"WaitData", "WaitDataNC"}
  /\ Take(1)
  /\ \/ /\ lexem(1).id \in DOMAIN OpenLexeme
        /\ pushnode(OpenLexeme[lexem(1).id], lkey)
        /\ state' = IF lexem(1).id = "OpenObj" THEN "WaitField" ELSE "WaitData"
        /\ lkey' = NoKey
        /\ UNCHANGED <<root, error>>
     \/ /\ lexem(1).id \in Scalar
        /\ nodes' = push_back(nodes, cnode, lkey, lexem(1).data)
        /\ state' = "WaitSeparator"
        /\ lkey' = NoKey
        /\ UNCHANGED <<nstack, root, error>>
     \/ /\ lexem(1).id \notin DOMAIN OpenLexeme \cup Scalar
        /\ Fail("ExpectedData")

\* Behind a comma: a value in an array, a name (or the end) in an object.
AfterSeparatorOfArrays == IF nodes[cnode].stype = "Array" THEN "WaitDataNC" ELSE "WaitData"
AfterSeparator == IF nodes[cnode].stype = "Array" THEN "WaitDataNC" ELSE "WaitField"
ParseSeparator ==
  /\ ReadingData /\ state = "WaitSeparator"
  /\ Take(1)
  /\ \/ /\ lexem(1).id = "Separator"
        /\ state' = AfterSeparator
        /\ UNCHANGED <<nodes, lkey, nstack, root, error>>
     \/ /\ lexem(1).id # "Separator"
        /\ Fail("ExpectedSeparator")

\* A name is a string, or a number as it is written.
ParseField ==
  /\ ReadingData /\ state = "WaitField"
  /\ \/ /\ lexem(1).id \in {"Str", "Int"} /\ Known(2) /\ lexem(2).id = "Assign"
        /\ Take(2)
        /\ lkey' = lexem(1).str
        /\ state' = "WaitDataNC"
        /\ UNCHANGED <<nodes, nstack, root, error>>
     \/ /\ lexem(1).id \in {"Str", "Int"} /\ Known(2) /\ lexem(2).id # "Assign"
        /\ Take(2)
        /\ Fail("ExpectedAssign")
     \/ /\ lexem(1).id \notin {"Str", "Int"}
        /\ Take(1)
        /\ Fail("ExpectedField")

ParseStep ==
  \/ ParseFirst
  \/ ParseInvalid
  \/ ParseCloseMismatch
  \/ ParseClose
  \/ ParseData
  \/ ParseSeparator
  \/ ParseField

\* parse has returned.
Parsed == error # NoError \/ (whole /\ data = <<>> /\ state # "Begin")
=============================================================================
