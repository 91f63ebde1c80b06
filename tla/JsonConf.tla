------------------------------ MODULE JsonConf ------------------------------
(***************************************************************************)
(* The documents of src/conf put together: a text from anywhere, a text    *)
(* that json_ctx::save prints of nodes a client has built, and a text      *)
(* written to an ojsonstream; each of them is read by the parser.          *)
(*                                                                         *)
(* An ojsonstream (json_parser.{h,cpp}) writes a document call by call.  A *)
(* call that does not fit raises ("throw"); the caller may catch it and go *)
(* on, and what the call wrote before it raised stays written.             *)
(***************************************************************************)
EXTENDS JsonParser

CONSTANTS
  Keys, Paths,    \* the keys and the paths of keys the clients use
  Values,         \* the variants that are no nodes
  StreamStrings,  \* the strings written to a stream
  Texts,          \* the lexemes of a text from anywhere
  MaxText,        \* how many of them
  MaxEdits,       \* how many calls of the client that builds nodes
  MaxCalls        \* how many calls of the client that writes a stream

-----------------------------------------------------------------------------
(* The stream. *)

VARIABLES  \* of the ojsonstream
  out,      \* the text written
  scope,    \* [id, datacnt]: the innermost scope and how much is in it
  stack,    \* the scopes around it
  waittag,  \* "tagName" or "tagData": what has to come next
  said,     \* what the accepted calls said, as events (history)
  strayed   \* a refused call left a comma behind (history)

streamVars == <<out, scope, stack, waittag, said, strayed>>

ScopeOf(id) == [id |-> id, datacnt |-> 0]
Closed == scope.id = "CLOSE"

\* The constructor and init.
StreamInit ==
  /\ out = <<"{">>
  /\ scope = ScopeOf("Obj")
  /\ stack = <<ScopeOf("None")>>
  /\ waittag = "tagName"
  /\ said = <<Open("Object")>>
  /\ strayed = FALSE

\* before(): the comma, when something stands before in this scope.
commaBlind == scope.datacnt > 0
commaDue == (scope.id = "ARR" \/ waittag = "tagName") /\ scope.datacnt > 0
before == IF commaDue THEN <<",">> ELSE <<>>

\* endData() in scope sc, when tag was waited for.
endData(sc, tag) ==
  /\ waittag' = IF sc.id = "ARR" \/ tag = "tagName" THEN "tagData" ELSE "tagName"
  /\ scope' = [sc EXCEPT !.datacnt = @ + 1]

\* A string: a value, or the name of the next one.
push_strtype(s) ==
  /\ ~Closed
  /\ out' = out \o before \o (<<Quote>> \o s \o <<Quote>>)
              \o (IF waittag = "tagName" THEN <<":">> ELSE <<>>)
  /\ \/ /\ waittag = "tagData"
        /\ endData(scope, waittag)
        /\ said' = Append(said, Datum(StrVariant(s)))
     \/ /\ waittag = "tagName"
        /\ waittag' = "tagData"
        /\ said' = Append(said, Name(s))
        /\ UNCHANGED scope
  /\ UNCHANGED <<stack, strayed>>

\* A number or a Boolean v, written as text.
push_datastr(v, text) ==
  /\ ~Closed
  /\ waittag = "tagData"
  /\ out' = out \o before \o text
  /\ endData(scope, waittag)
  /\ said' = Append(said, Datum(v))
  /\ UNCHANGED <<stack, strayed>>

\* Where a name has to come it is refused, after before() has written.
push_datastr_refused ==
  /\ ~Closed
  /\ waittag = "tagName"
  /\ out' = out \o before
  /\ strayed' = (strayed \/ commaDue)
  /\ UNCHANGED <<scope, stack, waittag, said>>

Bracket == ("Object" :> "{") @@ ("Array" :> "[")
StateOf == ("Object" :> "Obj") @@ ("Array" :> "ARR")
FirstTag == ("Object" :> "tagName") @@ ("Array" :> "tagData")

\* setScope(scB_OBJ) and setScope(scB_ARR).
OpenScope(tp) ==
  /\ ~Closed
  /\ waittag = "tagData"
  /\ out' = out \o before \o <<Bracket[tp]>>
  /\ stack' = Append(stack, scope)
  /\ scope' = ScopeOf(StateOf[tp])
  /\ waittag' = FirstTag[tp]
  /\ said' = Append(said, Open(tp))
  /\ UNCHANGED strayed

\* setScope(scE_OBJ) and setScope(scE_ARR): the scope around it is current
\* again, or the stream is closed when there is none.
outerScope ==
  IF Last(stack).id = "None" THEN [Last(stack) EXCEPT !.id = "CLOSE"] ELSE Last(stack)
CloseScope(tp) ==
  /\ ~Closed
  /\ scope.id = StateOf[tp]
  /\ waittag = FirstTag[tp]
  /\ out' = Append(out, IF tp = "Object" THEN "}" ELSE "]")
  /\ stack' = Front(stack)
  /\ endData(outerScope, "tagData")
  /\ said' = Append(said, Close)
  /\ UNCHANGED strayed

-----------------------------------------------------------------------------
(* The clients. *)

VARIABLES
  source,  \* where the text comes from: "text", "nodes" or "stream"
  calls,   \* the calls of the client
  saved,   \* the node that was printed, 0 for none
  doubled  \* the nodes that were given a key without looking for it (history)

vars == <<parserVars, streamVars, source, calls, saved, doubled>>

Init ==
  /\ source \in {"text", "nodes", "stream"}
  /\ nodes = IF source = "nodes" THEN <<NewNode("Object")>> ELSE <<>>
  /\ data = <<>> /\ whole = FALSE
  /\ calls = 0 /\ saved = 0 /\ doubled = {}
  /\ ParserInit
  /\ StreamInit

\* How many lexemes the next step of the parser looks at.
Wanted ==
  IF data # <<>> /\ \/ state = "WaitField" /\ lexem(1).id \in {"Str", "Int"}
                    \/ Len(nstack) = 1 /\ lexem(1).id \in DOMAIN CloseLexeme
    THEN 2 ELSE 1

Unread == source = "text" /\ ~whole /\ error = NoError /\ Len(data) < Wanted
TextGoesOn ==
  /\ Unread
  /\ Len(read) + Len(data) < MaxText
  /\ \E l \in Texts : data' = Append(data, l)
  /\ UNCHANGED <<nodes, whole, read, state, lkey, nstack, root, error, streamVars,
                 source, calls, saved, doubled>>
TextEnds ==
  /\ Unread
  /\ whole' = TRUE
  /\ UNCHANGED <<nodes, data, read, state, lkey, nstack, root, error, streamVars,
                 source, calls, saved, doubled>>

Parse == ParseStep /\ UNCHANGED <<streamVars, source, calls, saved, doubled>>

\* The text is complete and goes to the parser; the client is done.
Deliver(text) ==
  /\ data' = Lexemes(text)
  /\ whole' = TRUE
  /\ calls' = 0 /\ doubled' = {}
  /\ UNCHANGED <<read, state, lkey, nstack, root, error, source, streamVars>>

(***************************************************************************)
(* The client that builds nodes.  It has a reference to every node, and    *)
(* does not link a node below itself: json_print would not end.            *)
(***************************************************************************)
Editing == source = "nodes" /\ ~whole
Handles == DOMAIN nodes
Linkable(n) == Values \cup {NodeVariant(nodes, m) : m \in {k \in Handles : n \notin Below(nodes, k)}}

Edited(after) ==
  /\ Editing /\ calls < MaxEdits
  /\ nodes' = after
  /\ calls' = calls + 1
  /\ UNCHANGED <<data, whole, read, state, lkey, nstack, root, error, streamVars,
                 source, saved>>
Untouched(A) == A /\ UNCHANGED doubled
Doubling(n, A) == A /\ doubled' = doubled \cup {n}

\* set, and resetfield where v is None.
Set(n, key, v) == Untouched(Edited(set(nodes, n, key, v)))
PushNamed(n, key, v) == Doubling(n, Edited(push_back(nodes, n, key, v)))
PushValue(n, v) == Untouched(Edited(push_value(nodes, n, v)))
SetPath(n, path, v) ==
  /\ v.type \in {"Object", "Array"} => \* the node the path leads to may be below v
       LET x == prep_conf_path(nodes, n, path)
       IN x # 0 => x \notin Below(nodes, v.node)
  /\ Untouched(Edited(set_path(nodes, n, path, v)))
Erase(n, key) == Untouched(Edited(erase(nodes, n, key)))
Copy(n) ==
  /\ Edited(copy(nodes, n))
  /\ doubled' = doubled \cup (IF n \in doubled THEN {Len(nodes) + 1} ELSE {})

\* add_node, set_node, and demand_node: a new node is linked under a key, by
\* demand_node only where there is none yet.
New(tp) == NodeVariant(newnode(nodes, tp), Len(nodes) + 1)
AddNode(n, key, tp) == Doubling(n, Edited(push_back(newnode(nodes, tp), n, key, New(tp))))
SetNode(n, key, tp) == Untouched(Edited(set(newnode(nodes, tp), n, key, New(tp))))
DemandNode(n, key, tp) ==
  \/ /\ getnode(nodes, n, key) # 0
     /\ Untouched(Edited(nodes))
  \/ /\ getnode(nodes, n, key) = 0 /\ find_index(nodes, n, key) = 0
     /\ Untouched(Edited(push_back(newnode(nodes, tp), n, key, New(tp))))
  \/ /\ getnode(nodes, n, key) = 0 /\ find_index(nodes, n, key) # 0  \* it holds no node
     /\ Doubling(n, Edited(push_back(newnode(nodes, tp), n, key, New(tp))))

Save(n) ==
  /\ Editing
  /\ saved' = n
  /\ Deliver(json_print(nodes, n))
  /\ UNCHANGED nodes

Client ==
  \E n \in Handles :
    \/ \E key \in Keys :
         \/ \E v \in Linkable(n) : Set(n, key, v) \/ PushNamed(n, key, v)
         \/ Erase(n, key)
         \/ \E tp \in {"Object", "Array"} :
              AddNode(n, key, tp) \/ SetNode(n, key, tp) \/ DemandNode(n, key, tp)
    \/ \E v \in Linkable(n) : PushValue(n, v)
    \/ \E path \in Paths, v \in Linkable(n) : SetPath(n, path, v)
    \/ Copy(n)
    \/ Save(n)

(***************************************************************************)
(* The client that writes a stream, goes on after a call that was refused, *)
(* and closes the stream.                                                  *)
(***************************************************************************)
Writing == source = "stream" /\ ~whole
Call(A) ==
  /\ Writing /\ calls < MaxCalls
  /\ A
  /\ calls' = calls + 1
  /\ UNCHANGED <<parserVars, source, saved, doubled>>
\* Calls the stream accepts without a bound, so that it can be closed.
Finish(A) == Writing /\ A /\ UNCHANGED <<parserVars, source, calls, saved, doubled>>

StreamDone ==
  /\ Writing /\ Closed
  /\ Deliver(out)
  /\ UNCHANGED <<nodes, saved>>

Writer ==
  \/ \E s \in StreamStrings : Call(push_strtype(s))
  \/ \E v \in {w \in Values : w.type \in {"Int", "Bool"}} :
       Call(push_datastr(v, json_print_simple(v)))
  \/ Call(push_datastr_refused)
  \/ \E tp \in {"Object", "Array"} : Call(OpenScope(tp)) \/ Finish(CloseScope(tp))
  \/ StreamDone

Next == TextGoesOn \/ TextEnds \/ Parse \/ Client \/ Writer
Spec == Init /\ [][Next]_vars
=============================================================================
