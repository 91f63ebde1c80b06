----------------------------- MODULE ConfExpand -----------------------------
(***************************************************************************)
(* LocalEnv of gdata/tb_env: variables whose texts name other variables as *)
(* %name%.  closure_ext goes over the variables, pass after pass, putting  *)
(* into each text the present texts of the variables it names.  A text is  *)
(* a sequence of characters, and a name one or more of them.               *)
(* Then expand_all_env_vars of conf/conf_based.cpp: the fields of a        *)
(* document whose keys are %name% define variables, the variables are      *)
(* closed, and the texts of the document are expanded with them.           *)
(***************************************************************************)
EXTENDS ConfTree, FiniteSets, FiniteSetsExt

CONSTANTS EnvKeys,     \* names a LocalEnv may define, in the order of the map (lower case)
          EnvTexts,    \* texts set() is given
          EnvOuter,    \* variables of the process: a function from names to texts
          EnvFold,     \* case folding of characters
          EnvFiles,    \* compact texts loaded
          MaxEnvSets,  \* calls of set
          MaxPasses,   \* passes of closure_ext that are followed
          MaxEnvText   \* length of a text that is expanded

VARIABLES
  index,    \* the map: names to texts
  started,  \* history: the map when closure_ext was called
  noexp,    \* noexpkeys
  visit,    \* position of the iterator in the map, 0 when closure_ext does not run
  missing,  \* no_exist_vars
  fullchng,
  pass,     \* passes begun; before closure_ext, calls of set
  envState  \* "edit", "close", or the result

envVars == <<index, started, noexp, visit, missing, fullchng, pass, envState>>

FoldName(name) == [i \in 1 .. Len(name) |-> IF name[i] \in DOMAIN EnvFold THEN EnvFold[name[i]] ELSE name[i]]
PutText(map, k, v) == [x \in DOMAIN map \cup {k} |-> IF x = k THEN v ELSE map[x]]

\* tryget: the object's own map, then the environment of the process (gtUseGlobal).
EnvKnows(map, name) == FoldName(name) \in DOMAIN map \cup DOMAIN EnvOuter
EnvText(map, name) == LET n == FoldName(name) IN IF n \in DOMAIN map THEN map[n] ELSE EnvOuter[n]

\* expand_environment_string: %% is one %, an unknown name and an open one stay as they are.
\* vars counts what is between two %, kept the unknown ones.
EndName(map, self, st) ==
  [st EXCEPT !.inName = FALSE, !.name = <<>>, !.vars = @ + 1,
             !.circular = @ \/ (self # <<>> /\ FoldName(st.name) = self),
             !.kept = IF st.name = <<>> \/ EnvKnows(map, st.name) THEN @ ELSE @ + 1,
             !.res = @ \o (IF st.name = <<>> THEN <<"%">>
                           ELSE IF EnvKnows(map, st.name) THEN EnvText(map, st.name)
                           ELSE <<"%">> \o st.name \o <<"%">>)]

Scan(map, self, text) ==
  FoldLeft(LAMBDA st, ch :
             IF st.circular THEN st
             ELSE IF st.inName THEN IF ch = "%" THEN EndName(map, self, st) ELSE [st EXCEPT !.name = Append(@, ch)]
             ELSE IF ch = "%" THEN [st EXCEPT !.inName = TRUE]
             ELSE [st EXCEPT !.res = Append(@, ch)],
           [inName |-> FALSE, name |-> <<>>, res |-> <<>>, vars |-> 0, kept |-> 0, circular |-> FALSE], text)

Expand(map, self, text) ==
  LET st == Scan(map, self, text)
  IN [st EXCEPT !.res = IF st.inName THEN @ \o <<"%">> \o st.name ELSE @]

-----------------------------------------------------------------------------
(* set and loadfrom_compact_text: name=text, each ended by the separator. *)

SetVariable(k, t) ==
  /\ envState = "edit" /\ pass < MaxEnvSets
  /\ index' = PutText(index, k, t) /\ pass' = pass + 1
  /\ UNCHANGED <<started, noexp, visit, missing, fullchng, envState>>

\* A file is a sequence of lines [name, text, eq, sep]; the first without "=" or separator
\* ends the loading.
LoadedLines(f) ==
  LET bad == {i \in 1 .. Len(f) : ~(f[i].eq /\ f[i].sep)}
  IN IF bad = {} THEN f ELSE SubSeq(f, 1, Min(bad) - 1)

LoadCompact(f) ==
  /\ envState = "edit" /\ pass < MaxEnvSets
  /\ index' = FoldLeft(LAMBDA map, l : PutText(map, FoldName(l.name), l.text), index, LoadedLines(f))
  /\ pass' = MaxEnvSets
  /\ UNCHANGED <<started, noexp, visit, missing, fullchng, envState>>

-----------------------------------------------------------------------------
(* closure_ext. *)

StartClosure ==
  /\ envState = "edit"
  /\ started' = index /\ noexp' = {} /\ visit' = 1 /\ missing' = 0 /\ fullchng' = 0 /\ pass' = 1
  /\ envState' = "close"
  /\ UNCHANGED index

\* Lookups see the texts this pass has changed already.
MapSeen == index

VisitStays(k) == k \notin DOMAIN index \/ k \in noexp

VisitKey(k) == Expand(MapSeen, k, index[k])

VisitText ==
  /\ envState = "close" /\ visit <= Len(EnvKeys)
  /\ LET k == EnvKeys[visit]
     IN /\ k \in DOMAIN index => Len(index[k]) <= MaxEnvText
        /\ IF VisitStays(k)
           THEN visit' = visit + 1 /\ UNCHANGED <<index, noexp, missing, fullchng, envState>>
           ELSE LET r == VisitKey(k)
                IN IF r.circular
                   THEN envState' = "circular" /\ UNCHANGED <<index, noexp, visit, missing, fullchng>>
                   ELSE /\ visit' = visit + 1 /\ missing' = missing + r.kept
                        /\ IF r.vars - r.kept = 0
                           THEN noexp' = noexp \cup {k} /\ UNCHANGED <<index, fullchng>>
                           ELSE index' = [index EXCEPT ![k] = r.res] /\ fullchng' = fullchng + 1 /\ noexp' = noexp
                        /\ UNCHANGED envState
  /\ UNCHANGED <<started, pass>>

\* A pass that changed nothing is the last; a variable found missing in an earlier pass only
\* is forgotten.
EndPass ==
  /\ envState = "close" /\ visit > Len(EnvKeys) /\ pass < MaxPasses
  /\ IF fullchng = 0
     THEN envState' = (IF missing # 0 THEN "noexist" ELSE "ok") /\ UNCHANGED <<visit, missing, fullchng, pass>>
     ELSE visit' = 1 /\ missing' = 0 /\ fullchng' = 0 /\ pass' = pass + 1 /\ UNCHANGED envState
  /\ UNCHANGED <<index, started, noexp>>

EnvInit ==
  /\ index = [k \in {} |-> <<>>] /\ started = index /\ noexp = {} /\ visit = 0
  /\ missing = 0 /\ fullchng = 0 /\ pass = 0 /\ envState = "edit"

EnvNext ==
  \/ \E k \in ToSet(EnvKeys), t \in EnvTexts : SetVariable(k, t)
  \/ \E f \in EnvFiles : LoadCompact(f)
  \/ StartClosure \/ VisitText \/ EndPass

EnvSpec == EnvInit /\ [][EnvNext]_envVars

-----------------------------------------------------------------------------
(* Properties. *)

\* The names a text refers to, when every % of it is the end of a name.
Plain(t) == LET s == Scan([k \in {} |-> t], <<>>, t)
            IN ~s.inName /\ \A i \in 1 .. Len(t) - 1 : ~(t[i] = "%" /\ t[i + 1] = "%")
NamesIn(t) == LET at == {i \in 1 .. Len(t) : t[i] = "%"}
            IN {FoldName(SubSeq(t, i + 1, j - 1)) : <<i, j>> \in
                  {p \in at \X at : p[1] < p[2] /\ Cardinality({x \in at : x < p[1]}) % 2 = 0
                                    /\ ~ \E x \in at : p[1] < x /\ x < p[2]}}

AllTexts(map) == [n \in DOMAIN map \cup DOMAIN EnvOuter |-> EnvText(map, n)]
Refers(map) == LET all == AllTexts(map) IN {p \in (DOMAIN all) \X (DOMAIN all) : p[2] \in NamesIn(all[p[1]])}

\* Names reached from a set of names in at least one step.
ReachedFrom(map, from) ==
  LET refs == Refers(map)
      next(of) == {p[2] : p \in {q \in refs : q[1] \in of}}
  IN FoldLeft(LAMBDA seen, i : seen \cup next(seen), next(from), [i \in 1 .. Cardinality(refs) |-> i])

OnCycle(map) == {k \in DOMAIN AllTexts(map) : k \in ReachedFrom(map, {k})}
LostInOuter(map) == ReachedFrom(map, DOMAIN map) \cap (OnCycle(map) \ DOMAIN map)

\* Each name replaced by its first text, again and again.
MeaningOf(map, k) ==
  LET m[n \in 0 .. Cardinality(DOMAIN AllTexts(map))] ==
        IF n = 0 THEN map[k] ELSE Expand(map, <<>>, m[n - 1]).res
  IN m[Cardinality(DOMAIN AllTexts(map))]

StillUnknown(k) == Expand(index, <<>>, index[k]).kept

\* closure_ext on variables without a lone or a double %: it reports a circle when there is
\* one among the variables, and else each text becomes what its names mean, in any order of
\* the passes; what is left to expand is unknown, and reported, unless it was found in an earlier
\* pass than the last.  It ends in a pass more than there are
\* variables, unless the circle lies in the environment of the process.
ClosureMeansExpansion ==
  envState # "edit" /\ (\A n \in DOMAIN AllTexts(started) : Plain(AllTexts(started)[n])) =>
    LET circle == OnCycle(started) \cap DOMAIN started # {}
    IN /\ envState = "circular" => circle
       /\ envState \in {"ok", "noexist"} => ~circle /\ \A k \in DOMAIN index : index[k] = MeaningOf(started, k)
       /\ envState = "noexist" => \E k \in DOMAIN index : StillUnknown(k) > 0
       /\ envState = "ok" => pass > 1 \/ \A k \in DOMAIN index : StillUnknown(k) = 0
       /\ LostInOuter(started) = {} => pass <= Cardinality(DOMAIN AllTexts(started)) + 1

-----------------------------------------------------------------------------
(* expand_all_env_vars.                                                    *)

CONSTANTS
  Documents,      \* documents, as the nodes of ConfTree; the first is the root
  FiledirName,    \* "filedir", set when the document came from a file,
  FiledirText,    \* ... to its directory
  DisableKey      \* "<!disable_expand_environment>"

VARIABLES
  document, docRead,   \* the document, and as it was read
  docError             \* error.error_id

docVars == <<document, docRead, docError>>

-----------------------------------------------------------------------------
(* foreachnode_getexpkeys. *)

IsVariableKey(key) == Len(key) > 0 /\ key[1] = "%" /\ key[Len(key)] = "%"
Inner(key) == SubSeq(key, 2, Len(key) - 1)

\* The definitions a node makes, in order; one that is no string ends its node, and is an
\* error, whatever the nodes around do.
Definitions(doc) ==
  LET of[n \in DOMAIN doc] ==
        LET join(st, x) == [st EXCEPT !.sets = @ \o x.sets, !.error = @ \/ x.error]
            value(st, v) == IF isObjectType(v) THEN join(st, of[v.node]) ELSE st
            prop(st, p) ==
              IF st.stop THEN st
              ELSE IF ~IsVariableKey(p.key) THEN value(st, p.data)
              ELSE IF p.data.type = "Str" THEN [st EXCEPT !.sets = Append(@, <<Inner(p.key), p.data.str>>)]
              ELSE [st EXCEPT !.error = TRUE, !.stop = TRUE]
            none == [sets |-> <<>>, error |-> FALSE, stop |-> FALSE]
        IN FoldLeft(prop, FoldLeft(value, none, doc[n].a_data), doc[n].named_props)
  IN of[1]

CollectKeys(doc, fromfile) ==
  /\ envState = "edit" /\ docRead = <<>> /\ pass = 0
  /\ LET d == Definitions(doc)
         first == IF fromfile THEN PutText(index, FoldName(FiledirName), FiledirText) ELSE index
     IN /\ index' = FoldLeft(LAMBDA map, x : PutText(map, FoldName(x[1]), x[2]), first, d.sets)
        /\ docError' = IF d.error THEN "evmustbestring" ELSE "none"
  /\ document' = doc /\ docRead' = doc /\ pass' = MaxEnvSets
  /\ UNCHANGED <<started, noexp, visit, missing, fullchng, envState>>

-----------------------------------------------------------------------------
(* foreachnode_expand. *)

DisabledNever(doc, n) == FALSE
Disabled(doc, n) == getvar(doc, n, DisableKey) = BoolVariant(TRUE)

\* The nodes it comes to: not those below the fields of a node that disables it.
Expanded(doc) ==
  LET of[n \in DOMAIN doc] ==
        LET props == IF Disabled(doc, n) THEN <<>> ELSE [i \in 1 .. Len(doc[n].named_props) |-> doc[n].named_props[i].data]
            vs == ToSet(doc[n].a_data) \cup ToSet(props)
        IN {n} \cup UNION {of[v.node] : v \in {w \in vs : isObjectType(w)}}
  IN of[1]

NewVariant(v) == IF v.type = "Str" THEN StrVariant(Expand(index, <<>>, v.str).res) ELSE v
NewVariantOfNode(doc, n) ==
  [doc[n] EXCEPT !.a_data = [i \in 1 .. Len(@) |-> NewVariant(@[i])],
                 !.named_props = IF Disabled(doc, n) THEN @
                                 ELSE [i \in 1 .. Len(@) |-> [@[i] EXCEPT !.data = NewVariant(@)]]]

\* A name still there after something was replaced is an unknown variable.
Reported(v) == LET r == Expand(index, <<>>, v.str)
               IN v.type = "Str" /\ r.vars - r.kept # 0 /\ NamesIn(r.res) # {}

TextsOf(doc, n) == ToSet(doc[n].a_data)
  \cup (IF Disabled(doc, n) THEN {} ELSE {doc[n].named_props[i].data : i \in 1 .. Len(doc[n].named_props)})

ExpandDocument ==
  /\ docRead # <<>> /\ envState \in {"ok", "noexist", "circular"}
  /\ IF envState # "ok" THEN docError' = "invalidclosure" /\ document' = document
     ELSE LET all == Expanded(document)
          IN /\ document' = [n \in DOMAIN document |->
                               IF n \in all THEN NewVariantOfNode(document, n) ELSE document[n]]
             /\ docError' = IF \E n \in all : \E v \in TextsOf(document, n) : v.type = "Str" /\ Reported(v)
                            THEN "unknownenvvars" ELSE docError
  /\ envState' = "expanded"
  /\ UNCHANGED <<index, started, noexp, visit, missing, fullchng, pass, docRead>>

DocInit == EnvInit /\ document = <<>> /\ docRead = <<>> /\ docError = "none"
DocNext ==
  \/ EnvNext /\ UNCHANGED docVars
  \/ \E doc \in Documents, fromfile \in BOOLEAN : CollectKeys(doc, fromfile)
  \/ ExpandDocument
DocSpec == DocInit /\ [][DocNext]_<<envVars, docVars>>

-----------------------------------------------------------------------------
(* Properties. *)

StrTexts(doc, n) ==
  {<<"a", i>> : i \in {j \in 1 .. Len(doc[n].a_data) : doc[n].a_data[j].type = "Str"}}
  \cup {<<"p", i>> : i \in {j \in 1 .. Len(doc[n].named_props) : doc[n].named_props[j].data.type = "Str"}}
At(doc, n, x) == IF x[1] = "a" THEN doc[n].a_data[x[2]].str ELSE doc[n].named_props[x[2]].data.str

\* What a text means by the variables as they were defined, whatever the order.
TextMeaning(text) ==
  LET names == DOMAIN AllTexts(started)
  IN FoldLeft(LAMBDA t, i : Expand(started, <<>>, t).res, text, [i \in 1 .. Cardinality(names) + 1 |-> i])

Disables(doc, n) == \E p \in ToSet(doc[n].named_props) : SameKey(p.key, DisableKey) /\ p.data = BoolVariant(TRUE)
Protected(doc, n) ==
  \E m \in DOMAIN doc : Disables(doc, m) /\
    \E p \in ToSet(doc[m].named_props) : isObjectType(p.data) /\ n \in Below(doc, p.data.node)

\* A document that was expanded without an error says what its texts mean by its own variables,
\* the texts of a node that disables it and of the nodes below its fields stay as they were
\* read, and a variable that nobody defines is reported unless it stands alone in its text.
DocumentMeansExpansion ==
  envState = "expanded" /\ docError = "none"
    /\ (\A n \in DOMAIN AllTexts(started) : Plain(AllTexts(started)[n])) =>
    \A n \in DOMAIN docRead : \A x \in StrTexts(docRead, n) :
      LET old == At(docRead, n, x)  new == At(document, n, x)
      IN IF Protected(docRead, n) \/ (x[1] = "p" /\ Disables(docRead, n)) THEN new = old
         ELSE Plain(old) => /\ new = TextMeaning(old)
                            /\ NamesIn(new) = {} \/ new = old

\* Names stand for what they mean, in an environment that is closed (tb_env) and in a document
\* that is expanded by it (conf_based).
ExpansionMeansValues == ClosureMeansExpansion /\ DocumentMeansExpansion
=============================================================================
