----------------------------- MODULE ConfSchema -----------------------------
(***************************************************************************)
(* conf/json_validator.cpp: a document tested against a schema that is a   *)
(* document itself, and two documents compared.  Documents are the nodes   *)
(* of ConfTree, the first one the root.                                    *)
(***************************************************************************)
EXTENDS ConfTree, FiniteSets, FiniteSetsExt

fTypeKey == <<"type">>
fObjectKey == <<"object">>
fMandatoryKey == <<"mandatory">>
AnyName == <<"...">>

-----------------------------------------------------------------------------
(* initschema: what the node j of the schema s says of a value.  body is the node of the       *)
(* elements or fields, 0 for none.                                                              *)

HasType(s, j) == find_index(s, j, fTypeKey) # 0
ListedTypes(s, j) == LET t == s[getvar(s, j, fTypeKey).node].a_data IN [i \in 1 .. Len(t) |-> t[i].type]

Rule(s, j) ==
  LET body == getnode(s, j, fObjectKey)
      own == IF body = 0 THEN "None" ELSE s[body].stype
      t == getvar(s, j, fTypeKey)
      list == IF t.type = "Array" THEN ListedTypes(s, j) ELSE <<>>
      must == getvar(s, j, fMandatoryKey)
  IN [body |-> body,
      type |-> IF ~HasType(s, j) \/ t.type = "Object" \/ (t.type = "Array" /\ list = <<>>) THEN own
               ELSE IF t.type = "Array" THEN Last(list) ELSE t.type,
      compatable |-> IF ~HasType(s, j) \/ t.type = "Object" THEN {own} \ {"None"}
                     ELSE IF t.type = "Array" THEN ToSet(list) ELSE {t.type},
      mandatory |-> (must.type = "Bool" /\ must.b) \/ (must.type = "Int" /\ must.i # 0),
      noempty |-> t.type = "Str" /\ t.str # <<>>,
      error |-> IF ~HasType(s, j) /\ own = "None" THEN "UndefinedType"
                ELSE IF HasType(s, j) /\ t.type = "Object" THEN "InvalidFormat2Type" ELSE "none"]

\* A schema that is loaded: of each body the rules of its elements, of its fields, the last one
\* for each name, and of the fields no other rule names ("...").
LastOf(ps, i) == ~ \E j \in i + 1 .. Len(ps) : SameKey(ps[i].key, ps[j].key)
LoadedNode(n, rule) ==
  LET ps == n.named_props
  IN [stype |-> n.stype,
      elements |-> [i \in 1 .. Len(n.a_data) |-> rule[n.a_data[i].node]],
      fields |-> {[key |-> ps[i].key, rule |-> rule[ps[i].data.node]] :
                    i \in {i \in 1 .. Len(ps) : ps[i].key # AnyName /\ LastOf(ps, i)}},
      any |-> {rule[ps[i].data.node] : i \in {SelectLastInSeq(ps, LAMBDA p : p.key = AnyName)} \ {0}}]
LoadedBy(s, rule) == [b \in DOMAIN s |-> LoadedNode(s[b], rule)]
Loaded(s) == LoadedBy(s, [j \in DOMAIN s |-> Rule(s, j)])

RulesOf(body) == ToSet(body.elements) \cup {f.rule : f \in body.fields} \cup body.any

AllRules(c) ==
  LET of[b \in DOMAIN c] == RulesOf(c[b]) \cup UNION {of[r.body] : r \in {x \in RulesOf(c[b]) : x.body # 0}}
  IN of[1]

\* load_schema refuses a schema with an error in any rule.
Loads(c) == \A r \in AllRules(c) : r.error = "none"

-----------------------------------------------------------------------------
(* test_node and test_variant: TRUE when no error is set. *)

MissingField(rule) == ~rule.mandatory

\* The body b against the node n is ok[b][n]; a value against a rule, where a list of types names
\* a container without a body: such an object may hold anything, and such an array nothing.
TestVariant(ok, rule, v) ==
  IF rule.type \in {"Object", "Array"}
  THEN v.type = rule.type /\ ok[rule.body][v.node]
  ELSE v.type \in rule.compatable /\ (rule.type = "Str" /\ rule.noempty => v.str # <<>>)

\* An element is tested by the first rule that lists its type.
TestElements(ok, rules, values) ==
  \A v \in ToSet(values) :
    LET k == SelectInSeq(rules, LAMBDA r : v.type \in r.compatable)
    IN k # 0 /\ TestVariant(ok, rules[k], v)

\* A field is looked up by its name, and none is missing that must be there.
FieldsLike(key, props) == SelectSeq(props, LAMBDA p : SameKey(key, p.key))
TestField(ok, rule, found) ==
  IF found = <<>> THEN MissingField(rule) ELSE TestVariant(ok, rule, Head(found).data)
TestFields(ok, body, props) ==
  LET rest == {p \in ToSet(props) : \A f \in body.fields : ~SameKey(f.key, p.key)}
  IN /\ \A f \in body.fields : TestField(ok, f.rule, FieldsLike(f.key, props))
     /\ \A rule \in body.any :
          IF rest = {} THEN MissingField(rule) ELSE \A p \in rest : TestVariant(ok, rule, p.data)

TestNode(c, d) ==
  LET ok[b \in {0} \cup DOMAIN c] ==
        [n \in DOMAIN d |->
           IF b = 0 THEN d[n].stype = "Array" => d[n].a_data = <<>>
           ELSE /\ c[b].stype = d[n].stype
                /\ IF c[b].stype = "Array" THEN TestElements(ok, c[b].elements, d[n].a_data)
                   ELSE TestFields(ok, c[b], d[n].named_props)]
  IN ok[1][1]

-----------------------------------------------------------------------------
(* cfg_cmp_context_t: "equal" (0) when the right document has what the left one says, "differs"    *)
(* (an error number), "throws" an exception, or "crashes" on a null pointer.  Where the code reads *)
(* what it may not there is more than one of them.                                                 *)

\* The values of a node with their keys; in an array there are none.
Fields(d, n) == IF d[n].stype = "Array" THEN [i \in DOMAIN d[n].a_data |-> property(<<>>, d[n].a_data[i])] ELSE d[n].named_props

CommentChars == {"/", "-"}
is_commentkey(key) == key # <<>> /\ key[1] \in CommentChars

\* The value on the right is cut to a whole number.
Whole(v) == v.f \div 2
SameValue(l, r) ==
  LET kind(v) == IF v.type = "Float" THEN "Int" ELSE v.type
      num(v) == IF v.type = "Int" THEN 2 * v.i ELSE v.f
  IN /\ kind(l) = kind(r)
     /\ CASE l.type = "None"  -> FALSE
          [] l.type = "Int"   -> num(l) = num(r) \/ (r.type = "Float" /\ l.i = Whole(r))
          [] l.type = "Float" -> num(l) = num(r) \/ (r.type = "Float" /\ l.f = 2 * Whole(r))
          [] OTHER -> l = r
\* The table unitype has no entry for containers, and what lies behind it may be any type: then a
\* flag is compared with whatever is there, and a container is converted, which throws.
Unconverted(l) == CASE l.type = "None" -> {} [] l.type = "Bool" -> {"equal"} [] OTHER -> {"throws"}
CompareValues(l, r) ==
  IF isObjectType(r) THEN {"differs"} \cup Unconverted(l) ELSE {IF SameValue(l, r) THEN "equal" ELSE "differs"}

\* getvar with an index.  get_ptr lets the index pass that is the size: the place behind the last
\* value throws, and the first place of nothing is a null pointer, which getvar takes for no value,
\* but not in an object, nor in a build that trusts the address of an element.
Broken(how) == [type |-> how]
getvarAt(d, n, i) ==
  LET fs == Fields(d, n)
  IN CASE i <= Len(fs) -> {fs[i].data}
       [] i = Len(fs) + 1 /\ fs # <<>> -> {Broken("throws")}
       [] fs = <<>> /\ i = 1 -> {Broken("crashes")} \cup (IF d[n].stype = "Array" THEN {None} ELSE {})
       [] OTHER -> {None}
\* A value without a key is looked up by its place among all values, the skipped ones included.
LookedUp(d, n, key, i) == IF key = <<>> THEN getvarAt(d, n, i) ELSE {getvar(d, n, key)}

\* The keys that lead to each node, nothing for the place in an array; empty keys at the root leave
\* no trace.
KeyPath(path, key) == IF path = <<>> /\ key = <<>> THEN <<>> ELSE Append(path, Lower(key))
PathTo(l) ==
  LET to[n \in DOMAIN l] ==
        IF n = 1 THEN <<>>
        ELSE LET m == CHOOSE m \in DOMAIN l : \E i \in DOMAIN Fields(l, m) : Fields(l, m)[i].data = NodeVariant(l, n)
             IN KeyPath(to[m], Fields(l, m)[SelectInSeq(Fields(l, m), LAMBDA p : p.data = NodeVariant(l, n))].key)
  IN to

\* isIgnored and is_commentkey.  The empty key of elements may be one that is ignored.
Skips(path, key, ignoredPaths, ignoredKeys) ==
  is_commentkey(key) \/ KeyPath(path, key) \in ignoredPaths \/ Lower(key) \in ignoredKeys

\* The first field that is not equal ends a comparison.
ThenAnyway(ends, next) == next
Then(ends, next) == (ends \ {"equal"}) \cup IF "equal" \in ends THEN next ELSE {}
Compare(l, r, ignoredPaths, ignoredKeys) ==
  LET path == PathTo(l)
      cmp[n \in DOMAIN l] ==
        [m \in DOMAIN r |->
           LET with(vl, vr) == CASE vr.type \in {"throws", "crashes"} -> {vr.type}
                                 [] vr.type = "None" -> {"differs"}
                                 [] isObjectType(vl) /\ isObjectType(vr) ->
                                      IF vl.type = vr.type THEN cmp[vl.node][vr.node] ELSE {"differs"}
                                 [] isObjectType(vl) /\ ~isObjectType(vr) /\ vr.type \notin {"throws", "crashes"} -> {"differs"}
                                 [] OTHER -> CompareValues(vl, vr)
               field(i) == LET f == Fields(l, n)[i]
                           IN IF Skips(path[n], f.key, ignoredPaths, ignoredKeys) THEN {"equal"}
                              ELSE UNION {with(f.data, vr) : vr \in LookedUp(r, m, f.key, i)}
           IN IF l[n].stype # r[m].stype THEN {"differs"}
              ELSE FoldLeft(LAMBDA ends, i : Then(ends, field(i)), {"equal"}, [i \in DOMAIN Fields(l, n) |-> i])]
  IN cmp[1][1]

-----------------------------------------------------------------------------
(* Properties.  A place in a document is the sequence of indexes that lead to it. *)

Children(d, v) == IF isObjectType(v) THEN [i \in DOMAIN Fields(d, v.node) |-> Fields(d, v.node)[i].data] ELSE <<>>
KeyAt(d, v, i) == Fields(d, v.node)[i].key
ValueAt(d, place) == FoldLeft(LAMBDA v, i : Children(d, v)[i], NodeVariant(d, 1), place)
Places(d) ==
  LET longer(all) == all \cup UNION {{Append(p, i) : i \in 1 .. Len(Children(d, ValueAt(d, p)))} : p \in all}
  IN FoldLeft(LAMBDA all, i : longer(all), {<<>>}, d)
Parent(place) == SubSeq(place, 1, Len(place) - 1)

\* The rule for a place, from the root down; Free where the schema says nothing.
Free == [body |-> 0, type |-> "None", compatable |-> {"Bool", "Int", "Str", "Object", "Array"},
         mandatory |-> FALSE, noempty |-> FALSE]
Nothing == [Free EXCEPT !.compatable = {}]
RuleOfElement(body, v) ==
  LET k == SelectInSeq(body.elements, LAMBDA r : v.type \in r.compatable)
  IN IF k = 0 THEN Nothing ELSE body.elements[k]
RuleOfField(body, props, i) ==
  LET named == {f \in body.fields : SameKey(f.key, props[i].key)}
      first == \A j \in 1 .. i - 1 : ~SameKey(props[j].key, props[i].key)
  IN CASE named # {} /\ first -> (CHOOSE f \in named : TRUE).rule
       [] named = {} /\ body.any # {} -> CHOOSE r \in body.any : TRUE
       [] OTHER -> Free
RuleAt(c, d, place) ==
  LET step(at, i) ==   \* the value so far, and its rule
        LET v == Children(d, at.v)[i]
            body == c[at.rule.body]
        IN [v |-> v,
            rule |-> IF at.rule.body = 0 THEN IF at.rule.type = "Array" THEN Nothing ELSE Free
                     ELSE IF at.v.type # body.stype THEN Nothing
                     ELSE IF at.v.type = "Array" THEN RuleOfElement(body, v)
                     ELSE RuleOfField(body, d[at.v.node].named_props, i)]
  IN FoldLeft(step, [v |-> NodeVariant(d, 1), rule |-> [Free EXCEPT !.body = 1, !.compatable = {c[1].stype}]], place)

\* A container type stands alone in a list of types: what follows it in a list decides which
\* of the types is looked into.
ContainersAlone(c) ==
  \A r \in AllRules(c) : r.compatable \cap {"Object", "Array"} # {} => Cardinality(r.compatable) = 1

\* The validator accepts the documents of which every place has a type its rule lists, is not
\* empty where that is asked, and, if an object, has the mandatory fields and, if that is
\* mandatory, one that the schema does not name.
MeetsRule(c, d, rule, v) ==
  /\ v.type \in rule.compatable /\ (rule.noempty /\ v.type = "Str" => v.str # <<>>)
  /\ v.type = "Object" /\ rule.body # 0 =>
       LET keys == {p.key : p \in ToSet(d[v.node].named_props)}  fields == c[rule.body].fields
       IN /\ \A f \in fields : f.rule.mandatory => \E k \in keys : SameKey(f.key, k)
          /\ \A any \in c[rule.body].any : any.mandatory => \E k \in keys : \A f \in fields : ~SameKey(f.key, k)
MeetsAt(c, d, at) == MeetsRule(c, d, at.rule, at.v)
LoadedMeets(c, d) ==
  Loads(c) /\ ContainersAlone(c) => (TestNode(c, d) <=> \A p \in Places(d) : MeetsAt(c, d, RuleAt(c, d, p)))
ValidatorMeetsSchema(s, d) == LoadedMeets(Loaded(s), d)

\* A document covers another one when it has every value of it that no key on the way, and no
\* path, leaves out, in arrays and under empty keys at the same place; a fraction on the right is
\* cut off.  A comparison is equal just then.  Otherwise it ends at the first place, in the order of
\* the left document, that is not covered: it differs there, unless the right side ends right in
\* front of the place, or has a container where the left one has a value.
Skipped(l, ignoredPaths, ignoredKeys, p) ==
  LET key(i) == KeyAt(l, ValueAt(l, SubSeq(p, 1, i - 1)), p[i])
      path(i) == FoldLeft(LAMBDA above, k : KeyPath(above, key(k)), <<>>, [k \in 1 .. i - 1 |-> k])
  IN \E i \in 1 .. Len(p) : Skips(path(i), key(i), ignoredPaths, ignoredKeys)
\* What stands in the right document where the place p of the left one is, if anything.
Opposite(l, r, p) ==
  LET step(v, i) ==
        LET key == KeyAt(l, ValueAt(l, SubSeq(p, 1, i - 1)), p[i])
        IN CASE ~isObjectType(v) -> None
             [] isObjectType(v) /\ key # <<>> -> getvar(r, v.node, key)
             [] isObjectType(v) /\ key = <<>> -> IF p[i] \in DOMAIN Children(r, v) THEN Children(r, v)[p[i]] ELSE None
  IN FoldLeft(step, NodeVariant(r, 1), [i \in DOMAIN p |-> i])
\* The place an index reaches that is the size.
JustBehind(l, r, p) ==
  /\ p # <<>> /\ isObjectType(Opposite(l, r, Parent(p)))
  /\ KeyAt(l, ValueAt(l, Parent(p)), Last(p)) = <<>> /\ Last(p) = Len(Children(r, Opposite(l, r, Parent(p)))) + 1
EndsAt(l, r, p) ==
  LET vl == ValueAt(l, p)
      vr == Opposite(l, r, p)
  IN CASE JustBehind(l, r, p) ->
            IF Last(p) > 1 THEN {"throws"}
            ELSE {"crashes"} \cup (IF Opposite(l, r, Parent(p)).type = "Array" THEN {"differs"} ELSE {})
       [] ~JustBehind(l, r, p) /\ isObjectType(vl) -> {IF vl.type = vr.type THEN "equal" ELSE "differs"}
       [] ~JustBehind(l, r, p) /\ ~isObjectType(vl) -> IF vr.type = "None" THEN {"differs"} ELSE CompareValues(vl, vr)
ComesBefore(q, p) ==
  \/ IsStrictPrefix(q, p)
  \/ \E k \in 1 .. Min({Len(q), Len(p)}) : SubSeq(q, 1, k - 1) = SubSeq(p, 1, k - 1) /\ q[k] < p[k]

ComparisonMeansCover(l, r, ignoredPaths, ignoredKeys) ==
  \A ends \in {Compare(l, r, ignoredPaths, ignoredKeys)} :
    LET looked == {p \in Places(l) : ~Skipped(l, ignoredPaths, ignoredKeys, p)}
        passes(p) == "equal" \in EndsAt(l, r, p)
    IN /\ "equal" \in ends <=> \A p \in looked : passes(p)
       /\ \A how \in {"differs", "throws", "crashes"} :
            how \in ends <=> \E p \in looked : how \in EndsAt(l, r, p) /\ \A q \in looked : ComesBefore(q, p) => passes(q)
=============================================================================
