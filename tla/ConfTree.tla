------------------------------ MODULE ConfTree ------------------------------
(***************************************************************************)
(* The variants and nodes of src/conf/conf_variant.cpp: conf_variant, the  *)
(* nodes conf_struct_t it refers to, and their operations.                 *)
(*                                                                         *)
(* nodes is the memory of all nodes, in the order they were made.  A node  *)
(* is never freed: conf_variant::clear builds a new reference over the old *)
(* one (destruct_type and construct_type are exchanged) and _decuse of     *)
(* t_sstruct.h compares the counter from before its decrement.             *)
(***************************************************************************)
EXTENDS JsonText

\* conf_variant: a type and what it holds.
None == [type |-> "None"]
NodeVariant(nodes, n) == [type |-> nodes[n].stype, node |-> n]
isObjectType(v) == v.type \in {"Object", "Array"}

NewNode(tp) == [stype |-> tp, a_data |-> <<>>, named_props |-> <<>>]
newnode(nodes, tp) == Append(nodes, NewNode(tp))
property(key, v) == [key |-> key, data |-> v]

\* push_back with a key and without: a value without a key goes to a_data, in
\* an object too.
push_backNamed(nodes, n, key, v) ==
  [nodes EXCEPT ![n].named_props = Append(@, property(key, v))]
push_back(nodes, n, key, v) ==
  IF nodes[n].stype = "Array" THEN [nodes EXCEPT ![n].a_data = Append(@, v)]
  ELSE [nodes EXCEPT ![n].named_props = Append(@, property(key, v))]
push_value(nodes, n, v) == [nodes EXCEPT ![n].a_data = Append(@, v)]

\* stricmp.
Lower(s) == [i \in DOMAIN s |-> IF s[i] = "A" THEN "a" ELSE s[i]]
SameKeyExactly(k1, k2) == k1 = k2
SameKey(k1, k2) == Lower(k1) = Lower(k2)
\* The first of them; 0 for none.
find_index(nodes, n, key) ==
  SelectInSeq(nodes[n].named_props, LAMBDA p : SameKey(p.key, key))
getvar(nodes, n, key) ==
  LET i == find_index(nodes, n, key)
  IN IF i = 0 THEN None ELSE nodes[n].named_props[i].data
\* 0 for the empty reference.
getnode(nodes, n, key) ==
  LET v == getvar(nodes, n, key) IN IF isObjectType(v) THEN v.node ELSE 0

set(nodes, n, key, v) ==
  LET i == find_index(nodes, n, key)
  IN IF i = 0 THEN push_back(nodes, n, key, v)
     ELSE [nodes EXCEPT ![n].named_props[i].data = v]
erase(nodes, n, key) ==
  LET i == find_index(nodes, n, key)
  IN IF i = 0 THEN nodes ELSE [nodes EXCEPT ![n].named_props = RemoveAt(@, i)]

\* The node that holds the last key of a path, 0 where there is none.
prep_conf_path(nodes, n, path) ==
  LET at[i \in 1 .. Len(path)] ==
        IF i = 1 THEN n
        ELSE IF at[i - 1] = 0 THEN 0 ELSE getnode(nodes, at[i - 1], path[i - 1])
  IN at[Len(path)]
set_path(nodes, n, path, v) ==
  LET x == prep_conf_path(nodes, n, path)
  IN IF x = 0 THEN nodes ELSE set(nodes, x, Last(path), v)

\* copy: a new node with the same variants; nodes below are shared.
copy(nodes, n) == Append(nodes, nodes[n])

(***************************************************************************)
(* json_ctx::json_print, without layout.                                   *)
(***************************************************************************)
json_print_simple(v) ==
  CASE v.type = "Str"  -> Quoted(v.str)
    [] v.type = "Int"  -> NumberText(v.i)
    [] v.type = "Bool" -> IF v.b THEN <<"true">> ELSE <<"false">>
    [] OTHER -> <<>>
Separated(texts) ==
  FlattenSeq([i \in DOMAIN texts |-> IF i = 1 THEN texts[i] ELSE <<",">> \o texts[i]])

json_print(nodes, root) ==
  LET print[n \in DOMAIN nodes] ==
        LET text(v) == IF isObjectType(v) THEN print[v.node] ELSE json_print_simple(v)
            props == nodes[n].named_props
            vals == nodes[n].a_data
        IN IF nodes[n].stype = "Object"
             THEN <<"{">> \o Separated([i \in DOMAIN props |->
                    Quoted(props[i].key) \o <<":">> \o text(props[i].data)]) \o <<"}">>
             ELSE <<"[">> \o Separated([i \in DOMAIN vals |-> text(vals[i])]) \o <<"]">>
  IN print[root]

\* What a node says: of an object its named properties, of an array its values.
Events(nodes, root) ==
  LET of[n \in DOMAIN nodes] ==
        LET events(v) == IF isObjectType(v) THEN of[v.node] ELSE <<Datum(v)>>
            props == nodes[n].named_props
            vals == nodes[n].a_data
        IN <<Open(nodes[n].stype)>>
             \o (IF nodes[n].stype = "Object"
                   THEN FlattenSeq([i \in DOMAIN props |->
                          <<Name(props[i].key)>> \o events(props[i].data)])
                   ELSE FlattenSeq([i \in DOMAIN vals |-> events(vals[i])]))
             \o <<Close>>
  IN of[root]

\* The nodes below a node, itself included.
Below(nodes, root) ==
  LET of[n \in DOMAIN nodes] ==
        LET vs == {nodes[n].named_props[i].data : i \in DOMAIN nodes[n].named_props}
                    \cup {nodes[n].a_data[i] : i \in DOMAIN nodes[n].a_data}
        IN {n} \cup UNION {of[v.node] : v \in {w \in vs : isObjectType(w)}}
  IN of[root]
=============================================================================
