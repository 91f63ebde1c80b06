------------------------------ MODULE ArraySem ------------------------------
(***************************************************************************)
(* What rc_array and rc_string promise: every array is a sequence of its   *)
(* own.  Only writing one element may show in other arrays, and only in    *)
(* arrays, not in strings.                                                 *)
(***************************************************************************)
EXTENDS Integers, Sequences

CONSTANTS Handles, Default

VARIABLES
  shared,    \* whether arrays share the elements they were copied from
  call,      \* the last operation: on which array, where, how many, with what
  val        \* val[h]: the elements of h
vars == <<shared, call, val>>

Calls == {"keep", "assign", "insert", "erase", "resize", "write"}
Least(a, b) == IF a < b THEN a ELSE b
Prefix(s, n) == SubSeq(s, 1, n)
From(s, i) == SubSeq(s, i + 1, Len(s))

\* The sequence s after call c.
After(s, c) ==
  CASE c.op = "keep"   -> s
    [] c.op = "assign" -> c.data
    [] c.op = "insert" -> Prefix(s, c.at) \o c.data \o From(s, c.at)
    [] c.op = "erase"  -> Prefix(s, Least(Len(s), c.at)) \o From(s, c.at + c.n)
    [] c.op = "resize" -> Prefix(s, Least(Len(s), c.n)) \o [i \in 1 .. c.n - Len(s) |-> Default]
    [] c.op = "write"  -> [s EXCEPT ![c.at + 1] = c.data[1]]
\* What it may do to another array: only a shared element may be written.
Beside(s, c) ==
  {s} \cup IF c.op = "write" /\ shared THEN {[s EXCEPT ![i] = c.data[1]] : i \in DOMAIN s} ELSE {}

Init ==
  /\ shared \in BOOLEAN /\ call.op = "keep"
  /\ val = [h \in Handles |-> <<>>]

Next ==
  /\ call'.op \in Calls /\ UNCHANGED shared
  /\ \A h \in Handles : IF h = call'.on THEN val'[h] = After(val[h], call')
                                        ELSE val'[h] \in Beside(val[h], call')

Spec == Init /\ [][Next]_vars
=============================================================================
