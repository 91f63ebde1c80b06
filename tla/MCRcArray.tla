----------------------------- MODULE MCRcArray -----------------------------
(* Instances of RcArray for TLC. *)
EXTENDS RcArray, Functions, TLC
CONSTANTS x, h1, h2,
  MaxCells    \* bound: cells of all blocks together, beyond which TLC does not go on
Constant == <<x, x>>
Pieces == {<<x>>, <<Zero, x>>}
Alike == Permutations({h1, h2})

cells == [c \in Blocks |-> Cardinality(DOMAIN heap[c].fdata)]
FewCells == FoldFunction(+, 0, cells) <= MaxCells

\* Which block is which does not matter, nor do the cells of a string past its
\* countchars: a state is what each array has, and the blocks nobody has.
Block(b) ==
  [heap[b] EXCEPT !.fdata = IF HasLifetime THEN @
                            ELSE [i \in DOMAIN @ |-> IF i < heap[b].countchars THEN @[i] ELSE Raw]]
Holding(h) == IF arr[h].fstorage = Null THEN {} ELSE Sharers(arr[h].fstorage)
WithoutNames ==
  <<kind, faults,
    [h \in Handles |-> <<arr[h].sdata, arr[h].fsize, Holding(h),
                         IF arr[h].fstorage = Null THEN Freed ELSE Block(arr[h].fstorage)>>],
    Cardinality({c \in Blocks : heap[c].refcnt > 0 /\ Sharers(c) = {}})>>
=============================================================================
