-------------------------------- MODULE Dfa --------------------------------
(***************************************************************************)
(* c_DFA_NativeCode_Base of src/parse/tb_dfa.cpp: an automaton that finds  *)
(* words whose symbols are compared under a mask.  A character is the set  *)
(* of its bits, so that the masks, too, are sets.  The transfers of a      *)
(* state, unp_transfers in the code, are a function of the state.  State 1 *)
(* is BADSTATE, 2 the start.                                               *)
(***************************************************************************)
EXTENDS Integers, Sequences, SequencesExt, FiniteSetsExt, Functions

CONSTANTS
  Bits,         \* the bits of a character: 0 .. 7 in the code
  DfaWords,     \* the words that may be added: [syms, ud]
  MaxDfaWords

ASSUME DfaAssumption == Bits \subseteq Nat /\ MaxDfaWords \in Nat

VARIABLES
  dfa,       \* [states, final, err]: the states, ctx.final, the error thrown
  words,     \* the words added, the one that failed last
  transfers  \* the packed transfers, <<>> before pack

dfaVars == <<dfa, words, transfers>>

InOrder(S, lt(_, _)) ==
  [i \in 1 .. Cardinality(S) |-> CHOOSE x \in S : Cardinality({y \in S : lt(y, x)}) = i - 1]

NoRule == -1
NoTransfers == [c \in {} |-> 1]
FreshState == [tt |-> NoTransfers, rule |-> NoRule, pre_mask |-> {}]
isfinal(s) == s.rule # NoRule
WithNewState(d, s) == [d EXCEPT !.states = Append(@, s)]
SetStateTo(d, i, s) == [d EXCEPT !.states[i] = s]
Thrown(d, e) == [d EXCEPT !.err = e]

\* newmaskforstate: the transfers of a state that now looks at more bits.
newmaskforstate(s, nm) ==
  LET new == nm \ s.pre_mask
  IN [s EXCEPT !.pre_mask = nm,
               !.tt = [c \in {k \cup x : k \in DOMAIN s.tt, x \in SUBSET new} |-> s.tt[c \ new]]]
\* fillchars_ttlist: the symbols of a word under a mask with more bits.
fillchars(chars, more) == {c \cup x : c \in chars, x \in SUBSET more}

\* makecopystatechain: <<automaton, copy>>.  Final states are shared.
RECURSIVE makecopystatechain(_, _)
makecopystatechain(d, from) ==
  LET s == d.states[from]
      n == Len(d.states) + 1
      child(p, to) ==
        LET q == makecopystatechain(p, to)
        IN SetStateTo(q[1], n, [q[1].states[n] EXCEPT
                                  !.tt = [c \in DOMAIN @ |-> IF s.tt[c] = to THEN q[2] ELSE @[c]]])
  IN IF isfinal(s) \/ DOMAIN s.tt = {} THEN <<d, from>>
     ELSE <<FoldLeft(child, WithNewState(d, s), InOrder(Range(s.tt), LAMBDA a, b : a < b)), n>>

\* The word goes on in the states its symbol leads to already, in a copy where
\* other symbols lead there too, and in a new state for the rest.
RECURSIVE add_In_word(_, _, _, _)

Redirected(d, curr, chars, to) ==
  [d EXCEPT !.states[curr].tt = [c \in DOMAIN @ |-> IF c \in chars THEN to ELSE @[c]]]
SharedAnyway(d, curr, ns, chars) == <<d, ns>>
UnShared(d, curr, ns, chars) ==
  LET copy == makecopystatechain(d, ns)
  IN IF {c \in DOMAIN d.states[curr].tt : d.states[curr].tt[c] = ns} \subseteq chars THEN <<d, ns>>
     ELSE <<Redirected(copy[1], curr, chars, copy[2]), copy[2]>>

GoOnInState(d, w, curr, n, ns, chars) ==
  LET at == UnShared(d, curr, ns, chars)
  IN IF d.err # 0 THEN d
     ELSE IF isfinal(d.states[ns]) THEN Thrown(d, 120)
     ELSE add_In_word(at[1], w, at[2], n + 1)

GoOnInNew(d, w, curr, n, chars) ==
  LET last == n = Len(w.syms)
      ns == IF last /\ d.final # 1 THEN d.final ELSE Len(d.states) + 1
      made == IF ns <= Len(d.states) THEN d ELSE WithNewState(d, FreshState)
      linked == [made EXCEPT !.states[curr].tt =
                   [c \in DOMAIN @ \cup chars |-> IF c \in chars THEN ns ELSE @[c]]]
  IN IF d.err # 0 THEN d
     ELSE IF last THEN [linked EXCEPT !.states[ns].rule = w.ud, !.final = ns]
     ELSE add_In_word(linked, w, ns, n + 1)

add_In_word(d, w, curr, n) ==
  LET m == w.syms[n].mask
      nm == m \cup d.states[curr].pre_mask
      wide == newmaskforstate(d.states[curr], nm)
      chars == fillchars(w.syms[n].chars, nm \ m)
      known == chars \cap DOMAIN wide.tt
      to == {wide.tt[c] : c \in known}
      e == SetStateTo(d, curr, wide)
      old == FoldLeft(LAMBDA x, ns : GoOnInState(x, w, curr, n, ns, {c \in known : wide.tt[c] = ns}),
                      e, InOrder(to, LAMBDA a, b : a < b))
  IN IF isfinal(d.states[curr]) THEN Thrown(d, 119)
     ELSE IF known # {} /\ n = Len(w.syms) THEN Thrown(e, 125)
     ELSE IF chars = known THEN old
     ELSE GoOnInNew(old, w, curr, n, chars \ known)

DfaAdd(w) ==
  /\ dfa.err = 0 /\ transfers = <<>> /\ Len(words) < MaxDfaWords
  /\ dfa' = add_In_word([dfa EXCEPT !.final = 1], w, 2, 1)
  /\ words' = Append(words, w)
  /\ UNCHANGED transfers

-----------------------------------------------------------------------------
(* pack: the transfers of all states in one array, each state's moved to the *)
(* first place where they fit between the others', the states with the most  *)
(* transfers first.  A place is <<from, to>>, <<1, 1>> when it is free.       *)

CharNumber(c) == FoldSet(LAMBDA b, n : n + 2 ^ b, 0, c)
FreePlace == <<1, 1>>
PlaceAt(t, i) == IF i \in DOMAIN t THEN t[i] ELSE FreePlace
FitsAt(t, s, first, i) == \A c \in DOMAIN s.tt : PlaceAt(t, i - first + CharNumber(c)) = FreePlace
\* Places are counted from 0, and may not be below it.
PutInPlaces(p, id, s) ==
  LET nums == {CharNumber(c) : c \in DOMAIN s.tt}
      first == Min(nums)
      i == CHOOSE k \in 0 .. Cardinality(DOMAIN p.t) :
             /\ PlaceAt(p.t, k) = FreePlace
             /\ FitsAt(p.t, s, first, k)
             /\ \A j \in 0 .. k - 1 : ~(PlaceAt(p.t, j) = FreePlace /\ FitsAt(p.t, s, first, j))
      end == Max({i - first + Max(nums) + 1, Cardinality(DOMAIN p.t)})
      new == [j \in {i - first + k : k \in nums} |->
                <<id, CHOOSE x \in Range(s.tt) : \E c \in DOMAIN s.tt : CharNumber(c) = j - i + first /\ s.tt[c] = x>>]
  IN IF nums = {} THEN p
     ELSE [t |-> [j \in 0 .. end - 1 |-> IF j \in DOMAIN new THEN new[j] ELSE PlaceAt(p.t, j)],
           start |-> [p.start EXCEPT ![id] = i - first]]
BadStart == -1000
PackedOf(states) ==
  LET more(a, b) == \/ Cardinality(DOMAIN states[a].tt) > Cardinality(DOMAIN states[b].tt)
                    \/ Cardinality(DOMAIN states[a].tt) = Cardinality(DOMAIN states[b].tt) /\ a < b
  IN FoldLeft(LAMBDA p, id : PutInPlaces(p, id, states[id]),
              [t |-> [j \in {} |-> FreePlace], start |-> [id \in DOMAIN states |-> BadStart]],
              InOrder(DOMAIN states, more))
DfaPack ==
  /\ dfa.err = 0 /\ transfers = <<>> /\ words # <<>>
  /\ transfers' = <<PackedOf(dfa.states)>>
  /\ UNCHANGED <<dfa, words>>

\* find and findUnPack: the length and the rule of the word a buffer begins
\* with, <<0, NoRule>> for none.
NotFound == <<0, NoRule>>
StepUnpacked(states, si, v) == IF v \in DOMAIN states[si].tt THEN states[si].tt[v] ELSE 0
StepPacked(p, si, v) ==
  LET place == PlaceAt(p.t, p.start[si] + CharNumber(v))
  IN IF place[1] = si THEN place[2] ELSE 0
FindWith(states, next(_, _), buff) ==
  LET at[i \in 0 .. Len(buff)] ==
        IF i = 0 THEN 2
        ELSE LET si == at[i - 1]
             IN IF si = 0 \/ isfinal(states[si]) THEN si
                ELSE next(si, buff[i] \cap states[si].pre_mask)
      ends == {i \in 0 .. Len(buff) : at[i] # 0 /\ isfinal(states[at[i]])}
  IN IF ends = {} THEN NotFound ELSE <<Min(ends), states[at[Min(ends)]].rule>>
findUnPack(buff) == FindWith(dfa.states, LAMBDA si, v : StepUnpacked(dfa.states, si, v), buff)
find(buff) == FindWith(dfa.states, LAMBDA si, v : StepPacked(transfers[1], si, v), buff)

DfaInit ==
  /\ dfa = [states |-> <<FreshState, FreshState>>, final |-> 1, err |-> 0]
  /\ words = <<>> /\ transfers = <<>>
DfaNext == (\E w \in DfaWords : DfaAdd(w)) \/ DfaPack

-----------------------------------------------------------------------------
SymbolMatches(sym, c) == c \cap sym.mask \in sym.chars
BeginsWith(buff, w) ==
  Len(w.syms) <= Len(buff) /\ \A i \in DOMAIN w.syms : SymbolMatches(w.syms[i], buff[i])
\* Two words some buffer begins with both of.
Overlap(v, w) ==
  \A i \in DOMAIN v.syms \cap DOMAIN w.syms :
    \E c \in SUBSET Bits : SymbolMatches(v.syms[i], c) /\ SymbolMatches(w.syms[i], c)
LongestWord == Max({Len(w.syms) : w \in DfaWords})
Buffers == [1 .. LongestWord -> SUBSET Bits]
WordOf(buff, ws) ==
  LET found == {i \in DOMAIN ws : BeginsWith(buff, ws[i])}
  IN IF found = {} THEN NotFound ELSE <<Len(ws[Min(found)].syms), ws[Min(found)].ud>>

\* A word is refused exactly when a word that is there overlaps it.  The
\* automaton finds the words that were added and no others, each with its own
\* rule, whatever masks they share; packing changes nothing in that; and a word
\* that is refused half way takes none of the others away.
DfaFindsItsWords ==
  LET before == IF words = <<>> THEN <<>> ELSE Front(words)
  IN /\ dfa.err # 0 <=> \E i \in DOMAIN before : Overlap(before[i], Last(words))
     /\ \A b \in Buffers :
          /\ dfa.err = 0 => findUnPack(b) = WordOf(b, words)
          /\ dfa.err # 0 /\ WordOf(b, before) # NotFound => findUnPack(b) = WordOf(b, before)
          /\ transfers # <<>> => find(b) = findUnPack(b)
=============================================================================
