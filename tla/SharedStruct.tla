---------------------------- MODULE SharedStruct ----------------------------
(***************************************************************************)
(* rc_base_struct of gdata/t_sstruct.h: handles to structures that carry a *)
(* counter.  A handle belongs to one thread; the structures are shared.    *)
(* _InterlockedDecrement is __sync_fetch_and_add on Linux: it returns the  *)
(* value before, which _decuse takes for the value after.                  *)
(***************************************************************************)
EXTENDS Integers, FiniteSets

CONSTANTS StructThreads, StructHandles, owner,   \* owner[h]: the thread whose variable h is
          Structs,                   \* addresses; none is given out twice
          NoStruct, NoHandle,
          Values,
          MaxStructCalls

ASSUME SharedStructAssumption ==
  /\ owner \in [StructHandles -> StructThreads]
  /\ NoStruct \notin Structs /\ NoHandle \notin StructHandles
  /\ MaxStructCalls \in Nat /\ IsFiniteSet(StructHandles) /\ IsFiniteSet(StructThreads)

VARIABLES
  fdata,   \* fdata[h]: the structure, or NoStruct
  refcnt, value, life,   \* of the structures; life: "new", "used", "freed"
  structPc, dst, src,           \* the call of each thread: its step, its handles
  structCalls

structVars == <<refcnt, value, life>>
sharedVars == <<fdata, refcnt, value, life, structPc, dst, src, structCalls>>

StructTypeOK ==
  /\ fdata \in [StructHandles -> Structs \cup {NoStruct}]
  /\ refcnt \in [Structs -> Int] /\ value \in [Structs -> Values]
  /\ life \in [Structs -> {"new", "used", "freed"}]
  /\ structPc \in [StructThreads -> {"idle", "dec", "set", "inc", "write", "clone"}]
  /\ dst \in [StructThreads -> StructHandles \cup {NoHandle}] /\ src \in [StructThreads -> StructHandles \cup {NoHandle}]
  /\ structCalls \in [StructThreads -> 0 .. MaxStructCalls]

\* One structure that a handle of each thread shares, as after copies by one thread.
StructInit ==
  \E s \in Structs, first \in SUBSET StructHandles, v \in Values :
    /\ fdata = [h \in StructHandles |-> IF h \in first THEN s ELSE NoStruct]
    /\ refcnt = [x \in Structs |-> IF x = s THEN Cardinality(first) ELSE 0]
    /\ life = [x \in Structs |-> IF x = s /\ first # {} THEN "used" ELSE "new"]
    /\ value = [x \in Structs |-> v]
    /\ structPc = [t \in StructThreads |-> "idle"]
    /\ dst = [t \in StructThreads |-> NoHandle] /\ src = [t \in StructThreads |-> NoHandle]
    /\ structCalls = [t \in StructThreads |-> 0]

BeginStructCall(t, step, d, s) ==
  /\ structPc[t] = "idle" /\ structCalls[t] < MaxStructCalls
  /\ structCalls' = [structCalls EXCEPT ![t] = @ + 1]
  /\ structPc' = [structPc EXCEPT ![t] = step] /\ dst' = [dst EXCEPT ![t] = d] /\ src' = [src EXCEPT ![t] = s]

StructGoto(t, step) == structPc' = [structPc EXCEPT ![t] = step] /\ UNCHANGED <<dst, src, structCalls>>

-----------------------------------------------------------------------------
(* The calls. *)

\* rc_base_struct(ss): the pointer is copied, then counted.
CopyConstruct(t, d, s) ==
  /\ d # s /\ fdata[d] = NoStruct /\ fdata[s] # NoStruct
  /\ BeginStructCall(t, "inc", d, NoHandle)
  /\ fdata' = [fdata EXCEPT ![d] = fdata[s]]
  /\ UNCHANGED structVars

\* operator = (ss): nothing for the same structure.
Assign(t, d, s) ==
  /\ fdata[d] # fdata[s]
  /\ BeginStructCall(t, IF fdata[d] = NoStruct THEN "set" ELSE "dec", d, s)
  /\ UNCHANGED <<fdata, structVars>>

\* clear, and the destructor.
Clear(t, d) ==
  /\ fdata[d] # NoStruct
  /\ BeginStructCall(t, "dec", d, NoHandle)
  /\ UNCHANGED <<fdata, structVars>>

\* operator = (const TStruct &): makeunique reads the counter.
UniqueOfTwo(s) == refcnt[s] <= 2
Unique(s) == refcnt[s] <= 1
Write(t, d) ==
  /\ BeginStructCall(t, IF fdata[d] = NoStruct \/ ~Unique(fdata[d]) THEN "clone" ELSE "write", d, NoHandle)
  /\ UNCHANGED <<fdata, structVars>>

-----------------------------------------------------------------------------
(* Their steps. *)

LastUse(old) == old <= 0

DecUse(t) ==
  /\ structPc[t] = "dec"
  /\ LET s == fdata[dst[t]]
     IN /\ refcnt' = [refcnt EXCEPT ![s] = @ - 1]
        /\ life' = IF LastUse(refcnt[s]) THEN [life EXCEPT ![s] = "freed"] ELSE life
  /\ StructGoto(t, "set")
  /\ UNCHANGED <<fdata, value>>

SetPointer(t) ==
  /\ structPc[t] = "set"
  /\ LET s == IF src[t] = NoHandle THEN NoStruct ELSE fdata[src[t]]
     IN /\ fdata' = [fdata EXCEPT ![dst[t]] = s]
        /\ StructGoto(t, IF s = NoStruct THEN "idle" ELSE "inc")
  /\ UNCHANGED structVars

NotCounted(n) == n
Counted(n) == n + 1
IncUse(t) ==
  /\ structPc[t] = "inc"
  /\ refcnt' = [refcnt EXCEPT ![fdata[dst[t]]] = Counted(@)]
  /\ StructGoto(t, "idle")
  /\ UNCHANGED <<fdata, value, life>>

\* alloc copies a shared structure, or makes a new one; the old counter is left alone.
Clone(t) ==
  /\ structPc[t] = "clone"
  /\ \E s \in Structs :
       /\ life[s] = "new"
       /\ life' = [life EXCEPT ![s] = "used"] /\ refcnt' = [refcnt EXCEPT ![s] = 1]
       /\ value' = [value EXCEPT ![s] = IF fdata[dst[t]] = NoStruct THEN @ ELSE value[fdata[dst[t]]]]
       /\ fdata' = [fdata EXCEPT ![dst[t]] = s]
  /\ StructGoto(t, "write")

WriteValue(t) ==
  /\ structPc[t] = "write"
  /\ \E v \in Values : value' = [value EXCEPT ![fdata[dst[t]]] = v]
  /\ StructGoto(t, "idle")
  /\ UNCHANGED <<fdata, refcnt, life>>

StructNext ==
  \E t \in StructThreads :
    \/ \E d, s \in {h \in StructHandles : owner[h] = t} : CopyConstruct(t, d, s) \/ Assign(t, d, s)
    \/ \E d \in {h \in StructHandles : owner[h] = t} : Clear(t, d) \/ Write(t, d)
    \/ DecUse(t) \/ SetPointer(t) \/ IncUse(t) \/ Clone(t) \/ WriteValue(t)

StructSpec == StructInit /\ [][StructNext]_sharedVars

-----------------------------------------------------------------------------
(* Properties. *)

Users(s) == {h \in StructHandles : fdata[h] = s}

\* A handle that gave up its use still shows the old pointer.
Sharers(s) == {h \in Users(s) : ~ \E t \in StructThreads : structPc[t] = "set" /\ dst[t] = h}

\* Handles whose use is not in the counter: being copied into, or already given up.
Uncounted(s) == {t \in StructThreads : /\ dst[t] # NoHandle /\ fdata[dst[t]] = s
                                       /\ structPc[t] \in {"inc", "set"}}

\* The counter covers the handles, so that no step can free a structure that a handle, of
\* this thread or another one, still has.
CounterCovers ==
  \A s \in Structs :
    /\ refcnt[s] + Cardinality(Uncounted(s)) >= Cardinality(Users(s))
    /\ Users(s) # {} => life[s] = "used"

\* A value is written in place only through the one handle of its structure, whatever other
\* threads do between the look at the counter and the write.
WritesOwn ==
  [][\A s \in Structs : life[s] = "used" /\ value'[s] # value[s] => Cardinality(Sharers(s)) = 1]_sharedVars
=============================================================================
