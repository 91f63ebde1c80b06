---------------------------- MODULE ResourcePool ----------------------------
(***************************************************************************)
(* cResourceDistrib of tsys/sys_resource.h, from which sys_mutex_c takes   *)
(* its CMutex: one pool for the process, made on first use under the       *)
(* general mutex, and resources handed out and taken back under the pool's *)
(* own mutex.  A read or a write of the shared pointer is a step.          *)
(***************************************************************************)
EXTENDS Integers, Sequences, FiniteSets, SequencesExt

CONSTANTS PoolThreads, NoThread,
          MaxPoolCalls      \* allocations of each thread

ASSUME PoolAssumption == NoThread \notin PoolThreads /\ MaxPoolCalls \in Nat

VARIABLES
  distrib,   \* the static pointer: 0, or the number of a pool
  storage,   \* storage[p]: the free resources of pool p
  made,      \* resources made
  general,   \* owner of the general mutex
  mutex,     \* mutex[p]: owner of the pool's mutex
  poolPc,        \* idle, test, lock, make, enter, take, pop, put
  want,      \* what the thread called: "take" or "put"
  using,     \* the pool it found
  found,     \* the resource it saw at the end of the storage, or 0
  held,      \* resources it has
  poolCalls

poolVars == <<distrib, storage, made, general, mutex, poolPc, want, using, found, held, poolCalls>>

PoolInit ==
  /\ distrib = 0 /\ storage = <<>> /\ made = 0
  /\ general = NoThread /\ mutex = <<>>
  /\ poolPc = [t \in PoolThreads |-> "idle"] /\ want = [t \in PoolThreads |-> "take"]
  /\ using = [t \in PoolThreads |-> 0] /\ found = [t \in PoolThreads |-> 0]
  /\ held = [t \in PoolThreads |-> <<>>] /\ poolCalls = [t \in PoolThreads |-> 0]

PoolGoto(t, step) == poolPc' = [poolPc EXCEPT ![t] = step]

\* AllocateGlobalCashedResource and FreeGlobalCashedResource.
AllocResource(t) ==
  /\ poolPc[t] = "idle" /\ poolCalls[t] < MaxPoolCalls
  /\ poolCalls' = [poolCalls EXCEPT ![t] = @ + 1]
  /\ want' = [want EXCEPT ![t] = "take"] /\ PoolGoto(t, "test")
  /\ UNCHANGED <<distrib, storage, made, general, mutex, using, found, held>>

FreeResource(t) ==
  /\ poolPc[t] = "idle" /\ held[t] # <<>>
  /\ want' = [want EXCEPT ![t] = "put"] /\ PoolGoto(t, "test")
  /\ UNCHANGED <<distrib, storage, made, general, mutex, using, found, held, poolCalls>>

-----------------------------------------------------------------------------
(* getmain: look, lock, look again, make. *)

Test(t) ==
  /\ poolPc[t] = "test"
  /\ using' = [using EXCEPT ![t] = distrib]
  /\ PoolGoto(t, IF distrib = 0 THEN "lock" ELSE "enter")
  /\ UNCHANGED <<distrib, storage, made, general, mutex, want, found, held, poolCalls>>

Lock(t) ==
  /\ poolPc[t] = "lock" /\ general = NoThread
  /\ general' = t /\ PoolGoto(t, "make")
  /\ UNCHANGED <<distrib, storage, made, mutex, want, using, found, held, poolCalls>>

MissingUnchecked == TRUE
Missing == distrib = 0

\* The pool is complete when the pointer to it is stored.
Make(t) ==
  /\ poolPc[t] = "make"
  /\ IF Missing
     THEN /\ storage' = Append(storage, <<>>) /\ mutex' = Append(mutex, NoThread)
          /\ distrib' = Len(storage) + 1
     ELSE UNCHANGED <<storage, mutex, distrib>>
  /\ general' = NoThread /\ PoolGoto(t, "enter") /\ using' = [using EXCEPT ![t] = distrib']
  /\ UNCHANGED <<made, want, found, held, poolCalls>>

-----------------------------------------------------------------------------
(* AllocResource and FreeResource. *)

CanEnter(p) == mutex[p] = NoThread
Enter(t) ==
  /\ poolPc[t] = "enter" /\ CanEnter(using[t])
  /\ mutex' = [mutex EXCEPT ![using[t]] = t]
  /\ PoolGoto(t, want[t])
  /\ UNCHANGED <<distrib, storage, made, general, want, using, found, held, poolCalls>>

\* The last resource that came back, or a new one.
Peek(t) ==
  /\ poolPc[t] = "take"
  /\ LET s == storage[using[t]]
     IN IF s # <<>> THEN found' = [found EXCEPT ![t] = s[Len(s)]] /\ made' = made
        ELSE found' = [found EXCEPT ![t] = 0] /\ made' = made + 1
  /\ PoolGoto(t, "pop")
  /\ UNCHANGED <<distrib, storage, general, mutex, want, using, held, poolCalls>>

Pop(t) ==
  /\ poolPc[t] = "pop"
  /\ LET s == storage[using[t]]
     IN IF found[t] = 0
        THEN held' = [held EXCEPT ![t] = Append(@, made)] /\ storage' = storage
        ELSE /\ held' = [held EXCEPT ![t] = Append(@, found[t])]
             /\ storage' = [storage EXCEPT ![using[t]] = SubSeq(s, 1, Len(s) - 1)]
  /\ mutex' = [mutex EXCEPT ![using[t]] = NoThread] /\ PoolGoto(t, "idle")
  /\ UNCHANGED <<distrib, made, general, want, using, found, poolCalls>>

Put(t) ==
  /\ poolPc[t] = "put"
  /\ \E i \in 1 .. Len(held[t]) :
       /\ storage' = [storage EXCEPT ![using[t]] = Append(@, held[t][i])]
       /\ held' = [held EXCEPT ![t] = RemoveAt(@, i)]
  /\ mutex' = [mutex EXCEPT ![using[t]] = NoThread] /\ PoolGoto(t, "idle")
  /\ UNCHANGED <<distrib, made, general, want, using, found, poolCalls>>

PoolNext ==
  \E t \in PoolThreads :
    \/ AllocResource(t) \/ FreeResource(t) \/ Test(t) \/ Lock(t) \/ Make(t)
    \/ Enter(t) \/ Peek(t) \/ Pop(t) \/ Put(t)

PoolSpec == PoolInit /\ [][PoolNext]_poolVars

-----------------------------------------------------------------------------
(* Properties. *)

InPools == UNION {ToSet(storage[p]) : p \in DOMAIN storage}
BeingMade == {r \in {made} : \E t \in PoolThreads : poolPc[t] = "pop" /\ found[t] = 0}
InHands == UNION {ToSet(held[t]) : t \in PoolThreads}

\* Every resource ever made is in one place, one thread's hands or the one pool's storage, so
\* that two sys_mutex_c never share a CMutex and none is lost in a pool nobody sees.
ResourcesApart ==
  /\ Len(storage) <= 1
  /\ InPools \cup InHands \cup BeingMade = 1 .. made
  /\ InPools \cap InHands = {} /\ BeingMade \cap (InPools \cup InHands) = {}
  /\ \A p \in DOMAIN storage : IsInjective(storage[p])
  /\ \A t \in PoolThreads : IsInjective(held[t])
  /\ \A t, u \in PoolThreads : t # u => ToSet(held[t]) \cap ToSet(held[u]) = {}
=============================================================================
