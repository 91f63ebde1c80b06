------------------------------ MODULE Log_proofs ------------------------------
(***************************************************************************)
(* A theorem about Log, for all threads, handles and bounds.               *)
(***************************************************************************)
EXTENDS Log, SequenceTheorems, TLAPS

(***************************************************************************)
(* A push keeps the object it found in th[t].on, and the object may be     *)
(* closed meanwhile: that is when overlaps is set.  A pool lists deleted   *)
(* messages only after a push has ended one of them, since whoever closes  *)
(* a log deletes the messages of its pool, which no other pool lists, and  *)
(* empties it.                                                             *)
(***************************************************************************)
LogPlaces == {"idle", "push", "claim", "flush", "write", "free", "delete"}
Messages == [state : {"free", "begin", "deleted"}, heapOnly : BOOLEAN]
Objects == [there : BOOLEAN, os : BOOLEAN, heap : BOOLEAN, pool : Seq(Nat)]
Pushes == [pc : LogPlaces, on : Logs \cup {NoLog}, m : Nat, os : BOOLEAN]

LogTypes ==
  /\ current \in Logs \cup {NoLog}
  /\ log \in [Logs -> Objects]
  /\ msg \in Seq(Messages)
  /\ th \in [LogThreads -> Pushes]
  /\ heapEnds \in Nat /\ overlaps \in BOOLEAN

CurrentThere == current # NoLog => log[current].there

\* A thread inside a push is on an object that is there, unless it was closed under it.
PushOK(t) ==
  /\ th[t].pc = "idle" => th[t].on = NoLog
  /\ th[t].pc # "idle" => th[t].on \in Logs /\ (log[th[t].on].there \/ overlaps)
  /\ th[t].pc = "write" /\ th[t].os => log[th[t].on].os \/ overlaps
  /\ th[t].pc = "delete" => heapEnds > 0
PushesOK == log[Default].there /\ \A t \in LogThreads : PushOK(t)

\* A message is listed by one pool, and is deleted there only after a message was ended.
PoolsApart == \A k, l \in Logs : \A i \in DOMAIN log[k].pool, j \in DOMAIN log[l].pool :
                log[k].pool[i] = log[l].pool[j] => k = l
ListedOK == \A l \in Logs : \A i \in DOMAIN log[l].pool :
              /\ log[l].pool[i] \in DOMAIN msg
              /\ msg[log[l].pool[i]].state = "deleted" => heapEnds > 0 \/ overlaps

FaultsOK ==
  /\ faults \cap {"message", "doublefree"} # {} => heapEnds > 0 \/ overlaps
  /\ faults \cap {"object", "stream"} # {} => overlaps

LogInv == LogTypes /\ CurrentThere /\ PushesOK /\ PoolsApart /\ ListedOK /\ FaultsOK

-----------------------------------------------------------------------------
(* Messages that change their state, and what becomes of them when a log is closed. *)

LEMMA FunctionIsSeq ==
  ASSUME NEW S, NEW n \in Nat, NEW f \in [1 .. n -> S]
  PROVE  f \in Seq(S)
  BY SeqDef

Kept(m) == m \in Seq(Messages) /\ DOMAIN m = DOMAIN msg
NoneDeleted(m) == \A i \in DOMAIN msg : m[i].state = "deleted" => msg[i].state = "deleted"

LEMMA SetStateKeeps ==
  ASSUME LogTypes, NEW m \in Nat, NEW s \in {"free", "begin", "deleted"}
  PROVE  /\ Kept([msg EXCEPT ![m].state = s]) /\ Kept(SetState(m, s))
         /\ s # "deleted" => NoneDeleted(SetState(m, s))
  <1> DEFINE n == Len(msg)
  <1>1. n \in Nat /\ msg \in [1 .. n -> Messages] /\ DOMAIN msg = 1 .. n
    BY LenProperties DEF LogTypes
  <1> HIDE DEF n
  <1>2. \A i \in 1 .. n : [msg[i] EXCEPT !.state = s] \in Messages
    BY <1>1 DEF Messages
  <1>3. [msg EXCEPT ![m].state = s] \in [1 .. n -> Messages]
    BY <1>1, <1>2
  <1>4. Kept([msg EXCEPT ![m].state = s])
    BY <1>1, <1>3, FunctionIsSeq DEF Kept
  <1>5. Kept(msg)
    BY DEF Kept, LogTypes
  <1>6. \A i \in 1 .. n : i # m => [msg EXCEPT ![m].state = s][i] = msg[i]
    BY <1>1
  <1>7. m \in 1 .. n => [msg EXCEPT ![m].state = s][m].state = s
    BY <1>1, <1>2 DEF Messages
  <1>8. NoneDeleted(SetState(m, s)) \/ s = "deleted"
    BY <1>1, <1>6, <1>7 DEF NoneDeleted, SetState
  <1> QED BY <1>4, <1>5, <1>8 DEF SetState

LEMMA ClosedPoolKeeps ==
  ASSUME LogTypes, NEW l \in Logs
  PROVE  /\ Kept(ClosedPool(l))
         /\ \A i \in DOMAIN msg : ClosedPool(l)[i].state = "deleted" =>
              msg[i].state = "deleted" \/ \E k \in DOMAIN log[l].pool : log[l].pool[k] = i
  <1> DEFINE n == Len(msg)
  <1>1. n \in Nat /\ msg \in [1 .. n -> Messages] /\ DOMAIN msg = 1 .. n
    BY LenProperties DEF LogTypes
  <1> HIDE DEF n
  <1>2. \A i \in 1 .. n : [msg[i] EXCEPT !.state = "deleted"] \in Messages
    BY <1>1 DEF Messages
  <1>3. ClosedPool(l) \in [1 .. n -> Messages]
    BY <1>1, <1>2 DEF ClosedPool
  <1>4. DOMAIN log[l].pool = 1 .. Len(log[l].pool)
    BY LenProperties DEF LogTypes, Objects
  <1>5. \A i \in 1 .. n : ClosedPool(l)[i].state = "deleted" =>
          msg[i].state = "deleted" \/ Contains(log[l].pool, i)
    BY <1>1 DEF ClosedPool
  <1> QED BY <1>1, <1>3, <1>4, <1>5, FunctionIsSeq DEF Kept, Contains

-----------------------------------------------------------------------------
LEMMA LogInitInv == LogInit => LogInv
  <1> SUFFICES ASSUME LogInit PROVE LogInv
    OBVIOUS
  <1> USE DEF LogInit
  <1>1. /\ \A l \in Logs : log[l].pool = <<>> /\ (log[l].there <=> l = Default)
        /\ current = NoLog /\ faults = {}
        /\ \A t \in LogThreads : th[t] = Idle
        /\ log \in [Logs -> Objects]
    BY EmptySeq DEF Closed, Objects
  <1>2. LogTypes
    BY <1>1, EmptySeq DEF LogTypes, Pushes, LogPlaces, Idle
  <1>3. \A l \in Logs : DOMAIN log[l].pool = {}
    BY <1>1
  <1>4. PushesOK
    BY <1>1 DEF PushesOK, PushOK, Idle, Logs
  <1>5. PoolsApart /\ ListedOK
    BY <1>3 DEF PoolsApart, ListedOK
  <1> QED BY <1>1, <1>2, <1>4, <1>5 DEF LogInv, CurrentThere, FaultsOK

-----------------------------------------------------------------------------
(***************************************************************************)
(* A push leaves the objects alone, but for the pool of its own.           *)
(***************************************************************************)

\* What was fit for use before an object is touched, and what it costs to touch one that is not.
LEMMA GoneTold ==
  ASSUME LogInv, NEW t \in LogThreads, th[t].pc # "idle"
  PROVE  /\ th[t].on \in Logs
         /\ Gone(t) # {} => overlaps /\ Gone(t) = {"object"}
  BY DEF LogInv, PushesOK, PushOK, Gone

LEMMA ReadTold ==
  ASSUME LogInv, NEW l \in Logs, Dangling(l) # {}
  PROVE  heapEnds > 0 \/ overlaps
  <1>1. PICK i \in 1 .. Len(log[l].pool) : msg[log[l].pool[i]].state = "deleted"
    BY DEF Dangling
  <1>2. i \in DOMAIN log[l].pool
    BY LenProperties DEF LogInv, LogTypes, Objects
  <1> QED BY <1>1, <1>2 DEF LogInv, ListedOK

\* The objects and the messages are as they were, or a message is less deleted than it was.
LEMMA PushKeeps ==
  ASSUME LogInv, UNCHANGED <<current, log, overlaps>>, Kept(msg'), NoneDeleted(msg'),
         heapEnds' \in Nat, heapEnds' >= heapEnds
  PROVE  CurrentThere' /\ PoolsApart' /\ ListedOK'
  <1>1. CurrentThere'
    BY DEF LogInv, CurrentThere
  <1>2. PoolsApart'
    BY DEF LogInv, PoolsApart
  <1>3. ListedOK'
    BY DEF LogInv, LogTypes, ListedOK, Kept, NoneDeleted
  <1> QED BY <1>1, <1>2, <1>3

\* A push that goes on, or comes to its end.
PushMoves(t, p) == th' = [th EXCEPT ![t] = p] /\ p \in Pushes /\ UNCHANGED <<log, overlaps>>
HeapEndsGrow == heapEnds' \in Nat /\ heapEnds' >= heapEnds

LEMMA PushGoesOn ==
  ASSUME LogInv, NEW t \in LogThreads, NEW p, PushMoves(t, p), HeapEndsGrow,
         p.pc = "idle" => p.on = NoLog,
         p.pc # "idle" => (p.on = th[t].on /\ th[t].pc # "idle") \/ (p.on \in Logs /\ log[p.on].there),
         p.pc = "write" /\ p.os => log[p.on].os \/ overlaps,
         p.pc = "delete" => heapEnds' > 0
  PROVE  PushesOK' /\ th' \in [LogThreads -> Pushes]
  <1>1. th' \in [LogThreads -> Pushes] /\ th'[t] = p /\ \A u \in LogThreads \ {t} : th'[u] = th[u]
    BY DEF LogInv, LogTypes, PushMoves
  <1>2. PushOK(t)'
    BY <1>1 DEF LogInv, PushesOK, PushOK, PushMoves
  <1>3. ASSUME NEW u \in LogThreads \ {t} PROVE PushOK(u)'
    BY <1>1, <1>3 DEF LogInv, LogTypes, PushesOK, PushOK, PushMoves, HeapEndsGrow
  <1>4. log'[Default].there
    BY DEF LogInv, PushesOK, PushMoves
  <1> QED BY <1>1, <1>2, <1>3, <1>4 DEF PushesOK

\* Only the place changes.
LEMMA PushGoesTo ==
  ASSUME LogInv, NEW t \in LogThreads, th[t].pc # "idle", NEW pc \in LogPlaces, pc \notin {"idle", "write"},
         LogGoto(t, pc), UNCHANGED <<log, overlaps>>, HeapEndsGrow, pc = "delete" => heapEnds' > 0
  PROVE  PushesOK' /\ th' \in [LogThreads -> Pushes]
  <1> PICK p : p = [th[t] EXCEPT !.pc = pc]
    OBVIOUS
  <1>1. th[t] \in Pushes
    BY DEF LogInv, LogTypes
  <1>2. p \in Pushes /\ p.pc = pc /\ p.on = th[t].on
    BY <1>1 DEF Pushes
  <1>3. PushMoves(t, p)
    BY <1>2 DEF LogGoto, LogInv, LogTypes, PushMoves
  <1> QED BY <1>2, <1>3, PushGoesOn

LEMMA HeapEndsStay == LogInv /\ heapEnds' = heapEnds => HeapEndsGrow
  BY DEF LogInv, LogTypes, HeapEndsGrow

LEMMA TypesKept ==
  ASSUME LogInv, current' \in Logs \cup {NoLog}, log' \in [Logs -> Objects], msg' \in Seq(Messages),
         th' \in [LogThreads -> Pushes], heapEnds' \in Nat, overlaps' \in BOOLEAN
  PROVE  LogTypes'
  BY DEF LogTypes

\* The steps of a push but the one that makes a message.
LEMMA PushSteps ==
  ASSUME LogInv, NEW t \in LogThreads,
         (\E tp \in Types : PushStart(t, tp)) \/ PushOnStack(t) \/ Claim(t)
           \/ FlushTest(t) \/ FlushWrite(t) \/ EndFree(t)
  PROVE  LogInv'
  <1>1. LogTypes /\ th[t] \in Pushes /\ th[t].m \in Nat /\ FaultsOK
    BY DEF LogInv, LogTypes, Pushes
  <1>2. /\ Idle \in Pushes
        /\ \A pc \in LogPlaces : [th[t] EXCEPT !.pc = pc] \in Pushes
        /\ \A pc \in LogPlaces, b \in BOOLEAN : [th[t] EXCEPT !.pc = pc, !.os = b] \in Pushes
        /\ \A l \in Logs : [Idle EXCEPT !.pc = "push", !.on = l] \in Pushes
    BY <1>1 DEF Idle, Pushes, LogPlaces
  <1>3. Kept(msg) /\ NoneDeleted(msg) /\ heapEnds \in Nat /\ heapEnds >= heapEnds
    BY <1>1 DEF Kept, NoneDeleted, LogTypes
  <1>4. ASSUME UNCHANGED <<current, log, overlaps>>, Kept(msg'), NoneDeleted(msg'),
               heapEnds' \in Nat, heapEnds' >= heapEnds, FaultsOK',
               PushesOK' /\ th' \in [LogThreads -> Pushes]
        PROVE  LogInv'
    <2>1. LogTypes'
      BY <1>1, <1>4, TypesKept DEF Kept, LogTypes
    <2> QED BY <1>4, <2>1, PushKeeps DEF LogInv
  <1>5. ASSUME NEW tp \in Types, PushStart(t, tp) PROVE LogInv'
    <2>1. FaultsOK'
      BY <1>1, <1>5 DEF PushStart, FaultsOK
    <2>2. CASE th' = th
      <3>1. PushesOK' /\ th' \in [LogThreads -> Pushes]
        BY <1>5, <2>2 DEF PushStart, LogInv, LogTypes, PushesOK, PushOK
      <3> QED BY <1>3, <1>4, <1>5, <2>1, <3>1 DEF PushStart, Kept, NoneDeleted
    <2>3. CASE th' # th
      <3> DEFINE l == IF current = NoLog THEN Default ELSE current
      <3>1. l \in Logs /\ log[l].there
        BY DEF LogInv, LogTypes, CurrentThere, PushesOK, Logs
      <3>2. th' = [th EXCEPT ![t] = [Idle EXCEPT !.pc = "push", !.on = l]]
        BY <1>5, <2>3 DEF PushStart
      <3> HIDE DEF l
      <3>3. PushesOK' /\ th' \in [LogThreads -> Pushes]
        BY <1>2, <1>5, <3>1, <3>2, HeapEndsStay, PushGoesOn DEF PushStart, Idle, PushMoves
      <3> QED BY <1>3, <1>4, <1>5, <2>1, <3>3 DEF PushStart, Kept, NoneDeleted
    <2> QED BY <2>2, <2>3
  <1>6. ASSUME PushOnStack(t) PROVE LogInv'
    <2>1. FaultsOK'
      BY <1>1, <1>6, GoneTold DEF PushOnStack, FaultsOK
    <2>2. PushesOK' /\ th' \in [LogThreads -> Pushes]
      BY <1>6, HeapEndsStay, PushGoesTo DEF PushOnStack, LogPlaces
    <2> QED BY <1>3, <1>4, <1>6, <2>1, <2>2 DEF PushOnStack, Kept, NoneDeleted
  <1>7. ASSUME Claim(t) PROVE LogInv'
    <2>1. FaultsOK'
      BY <1>1, <1>7 DEF Claim, FaultsOK
    <2>2. PushesOK' /\ th' \in [LogThreads -> Pushes]
      BY <1>7, HeapEndsStay, PushGoesTo DEF Claim, LogPlaces
    <2>3. Kept(msg') /\ NoneDeleted(msg')
      BY <1>1, <1>7, SetStateKeeps DEF Claim
    <2> QED BY <1>3, <1>4, <1>7, <2>1, <2>2, <2>3 DEF Claim
  <1>8. ASSUME FlushTest(t) PROVE LogInv'
    <2>1. FaultsOK'
      BY <1>1, <1>8, GoneTold DEF FlushTest, FaultsOK
    <2>2. th[t].on \in Logs /\ StreamOf(th[t].on) \in BOOLEAN
      BY <1>1, <1>8, GoneTold DEF FlushTest, StreamOf, LogTypes, Objects
    <2> PICK p : p = [th[t] EXCEPT !.pc = "write", !.os = StreamOf(th[t].on)]
      OBVIOUS
    <2>3. th' = [th EXCEPT ![t] = p]
      BY <1>1, <1>8 DEF FlushTest, LogTypes
    <2>4. p \in Pushes
      BY <1>2, <2>2 DEF LogPlaces
    <2>5. p.pc = "write" /\ p.on = th[t].on /\ p.os = StreamOf(p.on)
      BY <1>1 DEF Pushes
    <2>6. p.os => log[p.on].os
      BY <2>5 DEF StreamOf
    <2>7. PushesOK' /\ th' \in [LogThreads -> Pushes]
      BY <1>8, <2>3, <2>4, <2>5, <2>6, HeapEndsStay, PushGoesOn DEF FlushTest, PushMoves
    <2> QED BY <1>3, <1>4, <1>8, <2>1, <2>7 DEF FlushTest, Kept, NoneDeleted
  <1>9. ASSUME FlushWrite(t) PROVE LogInv'
    <2>1. th[t].pc = "write" /\ (th[t].os /\ ~log[th[t].on].os => overlaps)
      BY <1>9 DEF FlushWrite, LogInv, PushesOK, PushOK
    <2>2. FaultsOK'
      BY <1>1, <1>9, <2>1, GoneTold DEF FlushWrite, FaultsOK
    <2>3. PushesOK' /\ th' \in [LogThreads -> Pushes]
      <3>1. CASE th' = [th EXCEPT ![t] = Idle]
        BY <1>2, <1>9, <3>1, HeapEndsStay, PushGoesOn DEF FlushWrite, Idle, PushMoves
      <3>2. CASE th' = [th EXCEPT ![t].pc = "free"]
        BY <1>9, <2>1, <3>2, HeapEndsStay, PushGoesTo DEF FlushWrite, LogPlaces, LogGoto
      <3> QED BY <1>9, <3>1, <3>2 DEF FlushWrite
    <2> QED BY <1>3, <1>4, <1>9, <2>2, <2>3 DEF FlushWrite, Kept, NoneDeleted
  <1>10. ASSUME EndFree(t) PROVE LogInv'
    <2>1. heapEnds' \in Nat /\ heapEnds' >= heapEnds /\ heapEnds' > 0
      BY <1>1, <1>10 DEF EndFree, LogTypes
    <2>2. FaultsOK'
      BY <1>1, <1>10, <2>1 DEF EndFree, FaultsOK
    <2>3. PushesOK' /\ th' \in [LogThreads -> Pushes]
      BY <1>10, <2>1, PushGoesTo DEF EndFree, LogPlaces, HeapEndsGrow
    <2>4. Kept(msg') /\ NoneDeleted(msg')
      BY <1>1, <1>10, SetStateKeeps DEF EndFree
    <2> QED BY <1>4, <1>10, <2>1, <2>2, <2>3, <2>4 DEF EndFree
  <1> QED BY <1>5, <1>6, <1>7, <1>8, <1>9, <1>10

\* The message comes from the pool of the push's own object, or is made and perhaps listed there.
LEMMA PushFromPoolStep ==
  ASSUME LogInv, NEW t \in LogThreads, PushFromPool(t)
  PROVE  LogInv'
  <1> DEFINE l == th[t].on
             n == Len(msg)
  <1>1. /\ th[t].pc # "idle" /\ l \in Logs /\ log[l].pool \in Seq(Nat)
        /\ n \in Nat /\ msg \in Seq(Messages) /\ DOMAIN msg = 1 .. n /\ th[t] \in Pushes
        /\ log \in [Logs -> Objects] /\ DOMAIN log[l].pool = 1 .. Len(log[l].pool) /\ Len(log[l].pool) \in Nat
        /\ UNCHANGED <<current, heapEnds, overlaps>> /\ heapEnds \in Nat /\ th \in [LogThreads -> Pushes]
    BY GoneTold, LenProperties DEF PushFromPool, LogInv, LogTypes, Objects
  <1>2. FaultsOK'
    <2>1. faults' = faults \cup Gone(t) \cup Read(l)
      BY DEF PushFromPool
    <2>2. Read(l) # {} => Read(l) = {"message"} /\ (heapEnds > 0 \/ overlaps)
      BY <1>1, ReadTold DEF Read
    <2>3. Gone(t) # {} => overlaps /\ Gone(t) = {"object"}
      BY <1>1, GoneTold
    <2> QED BY <1>1, <2>1, <2>2, <2>3 DEF LogInv, FaultsOK
  <1> HIDE DEF l, n
  <1>3. ASSUME NEW i \in Candidates(l), th' = [th EXCEPT ![t].pc = "claim", ![t].m = log[l].pool[i]], UNCHANGED <<log, msg>>
        PROVE  LogInv'
    <2> PICK p : p = [th[t] EXCEPT !.pc = "claim", !.m = log[l].pool[i]]
      OBVIOUS
    <2>1. log[l].pool[i] \in Nat
      BY <1>1, ElementOfSeq DEF Candidates
    <2>2. p \in Pushes
      BY <1>1, <2>1 DEF Pushes, LogPlaces
    <2>3. p.pc = "claim" /\ p.on = th[t].on
      BY <1>1 DEF Pushes
    <2>4. th' = [th EXCEPT ![t] = p]
      BY <1>1, <1>3
    <2>5. PushesOK' /\ th' \in [LogThreads -> Pushes]
      BY <1>1, <1>3, <2>2, <2>3, <2>4, HeapEndsStay, PushGoesOn DEF PushMoves
    <2>6. CurrentThere' /\ PoolsApart' /\ ListedOK'
      BY <1>1, <1>3, PushKeeps DEF Kept, NoneDeleted
    <2>7. LogTypes'
      BY <1>1, <1>3, <2>5, TypesKept DEF LogInv, LogTypes
    <2> QED BY <1>2, <2>5, <2>6, <2>7 DEF LogInv
  <1>4. ASSUME NEW listed \in BOOLEAN, msg' = Append(msg, [state |-> "begin", heapOnly |-> listed]),
               log' = IF listed THEN [log EXCEPT ![l].pool = Append(@, n + 1)] ELSE log,
               th' = [th EXCEPT ![t].pc = "flush", ![t].m = n + 1]
        PROVE  LogInv'
    <2> DEFINE p == [th[t] EXCEPT !.pc = "flush", !.m = n + 1]
               new == [state |-> "begin", heapOnly |-> listed]
               pool == Append(log[l].pool, n + 1)
    <2>1. p \in Pushes
      <3>1. n + 1 \in Nat /\ "flush" \in LogPlaces
        BY <1>1 DEF LogPlaces
      <3> QED BY <1>1, <3>1 DEF Pushes
    <2>2. p.pc = "flush" /\ p.on = l
      BY <1>1 DEF Pushes, l
    <2>3. th' = [th EXCEPT ![t] = p]
      BY <1>1, <1>4
    <2>4. th' \in [LogThreads -> Pushes] /\ th'[t] = p /\ \A u \in LogThreads \ {t} : th'[u] = th[u]
      BY <1>1, <2>1, <2>3
    <2> HIDE DEF p
    <2>5. new \in Messages /\ new.state = "begin"
      BY DEF Messages
    <2>6. /\ msg' \in Seq(Messages) /\ DOMAIN msg' = 1 .. n + 1
          /\ msg'[n + 1] = new /\ \A i \in 1 .. n : msg'[i] = msg[i]
      BY <1>1, <1>4, <2>5, AppendProperties, LenProperties DEF n
    <2>7. /\ pool \in Seq(Nat) /\ DOMAIN pool = 1 .. Len(log[l].pool) + 1
          /\ pool[Len(log[l].pool) + 1] = n + 1
          /\ \A i \in DOMAIN log[l].pool : pool[i] = log[l].pool[i]
      BY <1>1, AppendProperties, LenProperties
    <2> HIDE DEF new, pool
    <2>8. /\ log' \in [Logs -> Objects]
          /\ \A k \in Logs : log'[k].there = log[k].there /\ log'[k].os = log[k].os
          /\ \A k \in Logs : log'[k].pool = IF listed /\ k = l THEN pool ELSE log[k].pool
      <3>1. CASE listed
        <4>1. log' = [log EXCEPT ![l] = [log[l] EXCEPT !.pool = pool]]
          BY <1>1, <1>4, <3>1 DEF pool
        <4>2. [log[l] EXCEPT !.pool = pool] \in Objects
          BY <1>1, <2>7 DEF Objects
        <4> QED BY <1>1, <3>1, <4>1, <4>2 DEF Objects
      <3>2. CASE ~listed
        BY <1>1, <1>4, <3>2
      <3> QED BY <3>1, <3>2
    <2>9. CurrentThere'
      BY <1>1, <2>8 DEF LogInv, LogTypes, CurrentThere
    <2>10. PushesOK'
      <3>1. PushOK(t)'
        BY <1>1, <2>2, <2>4, <2>8 DEF LogInv, PushesOK, PushOK, l
      <3>2. ASSUME NEW u \in LogThreads \ {t} PROVE PushOK(u)'
        BY <1>1, <2>4, <2>8, <3>2 DEF LogInv, PushesOK, PushOK
      <3>3. log'[Default].there
        BY <2>8 DEF LogInv, PushesOK, Logs
      <3> QED BY <3>1, <3>2, <3>3 DEF PushesOK
    <2>11. \A k \in Logs : \A i \in DOMAIN log'[k].pool :
             \/ i \in DOMAIN log[k].pool /\ log'[k].pool[i] = log[k].pool[i]
             \/ k = l /\ log'[k].pool[i] = n + 1
      <3>1. ASSUME NEW k \in Logs, NEW i \in DOMAIN log'[k].pool, listed, k = l
            PROVE  (i \in DOMAIN log[k].pool /\ log'[k].pool[i] = log[k].pool[i]) \/ log'[k].pool[i] = n + 1
        <4>1. log'[k].pool = pool /\ i \in 1 .. Len(log[l].pool) + 1
          BY <2>7, <2>8, <3>1
        <4>2. i \in 1 .. Len(log[l].pool) \/ i = Len(log[l].pool) + 1
          BY <1>1, <4>1
        <4> QED BY <1>1, <2>7, <3>1, <4>1, <4>2
      <3>2. ASSUME NEW k \in Logs, ~(listed /\ k = l) PROVE log'[k].pool = log[k].pool
        BY <2>8, <3>2
      <3> QED BY <3>1, <3>2
    <2>12. \A k \in Logs : \A i \in DOMAIN log[k].pool : log[k].pool[i] \in 1 .. n
      BY <1>1 DEF LogInv, ListedOK
    <2>13. PoolsApart'
      BY <1>1, <2>11, <2>12 DEF LogInv, PoolsApart
    <2>14. ListedOK'
      BY <1>1, <2>5, <2>6, <2>11, <2>12 DEF LogInv, ListedOK
    <2>15. LogTypes'
      BY <1>1, <2>4, <2>6, <2>8, TypesKept DEF LogInv, LogTypes
    <2> QED BY <1>2, <2>9, <2>10, <2>13, <2>14, <2>15 DEF LogInv
  <1>5. ASSUME NEW listed, listed = (Len(log[l].pool) < MaxPool),
               msg' = Append(msg, [state |-> "begin", heapOnly |-> listed]),
               log' = IF listed THEN [log EXCEPT ![l].pool = Append(@, n + 1)] ELSE log,
               th' = [th EXCEPT ![t].pc = "flush", ![t].m = n + 1]
        PROVE  LogInv'
    <2>1. (Len(log[l].pool) < MaxPool) \in BOOLEAN
      OBVIOUS
    <2>2. listed \in BOOLEAN
      BY <1>5, <2>1
    <2> QED BY <1>4, <1>5, <2>2
  <1> QED BY <1>3, <1>5 DEF PushFromPool, l, n

\* The message is deleted where it may be listed still; but it has been ended.
LEMMA EndDeleteStep ==
  ASSUME LogInv, NEW t \in LogThreads, EndDelete(t)
  PROVE  LogInv'
  <1>1. /\ heapEnds > 0 /\ th[t].pc # "idle" /\ th[t].m \in Nat /\ heapEnds \in Nat
        /\ UNCHANGED <<current, log, heapEnds, overlaps>> /\ th' = [th EXCEPT ![t] = Idle]
    BY DEF EndDelete, LogInv, LogTypes, Pushes, PushesOK, PushOK
  <1>2. FaultsOK'
    BY <1>1, GoneTold DEF EndDelete, LogInv, FaultsOK
  <1>3. PushesOK' /\ th' \in [LogThreads -> Pushes]
    BY <1>1, HeapEndsStay, PushGoesOn DEF EndDelete, Idle, Pushes, LogPlaces, PushMoves
  <1>4. Kept(msg')
    BY <1>1, SetStateKeeps DEF EndDelete, LogInv, LogTypes, Kept
  <1>5. CurrentThere' /\ PoolsApart' /\ ListedOK'
    BY <1>1, <1>4 DEF LogInv, CurrentThere, PoolsApart, ListedOK, Kept
  <1>6. LogTypes'
    BY <1>1, <1>3, <1>4, TypesKept DEF LogInv, LogTypes, Kept
  <1> QED BY <1>2, <1>3, <1>5, <1>6 DEF LogInv

-----------------------------------------------------------------------------
(***************************************************************************)
(* Opening and closing.                                                    *)
(***************************************************************************)

\* An object is made anew or deleted; overlaps says whether another thread was inside a push to
\* it.  The thread that does it is inside none.
LEMMA CloseKeeps ==
  ASSUME LogInv, NEW t \in LogThreads, NEW l \in LogHandles, NEW o \in Objects, th[t].pc = "idle",
         log' = [log EXCEPT ![l] = o], overlaps' = (overlaps \/ InsidePush(l, t)),
         UNCHANGED <<th, heapEnds>>
  PROVE  /\ PushesOK'
         /\ log' \in [Logs -> Objects] /\ overlaps' \in BOOLEAN
         /\ log'[l] = o /\ \A k \in Logs \ {l} : log'[k] = log[k]
  <1>1. /\ log' \in [Logs -> Objects] /\ log'[l] = o /\ \A k \in Logs \ {l} : log'[k] = log[k]
        /\ l \in Logs /\ Default \in Logs \ {l} /\ overlaps' \in BOOLEAN /\ (overlaps => overlaps')
    BY LogAssumption DEF LogInv, LogTypes, Logs
  <1>2. ASSUME NEW u \in LogThreads PROVE PushOK(u)'
    <2>1. th[u].on = l => overlaps'
      <3>1. CASE u = t
        BY <1>1, <3>1, LogAssumption DEF LogInv, PushesOK, PushOK, Logs
      <3>2. CASE u # t
        BY <3>2 DEF InsidePush
      <3> QED BY <3>1, <3>2
    <2> QED BY <1>1, <2>1 DEF LogInv, PushesOK, PushOK
  <1> QED BY <1>1, <1>2 DEF LogInv, PushesOK

\* The pool is emptied, and no other one lists its messages.
LEMMA CloseEmptiesPool ==
  ASSUME LogInv, NEW l \in LogHandles, log'[l].pool = <<>>, \A k \in Logs \ {l} : log'[k] = log[k],
         msg' = ClosedPool(l), heapEnds' = heapEnds, overlaps => overlaps'
  PROVE  PoolsApart' /\ ListedOK' /\ msg' \in Seq(Messages)
  <1>1. l \in Logs /\ DOMAIN log'[l].pool = {}
    BY DEF Logs
  <1>2. Kept(msg') /\ \A i \in DOMAIN msg : msg'[i].state = "deleted" =>
          msg[i].state = "deleted" \/ \E k \in DOMAIN log[l].pool : log[l].pool[k] = i
    BY <1>1, ClosedPoolKeeps DEF LogInv
  <1>3. PoolsApart'
    BY <1>1 DEF LogInv, PoolsApart
  <1>4. ASSUME NEW k \in Logs, NEW i \in DOMAIN log'[k].pool
        PROVE  /\ log'[k].pool[i] \in DOMAIN msg'
               /\ msg'[log'[k].pool[i]].state = "deleted" => heapEnds' > 0 \/ overlaps'
    <2>1. k # l /\ log'[k] = log[k] /\ i \in DOMAIN log[k].pool
      BY <1>1, <1>4
    <2>2. \A j \in DOMAIN log[l].pool : log[l].pool[j] # log[k].pool[i]
      BY <1>1, <2>1 DEF LogInv, PoolsApart
    <2> QED BY <1>2, <2>1, <2>2 DEF LogInv, ListedOK, Kept
  <1> QED BY <1>2, <1>3, <1>4 DEF ListedOK, Kept

LEMMA CloseFaultTold ==
  ASSUME LogInv, NEW l \in Logs, faults' = faults \cup CloseFault(l), heapEnds' = heapEnds, overlaps => overlaps'
  PROVE  FaultsOK'
  BY ReadTold DEF LogInv, FaultsOK, CloseFault

LEMMA OpenLogStep ==
  ASSUME LogInv, NEW t \in LogThreads, NEW l \in LogHandles, NEW file \in BOOLEAN, NEW heap \in BOOLEAN,
         NEW asdef \in BOOLEAN, OpenLog(t, l, file, heap, asdef)
  PROVE  LogInv'
  <1>1. PICK opened \in BOOLEAN :
          /\ log' = [log EXCEPT ![l] = [there |-> TRUE, os |-> file /\ opened, heap |-> heap, pool |-> <<>>]]
          /\ current' = IF opened /\ asdef THEN l ELSE ClosePointer(l)
    BY DEF OpenLog
  <1> DEFINE o == [there |-> TRUE, os |-> file /\ opened, heap |-> heap, pool |-> <<>>]
  <1>2. o \in Objects /\ o.there /\ o.pool = <<>>
    BY EmptySeq DEF Objects
  <1>3. log' = [log EXCEPT ![l] = o]
    BY <1>1
  <1> HIDE DEF o
  <1>4. /\ PushesOK' /\ log' \in [Logs -> Objects] /\ overlaps' \in BOOLEAN
        /\ log'[l] = o /\ \A k \in Logs \ {l} : log'[k] = log[k]
    BY <1>2, <1>3, CloseKeeps DEF OpenLog, Call
  <1>5. PoolsApart' /\ ListedOK' /\ msg' \in Seq(Messages)
    BY <1>2, <1>4, CloseEmptiesPool DEF OpenLog
  <1>6. FaultsOK'
    BY CloseFaultTold DEF OpenLog, Logs
  <1>7. CurrentThere' /\ current' \in Logs \cup {NoLog}
    BY <1>1, <1>2, <1>4 DEF LogInv, LogTypes, CurrentThere, ClosePointer, Logs
  <1>8. LogTypes'
    BY <1>4, <1>5, <1>7, TypesKept DEF OpenLog, LogInv, LogTypes
  <1> QED BY <1>4, <1>5, <1>6, <1>7, <1>8 DEF LogInv

LEMMA DestroyStep ==
  ASSUME LogInv, NEW t \in LogThreads, NEW l \in LogHandles, Destroy(t, l)
  PROVE  LogInv'
  <1>1. Closed \in Objects /\ Closed.pool = <<>>
    BY EmptySeq DEF Closed, Objects
  <1>2. /\ PushesOK' /\ log' \in [Logs -> Objects] /\ overlaps' \in BOOLEAN
        /\ log'[l] = Closed /\ \A k \in Logs \ {l} : log'[k] = log[k]
    BY <1>1, CloseKeeps DEF Destroy, Call
  <1>3. PoolsApart' /\ ListedOK' /\ msg' \in Seq(Messages)
    BY <1>1, <1>2, CloseEmptiesPool DEF Destroy
  <1>4. FaultsOK'
    BY CloseFaultTold DEF Destroy, Logs
  <1>5. CurrentThere' /\ current' \in Logs \cup {NoLog}
    BY <1>2 DEF Destroy, LogInv, LogTypes, CurrentThere, ClosePointer, Logs
  <1>6. LogTypes'
    BY <1>2, <1>3, <1>5, TypesKept DEF Destroy, LogInv, LogTypes
  <1> QED BY <1>2, <1>3, <1>4, <1>5, <1>6 DEF LogInv

\* Another value of the stream or the mode.
LEMMA OtherSteps ==
  ASSUME LogInv, NEW t \in LogThreads, NEW l \in LogHandles,
         CloseFile(t, l) \/ SetAsDefault(t, l) \/ \E heap \in BOOLEAN : SetMode(t, l, heap)
  PROVE  LogInv'
  <1>1. l \in Logs /\ log[l] \in Objects /\ UNCHANGED <<msg, th, faults, heapEnds>>
    BY DEF LogInv, LogTypes, Logs, CloseFile, SetAsDefault, SetMode
  <1>2. /\ log' \in [Logs -> Objects] /\ current' \in Logs \cup {NoLog} /\ overlaps' \in BOOLEAN
        /\ (overlaps => overlaps') /\ PushesOK'
        /\ \A k \in Logs : log'[k].there = log[k].there /\ log'[k].pool = log[k].pool
        /\ current' = current \/ (current' = l /\ log[l].there)
    <2>1. CASE CloseFile(t, l)
      <3> DEFINE o == [log[l] EXCEPT !.os = FALSE]
      <3>1. o \in Objects /\ o.there = log[l].there /\ o.pool = log[l].pool
        BY <1>1 DEF Objects
      <3>2. log' = [log EXCEPT ![l] = o]
        BY <2>1 DEF CloseFile, LogInv, LogTypes
      <3> HIDE DEF o
      <3>3. /\ PushesOK' /\ log' \in [Logs -> Objects] /\ overlaps' \in BOOLEAN
            /\ log'[l] = o /\ \A k \in Logs \ {l} : log'[k] = log[k]
        BY <2>1, <3>1, <3>2, CloseKeeps DEF CloseFile, Call
      <3> QED BY <2>1, <3>1, <3>3 DEF CloseFile, LogInv, LogTypes
    <2>2. CASE SetAsDefault(t, l)
      <3>1. UNCHANGED <<log, overlaps>> /\ (current' = current \/ (current' = l /\ log[l].there))
        BY <1>1, <2>2 DEF SetAsDefault, Objects
      <3>2. PushesOK'
        BY <1>1, <3>1 DEF LogInv, PushesOK, PushOK
      <3> QED BY <1>1, <3>1, <3>2 DEF LogInv, LogTypes
    <2>3. ASSUME NEW heap \in BOOLEAN, SetMode(t, l, heap)
          PROVE  /\ log' \in [Logs -> Objects] /\ UNCHANGED <<current, overlaps>>
                 /\ \A k \in Logs : log'[k].there = log[k].there /\ log'[k].pool = log[k].pool /\ log'[k].os = log[k].os
      <3> DEFINE o == [log[l] EXCEPT !.heap = heap]
      <3>1. o \in Objects /\ o.there = log[l].there /\ o.pool = log[l].pool /\ o.os = log[l].os
        BY <1>1 DEF Objects
      <3>2. log' = [log EXCEPT ![l] = o] \/ log' = log
        BY <2>3 DEF SetMode, LogInv, LogTypes
      <3> HIDE DEF o
      <3> QED BY <1>1, <2>3, <3>1, <3>2 DEF SetMode, LogInv, LogTypes
    <2>4. CASE \E heap \in BOOLEAN : SetMode(t, l, heap)
      <3>1. /\ log' \in [Logs -> Objects] /\ UNCHANGED <<current, overlaps>>
            /\ \A k \in Logs : log'[k].there = log[k].there /\ log'[k].pool = log[k].pool /\ log'[k].os = log[k].os
        BY <2>3, <2>4
      <3>2. PushesOK'
        BY <1>1, <3>1 DEF LogInv, PushesOK, PushOK, Logs
      <3>3. current' \in Logs \cup {NoLog} /\ overlaps' \in BOOLEAN
        BY <3>1 DEF LogInv, LogTypes
      <3>4. (overlaps => overlaps') /\ (current' = current \/ (current' = l /\ log[l].there))
        BY <3>1
      <3> QED BY <3>1, <3>2, <3>3, <3>4
    <2> QED BY <2>1, <2>2, <2>4
  <1>3. CurrentThere'
    BY <1>1, <1>2 DEF LogInv, LogTypes, CurrentThere
  <1>4. PoolsApart' /\ ListedOK' /\ FaultsOK'
    BY <1>1, <1>2 DEF LogInv, PoolsApart, ListedOK, FaultsOK
  <1>5. LogTypes'
    BY <1>1, <1>2, TypesKept DEF LogInv, LogTypes
  <1> QED BY <1>2, <1>3, <1>4, <1>5 DEF LogInv

-----------------------------------------------------------------------------
LEMMA LogNextInv == LogInv /\ [LogNext]_logVars => LogInv'
  <1> SUFFICES ASSUME LogInv, [LogNext]_logVars PROVE LogInv'
    OBVIOUS
  <1>1. CASE UNCHANGED logVars
    BY <1>1 DEF logVars, LogInv, LogTypes, CurrentThere, PushesOK, PushOK, PoolsApart, ListedOK, FaultsOK
  <1>2. ASSUME NEW t \in LogThreads, NEW l \in LogHandles,
               (\E file, heap, asdef \in BOOLEAN : OpenLog(t, l, file, heap, asdef)) \/ Destroy(t, l)
        PROVE  LogInv'
    BY <1>2, OpenLogStep, DestroyStep
  <1> QED BY <1>1, <1>2, PushSteps, PushFromPoolStep, EndDeleteStep, OtherSteps DEF LogNext

\* The current log is there, and freed memory is touched only after a heap message has been
\* ended or a log was closed under a push, for any threads that push, open and close in any order.
THEOREM LogCorrect == LogSpec => []LogOutlivesItsUse
  <1>1. LogInv => LogOutlivesItsUse
    BY DEF LogInv, CurrentThere, FaultsOK, LogOutlivesItsUse
  <1> QED BY <1>1, LogInitInv, LogNextInv, PTL DEF LogSpec
=============================================================================
