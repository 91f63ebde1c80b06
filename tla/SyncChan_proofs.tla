--------------------------- MODULE SyncChan_proofs ---------------------------
(***************************************************************************)
(* Theorems about SyncChan: buffers keep to their size, the channels are   *)
(* the queues and meetings of ChanSem, and an operation serves whom it     *)
(* can.  ChanInv is the inductive invariant of the first two, ServeInv     *)
(* that of the last.                                                       *)
(***************************************************************************)
EXTENDS MCSyncChan, FunctionTheorems, FiniteSetTheorems, SequenceTheorems, TLAPS

Pcs == {"idle", "pop", "scan", "enter", "link", "sleep", "unlink", "return"}
Index == Nat \ {0}

ChanTypes ==
  /\ que \in [Chans -> Seq(Values)]
  /\ chain \in [Chans \X Ops -> Seq(Threads \X Index)]
  /\ cmu \in [Chans -> Threads \cup {NoOne}]
  /\ mu \in [Threads -> Threads \cup {NoOne}]
  /\ waitstate \in [Threads -> {"NoWait", "Wait"}]
  /\ signal_index \in [Threads -> Nat]
  /\ wpc \in [Threads -> Pcs]
  /\ wi \in [Threads -> Index]
  /\ trying \in [Threads -> BOOLEAN]
  /\ calls \in [Threads -> 0..MaxCalls]
  /\ cursor \in [Threads -> Index]
  /\ done \in [Threads -> BOOLEAN]
  /\ got \in [Threads -> Values]

BuffersBounded == \A c \in Chans : Len(que[c]) <= maxsize[c]

\* A link stands in the chain of its own operation.
LinkOK(x, l) ==
  /\ groupindex(l) \in DOMAIN evlinks[waitgroup(l)]
  /\ evlinks[waitgroup(l)][groupindex(l)] = [op |-> x[2], chan |-> x[1]]
LinksOK == \A x \in Chans \X Ops : \A k \in DOMAIN chain[x] : LinkOK(x, chain[x][k])

\* A thread that walks a chain owns the channel, and enters a group only to serve it.
ScanOK(t) ==
  /\ inScan(t) => wi[t] <= Size(t) /\ cmu[myChan(t)] = t
  /\ wpc[t] = "enter" => ~ScanOver(t)

\* A thread has its signal when it may leave, and not before.
SignalOK(t) ==
  /\ wi[t] <= Size(t) + 1 /\ signal_index[t] <= Size(t)
  /\ wpc[t] \in {"pop", "scan", "enter", "link"} => signal_index[t] = esigNoSignal
  /\ waitstate[t] = "Wait" => wpc[t] = "sleep" /\ signal_index[t] = esigNoSignal
  /\ wpc[t] = "sleep" /\ waitstate[t] # "Wait" => signal_index[t] # esigNoSignal
  /\ wpc[t] = "unlink" => signal_index[t] # esigNoSignal

ChanInv ==
  /\ ChanTypes /\ BuffersBounded /\ LinksOK
  /\ \A t \in Threads : ScanOK(t) /\ SignalOK(t)

\* The links of a thread stand in their chains, once each, from the time it links them to the
\* time it unlinks them.
Linked(u, i) == \E k \in DOMAIN chain[<<chanOf(u, i), operation(u, i)>>] :
                   chain[<<chanOf(u, i), operation(u, i)>>][k] = <<u, i>>
LinkedOK(u) ==
  \A i \in 1..Size(u) : wpc[u] = "sleep" \/ (wpc[u] = "link" /\ i < wi[u]) => Linked(u, i)
InPlace(u, i) ==
  /\ wpc[u] \in {"link", "sleep", "unlink"}
  /\ wpc[u] = "link" => i < wi[u]
  /\ wpc[u] = "unlink" => i >= wi[u]
ChainsApart ==
  \A x \in Chans \X Ops :
    /\ IsInjective(chain[x])
    /\ \A k \in DOMAIN chain[x] : InPlace(waitgroup(chain[x][k]), groupindex(chain[x][k]))

\* Who slept when the scan began still stands in the chain; the scan has passed it only if it
\* sleeps no more.
Ahead(t, u) ==
  \E k \in DOMAIN coChain(t) :
    /\ waitgroup(coChain(t)[k]) = u
    /\ wpc[u] \in {"sleep", "unlink"}
    /\ waitstate[u] = "Wait" => cursor[t] <= k
SleepersAhead ==
  /\ sleepers \in [Threads -> SUBSET Threads]
  /\ \A t \in Threads : wpc[t] \in {"scan", "enter"} => \A u \in sleepers[t] : Ahead(t, u)

ServeInv == ChanInv /\ (\A u \in Threads : LinkedOK(u)) /\ ChainsApart /\ SleepersAhead

-----------------------------------------------------------------------------
(* Sequences, operations and buffers. *)

LEMMA Prefixed ==
  ASSUME NEW S, NEW s \in Seq(S), NEW e \in S
  PROVE  /\ <<e>> \o s \in Seq(S)
         /\ Len(<<e>> \o s) = Len(s) + 1
         /\ (<<e>> \o s)[1] = e
         /\ \A k \in 1..Len(s) : (<<e>> \o s)[k + 1] = s[k]
  OBVIOUS

LEMMA Removed ==
  ASSUME NEW S, NEW s \in Seq(S), NEW k \in DOMAIN s
  PROVE  /\ RemoveAt(s, k) \in Seq(S)
         /\ Len(RemoveAt(s, k)) = Len(s) - 1
         /\ \A j \in 1..(Len(s) - 1) : RemoveAt(s, k)[j] = IF j < k THEN s[j] ELSE s[j + 1]
  <1> DEFINE a == SubSeq(s, 1, k - 1)
             b == SubSeq(s, k + 1, Len(s))
  <1>1. /\ a \in Seq(S) /\ Len(a) = k - 1
        /\ \A j \in 1..(k - 1) : a[j] = s[j]
    OBVIOUS
  <1>2. /\ b \in Seq(S) /\ Len(b) = Len(s) - k
        /\ \A j \in 1..(Len(s) - k) : b[j] = s[k + j]
    OBVIOUS
  <1>3. RemoveAt(s, k) = a \o b
    BY DEF RemoveAt
  <1> HIDE DEF a, b
  <1>4. /\ a \o b \in Seq(S) /\ Len(a \o b) = Len(s) - 1
        /\ \A j \in 1..(Len(s) - 1) : (a \o b)[j] = IF j < k THEN a[j] ELSE b[j - (k - 1)]
    <2>1. k \in 1..Len(s) /\ Len(s) \in Nat
      BY LenProperties
    <2>2. /\ a \o b \in Seq(S) /\ Len(a \o b) = Len(a) + Len(b)
          /\ \A j \in 1..(Len(a) + Len(b)) : (a \o b)[j] = IF j <= Len(a) THEN a[j] ELSE b[j - Len(a)]
      BY <1>1, <1>2, ConcatProperties
    <2>3. Len(a) = k - 1 /\ Len(a) + Len(b) = Len(s) - 1
      BY <1>1, <1>2, <2>1
    <2>4. \A j \in 1..(Len(s) - 1) : j <= k - 1 <=> j < k
      BY <2>1
    <2> QED BY <2>2, <2>3, <2>4
  <1>5. \A j \in 1..(Len(s) - 1) : (a \o b)[j] = IF j < k THEN s[j] ELSE s[j + 1]
    <2> TAKE j \in 1..(Len(s) - 1)
    <2>1. CASE j < k
      <3>1. j \in 1..(k - 1)
        BY <2>1
      <3> QED BY <1>1, <1>4, <2>1, <3>1
    <2>2. CASE ~(j < k)
      <3>1. j - (k - 1) \in 1..(Len(s) - k) /\ k + (j - (k - 1)) = j + 1
        BY <2>2
      <3> QED BY <1>2, <1>4, <2>2, <3>1
    <2> QED BY <2>1, <2>2
  <1> QED BY <1>3, <1>4, <1>5

LEMMA Member == ASSUME NEW S, NEW s \in Seq(S), NEW i \in 1..Len(s) PROVE s[i] \in S
  OBVIOUS

LEMMA OperationFacts ==
  ASSUME NEW t \in Threads
  PROVE  /\ Size(t) \in Nat /\ DOMAIN evlinks[t] = 1..Size(t)
         /\ \A i \in 1..Size(t) :
              /\ operation(t, i) \in Ops /\ coevent(operation(t, i)) \in Ops
              /\ coevent(coevent(operation(t, i))) = operation(t, i)
              /\ chanOf(t, i) \in Chans
              /\ evlinks[t][i] = [op |-> operation(t, i), chan |-> chanOf(t, i)]
  <1>1. evlinks[t] \in Seq([op : Ops, chan : Chans])
    BY LinksAssumption
  <1>2. \A i \in 1..Len(evlinks[t]) : evlinks[t][i] \in [op : Ops, chan : Chans]
    BY <1>1, Member
  <1> QED BY <1>1, <1>2 DEF Size, operation, chanOf, coevent, Ops

\* A group names each channel once, so it has no more operations than there are channels.
LEMMA SizeBounded == ASSUME NEW t \in Threads PROVE Size(t) <= Cardinality(Chans)
  <1> DEFINE f == [i \in 1..Size(t) |-> chanOf(t, i)]
  <1>1. Size(t) \in Nat /\ IsFiniteSet(Chans)
    BY OperationFacts, ChansAssumption
  <1>2. f \in [1..Size(t) -> Chans]
    BY OperationFacts
  <1>3. \A i, j \in 1..Size(t) : f[i] = f[j] => i = j
    BY OperationFacts, LinksAssumption DEF chanOf
  <1>4. f \in Injection(1..Size(t), Chans)
    BY <1>2, <1>3, Zenon DEF Injection, IsInjective
  <1>5. Cardinality(1..Size(t)) <= Cardinality(Chans)
    BY <1>1, <1>4, FS_Injection
  <1>6. Cardinality(1..Size(t)) = Size(t)
    BY <1>1, FS_Interval
  <1> QED BY <1>5, <1>6

LEMMA Operated ==
  ASSUME ChanTypes, BuffersBounded, NEW c \in Chans, NEW op \in Ops, NEW u \in Threads,
         CanOperate(c, op), do_operation_nm(c, op, u)
  PROVE  /\ que' \in [Chans -> Seq(Values)] /\ got' \in [Threads -> Values]
         /\ \A d \in Chans : Len(que'[d]) <= maxsize[d]
         /\ \A d \in Chans : d # c => que'[d] = que[d]
  <1>1. que[c] \in Seq(Values) /\ value(u) \in Values /\ maxsize[c] \in Nat
    BY ChansAssumption DEF ChanTypes, value, Values
  <1>2. CASE op = "Read"
    <2>1. que[c] # <<>> /\ que' = [que EXCEPT ![c] = Tail(@)] /\ got' = [got EXCEPT ![u] = Head(que[c])]
      BY <1>2 DEF CanOperate, do_operation_nm
    <2>2. Tail(que[c]) \in Seq(Values) /\ Head(que[c]) \in Values /\ Len(Tail(que[c])) <= Len(que[c])
      BY <1>1, <2>1
    <2>3. Len(Tail(que[c])) <= maxsize[c]
      BY <1>1, <2>2 DEF BuffersBounded
    <2> QED BY <2>1, <2>2, <2>3 DEF ChanTypes, BuffersBounded
  <1>3. CASE op = "Write"
    <2>1. /\ Len(que[c]) < maxsize[c] /\ que' = [que EXCEPT ![c] = Append(@, value(u))]
          /\ got' = got
      BY <1>3 DEF CanOperate, HasRoom, do_operation_nm
    <2>2. Append(que[c], value(u)) \in Seq(Values) /\ Len(Append(que[c], value(u))) = Len(que[c]) + 1
      BY <1>1
    <2>3. Len(Append(que[c], value(u))) <= maxsize[c]
      BY <1>1, <2>1, <2>2
    <2> QED BY <2>1, <2>2, <2>3 DEF ChanTypes, BuffersBounded
  <1> QED BY <1>2, <1>3 DEF Ops

\* The thread that enters a group has found there a link for the other event of its channel,
\* which can be served.
LEMMA EnterFacts ==
  ASSUME ChanInv, NEW t \in Threads, wpc[t] = "enter"
  PROVE  /\ wi[t] \in 1..Size(t) /\ cmu[myChan(t)] = t
         /\ IF isSyncChan(myChan(t)) THEN ~done[t] ELSE CanOperate(myChan(t), coevent(myOp(t)))
         /\ cursor[t] \in DOMAIN coChain(t)
         /\ \E u \in Threads, i \in Index :
              /\ coChain(t)[cursor[t]] = <<u, i>>
              /\ i \in 1..Size(u) /\ operation(u, i) = coevent(myOp(t)) /\ chanOf(u, i) = myChan(t)
  <1>1. wi[t] \in 1..Size(t) /\ cmu[myChan(t)] = t /\ ~ScanOver(t)
    BY OperationFacts DEF ChanInv, ChanTypes, ScanOK, inScan, Index
  <1>2. myChan(t) \in Chans /\ coevent(myOp(t)) \in Ops
    BY <1>1, OperationFacts DEF myChan, myOp
  <1>3. coChain(t) \in Seq(Threads \X Index)
    BY <1>2 DEF coChain, ChanInv, ChanTypes
  <1>4. cursor[t] \in DOMAIN coChain(t)
    BY <1>1, <1>3 DEF ScanOver, ChanInv, ChanTypes, Index
  <1>5. IF isSyncChan(myChan(t)) THEN ~done[t] ELSE CanOperate(myChan(t), coevent(myOp(t)))
    BY <1>1 DEF ScanOver, empty_event_nm
  <1>6. LinkOK(<<myChan(t), coevent(myOp(t))>>, coChain(t)[cursor[t]])
    BY <1>2, <1>4 DEF ChanInv, LinksOK, coChain
  <1>7. PICK u \in Threads, i \in Index : coChain(t)[cursor[t]] = <<u, i>>
    BY <1>3, <1>4
  <1>8. /\ i \in 1..Size(u) /\ evlinks[u][i] = [op |-> coevent(myOp(t)), chan |-> myChan(t)]
    BY <1>6, <1>7, OperationFacts DEF LinkOK, waitgroup, groupindex
  <1>9. operation(u, i) = coevent(myOp(t)) /\ chanOf(u, i) = myChan(t)
    BY <1>8 DEF operation, chanOf
  <1> QED BY <1>1, <1>4, <1>5, <1>7, <1>8, <1>9

-----------------------------------------------------------------------------
(* Types, and the bound of the buffers. *)

LEMMA TypesInit == Init => ChanTypes /\ BuffersBounded
  <1> SUFFICES ASSUME Init PROVE ChanTypes /\ BuffersBounded
    OBVIOUS
  <1>1. \A t \in Threads : <<t, 0>> \in Values
    BY BoundsAssumption DEF Values
  <1>2. <<>> \in Seq(Values) /\ <<>> \in Seq(Threads \X Index) /\ Len(<<>>) = 0
    OBVIOUS
  <1>3. ChanTypes
    BY <1>1, <1>2, BoundsAssumption DEF Init, ChanTypes, Pcs, Index, esigNoSignal
  <1>4. BuffersBounded
    BY <1>2, ChansAssumption DEF Init, BuffersBounded
  <1> QED BY <1>3, <1>4

LEMMA TypesNext == ChanInv /\ [Next]_vars => ChanTypes' /\ BuffersBounded'
  <1> SUFFICES ASSUME ChanInv, [Next]_vars PROVE ChanTypes' /\ BuffersBounded'
    OBVIOUS
  <1>0. ChanTypes /\ BuffersBounded
    BY DEF ChanInv
  <1>00. /\ wpc \in [Threads -> Pcs] /\ cursor \in [Threads -> Index] /\ wi \in [Threads -> Index]
         /\ mu \in [Threads -> Threads \cup {NoOne}] /\ waitstate \in [Threads -> {"NoWait", "Wait"}]
    BY <1>0 DEF ChanTypes
  <1> USE DEF Index, Pcs, esigNoSignal
  <1>1. ASSUME NEW t \in Threads, NEW try_wait \in BOOLEAN, Wait(t, try_wait)
        PROVE ChanTypes' /\ BuffersBounded'
    BY <1>0, <1>1, BoundsAssumption DEF Wait, Goto, ChanTypes, BuffersBounded, chanVars, popVars
  <1>2. ASSUME NEW t \in Threads, PopSignal(t) PROVE ChanTypes' /\ BuffersBounded'
    <2>1. wi[t] \in 1..Size(t)
      BY <1>0, <1>2, OperationFacts DEF PopSignal, ChanTypes
    <2>2. myChan(t) \in Chans /\ myOp(t) \in Ops
      BY <2>1, OperationFacts DEF myChan, myOp
    <2>3. /\ que' \in [Chans -> Seq(Values)] /\ got' \in [Threads -> Values]
          /\ \A d \in Chans : Len(que'[d]) <= maxsize[d]
          /\ done' \in [Threads -> BOOLEAN]
      <3>1. CASE ~isSyncChan(myChan(t)) /\ CanOperate(myChan(t), myOp(t))
        <4>1. do_operation_nm(myChan(t), myOp(t), t) /\ done' = [done EXCEPT ![t] = TRUE]
          BY <1>2, <3>1 DEF PopSignal
        <4> QED BY <1>0, <2>2, <3>1, <4>1, Operated DEF ChanTypes
      <3>2. CASE ~(~isSyncChan(myChan(t)) /\ CanOperate(myChan(t), myOp(t)))
        <4>1. que' = que /\ got' = got /\ done' = [done EXCEPT ![t] = FALSE]
          BY <1>2, <3>2 DEF PopSignal
        <4> QED BY <1>0, <4>1 DEF ChanTypes, BuffersBounded
      <3> QED BY <3>1, <3>2
    <2>4. /\ cmu' = [cmu EXCEPT ![myChan(t)] = t] /\ cursor' = [cursor EXCEPT ![t] = 1]
          /\ wpc' = [wpc EXCEPT ![t] = "scan"]
          /\ UNCHANGED <<chain, mu, waitstate, signal_index, wi, trying, calls>>
      BY <1>2 DEF PopSignal, Goto, groupVars
    <2> QED BY <1>0, <2>2, <2>3, <2>4 DEF ChanTypes, BuffersBounded
  <1>3. ASSUME NEW t \in Threads, ScanEnd(t) PROVE ChanTypes' /\ BuffersBounded'
    <2>1. /\ cmu' = [cmu EXCEPT ![myChan(t)] = NoOne]
          /\ UNCHANGED <<que, chain, mu, waitstate, trying, calls, cursor, done, got>>
      BY <1>3 DEF ScanEnd, popVars
    <2>2. /\ wpc' \in [Threads -> Pcs] /\ wi' \in [Threads -> Index]
          /\ signal_index' \in [Threads -> Nat]
      <3>1. CASE done[t]
        BY <1>0, <1>3, <3>1 DEF ScanEnd, Goto, ChanTypes
      <3>2. CASE ~done[t]
        <4>1. wpc' = [wpc EXCEPT ![t] = "pop"] /\ wi' = [wi EXCEPT ![t] = @ + 1] /\ signal_index' = signal_index
          BY <1>3, <3>2 DEF ScanEnd, Goto
        <4> QED BY <1>0, <4>1 DEF ChanTypes
      <3> QED BY <3>1, <3>2
    <2> QED BY <1>0, <2>1, <2>2 DEF ChanTypes, BuffersBounded
  <1>4. ASSUME NEW t \in Threads, ScanPeek(t) PROVE ChanTypes' /\ BuffersBounded'
    <2>1. /\ wpc' = wpc \/ wpc' = [wpc EXCEPT ![t] = "enter"]
          /\ cursor' = cursor \/ cursor' = [cursor EXCEPT ![t] = @ + 1]
          /\ UNCHANGED <<chanVars, groupVars, wi, trying, calls, done, got>>
      BY <1>4 DEF ScanPeek, Advance, Goto
    <2>2. wpc' \in [Threads -> Pcs] /\ cursor' \in [Threads -> Index]
      BY <1>00, <2>1
    <2> QED BY <1>0, <2>1, <2>2 DEF ChanTypes, BuffersBounded, chanVars, groupVars
  <1>5. ASSUME NEW t \in Threads, TrySignalTo(t) PROVE ChanTypes' /\ BuffersBounded'
    <2>1. PICK u \in Threads, i \in Index :
            /\ coChain(t)[cursor[t]] = <<u, i>>
            /\ i \in 1..Size(u) /\ operation(u, i) = coevent(myOp(t)) /\ chanOf(u, i) = myChan(t)
      BY <1>5, EnterFacts DEF TrySignalTo
    <2>2. myChan(t) \in Chans /\ coevent(myOp(t)) \in Ops
      BY <2>1, OperationFacts
    <2>3. /\ cursor' = [cursor EXCEPT ![t] = @ + 1] /\ wpc' = [wpc EXCEPT ![t] = "scan"]
          /\ UNCHANGED <<chain, cmu, mu, wi, trying, calls>>
      BY <1>5 DEF TrySignalTo, Advance, Goto
    <2>4. /\ que' \in [Chans -> Seq(Values)] /\ got' \in [Threads -> Values]
          /\ \A d \in Chans : Len(que'[d]) <= maxsize[d]
          /\ done' \in [Threads -> BOOLEAN]
          /\ signal_index' \in [Threads -> Nat] /\ waitstate' \in [Threads -> {"NoWait", "Wait"}]
      <3>1. CASE StillWaits(u) /\ isSyncChan(myChan(t))
        <4>1. /\ sync_rw(t, u) /\ done' = [done EXCEPT ![t] = TRUE] /\ que' = que
              /\ signal_index' = [signal_index EXCEPT ![u] = i]
              /\ waitstate' = [waitstate EXCEPT ![u] = "NoWait"]
          BY <1>5, <2>1, <3>1 DEF TrySignalTo, waitgroup, groupindex
        <4>2. value(t) \in Values /\ value(u) \in Values
          BY <1>0 DEF value, Values, ChanTypes
        <4> QED BY <1>0, <4>1, <4>2 DEF sync_rw, ChanTypes, BuffersBounded
      <3>2. CASE StillWaits(u) /\ ~isSyncChan(myChan(t))
        <4>1. /\ do_operation_nm(myChan(t), coevent(myOp(t)), u) /\ done' = done
              /\ signal_index' = [signal_index EXCEPT ![u] = i]
              /\ waitstate' = [waitstate EXCEPT ![u] = "NoWait"]
          BY <1>5, <2>1, <3>2 DEF TrySignalTo, waitgroup, groupindex
        <4>2. CanOperate(myChan(t), coevent(myOp(t)))
          BY <1>5, <3>2, EnterFacts DEF TrySignalTo
        <4>3. /\ que' \in [Chans -> Seq(Values)] /\ got' \in [Threads -> Values]
              /\ \A d \in Chans : Len(que'[d]) <= maxsize[d]
          BY <1>0, <2>2, <4>1, <4>2, Operated
        <4> QED BY <1>0, <4>1, <4>3 DEF ChanTypes
      <3>3. CASE ~StillWaits(u)
        <4>1. UNCHANGED <<que, signal_index, waitstate, done, got>>
          BY <1>5, <2>1, <3>3 DEF TrySignalTo, waitgroup
        <4> QED BY <1>0, <4>1 DEF ChanTypes, BuffersBounded
      <3> QED BY <3>1, <3>2, <3>3
    <2>5. cursor' \in [Threads -> Index] /\ wpc' \in [Threads -> Pcs]
      BY <1>0, <2>3 DEF ChanTypes
    <2> QED BY <1>0, <2>3, <2>4, <2>5 DEF ChanTypes, BuffersBounded
  <1>6. ASSUME NEW t \in Threads, PopEnd(t) PROVE ChanTypes' /\ BuffersBounded'
    <2>1. /\ wpc' \in {[wpc EXCEPT ![t] = "return"], [wpc EXCEPT ![t] = "link"]}
          /\ wi' = wi \/ wi' = [wi EXCEPT ![t] = 1]
          /\ UNCHANGED <<chanVars, groupVars, trying, calls, popVars, got>>
      BY <1>6 DEF PopEnd, Goto
    <2>2. wpc' \in [Threads -> Pcs] /\ wi' \in [Threads -> Index]
      BY <1>00, <2>1
    <2> QED BY <1>0, <2>1, <2>2 DEF ChanTypes, BuffersBounded, chanVars, groupVars, popVars
  <1>7. ASSUME NEW t \in Threads, LinkEvent(t) PROVE ChanTypes' /\ BuffersBounded'
    <2> DEFINE x == <<myChan(t), myOp(t)>>
    <2>1. wi[t] \in 1..Size(t)
      BY <1>0, <1>7, OperationFacts DEF LinkEvent, ChanTypes
    <2>2. x \in Chans \X Ops
      BY <2>1, OperationFacts DEF myChan, myOp
    <2>3. <<<<t, wi[t]>>>> \o chain[x] \in Seq(Threads \X Index)
      <3>1. chain[x] \in Seq(Threads \X Index) /\ <<t, wi[t]>> \in Threads \X Index
        BY <1>0, <2>1, <2>2 DEF ChanTypes
      <3> QED BY <3>1, Prefixed
    <2>4. chain' = [chain EXCEPT ![x] = <<<<t, wi[t]>>>> \o chain[x]]
      BY <1>7 DEF LinkEvent
    <2> HIDE DEF x
    <2>5. chain' \in [Chans \X Ops -> Seq(Threads \X Index)]
      BY <1>0, <2>2, <2>3, <2>4 DEF ChanTypes
    <2>6. wi' = [wi EXCEPT ![t] = @ + 1] /\ UNCHANGED <<que, cmu, groupVars, wpc, trying, calls, popVars, got>>
      BY <1>7 DEF LinkEvent
    <2> QED BY <1>0, <2>5, <2>6 DEF ChanTypes, BuffersBounded, groupVars, popVars
  <1>8. ASSUME NEW t \in Threads, Sleep(t) \/ Wake(t) \/ UnlinkEnd(t) \/ Return(t)
        PROVE ChanTypes' /\ BuffersBounded'
    <2>1. /\ \E label \in {"sleep", "unlink", "return", "idle"} : wpc' = [wpc EXCEPT ![t] = label]
          /\ wi' = wi \/ wi' = [wi EXCEPT ![t] = 1]
          /\ mu' = mu \/ mu' = [mu EXCEPT ![t] = NoOne] \/ mu' = [mu EXCEPT ![t] = t]
          /\ waitstate' = waitstate \/ waitstate' = [waitstate EXCEPT ![t] = "Wait"]
          /\ UNCHANGED <<chanVars, signal_index, trying, calls, popVars, got>>
      BY <1>8 DEF Sleep, Wake, UnlinkEnd, Return, Goto, groupVars
    <2>2. /\ wpc' \in [Threads -> Pcs] /\ wi' \in [Threads -> Index]
          /\ mu' \in [Threads -> Threads \cup {NoOne}] /\ waitstate' \in [Threads -> {"NoWait", "Wait"}]
      BY <1>00, <2>1
    <2> QED BY <1>0, <2>1, <2>2 DEF ChanTypes, BuffersBounded, chanVars, popVars
  <1>9. ASSUME NEW t \in Threads, UnlinkEvent(t) PROVE ChanTypes' /\ BuffersBounded'
    <2> DEFINE x == <<myChan(t), myOp(t)>>
    <2>1. wi[t] \in 1..Size(t)
      BY <1>0, <1>9, OperationFacts DEF UnlinkEvent, ChanTypes
    <2>2. x \in Chans \X Ops /\ chain[x] \in Seq(Threads \X Index)
      BY <1>0, <2>1, OperationFacts DEF myChan, myOp, ChanTypes
    <2>3. PICK k \in DOMAIN chain[x] : chain' = [chain EXCEPT ![x] = RemoveAt(chain[x], k)]
      BY <1>9 DEF UnlinkEvent
    <2> HIDE DEF x
    <2>4. RemoveAt(chain[x], k) \in Seq(Threads \X Index)
      BY <2>2, Removed
    <2>5. chain' \in [Chans \X Ops -> Seq(Threads \X Index)]
      BY <1>0, <2>2, <2>3, <2>4 DEF ChanTypes
    <2>6. wi' = [wi EXCEPT ![t] = @ + 1] /\ UNCHANGED <<que, cmu, groupVars, wpc, trying, calls, popVars, got>>
      BY <1>9 DEF UnlinkEvent
    <2> QED BY <1>0, <2>5, <2>6 DEF ChanTypes, BuffersBounded, groupVars, popVars
  <1>10. CASE UNCHANGED vars
    BY <1>0, <1>10 DEF vars, chanVars, groupVars, waitVars, popVars, ChanTypes, BuffersBounded
  <1> QED BY <1>1, <1>2, <1>3, <1>4, <1>5, <1>6, <1>7, <1>8, <1>9, <1>10 DEF Next, WaitStep

-----------------------------------------------------------------------------
(* Links, scans and signals. *)

\* LinkEvent puts a link before the ones of its chain, UnlinkEvent takes it out.
LinkedAs(t, x, s) ==
  /\ wi[t] \in 1..Size(t) /\ x = <<myChan(t), myOp(t)>> /\ chain[x] \in Seq(Threads \X Index)
  /\ Len(s) = Len(chain[x]) + 1 /\ s[1] = <<t, wi[t]>>
  /\ \A k \in 1..Len(chain[x]) : s[k + 1] = chain[x][k]
  /\ \A y \in Chans \X Ops : chain'[y] = IF y = x THEN s ELSE chain[y]
UnlinkedAs(t, x, s, k) ==
  /\ wi[t] \in 1..Size(t) /\ x = <<myChan(t), myOp(t)>> /\ chain[x] \in Seq(Threads \X Index)
  /\ k \in 1..Len(chain[x]) /\ chain[x][k] = <<t, wi[t]>>
  /\ Len(s) = Len(chain[x]) - 1
  /\ \A j \in 1..Len(s) : s[j] = IF j < k THEN chain[x][j] ELSE chain[x][j + 1]
  /\ \A y \in Chans \X Ops : chain'[y] = IF y = x THEN s ELSE chain[y]

LEMMA LinkEffect ==
  ASSUME ChanTypes, NEW t \in Threads, LinkEvent(t)
  PROVE  \E x \in Chans \X Ops, s \in Seq(Threads \X Index) : LinkedAs(t, x, s)
  <1> DEFINE x == <<myChan(t), myOp(t)>>
  <1>1. wi[t] \in 1..Size(t)
    BY OperationFacts DEF LinkEvent, ChanTypes, Index
  <1>2. /\ x \in Chans \X Ops /\ chain[x] \in Seq(Threads \X Index) /\ <<t, wi[t]>> \in Threads \X Index
    BY <1>1, OperationFacts DEF myChan, myOp, ChanTypes, Index
  <1>3. chain' = [chain EXCEPT ![x] = <<<<t, wi[t]>>>> \o chain[x]]
    BY DEF LinkEvent
  <1>4. x = <<myChan(t), myOp(t)>>
    OBVIOUS
  <1> HIDE DEF x
  <1>5. PICK s : s = <<<<t, wi[t]>>>> \o chain[x]
    OBVIOUS
  <1>6. /\ s \in Seq(Threads \X Index) /\ Len(s) = Len(chain[x]) + 1 /\ s[1] = <<t, wi[t]>>
        /\ \A k \in 1..Len(chain[x]) : s[k + 1] = chain[x][k]
    BY <1>2, <1>5, Prefixed
  <1>7. \A y \in Chans \X Ops : chain'[y] = IF y = x THEN s ELSE chain[y]
    BY <1>3, <1>5 DEF ChanTypes
  <1>8. LinkedAs(t, x, s)
    BY <1>1, <1>2, <1>4, <1>6, <1>7 DEF LinkedAs
  <1> QED BY <1>2, <1>6, <1>8

LEMMA UnlinkEffect ==
  ASSUME ChanTypes, NEW t \in Threads, UnlinkEvent(t)
  PROVE  \E x \in Chans \X Ops, s \in Seq(Threads \X Index), k \in Index : UnlinkedAs(t, x, s, k)
  <1> DEFINE x == <<myChan(t), myOp(t)>>
  <1>1. wi[t] \in 1..Size(t)
    BY OperationFacts DEF UnlinkEvent, ChanTypes, Index
  <1>2. x \in Chans \X Ops /\ chain[x] \in Seq(Threads \X Index)
    BY <1>1, OperationFacts DEF myChan, myOp, ChanTypes
  <1>3. PICK k \in DOMAIN chain[x] : chain[x][k] = <<t, wi[t]>> /\ chain' = [chain EXCEPT ![x] = RemoveAt(chain[x], k)]
    BY DEF UnlinkEvent
  <1>4. x = <<myChan(t), myOp(t)>>
    OBVIOUS
  <1> HIDE DEF x
  <1>5. PICK s : s = RemoveAt(chain[x], k)
    OBVIOUS
  <1>6. /\ s \in Seq(Threads \X Index) /\ Len(s) = Len(chain[x]) - 1
        /\ \A j \in 1..(Len(chain[x]) - 1) : s[j] = IF j < k THEN chain[x][j] ELSE chain[x][j + 1]
    BY <1>2, <1>5, Removed
  <1>7. \A y \in Chans \X Ops : chain'[y] = IF y = x THEN s ELSE chain[y]
    BY <1>3, <1>5 DEF ChanTypes
  <1>8. k \in 1..Len(chain[x]) /\ k \in Index
    BY <1>2, <1>3 DEF Index
  <1>9. UnlinkedAs(t, x, s, k)
    BY <1>1, <1>2, <1>3, <1>4, <1>6, <1>7, <1>8 DEF UnlinkedAs
  <1> QED BY <1>2, <1>6, <1>8, <1>9

LEMMA LinksNext == ChanInv /\ [Next]_vars => LinksOK'
  <1> SUFFICES ASSUME ChanInv, [Next]_vars PROVE LinksOK'
    OBVIOUS
  <1>0. ChanTypes /\ LinksOK
    BY DEF ChanInv
  <1>1. CASE chain' = chain
    BY <1>0, <1>1 DEF LinksOK, LinkOK
  <1>2. ASSUME NEW t \in Threads, LinkEvent(t) PROVE LinksOK'
    <2>1. PICK x \in Chans \X Ops, s \in Seq(Threads \X Index) : LinkedAs(t, x, s)
      BY <1>0, <1>2, LinkEffect
    <2> USE DEF LinkedAs
    <2>2. LinkOK(x, <<t, wi[t]>>)
      BY <2>1, OperationFacts DEF myChan, myOp, LinkOK, waitgroup, groupindex
    <2>3. \A k \in DOMAIN s : LinkOK(x, s[k])
      <3> TAKE k \in DOMAIN s
      <3>1. CASE k = 1
        BY <2>1, <2>2, <3>1
      <3>2. CASE k # 1
        <4>1. k - 1 \in 1..Len(chain[x]) /\ (k - 1) + 1 = k
          BY <2>1, <3>2
        <4>2. s[(k - 1) + 1] = chain[x][k - 1]
          BY <2>1, <4>1
        <4>3. k - 1 \in DOMAIN chain[x]
          BY <2>1, <4>1
        <4>4. s[k] = chain[x][k - 1]
          BY <4>1, <4>2
        <4> QED BY <1>0, <4>3, <4>4 DEF LinksOK
      <3> QED BY <3>1, <3>2
    <2> QED BY <1>0, <2>1, <2>3 DEF LinksOK, LinkOK
  <1>3. ASSUME NEW t \in Threads, UnlinkEvent(t) PROVE LinksOK'
    <2>1. PICK x \in Chans \X Ops, s \in Seq(Threads \X Index), k \in Index : UnlinkedAs(t, x, s, k)
      BY <1>0, <1>3, UnlinkEffect
    <2> USE DEF UnlinkedAs
    <2>2. \A j \in DOMAIN s : \E i \in DOMAIN chain[x] : s[j] = chain[x][i]
      <3> TAKE j \in DOMAIN s
      <3>1. j \in 1..Len(s) /\ j \in DOMAIN chain[x] /\ j + 1 \in DOMAIN chain[x]
        BY <2>1
      <3> QED BY <2>1, <3>1
    <2>3. \A j \in DOMAIN s : LinkOK(x, s[j])
      BY <1>0, <2>2 DEF LinksOK
    <2> QED BY <1>0, <2>1, <2>3 DEF LinksOK, LinkOK
  <1>4. ASSUME NEW t \in Threads, WaitStep(t) PROVE LinksOK'
    <2>1. chain' = chain \/ LinkEvent(t) \/ UnlinkEvent(t)
      BY <1>4 DEF WaitStep, PopSignal, ScanEnd, ScanPeek, TrySignalTo, PopEnd, Sleep, Wake, UnlinkEnd, Return, chanVars
    <2> QED BY <1>1, <1>2, <1>3, <2>1
  <1>5. ASSUME NEW t \in Threads, NEW try_wait \in BOOLEAN, Wait(t, try_wait) PROVE chain' = chain
    BY <1>5 DEF Wait, chanVars
  <1>6. CASE UNCHANGED vars
    BY <1>1, <1>6 DEF vars, chanVars
  <1> QED BY <1>1, <1>4, <1>5, <1>6 DEF Next

\* What the other threads scan is theirs: a step of t touches channels that are free or its own.
LEMMA OthersScan ==
  ASSUME ChanInv, NEW t \in Threads, NEW u \in Threads, u # t,
         wpc'[u] = wpc[u], wi'[u] = wi[u], cursor'[u] = cursor[u], done'[u] = done[u],
         \A d \in Chans : cmu[d] \notin {NoOne, t} =>
           /\ que'[d] = que[d] /\ cmu'[d] = cmu[d]
           /\ \A op \in Ops : chain'[<<d, op>>] = chain[<<d, op>>]
  PROVE  ScanOK(u)'
  <1>1. CASE ~inScan(u)
    BY <1>1 DEF ScanOK, inScan
  <1>2. CASE inScan(u)
    <2>1. wi[u] \in 1..Size(u) /\ cmu[myChan(u)] = u
      BY <1>2, OperationFacts DEF ChanInv, ChanTypes, ScanOK, Index
    <2>2. myChan(u) \in Chans /\ coevent(myOp(u)) \in Ops
      BY <2>1, OperationFacts DEF myChan, myOp
    <2>3. u \notin {NoOne, t}
      BY NamesAssumption
    <2>4. /\ que'[myChan(u)] = que[myChan(u)] /\ cmu'[myChan(u)] = u
          /\ chain'[<<myChan(u), coevent(myOp(u))>>] = coChain(u)
      BY <2>1, <2>2, <2>3 DEF coChain
    <2>5. myChan(u)' = myChan(u) /\ myOp(u)' = myOp(u)
      BY DEF myChan, myOp
    <2>6. coChain(u)' = coChain(u)
      BY <2>4, <2>5 DEF coChain
    <2>7. ScanOver(u)' <=> ScanOver(u)
      <3>1. empty_event_nm(myChan(u), coevent(myOp(u)))' <=> empty_event_nm(myChan(u), coevent(myOp(u)))
        BY <2>4, <2>5 DEF empty_event_nm, CanOperate, HasRoom
      <3> QED BY <2>5, <2>6, <3>1 DEF ScanOver
    <2> QED BY <1>2, <2>1, <2>4, <2>5, <2>7 DEF ChanInv, ScanOK, inScan
  <1> QED BY <1>1, <1>2

LEMMA ScansNext == ChanInv /\ [Next]_vars => \A u \in Threads : ScanOK(u)'
  <1> SUFFICES ASSUME ChanInv, [Next]_vars, NEW u \in Threads PROVE ScanOK(u)'
    OBVIOUS
  <1>0. ChanTypes
    BY DEF ChanInv
  <1>1. CASE UNCHANGED vars
    <2>1. ScanOK(u)
      BY DEF ChanInv
    <2>2. ScanOver(u)' <=> ScanOver(u)
      BY <1>1 DEF vars, chanVars, waitVars, popVars, ScanOver, coChain, myChan, myOp, empty_event_nm, CanOperate, HasRoom
    <2> QED BY <1>1, <2>1, <2>2 DEF ScanOK, inScan, myChan, vars, chanVars, waitVars
  <1>2. ASSUME NEW t \in Threads, NEW try_wait \in BOOLEAN, Wait(t, try_wait) PROVE ScanOK(u)'
    <2>1. /\ UNCHANGED <<que, chain, cmu, cursor, done>> /\ wpc' = [wpc EXCEPT ![t] = "pop"]
          /\ wi' = [wi EXCEPT ![t] = 1]
      BY <1>2 DEF Wait, Goto, chanVars, popVars
    <2>2. CASE u = t
      BY <1>0, <2>1, <2>2 DEF ScanOK, inScan, ChanTypes
    <2>3. CASE u # t
      BY <1>0, <2>1, <2>3, OthersScan DEF ChanTypes
    <2> QED BY <2>2, <2>3
  <1>3. ASSUME NEW t \in Threads, WaitStep(t), u # t PROVE ScanOK(u)'
    <2>1. /\ wpc'[u] = wpc[u] /\ wi'[u] = wi[u] /\ cursor'[u] = cursor[u]
      BY <1>0, <1>3 DEF WaitStep, PopSignal, ScanEnd, ScanPeek, TrySignalTo, PopEnd, LinkEvent, Sleep, Wake,
           UnlinkEvent, UnlinkEnd, Return, Goto, Advance, popVars, ChanTypes
    <2>2. done'[u] = done[u]
      BY <1>0, <1>3 DEF WaitStep, PopSignal, ScanEnd, ScanPeek, TrySignalTo, PopEnd, LinkEvent, Sleep, Wake,
           UnlinkEvent, UnlinkEnd, Return, popVars, ChanTypes
    <2>3. ASSUME NEW d \in Chans, cmu[d] \notin {NoOne, t}
          PROVE  /\ que'[d] = que[d] /\ cmu'[d] = cmu[d]
                 /\ \A op \in Ops : chain'[<<d, op>>] = chain[<<d, op>>]
      <3>1. CASE PopSignal(t)
        <4>1. wi[t] \in 1..Size(t) /\ cmu[myChan(t)] = NoOne
          BY <1>0, <3>1, OperationFacts DEF PopSignal, ChanTypes, Index
        <4>2. d # myChan(t) /\ myChan(t) \in Chans /\ myOp(t) \in Ops
          BY <2>3, <4>1, OperationFacts DEF myChan, myOp
        <4>3. cmu' = [cmu EXCEPT ![myChan(t)] = t] /\ chain' = chain
          BY <3>1 DEF PopSignal
        <4>4. que'[d] = que[d]
          BY <1>0, <3>1, <4>2 DEF PopSignal, do_operation_nm, ChanTypes
        <4> QED BY <1>0, <4>2, <4>3, <4>4 DEF ChanTypes
      <3>2. CASE ScanEnd(t)
        <4>1. cmu[myChan(t)] = t
          BY <3>2 DEF ScanEnd, ChanInv, ScanOK, inScan
        <4>2. cmu' = [cmu EXCEPT ![myChan(t)] = NoOne] /\ UNCHANGED <<que, chain>>
          BY <3>2 DEF ScanEnd
        <4> QED BY <1>0, <2>3, <4>1, <4>2 DEF ChanTypes
      <3>3. CASE TrySignalTo(t)
        <4>1. cmu[myChan(t)] = t /\ UNCHANGED <<chain, cmu>>
          BY <3>3, EnterFacts DEF TrySignalTo
        <4>2. que'[d] = que[d]
          BY <1>0, <2>3, <3>3, <4>1 DEF TrySignalTo, do_operation_nm, ChanTypes
        <4> QED BY <4>1, <4>2
      <3>4. CASE LinkEvent(t) \/ UnlinkEvent(t)
        <4>1. wi[t] \in 1..Size(t) /\ cmu[myChan(t)] = NoOne /\ UNCHANGED <<que, cmu>>
          BY <1>0, <3>4, OperationFacts DEF LinkEvent, UnlinkEvent, ChanTypes, Index
        <4>2. d # myChan(t) /\ <<myChan(t), myOp(t)>> \in Chans \X Ops
          BY <2>3, <4>1, OperationFacts DEF myChan, myOp
        <4>3. \E r : chain' = [chain EXCEPT ![<<myChan(t), myOp(t)>>] = r]
          BY <3>4 DEF LinkEvent, UnlinkEvent
        <4> QED BY <1>0, <4>1, <4>2, <4>3 DEF ChanTypes
      <3>5. CASE ScanPeek(t) \/ PopEnd(t) \/ Sleep(t) \/ Wake(t) \/ UnlinkEnd(t) \/ Return(t)
        BY <3>5 DEF ScanPeek, PopEnd, Sleep, Wake, UnlinkEnd, Return, chanVars
      <3> QED BY <1>3, <3>1, <3>2, <3>3, <3>4, <3>5 DEF WaitStep
    <2> QED BY <1>3, <2>1, <2>2, <2>3, OthersScan
  <1>4. ASSUME NEW t \in Threads, WaitStep(t), u = t PROVE ScanOK(u)'
    <2>1. CASE PopSignal(t)
      <3>1. wi[t] \in 1..Size(t) /\ UNCHANGED wi /\ wpc' = [wpc EXCEPT ![t] = "scan"]
        BY <1>0, <2>1, OperationFacts DEF PopSignal, Goto, ChanTypes, Index
      <3>2. cmu' = [cmu EXCEPT ![myChan(t)] = t] /\ myChan(t) \in Chans /\ myChan(t)' = myChan(t)
        BY <2>1, <3>1, OperationFacts DEF PopSignal, myChan
      <3> QED BY <1>0, <1>4, <3>1, <3>2 DEF ScanOK, ChanTypes
    <2>2. CASE ScanPeek(t)
      <3>1. /\ UNCHANGED <<que, chain, cmu, wi, done>> /\ ~ScanOver(t) /\ wpc[t] = "scan"
            /\ \/ wpc' = wpc
               \/ wpc' = [wpc EXCEPT ![t] = "enter"] /\ UNCHANGED cursor
        BY <2>2 DEF ScanPeek, Goto, chanVars
      <3>2. ScanOK(t)
        BY DEF ChanInv
      <3>3. UNCHANGED cursor => ~ScanOver(t)'
        BY <3>1 DEF ScanOver, coChain, myChan, myOp, empty_event_nm, CanOperate, HasRoom
      <3>4. myChan(t)' = myChan(t)
        BY <3>1 DEF myChan
      <3> QED BY <1>0, <1>4, <3>1, <3>2, <3>3, <3>4 DEF ScanOK, inScan, ChanTypes
    <2>3. CASE TrySignalTo(t)
      <3>1. wi[t] \in 1..Size(t) /\ cmu[myChan(t)] = t
        BY <2>3, EnterFacts DEF TrySignalTo
      <3>2. UNCHANGED <<cmu, wi>> /\ wpc' = [wpc EXCEPT ![t] = "scan"]
        BY <2>3 DEF TrySignalTo, Goto
      <3> QED BY <1>0, <1>4, <3>1, <3>2 DEF ScanOK, myChan, ChanTypes
    <2>4. CASE LinkEvent(t) \/ UnlinkEvent(t)
      BY <1>4, <2>4 DEF LinkEvent, UnlinkEvent, ScanOK, inScan
    <2>5. CASE ScanEnd(t) \/ PopEnd(t) \/ Sleep(t) \/ Wake(t) \/ UnlinkEnd(t) \/ Return(t)
      <3>1. \E label \in {"pop", "link", "sleep", "unlink", "return", "idle"} : wpc' = [wpc EXCEPT ![t] = label]
        BY <2>5 DEF ScanEnd, PopEnd, Sleep, Wake, UnlinkEnd, Return, Goto
      <3> QED BY <1>0, <1>4, <3>1 DEF ScanOK, inScan, ChanTypes
    <2> QED BY <1>4, <2>1, <2>2, <2>3, <2>4, <2>5 DEF WaitStep
  <1> QED BY <1>1, <1>2, <1>3, <1>4 DEF Next

LEMMA SignalsNext == ChanInv /\ [Next]_vars => \A u \in Threads : SignalOK(u)'
  <1> SUFFICES ASSUME ChanInv, [Next]_vars, NEW u \in Threads PROVE SignalOK(u)'
    OBVIOUS
  <1>0. /\ wpc \in [Threads -> Pcs] /\ wi \in [Threads -> Index] /\ signal_index \in [Threads -> Nat]
        /\ waitstate \in [Threads -> {"NoWait", "Wait"}]
        /\ SignalOK(u) /\ Size(u) \in Nat
    BY OperationFacts DEF ChanInv, ChanTypes
  <1> USE DEF Index, Pcs, esigNoSignal
  <1>1. CASE UNCHANGED <<wpc, wi, signal_index, waitstate>>
    BY <1>0, <1>1 DEF SignalOK
  <1>2. ASSUME NEW t \in Threads, NEW try_wait \in BOOLEAN, Wait(t, try_wait) PROVE SignalOK(u)'
    BY <1>0, <1>2 DEF Wait, Goto, SignalOK
  <1>3. ASSUME NEW t \in Threads, PopSignal(t) PROVE SignalOK(u)'
    <2>1. wpc' = [wpc EXCEPT ![t] = "scan"] /\ wpc[t] = "pop" /\ UNCHANGED <<wi, signal_index, waitstate>>
      BY <1>3 DEF PopSignal, Goto, groupVars
    <2> QED BY <1>0, <2>1 DEF SignalOK
  <1>4. ASSUME NEW t \in Threads, ScanEnd(t) PROVE SignalOK(u)'
    <2>1. wpc[t] = "scan" /\ wi[t] <= Size(t) /\ waitstate' = waitstate
      BY <1>4 DEF ScanEnd, ChanInv, ScanOK, inScan
    <2>2. CASE done[t]
      <3>1. wpc' = [wpc EXCEPT ![t] = "return"] /\ signal_index' = [signal_index EXCEPT ![t] = wi[t]] /\ wi' = wi
        BY <1>4, <2>2 DEF ScanEnd, Goto
      <3> QED BY <1>0, <2>1, <3>1 DEF SignalOK
    <2>3. CASE ~done[t]
      <3>1. wpc' = [wpc EXCEPT ![t] = "pop"] /\ wi' = [wi EXCEPT ![t] = @ + 1] /\ signal_index' = signal_index
        BY <1>4, <2>3 DEF ScanEnd, Goto
      <3> QED BY <1>0, <2>1, <3>1 DEF SignalOK
    <2> QED BY <2>2, <2>3
  <1>5. ASSUME NEW t \in Threads, ScanPeek(t) PROVE SignalOK(u)'
    <2>1. /\ wpc' = wpc \/ wpc' = [wpc EXCEPT ![t] = "enter"]
          /\ wpc[t] = "scan" /\ UNCHANGED <<wi, signal_index, waitstate>>
      BY <1>5 DEF ScanPeek, Goto, groupVars
    <2> QED BY <1>0, <1>1, <2>1 DEF SignalOK
  <1>6. ASSUME NEW t \in Threads, TrySignalTo(t) PROVE SignalOK(u)'
    <2>1. PICK v \in Threads, i \in Index : coChain(t)[cursor[t]] = <<v, i>> /\ i \in 1..Size(v)
      BY <1>6, EnterFacts DEF TrySignalTo
    <2>2. wpc[t] = "enter" /\ wpc' = [wpc EXCEPT ![t] = "scan"] /\ wi' = wi
      BY <1>6 DEF TrySignalTo, Goto
    <2>3. CASE StillWaits(v)
      <3>1. signal_index' = [signal_index EXCEPT ![v] = i] /\ waitstate' = [waitstate EXCEPT ![v] = "NoWait"]
        BY <1>6, <2>1, <2>3 DEF TrySignalTo, waitgroup, groupindex
      <3>2. waitstate[v] = "Wait" /\ wpc[v] = "sleep"
        BY <2>3 DEF StillWaits, ChanInv, SignalOK
      <3> QED BY <1>0, <2>1, <2>2, <3>1, <3>2 DEF SignalOK
    <2>4. CASE ~StillWaits(v)
      <3>1. UNCHANGED <<signal_index, waitstate>>
        BY <1>6, <2>1, <2>4 DEF TrySignalTo, waitgroup
      <3> QED BY <1>0, <2>2, <3>1 DEF SignalOK
    <2> QED BY <2>3, <2>4
  <1>7. ASSUME NEW t \in Threads, PopEnd(t) PROVE SignalOK(u)'
    <2>1. /\ wpc[t] = "pop" /\ UNCHANGED <<signal_index, waitstate>>
          /\ \/ wpc' = [wpc EXCEPT ![t] = "return"] /\ wi' = wi
             \/ wpc' = [wpc EXCEPT ![t] = "link"] /\ wi' = [wi EXCEPT ![t] = 1]
      BY <1>7 DEF PopEnd, Goto, groupVars
    <2> QED BY <1>0, <2>1 DEF SignalOK
  <1>8. ASSUME NEW t \in Threads, LinkEvent(t) \/ UnlinkEvent(t) PROVE SignalOK(u)'
    <2>1. wi[t] <= Size(t) /\ wi' = [wi EXCEPT ![t] = @ + 1] /\ UNCHANGED <<wpc, signal_index, waitstate>>
      BY <1>8 DEF LinkEvent, UnlinkEvent, groupVars
    <2> QED BY <1>0, <2>1 DEF SignalOK
  <1>9. ASSUME NEW t \in Threads, Sleep(t) PROVE SignalOK(u)'
    BY <1>0, <1>9 DEF Sleep, Goto, SignalOK
  <1>10. ASSUME NEW t \in Threads, Wake(t) \/ UnlinkEnd(t) \/ Return(t) PROVE SignalOK(u)'
    <2>1. /\ UNCHANGED <<signal_index, waitstate>>
          /\ \/ wpc[t] = "sleep" /\ waitstate[t] # "Wait" /\ wpc' = [wpc EXCEPT ![t] = "unlink"]
                /\ wi' = [wi EXCEPT ![t] = 1]
             \/ wpc[t] = "unlink" /\ wpc' = [wpc EXCEPT ![t] = "return"] /\ wi' = wi
             \/ wpc[t] = "return" /\ wpc' = [wpc EXCEPT ![t] = "idle"] /\ wi' = wi
      BY <1>10 DEF Wake, UnlinkEnd, Return, Goto, groupVars
    <2> QED BY <1>0, <2>1 DEF SignalOK
  <1> QED BY <1>1, <1>2, <1>3, <1>4, <1>5, <1>6, <1>7, <1>8, <1>9, <1>10
             DEF Next, WaitStep, vars, groupVars, waitVars

LEMMA ChanInit == Init => ChanInv
  <1> SUFFICES ASSUME Init PROVE ChanInv
    OBVIOUS
  <1>1. ChanTypes /\ BuffersBounded
    BY TypesInit
  <1>2. LinksOK
    BY DEF Init, LinksOK
  <1>3. \A t \in Threads : ScanOK(t) /\ SignalOK(t)
    BY OperationFacts DEF Init, ScanOK, SignalOK, inScan, esigNoSignal
  <1> QED BY <1>1, <1>2, <1>3 DEF ChanInv

THEOREM ChanCorrect == Spec => []ChanInv
  <1>1. Init => ChanInv
    BY ChanInit
  <1>2. ChanInv /\ [Next]_vars => ChanInv'
    BY TypesNext, LinksNext, ScansNext, SignalsNext DEF ChanInv
  <1> QED BY <1>1, <1>2, PTL DEF Spec

\* The variables keep their types and a buffered channel never holds more than its maxsize, as
\* HasRoom of writeop_nm is to see to, whoever performs the operation.
THEOREM BuffersCorrect == Spec => []TypeOK
  <1>1. ASSUME ChanInv PROVE TypeOK
    <2>1. ChanTypes /\ BuffersBounded /\ Cardinality(Chans) \in Nat
      BY <1>1, ChansAssumption, FS_CardinalityType DEF ChanInv
    <2>2. \A t \in Threads : wi[t] <= Size(t) + 1 /\ signal_index[t] <= Size(t) /\ Size(t) \in Nat
      BY <1>1, OperationFacts DEF ChanInv, SignalOK
    <2>3. wi \in [Threads -> Positions]
      BY <2>1, <2>2, SizeBounded DEF ChanTypes, Index, Positions
    <2>4. signal_index \in [Threads -> 0..Cardinality(Chans)]
      BY <2>1, <2>2, SizeBounded DEF ChanTypes
    <2>5. \A x \in Chans \X Ops : chain[x] \in Seq(Threads \X Positions)
      <3> TAKE x \in Chans \X Ops
      <3>1. chain[x] \in Seq(Threads \X Index)
        BY <2>1 DEF ChanTypes
      <3>2. \A k \in 1..Len(chain[x]) : chain[x][k] \in Threads \X Positions
        <4> TAKE k \in 1..Len(chain[x])
        <4>1. PICK u \in Threads, i \in Index : chain[x][k] = <<u, i>>
          BY <3>1
        <4>2. LinkOK(x, chain[x][k])
          BY <1>1, <3>1 DEF ChanInv, LinksOK
        <4>3. i \in 1..Size(u)
          BY <4>1, <4>2, OperationFacts DEF LinkOK, waitgroup, groupindex
        <4> QED BY <2>1, <2>2, <4>1, <4>3, SizeBounded DEF Positions
      <3> QED BY <3>1, <3>2
    <2> QED BY <2>1, <2>3, <2>4, <2>5 DEF TypeOK, ChanTypes, BuffersBounded, Pcs, Index
  <1> QED BY <1>1, ChanCorrect, PTL

-----------------------------------------------------------------------------
(* SyncChan implements ChanSem.                                            *)

\* The result and the phase of a thread, from its control point and its signal; a thread that
\* walks a chain has its result when it is done.
ResultAt(pc, finished, i, index) ==
  IF pc \in {"scan", "enter"} /\ finished THEN i ELSE IF pc = "idle" THEN esigNoSignal ELSE index
PhaseAt(pc, result) ==
  IF pc = "idle" THEN "out"
  ELSE IF result # esigNoSignal THEN "served"
  ELSE IF pc = "return" THEN "unserved" ELSE "waiting"

LEMMA MappingValue ==
  /\ resultOf = [t \in Threads |-> ResultAt(wpc[t], done[t], wi[t], signal_index[t])]
  /\ phaseOf = [t \in Threads |-> PhaseAt(wpc[t], ResultAt(wpc[t], done[t], wi[t], signal_index[t]))]
  <1>1. resultOf = [t \in Threads |-> ResultAt(wpc[t], done[t], wi[t], signal_index[t])]
    BY DEF resultOf, ResultAt, inScan
  <1>2. phaseOf = [t \in Threads |-> PhaseAt(wpc[t], resultOf[t])]
    BY DEF phaseOf, PhaseAt
  <1> QED BY <1>1, <1>2

LEMMA MappingNext ==
  /\ resultOf' = [t \in Threads |-> ResultAt(wpc'[t], done'[t], wi'[t], signal_index'[t])]
  /\ phaseOf' = [t \in Threads |-> PhaseAt(wpc'[t], ResultAt(wpc'[t], done'[t], wi'[t], signal_index'[t]))]
  <1>1. resultOf' = [t \in Threads |-> ResultAt(wpc'[t], done'[t], wi'[t], signal_index'[t])]
    BY DEF resultOf, ResultAt, inScan
  <1>2. phaseOf' = [t \in Threads |-> PhaseAt(wpc'[t], resultOf'[t])]
    BY DEF phaseOf, PhaseAt
  <1> QED BY <1>1, <1>2

\* What ChanSem sees of thread u does not change.
Kept(u) ==
  /\ ResultAt(wpc'[u], done'[u], wi'[u], signal_index'[u]) = ResultAt(wpc[u], done[u], wi[u], signal_index[u])
  /\ PhaseAt(wpc'[u], ResultAt(wpc[u], done[u], wi[u], signal_index[u]))
       = PhaseAt(wpc[u], ResultAt(wpc[u], done[u], wi[u], signal_index[u]))

\* A step of thread t moves the phase and the result of t alone.
LEMMA OneThread ==
  ASSUME NEW t \in Threads, \A u \in Threads : u # t => Kept(u)
  PROVE  /\ resultOf[t] = ResultAt(wpc[t], done[t], wi[t], signal_index[t])
         /\ phaseOf[t] = PhaseAt(wpc[t], resultOf[t])
         /\ resultOf' = [resultOf EXCEPT ![t] = ResultAt(wpc'[t], done'[t], wi'[t], signal_index'[t])]
         /\ phaseOf' = [phaseOf EXCEPT ![t] = PhaseAt(wpc'[t], ResultAt(wpc'[t], done'[t], wi'[t], signal_index'[t]))]
  BY MappingValue, MappingNext DEF Kept

\* A step in which t serves u moves those of t and u.
LEMMA TwoThreads ==
  ASSUME NEW t \in Threads, NEW u \in Threads, u # t, \A v \in Threads : v \notin {t, u} => Kept(v)
  PROVE  /\ resultOf' = [resultOf EXCEPT ![t] = ResultAt(wpc'[t], done'[t], wi'[t], signal_index'[t]),
                                        ![u] = ResultAt(wpc'[u], done'[u], wi'[u], signal_index'[u])]
         /\ phaseOf' = [phaseOf EXCEPT ![t] = PhaseAt(wpc'[t], ResultAt(wpc'[t], done'[t], wi'[t], signal_index'[t])),
                                      ![u] = PhaseAt(wpc'[u], ResultAt(wpc'[u], done'[u], wi'[u], signal_index'[u]))]
  BY MappingValue, MappingNext DEF Kept

LEMMA Stutter ==
  ASSUME \A u \in Threads : Kept(u), UNCHANGED <<que, calls, got>>
  PROVE  UNCHANGED Sem!vars
  <1>1. resultOf' = resultOf /\ phaseOf' = phaseOf
    BY MappingValue, MappingNext DEF Kept
  <1>2. [t \in Threads |-> value(t)]' = [t \in Threads |-> value(t)]
    BY DEF value
  <1> QED BY <1>1, <1>2 DEF Sem!vars

LEMMA RefinementInit == Init => Sem!Init
  <1> SUFFICES ASSUME Init PROVE Sem!Init
    OBVIOUS
  <1>1. \A t \in Threads : /\ ResultAt(wpc[t], done[t], wi[t], signal_index[t]) = esigNoSignal
                           /\ PhaseAt(wpc[t], esigNoSignal) = "out"
    BY DEF Init, ResultAt, PhaseAt
  <1>2. phaseOf = [t \in Threads |-> "out"] /\ resultOf = [t \in Threads |-> esigNoSignal]
    BY <1>1, MappingValue
  <1>3. [t \in Threads |-> value(t)] \in [Threads -> Values] /\ got \in [Threads -> Values]
    BY TypesInit DEF ChanTypes, value, Values
  <1> QED BY <1>2, <1>3 DEF Init, Sem!Init

\* Thread t performs its operation i on a buffered channel.
LEMMA Performed ==
  ASSUME ChanTypes, NEW t \in Threads, NEW i \in 1..Size(t),
         CanOperate(chanOf(t, i), operation(t, i)), do_operation_nm(chanOf(t, i), operation(t, i), t),
         phaseOf[t] = "waiting", phaseOf' = [phaseOf EXCEPT ![t] = "served"],
         resultOf' = [resultOf EXCEPT ![t] = i], calls' = calls
  PROVE  Sem!Next
  <1> DEFINE c == chanOf(t, i)
             put == [u \in Threads |-> value(u)]
  <1>1. i \in DOMAIN evlinks[t] /\ c \in Chans /\ operation(t, i) \in Ops
    BY OperationFacts
  <1>2. put' = put /\ put[t] = value(t)
    BY DEF value
  <1>3. Sem!May(t, i, operation(t, i), c)
    BY <1>1, OperationFacts DEF Sem!May
  <1>4. CASE operation(t, i) = "Read"
    <2>1. Sem!Read(t, i, c)
      BY <1>2, <1>3, <1>4 DEF Sem!Read, CanOperate, do_operation_nm
    <2> QED BY <1>1, <2>1 DEF Sem!Next
  <1>5. CASE operation(t, i) = "Write"
    <2>1. Sem!Write(t, i, c)
      BY <1>2, <1>3, <1>5 DEF Sem!Write, CanOperate, do_operation_nm, HasRoom
    <2> QED BY <1>1, <2>1 DEF Sem!Next
  <1> QED BY <1>1, <1>4, <1>5 DEF Ops

\* Thread t meets the thread u that sleeps on the other event of an unbuffered channel.
LEMMA Met ==
  ASSUME NEW t \in Threads, NEW i \in 1..Size(t), NEW u \in Threads, NEW j \in 1..Size(u), u # t,
         isSyncChan(chanOf(t, i)), chanOf(u, j) = chanOf(t, i), operation(u, j) = coevent(operation(t, i)),
         got' = IF operation(t, i) = "Write" THEN [got EXCEPT ![u] = value(t)] ELSE [got EXCEPT ![t] = value(u)],
         phaseOf[t] = "waiting", phaseOf[u] = "waiting",
         phaseOf' = [phaseOf EXCEPT ![t] = "served", ![u] = "served"],
         resultOf' = [resultOf EXCEPT ![t] = i, ![u] = j], UNCHANGED <<que, calls>>
  PROVE  Sem!Next
  <1> DEFINE c == chanOf(t, i)
             put == [v \in Threads |-> value(v)]
  <1>1. /\ i \in DOMAIN evlinks[t] /\ j \in DOMAIN evlinks[u] /\ c \in Chans /\ operation(t, i) \in Ops
        /\ maxsize[c] = 0
    BY OperationFacts DEF isSyncChan
  <1>2. put' = put /\ put[t] = value(t) /\ put[u] = value(u)
    BY DEF value
  <1>3. Sem!May(t, i, operation(t, i), c) /\ Sem!May(u, j, coevent(operation(t, i)), c)
    BY <1>1, OperationFacts DEF Sem!May
  <1>4. phaseOf' = [phaseOf EXCEPT ![u] = "served", ![t] = "served"] /\ resultOf' = [resultOf EXCEPT ![u] = j, ![t] = i]
    BY MappingValue, MappingNext
  <1>5. CASE operation(t, i) = "Write"
    <2>1. Sem!Meet(t, i, u, j, c)
      BY <1>1, <1>2, <1>3, <1>5 DEF Sem!Meet, coevent
    <2> QED BY <1>1, <2>1 DEF Sem!Next
  <1>6. CASE operation(t, i) = "Read"
    <2>1. Sem!Meet(u, j, t, i, c)
      BY <1>1, <1>2, <1>3, <1>4, <1>6 DEF Sem!Meet, coevent
    <2> QED BY <1>1, <2>1 DEF Sem!Next
  <1> QED BY <1>1, <1>5, <1>6 DEF Ops

LEMMA RefinementNext == ChanInv /\ [Next]_vars => [Sem!Next]_(Sem!vars)
  <1> SUFFICES ASSUME ChanInv, [Next]_vars PROVE [Sem!Next]_(Sem!vars)
    OBVIOUS
  <1>0. ChanTypes /\ \A t \in Threads : SignalOK(t)
    BY DEF ChanInv
  <1> USE DEF ResultAt, PhaseAt, Kept
  <1>1. ASSUME NEW t \in Threads, NEW try_wait \in BOOLEAN, Wait(t, try_wait) PROVE Sem!Next
    <2>1. /\ wpc[t] = "idle" /\ wpc' = [wpc EXCEPT ![t] = "pop"]
          /\ signal_index' = [signal_index EXCEPT ![t] = esigNoSignal] /\ wi' = [wi EXCEPT ![t] = 1]
          /\ calls[t] < MaxCalls /\ calls' = [calls EXCEPT ![t] = @ + 1] /\ UNCHANGED <<que, done, got>>
      BY <1>1 DEF Wait, Goto, chanVars, popVars
    <2>2. /\ phaseOf[t] = "out" /\ phaseOf' = [phaseOf EXCEPT ![t] = "waiting"]
          /\ resultOf[t] = esigNoSignal /\ resultOf' = [resultOf EXCEPT ![t] = esigNoSignal]
      BY <1>0, <2>1, OneThread DEF ChanTypes
    <2>3. resultOf' = resultOf
      BY <2>2, MappingValue
    <2>4. value(t)' \in Values
      BY <1>0, <2>1, BoundsAssumption DEF ChanTypes, value, Values
    <2>5. [u \in Threads |-> value(u)]' = [[u \in Threads |-> value(u)] EXCEPT ![t] = value(t)']
      BY <1>0, <2>1 DEF ChanTypes, value
    <2>6. Sem!Call(t, value(t)')
      BY <2>1, <2>2, <2>3, <2>5 DEF Sem!Call
    <2> QED BY <2>4, <2>6 DEF Sem!Next
  <1>2. ASSUME NEW t \in Threads, PopSignal(t) PROVE [Sem!Next]_(Sem!vars)
    <2>1. /\ wi[t] \in 1..Size(t) /\ wpc[t] = "pop" /\ wpc' = [wpc EXCEPT ![t] = "scan"]
          /\ UNCHANGED <<wi, signal_index, calls>>
      BY <1>0, <1>2, OperationFacts DEF PopSignal, Goto, groupVars, ChanTypes, Index
    <2>2. signal_index[t] = esigNoSignal /\ wi[t] # esigNoSignal
      BY <1>0, <2>1 DEF SignalOK, esigNoSignal
    <2>3. CASE ~isSyncChan(myChan(t)) /\ CanOperate(myChan(t), myOp(t))
      <3>1. do_operation_nm(myChan(t), myOp(t), t) /\ done' = [done EXCEPT ![t] = TRUE]
        BY <1>2, <2>3 DEF PopSignal
      <3>2. phaseOf[t] = "waiting" /\ phaseOf' = [phaseOf EXCEPT ![t] = "served"] /\ resultOf' = [resultOf EXCEPT ![t] = wi[t]]
        BY <1>0, <2>1, <2>2, <3>1, OneThread DEF ChanTypes
      <3> QED BY <1>0, <2>1, <2>3, <3>1, <3>2, Performed DEF myChan, myOp
    <2>4. CASE ~(~isSyncChan(myChan(t)) /\ CanOperate(myChan(t), myOp(t)))
      <3>1. done' = [done EXCEPT ![t] = FALSE] /\ UNCHANGED <<que, got>>
        BY <1>2, <2>4 DEF PopSignal
      <3> QED BY <1>0, <2>1, <2>2, <3>1, Stutter DEF ChanTypes
    <2> QED BY <2>3, <2>4
  <1>3. ASSUME NEW t \in Threads, ScanEnd(t) PROVE UNCHANGED Sem!vars
    <2>1. wpc[t] = "scan" /\ UNCHANGED <<que, calls, got, done>> /\ signal_index[t] = esigNoSignal
      BY <1>0, <1>3 DEF ScanEnd, popVars, SignalOK
    <2>2. CASE done[t]
      <3>1. wpc' = [wpc EXCEPT ![t] = "return"] /\ signal_index' = [signal_index EXCEPT ![t] = wi[t]] /\ wi' = wi
        BY <1>3, <2>2 DEF ScanEnd, Goto
      <3> QED BY <1>0, <2>1, <2>2, <3>1, Stutter DEF ChanTypes, Index, esigNoSignal
    <2>3. CASE ~done[t]
      <3>1. wpc' = [wpc EXCEPT ![t] = "pop"] /\ wi' = [wi EXCEPT ![t] = @ + 1] /\ signal_index' = signal_index
        BY <1>3, <2>3 DEF ScanEnd, Goto
      <3> QED BY <1>0, <2>1, <2>3, <3>1, Stutter DEF ChanTypes
    <2> QED BY <2>2, <2>3
  <1>4. ASSUME NEW t \in Threads, ScanPeek(t) PROVE UNCHANGED Sem!vars
    <2>1. /\ wpc' = wpc \/ wpc' = [wpc EXCEPT ![t] = "enter"]
          /\ wpc[t] = "scan" /\ UNCHANGED <<que, calls, got, done, wi, signal_index>>
      BY <1>4 DEF ScanPeek, Goto, chanVars, groupVars
    <2> QED BY <1>0, <2>1, Stutter DEF ChanTypes
  <1>5. ASSUME NEW t \in Threads, TrySignalTo(t) PROVE [Sem!Next]_(Sem!vars)
    <2>1. /\ wi[t] \in 1..Size(t) /\ wpc[t] = "enter" /\ wpc' = [wpc EXCEPT ![t] = "scan"] /\ UNCHANGED <<wi, calls>>
          /\ IF isSyncChan(myChan(t)) THEN ~done[t] ELSE CanOperate(myChan(t), coevent(myOp(t)))
      BY <1>5, EnterFacts DEF TrySignalTo, Goto
    <2>2. PICK u \in Threads, j \in Index :
            /\ coChain(t)[cursor[t]] = <<u, j>>
            /\ j \in 1..Size(u) /\ operation(u, j) = coevent(myOp(t)) /\ chanOf(u, j) = myChan(t)
      BY <1>5, EnterFacts DEF TrySignalTo
    <2>3. signal_index[t] = esigNoSignal /\ wi[t] # esigNoSignal /\ j # esigNoSignal
      BY <1>0, <2>1, <2>2 DEF SignalOK, esigNoSignal
    <2>4. CASE StillWaits(u)
      <3>1. signal_index' = [signal_index EXCEPT ![u] = j]
        BY <1>5, <2>2, <2>4 DEF TrySignalTo, waitgroup, groupindex
      <3>2. wpc[u] = "sleep" /\ signal_index[u] = esigNoSignal /\ u # t
        BY <1>0, <2>1, <2>4 DEF SignalOK, StillWaits
      <3>3. CASE isSyncChan(myChan(t))
        <4>1. sync_rw(t, u) /\ done' = [done EXCEPT ![t] = TRUE] /\ que' = que
          BY <1>5, <2>2, <2>4, <3>3 DEF TrySignalTo, waitgroup
        <4>2. phaseOf[t] = "waiting" /\ phaseOf[u] = "waiting"
          BY <2>1, <2>3, <3>2, <3>3, MappingValue
        <4>3. /\ phaseOf' = [phaseOf EXCEPT ![t] = "served", ![u] = "served"]
              /\ resultOf' = [resultOf EXCEPT ![t] = wi[t], ![u] = j]
          <5>1. \A v \in Threads : v \notin {t, u} => Kept(v)
            BY <1>0, <2>1, <3>1, <4>1 DEF ChanTypes
          <5>2. /\ ResultAt(wpc'[t], done'[t], wi'[t], signal_index'[t]) = wi[t] /\ PhaseAt(wpc'[t], wi[t]) = "served"
                /\ ResultAt(wpc'[u], done'[u], wi'[u], signal_index'[u]) = j /\ PhaseAt(wpc'[u], j) = "served"
            BY <1>0, <2>1, <2>3, <3>1, <3>2, <4>1 DEF ChanTypes
          <5> HIDE DEF ResultAt, PhaseAt, Kept
          <5> QED BY <3>2, <5>1, <5>2, TwoThreads
        <4> QED BY <2>1, <2>2, <3>2, <3>3, <4>1, <4>2, <4>3, Met DEF sync_rw, myChan, myOp
      <3>4. CASE ~isSyncChan(myChan(t))
        <4>1. do_operation_nm(myChan(t), coevent(myOp(t)), u) /\ done' = done
          BY <1>5, <2>2, <2>4, <3>4 DEF TrySignalTo, waitgroup
        <4>2. phaseOf[u] = "waiting" /\ phaseOf' = [phaseOf EXCEPT ![u] = "served"] /\ resultOf' = [resultOf EXCEPT ![u] = j]
          <5>1. \A v \in Threads : v # u => Kept(v)
            BY <1>0, <2>1, <3>1, <4>1 DEF ChanTypes
          <5>2. /\ ResultAt(wpc[u], done[u], wi[u], signal_index[u]) = esigNoSignal
                /\ PhaseAt(wpc[u], esigNoSignal) = "waiting"
                /\ ResultAt(wpc'[u], done'[u], wi'[u], signal_index'[u]) = j /\ PhaseAt(wpc'[u], j) = "served"
            BY <1>0, <2>1, <2>3, <3>1, <3>2, <4>1 DEF ChanTypes
          <5> HIDE DEF ResultAt, PhaseAt, Kept
          <5> QED BY <5>1, <5>2, OneThread
        <4> QED BY <1>0, <2>1, <2>2, <3>4, <4>1, <4>2, Performed
      <3> QED BY <3>3, <3>4
    <2>5. CASE ~StillWaits(u)
      <3>1. UNCHANGED <<que, signal_index, done, got>>
        BY <1>5, <2>2, <2>5 DEF TrySignalTo, waitgroup
      <3> QED BY <1>0, <2>1, <3>1, Stutter DEF ChanTypes
    <2> QED BY <2>4, <2>5
  <1>6. ASSUME NEW t \in Threads, PopEnd(t) PROVE [Sem!Next]_(Sem!vars)
    <2>1. /\ wpc[t] = "pop" /\ signal_index[t] = esigNoSignal
          /\ UNCHANGED <<que, calls, got, done, signal_index>> /\ \A u \in Threads : u # t => wi'[u] = wi[u]
      BY <1>0, <1>6 DEF PopEnd, chanVars, groupVars, popVars, SignalOK, ChanTypes
    <2>2. CASE trying[t]
      <3>1. wpc' = [wpc EXCEPT ![t] = "return"] /\ wi' = wi
        BY <1>6, <2>2 DEF PopEnd, Goto
      <3>2. /\ phaseOf[t] = "waiting" /\ phaseOf' = [phaseOf EXCEPT ![t] = "unserved"]
            /\ resultOf[t] = esigNoSignal /\ resultOf' = [resultOf EXCEPT ![t] = esigNoSignal]
        BY <1>0, <2>1, <3>1, OneThread DEF ChanTypes
      <3>3. resultOf' = resultOf /\ [u \in Threads |-> value(u)]' = [u \in Threads |-> value(u)]
        BY <2>1, <3>2, MappingValue DEF value
      <3> QED BY <2>1, <3>2, <3>3 DEF Sem!Next, Sem!GiveUp
    <2>3. CASE ~trying[t]
      <3>1. wpc' = [wpc EXCEPT ![t] = "link"]
        BY <1>6, <2>3 DEF PopEnd, Goto
      <3> QED BY <1>0, <2>1, <3>1, Stutter DEF ChanTypes
    <2> QED BY <2>2, <2>3
  <1>7. ASSUME NEW t \in Threads, LinkEvent(t) \/ UnlinkEvent(t) PROVE UNCHANGED Sem!vars
    <2>1. /\ wpc[t] \in {"link", "unlink"} /\ UNCHANGED <<que, calls, got, wpc, done, signal_index>>
          /\ wi' = [wi EXCEPT ![t] = @ + 1]
      BY <1>7 DEF LinkEvent, UnlinkEvent, groupVars, popVars
    <2> QED BY <1>0, <2>1, Stutter DEF ChanTypes
  <1>8. ASSUME NEW t \in Threads, Sleep(t) \/ Wake(t) \/ UnlinkEnd(t) PROVE UNCHANGED Sem!vars
    <2>1. /\ UNCHANGED <<que, calls, got, done, signal_index>>
          /\ \A u \in Threads : u # t => wi'[u] = wi[u] /\ wpc'[u] = wpc[u]
          /\ \/ wpc[t] = "link" /\ wpc'[t] = "sleep"
             \/ wpc[t] = "sleep" /\ wpc'[t] = "unlink"
             \/ wpc[t] = "unlink" /\ wpc'[t] = "return" /\ signal_index[t] # esigNoSignal
      BY <1>0, <1>8 DEF Sleep, Wake, UnlinkEnd, Goto, chanVars, groupVars, popVars, ChanTypes, SignalOK
    <2> QED BY <2>1, Stutter
  <1>9. ASSUME NEW t \in Threads, Return(t) PROVE Sem!Next
    <2>1. wpc[t] = "return" /\ wpc' = [wpc EXCEPT ![t] = "idle"] /\ UNCHANGED <<que, calls, got, done, wi, signal_index>>
      BY <1>9 DEF Return, Goto, chanVars, popVars
    <2>2. /\ phaseOf[t] \in {"served", "unserved"} /\ phaseOf' = [phaseOf EXCEPT ![t] = "out"]
          /\ resultOf' = [resultOf EXCEPT ![t] = esigNoSignal]
      BY <1>0, <2>1, OneThread DEF ChanTypes
    <2>3. [u \in Threads |-> value(u)]' = [u \in Threads |-> value(u)]
      BY <2>1 DEF value
    <2> QED BY <2>1, <2>2, <2>3 DEF Sem!Next, Sem!Leave
  <1>10. CASE UNCHANGED vars
    BY <1>10, Stutter DEF vars, chanVars, groupVars, waitVars, popVars
  <1> QED BY <1>1, <1>2, <1>3, <1>4, <1>5, <1>6, <1>7, <1>8, <1>9, <1>10 DEF Next, WaitStep

\* The code keeps the promise of ChanSem: every step of a wait on channels puts a value into a
\* buffer or takes one out, lets two threads meet, or changes nothing ChanSem knows of.
THEOREM ImplementsChanSem == Spec => SemSpec
  <1>1. Init => Sem!Init
    BY RefinementInit
  <1>2. ChanInv /\ [Next]_vars => [Sem!Next]_(Sem!vars)
    BY RefinementNext
  <1> QED BY <1>1, <1>2, ChanCorrect, PTL DEF Spec, SemSpec, Sem!Spec

-----------------------------------------------------------------------------
(* An operation serves whom it can.                                        *)

Step(t) == WaitStep(t) \/ \E try_wait \in BOOLEAN : Wait(t, try_wait)

\* A step of t leaves the other threads where they are; it may end their sleep.
LEMMA OthersRest ==
  ASSUME ChanTypes, NEW t \in Threads, Step(t), NEW u \in Threads, u # t
  PROVE  /\ wpc'[u] = wpc[u] /\ wi'[u] = wi[u] /\ cursor'[u] = cursor[u]
         /\ waitstate'[u] = "Wait" => waitstate[u] = "Wait"
  <1>1. CASE WaitStep(t)
    <2>1. wpc'[u] = wpc[u] /\ wi'[u] = wi[u] /\ cursor'[u] = cursor[u]
      BY <1>1 DEF WaitStep, PopSignal, ScanEnd, ScanPeek, TrySignalTo, PopEnd, LinkEvent, Sleep, Wake,
         UnlinkEvent, UnlinkEnd, Return, Goto, Advance, popVars, ChanTypes
    <2>2. CASE TrySignalTo(t)
      <3>1. waitstate' = waitstate \/ \E v : waitstate' = [waitstate EXCEPT ![v] = "NoWait"]
        BY <2>2 DEF TrySignalTo
      <3> QED BY <2>1, <3>1 DEF ChanTypes
    <2>3. CASE ~TrySignalTo(t)
      BY <1>1, <2>1, <2>3 DEF WaitStep, PopSignal, ScanEnd, ScanPeek, PopEnd, LinkEvent, Sleep, Wake,
         UnlinkEvent, UnlinkEnd, Return, groupVars, ChanTypes
    <2> QED BY <2>2, <2>3
  <1>2. ASSUME NEW try_wait \in BOOLEAN, Wait(t, try_wait)
        PROVE  /\ wpc'[u] = wpc[u] /\ wi'[u] = wi[u] /\ cursor'[u] = cursor[u]
               /\ waitstate'[u] = "Wait" => waitstate[u] = "Wait"
    BY <1>2 DEF Wait, Goto, popVars, ChanTypes
  <1> QED BY <1>1, <1>2 DEF Step

\* How a thread moves that has links.
LEMMA LinkedMoves ==
  ASSUME ChanTypes, NEW t \in Threads, Step(t)
  PROVE  /\ wpc[t] = "link" =>
              \/ LinkEvent(t) /\ wpc'[t] = "link" /\ wi'[t] = wi[t] + 1
              \/ wpc'[t] = "sleep" /\ wi[t] > Size(t) /\ chain' = chain
         /\ wpc[t] = "sleep" => wpc'[t] = "unlink" /\ wi'[t] = 1 /\ waitstate'[t] = waitstate[t] /\ chain' = chain
         /\ wpc[t] = "unlink" =>
              /\ waitstate'[t] = waitstate[t]
              /\ \/ UnlinkEvent(t) /\ wpc'[t] = "unlink" /\ wi'[t] = wi[t] + 1
                 \/ wpc'[t] = "return" /\ wi[t] > Size(t) /\ chain' = chain
         /\ wpc[t] \notin {"link", "sleep", "unlink"} =>
              /\ wpc'[t] \notin {"sleep", "unlink"} /\ (wpc'[t] = "link" => wi'[t] = 1)
              /\ chain' = chain
  <1>1. CASE wpc[t] = "link"
    <2>1. LinkEvent(t) \/ Sleep(t)
      BY <1>1 DEF Step, WaitStep, Wait, PopSignal, ScanEnd, ScanPeek, TrySignalTo, PopEnd, Wake, UnlinkEvent, UnlinkEnd, Return
    <2> QED BY <1>1, <2>1 DEF LinkEvent, Sleep, Goto, chanVars, ChanTypes
  <1>2. CASE wpc[t] = "sleep"
    <2>1. Wake(t)
      BY <1>2 DEF Step, WaitStep, Wait, PopSignal, ScanEnd, ScanPeek, TrySignalTo, PopEnd, LinkEvent, Sleep, UnlinkEvent, UnlinkEnd, Return
    <2> QED BY <1>2, <2>1 DEF Wake, Goto, chanVars, ChanTypes
  <1>3. CASE wpc[t] = "unlink"
    <2>1. UnlinkEvent(t) \/ UnlinkEnd(t)
      BY <1>3 DEF Step, WaitStep, Wait, PopSignal, ScanEnd, ScanPeek, TrySignalTo, PopEnd, LinkEvent, Sleep, Wake, Return
    <2> QED BY <1>3, <2>1 DEF UnlinkEvent, UnlinkEnd, Goto, chanVars, groupVars, ChanTypes
  <1>4. CASE wpc[t] \notin {"link", "sleep", "unlink"}
    <2>1. \/ PopSignal(t) \/ ScanEnd(t) \/ ScanPeek(t) \/ TrySignalTo(t) \/ PopEnd(t) \/ Return(t)
          \/ \E try_wait \in BOOLEAN : Wait(t, try_wait)
      BY <1>4 DEF Step, WaitStep, LinkEvent, Sleep, Wake, UnlinkEvent, UnlinkEnd
    <2>2. chain' = chain
      BY <2>1 DEF PopSignal, ScanEnd, ScanPeek, TrySignalTo, PopEnd, Return, Wait, chanVars
    <2>3. CASE PopEnd(t)
      BY <1>4, <2>2, <2>3 DEF PopEnd, Goto, ChanTypes
    <2>4. CASE ~PopEnd(t)
      <3>1. wpc' = wpc \/ \E label \in {"scan", "pop", "return", "enter", "idle"} : wpc' = [wpc EXCEPT ![t] = label]
        BY <2>1, <2>4 DEF PopSignal, ScanEnd, ScanPeek, TrySignalTo, Return, Wait, Goto
      <3> QED BY <1>4, <2>2, <3>1 DEF ChanTypes
    <2> QED BY <2>3, <2>4
  <1> QED BY <1>1, <1>2, <1>3, <1>4

LEMMA PlaceKept ==
  ASSUME ChanTypes, NEW t \in Threads, Step(t), NEW u \in Threads, NEW i \in 1..Size(u), InPlace(u, i),
         ~(u = t /\ UnlinkEvent(t) /\ i = wi[t])
  PROVE  InPlace(u, i)'
  <1>1. CASE u # t
    BY <1>1, OthersRest DEF InPlace
  <1>2. CASE u = t
    <2>1. wi[t] \in Index /\ Size(u) \in Nat
      BY OperationFacts DEF ChanTypes
    <2> QED BY <1>2, <2>1, LinkedMoves DEF InPlace, Index
  <1> QED BY <1>1, <1>2

LEMMA ChainLinks ==
  ASSUME ChanInv, NEW x \in Chans \X Ops, NEW k \in DOMAIN chain[x]
  PROVE  /\ chain[x] \in Seq(Threads \X Index) /\ k \in 1..Len(chain[x])
         /\ \E u \in Threads, i \in Index :
              chain[x][k] = <<u, i>> /\ i \in 1..Size(u) /\ x = <<chanOf(u, i), operation(u, i)>>
  <1>1. chain[x] \in Seq(Threads \X Index) /\ k \in 1..Len(chain[x])
    BY DEF ChanInv, ChanTypes
  <1>2. PICK u \in Threads, i \in Index : chain[x][k] = <<u, i>>
    BY <1>1
  <1>3. LinkOK(x, chain[x][k])
    BY DEF ChanInv, LinksOK
  <1>4. i \in 1..Size(u) /\ evlinks[u][i] = [op |-> x[2], chan |-> x[1]]
    BY <1>2, <1>3, OperationFacts DEF LinkOK, waitgroup, groupindex
  <1>5. chanOf(u, i) = x[1] /\ operation(u, i) = x[2] /\ x = <<x[1], x[2]>>
    BY <1>4 DEF chanOf, operation
  <1> QED BY <1>1, <1>2, <1>4, <1>5

\* The links of the next chains are in place when each of them is.
LEMMA PlacesNext ==
  ASSUME ChanTypes', \A x \in Chans \X Ops : IsInjective(chain'[x]),
         \A x \in Chans \X Ops : \A k \in DOMAIN chain'[x] : \A u \in Threads, i \in Index :
           chain'[x][k] = <<u, i>> => InPlace(u, i)'
  PROVE  ChainsApart'
  <1>1. ASSUME NEW x \in Chans \X Ops, NEW k \in DOMAIN chain'[x]
        PROVE  InPlace(waitgroup(chain[x][k]), groupindex(chain[x][k]))'
    <2>1. chain'[x] \in Seq(Threads \X Index)
      BY DEF ChanTypes
    <2>2. PICK u \in Threads, i \in Index : chain'[x][k] = <<u, i>>
      BY <2>1
    <2>3. InPlace(u, i)'
      BY <2>2
    <2> QED BY <2>2, <2>3 DEF InPlace, waitgroup, groupindex
  <1> QED BY <1>1 DEF ChainsApart

\* A link that stays in a chain stays in place.
LEMMA OldPlace ==
  ASSUME ChanInv, ChainsApart, NEW t \in Threads, Step(t),
         NEW x \in Chans \X Ops, NEW k \in DOMAIN chain[x], NEW u \in Threads, NEW i \in Index,
         chain[x][k] = <<u, i>>, ~(UnlinkEvent(t) /\ <<u, i>> = <<t, wi[t]>>)
  PROVE  InPlace(u, i) /\ InPlace(u, i)'
  <1>1. i \in 1..Size(u)
    BY ChainLinks
  <1>2. InPlace(u, i)
    BY DEF ChainsApart, waitgroup, groupindex
  <1> QED BY <1>1, <1>2, PlaceKept DEF ChanInv

LEMMA ChainsNext == ChanInv /\ ChainsApart /\ [Next]_vars => ChainsApart'
  <1> SUFFICES ASSUME ChanInv, ChainsApart, [Next]_vars PROVE ChainsApart'
    OBVIOUS
  <1>0. ChanTypes /\ ChanTypes'
    BY TypesNext DEF ChanInv
  <1>1. CASE UNCHANGED vars
    BY <1>1 DEF ChainsApart, InPlace, IsInjective, vars, chanVars, waitVars
  <1>2. ASSUME NEW t \in Threads, Step(t), chain' = chain, ~UnlinkEvent(t) PROVE ChainsApart'
    <2>1. \A x \in Chans \X Ops : IsInjective(chain'[x])
      BY <1>2 DEF ChainsApart
    <2> QED BY <1>0, <1>2, <2>1, OldPlace, PlacesNext
  <1>3. ASSUME NEW t \in Threads, LinkEvent(t) PROVE ChainsApart'
    <2>1. PICK x \in Chans \X Ops, s \in Seq(Threads \X Index) : LinkedAs(t, x, s)
      BY <1>0, <1>3, LinkEffect
    <2>2. Step(t) /\ ~UnlinkEvent(t) /\ wpc[t] = "link" /\ wpc'[t] = "link" /\ wi'[t] = wi[t] + 1 /\ wi[t] \in Index
      BY <1>0, <1>3 DEF Step, WaitStep, LinkEvent, UnlinkEvent, ChanTypes, Index
    <2>3. PICK i \in Index : i = wi[t]
      BY <2>2
    <2>4. ~InPlace(t, i) /\ InPlace(t, i)'
      BY <2>2, <2>3 DEF InPlace, Index
    <2>5. \A k \in DOMAIN s : k = 1 \/ (k - 1 \in DOMAIN chain[x] /\ s[k] = chain[x][k - 1])
      <3> TAKE k \in DOMAIN s
      <3>1. CASE k # 1
        <4>1. /\ DOMAIN s = 1..Len(s) /\ Len(s) = Len(chain[x]) + 1 /\ Len(chain[x]) \in Nat
              /\ DOMAIN chain[x] = 1..Len(chain[x])
          BY <2>1 DEF LinkedAs
        <4>2. k \in Int /\ k - 1 \in 1..Len(chain[x]) /\ (k - 1) + 1 = k
          BY <3>1, <4>1
        <4>3. \A m \in 1..Len(chain[x]) : s[m + 1] = chain[x][m]
          BY <2>1 DEF LinkedAs
        <4>4. s[(k - 1) + 1] = chain[x][k - 1]
          BY <4>2, <4>3
        <4> QED BY <4>1, <4>2, <4>4
      <3> QED BY <3>1
    <2>6. s[1] = <<t, i>> /\ \A k \in DOMAIN chain[x] : chain[x][k] # <<t, i>>
      <3>1. s[1] = <<t, i>>
        BY <2>1, <2>3 DEF LinkedAs
      <3> QED BY <2>2, <2>4, <3>1, OldPlace
    <2>7. IsInjective(s)
      <3>1. ASSUME NEW m \in DOMAIN s, NEW n \in DOMAIN s, s[m] = s[n] PROVE m = n
        <4>1. m \in Int /\ n \in Int
          OBVIOUS
        <4>2. CASE m = 1 \/ n = 1
          BY <2>5, <2>6, <3>1, <4>2
        <4>3. CASE m # 1 /\ n # 1
          <5>1. m - 1 = n - 1
            BY <2>5, <3>1, <4>3 DEF ChainsApart, IsInjective
          <5> QED BY <4>1, <5>1
        <4> QED BY <4>2, <4>3
      <3> QED BY <3>1 DEF IsInjective
    <2>8. \A y \in Chans \X Ops : chain'[y] = IF y = x THEN s ELSE chain[y]
      BY <2>1 DEF LinkedAs
    <2>9. ASSUME NEW y \in Chans \X Ops, NEW k \in DOMAIN chain'[y], NEW u \in Threads, NEW j \in Index,
                 chain'[y][k] = <<u, j>>
          PROVE  InPlace(u, j)'
      <3>1. CASE y = x /\ k = 1
        <4>1. u = t /\ j = i
          BY <2>6, <2>8, <2>9, <3>1
        <4> QED BY <2>4, <4>1
      <3>2. CASE y = x /\ k # 1
        <4>1. k - 1 \in DOMAIN chain[x] /\ chain[x][k - 1] = <<u, j>>
          BY <2>5, <2>8, <2>9, <3>2
        <4> QED BY <2>2, <4>1, OldPlace
      <3>3. CASE y # x
        <4>1. k \in DOMAIN chain[y] /\ chain[y][k] = <<u, j>>
          BY <2>8, <2>9, <3>3
        <4> QED BY <2>2, <4>1, OldPlace
      <3> QED BY <3>1, <3>2, <3>3
    <2>10. \A y \in Chans \X Ops : IsInjective(chain'[y])
      BY <2>7, <2>8 DEF ChainsApart
    <2> QED BY <1>0, <2>9, <2>10, PlacesNext
  <1>4. ASSUME NEW t \in Threads, UnlinkEvent(t) PROVE ChainsApart'
    <2>1. PICK x \in Chans \X Ops, s \in Seq(Threads \X Index), k \in Index : UnlinkedAs(t, x, s, k)
      BY <1>0, <1>4, UnlinkEffect
    <2>2. Step(t)
      BY <1>4 DEF Step, WaitStep
    <2>3. \A j \in DOMAIN s :
            LET m == IF j < k THEN j ELSE j + 1
            IN  j \in Int /\ m \in DOMAIN chain[x] /\ m # k /\ s[j] = chain[x][m]
      <3>1. /\ DOMAIN s = 1..Len(s) /\ Len(s) = Len(chain[x]) - 1 /\ Len(chain[x]) \in Nat
            /\ DOMAIN chain[x] = 1..Len(chain[x]) /\ k \in 1..Len(chain[x])
        BY <2>1 DEF UnlinkedAs
      <3>2. \A j \in 1..Len(s) : s[j] = IF j < k THEN chain[x][j] ELSE chain[x][j + 1]
        BY <2>1 DEF UnlinkedAs
      <3> TAKE j \in DOMAIN s
      <3>3. j \in 1..Len(s) /\ j \in Int /\ k \in Int
        BY <3>1
      <3>4. CASE j < k
        <4>1. j \in 1..Len(chain[x]) /\ j # k
          BY <3>1, <3>3, <3>4
        <4>2. s[j] = chain[x][j]
          BY <3>2, <3>3, <3>4
        <4> QED BY <3>1, <3>3, <3>4, <4>1, <4>2
      <3>5. CASE ~(j < k)
        <4>1. j + 1 \in 1..Len(chain[x]) /\ j + 1 # k
          BY <3>1, <3>3, <3>5
        <4>2. s[j] = chain[x][j + 1]
          BY <3>2, <3>3, <3>5
        <4> QED BY <3>1, <3>3, <3>5, <4>1, <4>2
      <3> QED BY <3>4, <3>5
    <2>4. IsInjective(s)
      <3>1. ASSUME NEW m \in DOMAIN s, NEW n \in DOMAIN s, s[m] = s[n] PROVE m = n
        <4>1. (IF m < k THEN m ELSE m + 1) = (IF n < k THEN n ELSE n + 1)
          BY <2>3, <3>1 DEF ChainsApart, IsInjective
        <4>2. m \in Int /\ n \in Int /\ k \in Int
          BY DEF Index
        <4> QED BY <4>1, <4>2
      <3> QED BY <3>1 DEF IsInjective
    <2>5. \A y \in Chans \X Ops : chain'[y] = IF y = x THEN s ELSE chain[y]
      BY <2>1 DEF UnlinkedAs
    <2>6. k \in DOMAIN chain[x] /\ chain[x][k] = <<t, wi[t]>>
      BY <2>1 DEF UnlinkedAs
    <2>7. ASSUME NEW y \in Chans \X Ops, NEW m \in DOMAIN chain[y], y # x \/ m # k
          PROVE  chain[y][m] # <<t, wi[t]>>
      <3>1. SUFFICES ASSUME chain[y][m] = <<t, wi[t]>> PROVE FALSE
        OBVIOUS
      <3>2. y = <<chanOf(t, wi[t]), operation(t, wi[t])>> /\ x = <<chanOf(t, wi[t]), operation(t, wi[t])>>
        BY <2>6, <3>1, ChainLinks
      <3> QED BY <2>6, <2>7, <3>1, <3>2 DEF ChainsApart, IsInjective
    <2>8. ASSUME NEW y \in Chans \X Ops, NEW j \in DOMAIN chain'[y], NEW u \in Threads, NEW i \in Index,
                 chain'[y][j] = <<u, i>>
          PROVE  InPlace(u, i)'
      <3>1. \E m \in DOMAIN chain[y] : chain[y][m] = <<u, i>> /\ (y # x \/ m # k)
        <4>1. CASE y = x
          BY <2>3, <2>5, <2>8, <4>1
        <4>2. CASE y # x
          BY <2>5, <2>8, <4>2
        <4> QED BY <4>1, <4>2
      <3>2. PICK m \in DOMAIN chain[y] : chain[y][m] = <<u, i>> /\ (y # x \/ m # k)
        BY <3>1
      <3>3. <<u, i>> # <<t, wi[t]>>
        BY <2>7, <3>2
      <3> QED BY <2>2, <3>2, <3>3, OldPlace
    <2>9. \A y \in Chans \X Ops : IsInjective(chain'[y])
      BY <2>4, <2>5 DEF ChainsApart
    <2> QED BY <1>0, <2>8, <2>9, PlacesNext
  <1>5. ASSUME NEW t \in Threads, Step(t) PROVE ChainsApart'
    BY <1>0, <1>2, <1>3, <1>4, <1>5, LinkedMoves
  <1> QED BY <1>1, <1>5 DEF Next, Step

\* A link stays in its chain unless its thread takes it out.
LEMMA LinkStays ==
  ASSUME ChanInv, NEW t \in Threads, Step(t), NEW u \in Threads, NEW i \in 1..Size(u), Linked(u, i),
         ~(u = t /\ UnlinkEvent(t))
  PROVE  Linked(u, i)'
  <1> DEFINE z == <<chanOf(u, i), operation(u, i)>>
  <1>1. ChanTypes /\ z \in Chans \X Ops
    BY OperationFacts DEF ChanInv
  <1>2. PICK n \in DOMAIN chain[z] : chain[z][n] = <<u, i>>
    BY DEF Linked
  <1> SUFFICES \E m \in DOMAIN chain'[z] : chain'[z][m] = <<u, i>>
    BY DEF Linked, chanOf, operation
  <1> HIDE DEF z
  <1>3. CASE LinkEvent(t)
    <2>1. PICK x \in Chans \X Ops, s \in Seq(Threads \X Index) : LinkedAs(t, x, s)
      BY <1>1, <1>3, LinkEffect
    <2>2. chain'[z] = IF z = x THEN s ELSE chain[z]
      BY <1>1, <2>1 DEF LinkedAs
    <2>3. CASE z = x
      <3>1. n \in 1..Len(chain[x]) /\ n + 1 \in 1..Len(s) /\ DOMAIN s = 1..Len(s)
        BY <1>2, <2>1, <2>3 DEF LinkedAs
      <3>2. s[n + 1] = <<u, i>>
        BY <1>2, <2>1, <2>3, <3>1 DEF LinkedAs
      <3> QED BY <2>2, <2>3, <3>1, <3>2
    <2> QED BY <1>2, <2>2, <2>3
  <1>4. CASE UnlinkEvent(t)
    <2>1. PICK x \in Chans \X Ops, s \in Seq(Threads \X Index), k \in Index : UnlinkedAs(t, x, s, k)
      BY <1>1, <1>4, UnlinkEffect
    <2>2. chain'[z] = IF z = x THEN s ELSE chain[z]
      BY <1>1, <2>1 DEF UnlinkedAs
    <2>3. CASE z = x
      <3>1. /\ DOMAIN s = 1..Len(s) /\ Len(s) = Len(chain[x]) - 1 /\ Len(chain[x]) \in Nat
            /\ n \in 1..Len(chain[x]) /\ k \in 1..Len(chain[x])
        BY <1>2, <2>1, <2>3 DEF UnlinkedAs
      <3>2. n # k
        BY <1>2, <1>4, <2>1, <2>3 DEF UnlinkedAs
      <3>3. \A j \in 1..Len(s) : s[j] = IF j < k THEN chain[x][j] ELSE chain[x][j + 1]
        BY <2>1 DEF UnlinkedAs
      <3>4. CASE n < k
        <4>1. n \in 1..Len(s)
          BY <3>1, <3>4
        <4> QED BY <1>2, <2>2, <2>3, <3>1, <3>3, <3>4, <4>1
      <3>5. CASE ~(n < k)
        <4>1. n - 1 \in 1..Len(s) /\ ~(n - 1 < k) /\ (n - 1) + 1 = n
          BY <3>1, <3>2, <3>5
        <4>2. s[n - 1] = chain[x][n]
          BY <3>3, <4>1
        <4> QED BY <1>2, <2>2, <2>3, <3>1, <4>1, <4>2
      <3> QED BY <3>4, <3>5
    <2> QED BY <1>2, <2>2, <2>3
  <1>5. CASE ~LinkEvent(t) /\ ~UnlinkEvent(t)
    BY <1>1, <1>2, <1>5, LinkedMoves
  <1> QED BY <1>3, <1>4, <1>5

LEMMA LinkedNext ==
  ChanInv /\ (\A u \in Threads : LinkedOK(u)) /\ [Next]_vars => \A u \in Threads : LinkedOK(u)'
  <1> SUFFICES ASSUME ChanInv, \A v \in Threads : LinkedOK(v), [Next]_vars, NEW u \in Threads PROVE LinkedOK(u)'
    OBVIOUS
  <1>0. ChanTypes /\ Size(u) \in Nat
    BY OperationFacts DEF ChanInv
  <1>1. CASE UNCHANGED vars
    BY <1>1 DEF LinkedOK, Linked, vars, chanVars, waitVars
  <1>2. ASSUME NEW t \in Threads, Step(t), NEW i \in 1..Size(u),
               wpc'[u] = "sleep" \/ (wpc'[u] = "link" /\ i < wi'[u])
        PROVE  Linked(u, i)'
    <2>1. CASE u # t
      <3>1. Linked(u, i)
        BY <1>0, <1>2, <2>1, OthersRest DEF LinkedOK
      <3> QED BY <1>2, <2>1, <3>1, LinkStays
    <2>2. CASE u = t /\ LinkEvent(t)
      <3>1. wpc[t] = "link" /\ wpc'[t] = "link" /\ wi'[t] = wi[t] + 1 /\ wi[t] \in Nat /\ ~UnlinkEvent(t)
        BY <1>0, <2>2 DEF LinkEvent, UnlinkEvent, ChanTypes, Index
      <3>2. CASE i < wi[t]
        <4>1. Linked(u, i)
          BY <2>2, <3>1, <3>2 DEF LinkedOK
        <4> QED BY <1>2, <3>1, <4>1, LinkStays
      <3>3. CASE i = wi[t]
        <4>1. PICK x \in Chans \X Ops, s \in Seq(Threads \X Index) : LinkedAs(t, x, s)
          BY <1>0, <2>2, LinkEffect
        <4>2. x = <<chanOf(u, i), operation(u, i)>>
          BY <2>2, <3>3, <4>1 DEF LinkedAs, myChan, myOp
        <4>3. chain'[x] = s /\ s[1] = <<u, i>> /\ 1 \in DOMAIN s
          BY <2>2, <3>3, <4>1 DEF LinkedAs
        <4>4. \E k \in DOMAIN chain'[x] : chain'[x][k] = <<u, i>>
          BY <4>3
        <4> QED BY <4>2, <4>4 DEF Linked, chanOf, operation
      <3>4. i < wi[t] \/ i = wi[t]
        BY <1>2, <2>2, <3>1
      <3> QED BY <3>2, <3>3, <3>4
    <2>3. CASE u = t /\ ~LinkEvent(t)
      <3>1. wpc[t] = "link" /\ wi[t] > Size(t) /\ wi[t] \in Nat /\ chain' = chain
        BY <1>0, <1>2, <2>3, LinkedMoves DEF ChanTypes, Index
      <3>2. Linked(u, i)
        BY <1>0, <2>3, <3>1 DEF LinkedOK
      <3> QED BY <3>1, <3>2 DEF Linked, chanOf, operation
    <2> QED BY <2>1, <2>2, <2>3
  <1>3. ASSUME NEW t \in Threads, Step(t) PROVE LinkedOK(u)'
    BY <1>2, <1>3 DEF LinkedOK, Size
  <1> QED BY <1>1, <1>3 DEF Next, Step

\* Who slept when a scan began is still ahead of it, or sleeps no more.
LEMMA AheadKept ==
  ASSUME ChanInv, ChainsApart, NEW t \in Threads, Step(t), NEW v \in Threads, inScan(v), inScan(v)',
         NEW u \in Threads, Ahead(v, u)
  PROVE  Ahead(v, u)'
  <1>0. ChanTypes /\ wi[v] \in 1..Size(v) /\ cmu[myChan(v)] = v
    <2>1. ChanTypes /\ wi[v] <= Size(v) /\ cmu[myChan(v)] = v
      BY DEF ChanInv, ScanOK
    <2>2. wi[v] \in Index
      BY <2>1 DEF ChanTypes
    <2> QED BY <2>1, <2>2, OperationFacts DEF Index
  <1> DEFINE z == <<myChan(v), coevent(myOp(v))>>
  <1>1. z \in Chans \X Ops /\ coChain(v) = chain[z]
    BY <1>0, OperationFacts DEF coChain, myChan, myOp
  <1>2. PICK k \in DOMAIN chain[z] :
          waitgroup(chain[z][k]) = u /\ wpc[u] \in {"sleep", "unlink"} /\ (waitstate[u] = "Wait" => cursor[v] <= k)
    BY <1>1 DEF Ahead
  <1> HIDE DEF z
  <1>3. PICK i \in 1..Size(u) : chain[z][k] = <<u, i>>
    <2>1. PICK w \in Threads, i \in Index : chain[z][k] = <<w, i>> /\ i \in 1..Size(w)
      BY <1>1, ChainLinks
    <2> QED BY <1>2, <2>1 DEF waitgroup
  <1>4. v = t => ScanPeek(t) \/ TrySignalTo(t)
    <2>1. v = t => ScanPeek(t) \/ TrySignalTo(t) \/ wpc' = [wpc EXCEPT ![t] = "pop"] \/ wpc' = [wpc EXCEPT ![t] = "return"]
      BY DEF inScan, Step, WaitStep, Wait, PopSignal, ScanEnd, PopEnd, LinkEvent, Sleep, Wake, UnlinkEvent, UnlinkEnd, Return, Goto
    <2> QED BY <1>0, <2>1 DEF inScan, ChanTypes
  <1>5. wi'[v] = wi[v]
    <2>1. CASE v # t
      BY <1>0, <2>1, OthersRest
    <2>2. CASE v = t
      BY <1>4, <2>2 DEF ScanPeek, TrySignalTo
    <2> QED BY <2>1, <2>2
  <1>6. coChain(v)' = chain'[z]
    BY <1>5 DEF coChain, myChan, myOp, z
  <1>7. chain'[z] = chain[z]
    <2>1. CASE LinkEvent(t) \/ UnlinkEvent(t)
      <3>1. cmu[myChan(t)] = NoOne /\ \E r : chain' = [chain EXCEPT ![<<myChan(t), myOp(t)>>] = r]
        BY <2>1 DEF LinkEvent, UnlinkEvent
      <3>2. z # <<myChan(t), myOp(t)>>
        BY <1>0, <3>1, NamesAssumption DEF z
      <3> QED BY <1>0, <1>1, <3>1, <3>2 DEF ChanTypes
    <2>2. CASE ~LinkEvent(t) /\ ~UnlinkEvent(t)
      BY <1>0, <2>2, LinkedMoves
    <2> QED BY <2>1, <2>2
  <1>8. wpc'[u] \in {"sleep", "unlink"} /\ (waitstate'[u] = "Wait" => waitstate[u] = "Wait")
    <2>1. CASE u # t
      BY <1>0, <1>2, <2>1, OthersRest
    <2>2. CASE u = t
      <3>1. wpc[u] = "unlink" => wi[u] <= i
        BY <1>1, <1>2, <1>3 DEF ChainsApart, InPlace, waitgroup, groupindex
      <3>2. ~(wpc[u] = "unlink" /\ wi[u] > Size(u))
        BY <1>0, <1>3, <3>1, OperationFacts DEF ChanTypes, Index
      <3> QED BY <1>0, <1>2, <2>2, <3>2, LinkedMoves
    <2> QED BY <2>1, <2>2
  <1>9. waitstate'[u] = "Wait" => cursor'[v] <= k
    <2> SUFFICES ASSUME waitstate'[u] = "Wait" PROVE cursor'[v] <= k
      OBVIOUS
    <2>1. cursor[v] \in Nat /\ k \in Nat /\ cursor[v] <= k
      <3>1. cursor[v] \in Index /\ chain[z] \in Seq(Threads \X Index)
        BY <1>0, <1>1 DEF ChanTypes
      <3> QED BY <1>2, <1>8, <3>1 DEF Index
    <2>2. CASE v # t
      BY <1>0, <2>1, <2>2, OthersRest
    <2>3. CASE v = t /\ cursor' = [cursor EXCEPT ![t] = @ + 1]
      <3>1. k # cursor[t]
        <4>1. SUFFICES ASSUME k = cursor[t] PROVE FALSE
          OBVIOUS
        <4>2. waitgroup(coChain(t)[cursor[t]]) = u
          BY <1>1, <1>2, <2>3, <4>1
        <4>3. ScanPeek(t) \/ TrySignalTo(t)
          BY <1>4, <2>3
        <4>4. CASE ScanPeek(t)
          BY <1>0, <1>8, <2>1, <2>3, <4>2, <4>4 DEF ScanPeek, PeekWaits, ChanTypes
        <4>5. CASE TrySignalTo(t)
          BY <1>0, <1>8, <4>2, <4>5 DEF TrySignalTo, StillWaits, ChanTypes
        <4> QED BY <4>3, <4>4, <4>5
      <3> QED BY <1>0, <2>1, <2>3, <3>1 DEF ChanTypes
    <2>4. CASE v = t /\ cursor' = cursor
      BY <2>1, <2>4
    <2>5. v = t => cursor' = cursor \/ cursor' = [cursor EXCEPT ![t] = @ + 1]
      BY <1>4 DEF ScanPeek, TrySignalTo, Advance
    <2> QED BY <2>2, <2>3, <2>4, <2>5
  <1> QED BY <1>1, <1>2, <1>6, <1>7, <1>8, <1>9 DEF Ahead, waitgroup

LEMMA SleepersNext == ServeInv /\ [MCNext]_<<vars, sleepers>> => SleepersAhead'
  <1> SUFFICES ASSUME ServeInv, [MCNext]_<<vars, sleepers>> PROVE SleepersAhead'
    OBVIOUS
  <1>0. ChanInv /\ ChanTypes /\ ChainsApart /\ SleepersAhead
    BY DEF ServeInv, ChanInv
  <1>1. CASE UNCHANGED <<vars, sleepers>>
    BY <1>0, <1>1 DEF SleepersAhead, Ahead, coChain, myChan, myOp, vars, chanVars, groupVars, waitVars, popVars
  <1>2. CASE MCNext
    <2>1. PICK t \in Threads : Step(t)
      BY <1>2 DEF MCNext, Next, Step
    <2>2. sleepers' = [v \in Threads |-> CASE wpc[v] = "pop" /\ wpc'[v] = "scan" -> Asleeps(v)
                                         [] wpc'[v] \notin {"scan", "enter"} -> {}
                                         [] OTHER -> sleepers[v]]
      BY <1>2 DEF MCNext
    <2>3. ASSUME NEW v \in Threads, wpc[v] = "pop", wpc'[v] = "scan"
          PROVE  sleepers'[v] = Asleeps(v) /\ \A u \in Asleeps(v) : Ahead(v, u)'
      <3>1. sleepers'[v] = Asleeps(v)
        BY <2>2, <2>3
      <3>2. v = t
        BY <1>0, <2>1, <2>3, OthersRest
      <3>3. PopSignal(v)
        <4>1. PopSignal(v) \/ wpc' = [wpc EXCEPT ![v] = "return"] \/ wpc' = [wpc EXCEPT ![v] = "link"]
          BY <2>1, <2>3, <3>2 DEF Step, WaitStep, Wait, ScanEnd, ScanPeek, TrySignalTo, PopEnd, LinkEvent, Sleep, Wake,
             UnlinkEvent, UnlinkEnd, Return, Goto
        <4> QED BY <1>0, <2>3, <4>1 DEF ChanTypes
      <3>4. /\ wi[v] \in 1..Size(v) /\ UNCHANGED <<chain, wi, waitstate>> /\ cursor' = [cursor EXCEPT ![v] = 1]
        BY <1>0, <3>3, OperationFacts DEF PopSignal, groupVars, ChanTypes, Index
      <3>5. myChan(v) \in Chans /\ coevent(myOp(v)) \in Ops /\ coChain(v)' = coChain(v) /\ cursor'[v] = 1
        BY <1>0, <3>4, OperationFacts DEF coChain, myChan, myOp, ChanTypes
      <3>6. ASSUME NEW u \in Asleeps(v) PROVE Ahead(v, u)'
        <4>1. PICK i \in DOMAIN evlinks[u] : evlinks[u][i] = [op |-> coevent(myOp(v)), chan |-> myChan(v)]
          BY <3>6 DEF Asleeps, Asleep
        <4>2. u \in Threads /\ waitstate[u] = "Wait"
          BY <3>6 DEF Asleeps, Asleep
        <4>3. wpc[u] = "sleep" /\ u # v /\ i \in 1..Size(u)
          BY <1>0, <2>3, <4>2, OperationFacts DEF ChanInv, SignalOK
        <4>4. Linked(u, i) /\ chanOf(u, i) = myChan(v) /\ operation(u, i) = coevent(myOp(v))
          BY <4>1, <4>2, <4>3 DEF ServeInv, LinkedOK, chanOf, operation
        <4>5. PICK k \in DOMAIN coChain(v) : coChain(v)[k] = <<u, i>>
          BY <4>4 DEF Linked, coChain
        <4>6. coChain(v) \in Seq(Threads \X Index)
          BY <1>0, <3>5 DEF coChain, ChanTypes
        <4>7. 1 <= k
          BY <4>5, <4>6
        <4>8. wpc'[u] = "sleep"
          BY <1>0, <2>1, <3>2, <4>2, <4>3, OthersRest
        <4> QED BY <3>5, <4>5, <4>7, <4>8 DEF Ahead, waitgroup
      <3> QED BY <3>1, <3>6
    <2>4. ASSUME NEW v \in Threads, wpc'[v] \in {"scan", "enter"}, ~(wpc[v] = "pop" /\ wpc'[v] = "scan")
          PROVE  sleepers'[v] = sleepers[v] /\ \A u \in sleepers[v] : Ahead(v, u)'
      <3>1. sleepers'[v] = sleepers[v]
        BY <2>2, <2>4
      <3>2. wpc[v] \in {"scan", "enter"}
        <4>1. CASE v # t
          BY <1>0, <2>1, <2>4, <4>1, OthersRest
        <4>2. CASE v = t
          <5>1. \/ wpc[v] = "pop" /\ wpc' = [wpc EXCEPT ![v] = "scan"]
                \/ wpc[v] \in {"scan", "enter"}
                \/ \E label \in {"pop", "link", "return", "sleep", "unlink", "idle"} : wpc' = [wpc EXCEPT ![v] = label]
                \/ wpc[v] \in {"link", "unlink"} /\ wpc' = wpc
            BY <2>1, <4>2 DEF Step, WaitStep, Wait, PopSignal, ScanEnd, ScanPeek, TrySignalTo, PopEnd, LinkEvent, Sleep, Wake,
               UnlinkEvent, UnlinkEnd, Return, Goto
          <5> QED BY <1>0, <2>4, <5>1 DEF ChanTypes
        <4> QED BY <4>1, <4>2
      <3>3. \A u \in sleepers[v] : u \in Threads /\ Ahead(v, u)
        BY <1>0, <3>2 DEF SleepersAhead
      <3> QED BY <1>0, <2>1, <2>4, <3>1, <3>2, <3>3, AheadKept DEF inScan
    <2>5. sleepers' \in [Threads -> SUBSET Threads]
      BY <1>0, <2>2 DEF SleepersAhead, Asleeps, Asleep
    <2> QED BY <2>3, <2>4, <2>5 DEF SleepersAhead
  <1> QED BY <1>1, <1>2

THEOREM ServeCorrect == MCSpec => []ServeInv
  <1>1. MCInit => ServeInv
    <2> SUFFICES ASSUME MCInit PROVE ServeInv
      OBVIOUS
    <2>1. Init /\ ChanInv
      BY ChanInit DEF MCInit
    <2>2. (\A u \in Threads : LinkedOK(u)) /\ ChainsApart /\ SleepersAhead
      BY <2>1 DEF Init, MCInit, LinkedOK, ChainsApart, IsInjective, SleepersAhead
    <2> QED BY <2>1, <2>2 DEF ServeInv
  <1>2. ServeInv /\ [MCNext]_<<vars, sleepers>> => ServeInv'
    <2> SUFFICES ASSUME ServeInv, [MCNext]_<<vars, sleepers>> PROVE ServeInv'
      OBVIOUS
    <2>1. [Next]_vars /\ ChanInv
      BY DEF MCNext, ServeInv
    <2>2. ChanInv'
      BY <2>1, TypesNext, LinksNext, ScansNext, SignalsNext DEF ChanInv
    <2> QED BY <2>1, <2>2, LinkedNext, ChainsNext, SleepersNext DEF ServeInv
  <1> QED BY <1>1, <1>2, PTL DEF MCSpec

\* An operation serves whom it can: whoever slept on the other event of the channel when
\* popsignal took its mutex has been woken when the scan ends, unless the scan ended because it
\* had met a partner, or because the other side has nothing to do there.
THEOREM SleepersServed == MCSpec => OperationServesSleepers
  <1>1. ASSUME ServeInv, [MCNext]_<<vars, sleepers>>,
               NEW t \in Threads, wpc[t] = "scan", wpc'[t] \in {"pop", "return"}
        PROVE  \/ IF isSyncChan(myChan(t)) THEN done[t] ELSE empty_event_nm(myChan(t), coevent(myOp(t)))
               \/ \A u \in sleepers[t] : waitstate[u] = "NoWait"
    <2>0. ChanTypes /\ SleepersAhead
      BY <1>1 DEF ServeInv, ChanInv
    <2>1. PICK s \in Threads : Step(s)
      BY <1>1 DEF MCNext, Next, Step, vars, waitVars
    <2>2. s = t
      BY <1>1, <2>0, <2>1, OthersRest
    <2>3. ScanOver(t)
      <3>1. ScanEnd(t) \/ wpc' = wpc \/ wpc' = [wpc EXCEPT ![t] = "enter"]
        BY <1>1, <2>1, <2>2 DEF Step, WaitStep, Wait, PopSignal, ScanPeek, TrySignalTo, PopEnd, LinkEvent, Sleep, Wake,
           UnlinkEvent, UnlinkEnd, Return, Goto
      <3>2. ScanEnd(t)
        BY <1>1, <2>0, <3>1 DEF ChanTypes
      <3> QED BY <3>2 DEF ScanEnd
    <2>4. CASE cursor[t] > Len(coChain(t))
      <3>1. ASSUME NEW u \in sleepers[t] PROVE waitstate[u] = "NoWait"
        <4>1. u \in Threads /\ Ahead(t, u)
          BY <1>1, <2>0, <3>1 DEF SleepersAhead
        <4>2. wi[t] \in 1..Size(t)
          BY <1>1, <2>0, OperationFacts DEF ServeInv, ChanInv, ScanOK, inScan, ChanTypes, Index
        <4>3. coChain(t) \in Seq(Threads \X Index) /\ cursor[t] \in Index
          BY <2>0, <4>2, OperationFacts DEF coChain, myChan, myOp, ChanTypes
        <4>4. waitstate[u] # "Wait"
          BY <2>4, <4>1, <4>3 DEF Ahead, Index
        <4> QED BY <2>0, <4>1, <4>4 DEF ChanTypes
      <3> QED BY <3>1
    <2> QED BY <2>3, <2>4 DEF ScanOver
  <1>2. ServeInv /\ [MCNext]_<<vars, sleepers>> =>
          [\A t \in Threads : wpc[t] = "scan" /\ wpc'[t] \in {"pop", "return"} =>
             \/ IF isSyncChan(myChan(t)) THEN done[t] ELSE empty_event_nm(myChan(t), coevent(myOp(t)))
             \/ \A u \in sleepers[t] : waitstate[u] = "NoWait"]_<<vars, sleepers>>
    BY <1>1
  <1> QED BY <1>2, ServeCorrect, PTL DEF MCSpec, OperationServesSleepers
=============================================================================
