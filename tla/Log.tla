-------------------------------- MODULE Log --------------------------------
(***************************************************************************)
(* The log of tsys: log objects, the static pointer to the current one,    *)
(* and the messages a push builds.  A message lies on the stack, or, when  *)
(* the object's buffer or mode asks for it, on the heap, in a pool that is *)
(* scanned for a free one.  lockauto locks nothing, so a thread's reads    *)
(* and writes of the shared state are steps of their own.  Reading memory  *)
(* that was freed finds the old contents or others; the model records it   *)
(* in faults and goes on either way, until a second delete ends the run.   *)
(***************************************************************************)
EXTENDS Integers, Sequences, FiniteSets, SequencesExt

CONSTANTS LogThreads,      \* threads that push; any of them may also open and close
          LogHandles,      \* log_handle objects; each makes one log object
          Default,      \* log_decls_t::defaultlog
          NoLog,
          MaxPool,      \* cMaxMessagesCount
          MaxMessages,  \* heap messages made
          MaxLogCalls      \* logCalls of each thread

ASSUME LogAssumption == /\ Default \notin LogHandles /\ NoLog \notin LogHandles \cup {Default}
                        /\ MaxPool \in Nat

Logs == LogHandles \cup {Default}
Types == {-1, 0}       \* loglev_Error, loglev_Always

VARIABLES
  current,  \* log_decls_t::currentlog
  level,    \* gCurrentLogLevel
  log,      \* log objects: there, os, heap (buffer or mode ask for the heap), pool
  msg,      \* heap messages: state, heapOnly (the flag emf_InHeapOnly)
  th,       \* threads: pc, on (the log object), m (the message), os (the stream it found)
  faults,   \* what went wrong with memory
  heapEnds, \* heap messages that were ended
  overlaps, \* an object was closed while another thread was inside a push to it
  logCalls

logVars == <<current, level, log, msg, th, faults, heapEnds, overlaps, logCalls>>

Idle == [pc |-> "idle", on |-> NoLog, m |-> 0, os |-> FALSE]
Closed == [there |-> FALSE, os |-> FALSE, heap |-> FALSE, pool |-> <<>>]

LogInit ==
  /\ current = NoLog /\ level \in {-1, 0}
  /\ log = [l \in Logs |-> [Closed EXCEPT !.there = l = Default]]
  /\ msg = <<>> /\ th = [t \in LogThreads |-> Idle]
  /\ faults = {} /\ heapEnds = 0 /\ overlaps = FALSE
  /\ logCalls = [t \in LogThreads |-> 0]

Call(t) == /\ th[t].pc = "idle" /\ logCalls[t] < MaxLogCalls /\ "doublefree" \notin faults
           /\ logCalls' = [logCalls EXCEPT ![t] = @ + 1]
LogGoto(t, pc) == th' = [th EXCEPT ![t].pc = pc]

-----------------------------------------------------------------------------
(* push: the level, the current log, then a message on the stack or from the pool. *)

PushStart(t, tp) ==
  /\ Call(t)
  /\ th' = IF level <= tp
           THEN [th EXCEPT ![t] = [Idle EXCEPT !.pc = "push", !.on = IF current = NoLog THEN Default ELSE current]]
           ELSE th
  /\ UNCHANGED <<current, level, log, msg, faults, heapEnds, overlaps>>

\* The object is read through a pointer that may be stale.
Gone(t) == IF log[th[t].on].there THEN {} ELSE {"object"}

PushOnStack(t) ==
  /\ th[t].pc = "push" /\ ~log[th[t].on].heap
  /\ LogGoto(t, "flush") /\ faults' = faults \cup Gone(t)
  /\ UNCHANGED <<current, level, log, msg, heapEnds, overlaps, logCalls>>

\* on_begin_msg scans for est_Free; what a deleted message says is anybody's guess.
LooksFree(m) == msg[m].state \in {"free", "deleted"}
MaySkip(m)   == msg[m].state # "free"
Candidates(l) == {i \in 1 .. Len(log[l].pool) :
                    LooksFree(log[l].pool[i]) /\ \A j \in 1 .. i - 1 : MaySkip(log[l].pool[j])}
Dangling(l) == {i \in 1 .. Len(log[l].pool) : msg[log[l].pool[i]].state = "deleted"}
Read(l) == IF Dangling(l) # {} THEN {"message"} ELSE {}

PushFromPool(t) ==
  /\ th[t].pc = "push" /\ log[th[t].on].heap
  /\ LET l == th[t].on
     IN \/ /\ \E i \in Candidates(l) : th' = [th EXCEPT ![t].pc = "claim", ![t].m = log[l].pool[i]]
           /\ UNCHANGED <<log, msg>>
        \/ /\ Len(msg) < MaxMessages
           /\ \A i \in 1 .. Len(log[l].pool) : MaySkip(log[l].pool[i])
           /\ LET listed == Len(log[l].pool) < MaxPool
              IN /\ msg' = Append(msg, [state |-> "begin", heapOnly |-> listed])
                 /\ log' = IF listed THEN [log EXCEPT ![l].pool = Append(@, Len(msg) + 1)] ELSE log
           /\ th' = [th EXCEPT ![t].pc = "flush", ![t].m = Len(msg) + 1]
  /\ faults' = faults \cup Gone(t) \cup Read(th[t].on)
  /\ UNCHANGED <<current, level, heapEnds, overlaps, logCalls>>

\* r->state = est_Begin: nothing kept another thread from finding the same message.
SetState(m, s) == IF msg[m].state = "deleted" THEN msg ELSE [msg EXCEPT ![m].state = s]
Claim(t) ==
  /\ th[t].pc = "claim"
  /\ msg' = SetState(th[t].m, "begin")
  /\ LogGoto(t, "flush")
  /\ UNCHANGED <<current, level, log, faults, heapEnds, overlaps, logCalls>>

-----------------------------------------------------------------------------
(* on_end_msg: flush, mark the message free, and then look at its flags and delete it. *)

\* msgflush and the last line test os and then call it.
StreamOf(l) == log[l].os
FlushTest(t) ==
  /\ th[t].pc = "flush"
  /\ th' = [th EXCEPT ![t].pc = "write", ![t].os = StreamOf(th[t].on)]
  /\ faults' = faults \cup Gone(t)
  /\ UNCHANGED <<current, level, log, msg, heapEnds, overlaps, logCalls>>

FlushWrite(t) ==
  /\ th[t].pc = "write"
  /\ faults' = faults \cup Gone(t) \cup (IF th[t].os /\ ~log[th[t].on].os THEN {"stream"} ELSE {})
  /\ th' = IF th[t].m = 0 THEN [th EXCEPT ![t] = Idle] ELSE [th EXCEPT ![t].pc = "free"]
  /\ UNCHANGED <<current, level, log, msg, heapEnds, overlaps, logCalls>>

EndFree(t) ==
  /\ th[t].pc = "free"
  /\ msg' = SetState(th[t].m, "free")
  /\ LogGoto(t, "delete") /\ heapEnds' = heapEnds + 1
  /\ UNCHANGED <<current, level, log, faults, overlaps, logCalls>>

\* Only a message the pool lists has the flag InHeapOnly, and it stays listed; another one is
\* neither listed nor deleted.
EndDelete(t) ==
  /\ th[t].pc = "delete"
  /\ LET m == th[t].m
         again == msg[m].state = "deleted"
     IN /\ msg' = IF msg[m].heapOnly THEN [msg EXCEPT ![m].state = "deleted"] ELSE msg
        /\ faults' = faults \cup Gone(t) \cup (IF ~again THEN {} ELSE IF msg[m].heapOnly THEN {"doublefree"} ELSE {"message"})
  /\ th' = [th EXCEPT ![t] = Idle]
  /\ UNCHANGED <<current, level, log, heapEnds, overlaps, logCalls>>

-----------------------------------------------------------------------------
(* Opening and closing. *)

InsidePush(l, t) == \E u \in LogThreads \ {t} : th[u].on = l
ClosePointerKept(l) == current
ClosePointer(l) == IF current = l THEN NoLog ELSE current
ClosedPool(l) == [m \in DOMAIN msg |-> IF Contains(log[l].pool, m) THEN [msg[m] EXCEPT !.state = "deleted"] ELSE msg[m]]
CloseFault(l) == IF Dangling(l) # {} THEN {"doublefree"} ELSE {}

\* log_open closes first; the file may not open, and then the new log is not the current one.
\* A new object comes with its first opening.
OpenLog(t, l, file, heap, asdef) ==
  /\ Call(t)
  /\ \E opened \in IF file THEN BOOLEAN ELSE {TRUE} :
       /\ log' = [log EXCEPT ![l] = [there |-> TRUE, os |-> file /\ opened, heap |-> heap, pool |-> <<>>]]
       /\ current' = IF opened /\ asdef THEN l ELSE ClosePointer(l)
  /\ msg' = ClosedPool(l) /\ faults' = faults \cup CloseFault(l)
  /\ overlaps' = (overlaps \/ InsidePush(l, t))
  /\ UNCHANGED <<level, th, heapEnds>>

\* closefile drops the stream only.
CloseFile(t, l) ==
  /\ Call(t) /\ log[l].there
  /\ log' = [log EXCEPT ![l].os = FALSE]
  /\ overlaps' = (overlaps \/ InsidePush(l, t))
  /\ UNCHANGED <<current, level, msg, th, faults, heapEnds>>

\* ~log_handle deletes the object, whose destructor closes it.
Destroy(t, l) ==
  /\ Call(t) /\ log[l].there
  /\ log' = [log EXCEPT ![l] = Closed]
  /\ current' = ClosePointer(l)
  /\ msg' = ClosedPool(l) /\ faults' = faults \cup CloseFault(l)
  /\ overlaps' = (overlaps \/ InsidePush(l, t))
  /\ UNCHANGED <<level, th, heapEnds>>

SetAsDefault(t, l) ==
  /\ Call(t)
  /\ current' = IF log[l].there THEN l ELSE current
  /\ UNCHANGED <<level, log, msg, th, faults, heapEnds, overlaps>>

SetMode(t, l, heap) ==
  /\ Call(t)
  /\ log' = IF log[l].there THEN [log EXCEPT ![l].heap = heap] ELSE log
  /\ UNCHANGED <<current, level, msg, th, faults, heapEnds, overlaps>>

LogNext ==
  \E t \in LogThreads :
    \/ \E tp \in Types : PushStart(t, tp)
    \/ PushOnStack(t) \/ PushFromPool(t) \/ Claim(t)
    \/ FlushTest(t) \/ FlushWrite(t) \/ EndFree(t) \/ EndDelete(t)
    \/ \E l \in LogHandles :
         \/ \E file, heap, asdef \in BOOLEAN : OpenLog(t, l, file, heap, asdef)
         \/ CloseFile(t, l) \/ Destroy(t, l) \/ SetAsDefault(t, l)
         \/ \E heap \in BOOLEAN : SetMode(t, l, heap)

LogSpec == LogInit /\ [][LogNext]_logVars

-----------------------------------------------------------------------------
(* Properties. *)

\* Nothing is reached through the static pointer but a log object that is there: whoever closes
\* or deletes the current log clears it, in any order of the calls.  Freed memory is
\* touched for two reasons only: a heap message was ended, which leaves it deleted and
\* listed, or a log was closed while another thread was pushing to it.
LogOutlivesItsUse ==
  /\ current # NoLog => log[current].there
  /\ faults \cap {"message", "doublefree"} # {} => heapEnds > 0 \/ overlaps
  /\ faults \cap {"object", "stream"} # {} => overlaps
=============================================================================
