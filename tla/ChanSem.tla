------------------------------- MODULE ChanSem -------------------------------
(***************************************************************************)
(* What src/tbsync promises of channels: a buffered channel is a bounded   *)
(* FIFO queue, an unbuffered one hands a value from a writer to a reader,  *)
(* and a wait on several of them performs exactly one of its operations.   *)
(***************************************************************************)
EXTENDS Integers, Sequences

CONSTANTS Threads, Chans, Values, maxsize, evlinks, NoSignal

VARIABLES
  que,     \* que[c]: the values in channel c
  phase,   \* phase[t]: where the wait of thread t is
  index,   \* index[t]: position of the operation it performed
  put,     \* put[t]: the value it writes
  got      \* got[t]: the last value it read

vars == <<que, phase, index, put, got>>

Init ==
  /\ que = [c \in Chans |-> <<>>]
  /\ phase = [t \in Threads |-> "out"]
  /\ index = [t \in Threads |-> NoSignal]
  /\ put \in [Threads -> Values]
  /\ got \in [Threads -> Values]

Call(t, v) ==
  /\ phase[t] = "out"
  /\ phase' = [phase EXCEPT ![t] = "waiting"]
  /\ put' = [put EXCEPT ![t] = v]
  /\ UNCHANGED <<que, index, got>>

\* Thread t is waiting and may perform operation op of position i on channel c.
May(t, i, op, c) ==
  /\ phase[t] = "waiting"
  /\ i \in DOMAIN evlinks[t] /\ evlinks[t][i] = [op |-> op, chan |-> c]

Write(t, i, c) ==
  /\ May(t, i, "Write", c) /\ Len(que[c]) < maxsize[c]
  /\ que' = [que EXCEPT ![c] = Append(@, put[t])]
  /\ phase' = [phase EXCEPT ![t] = "served"]
  /\ index' = [index EXCEPT ![t] = i]
  /\ UNCHANGED <<put, got>>

Read(t, i, c) ==
  /\ May(t, i, "Read", c) /\ que[c] # <<>>
  /\ que' = [que EXCEPT ![c] = Tail(@)]
  /\ got' = [got EXCEPT ![t] = Head(que[c])]
  /\ phase' = [phase EXCEPT ![t] = "served"]
  /\ index' = [index EXCEPT ![t] = i]
  /\ UNCHANGED put

\* A writer w and a reader r meet at an unbuffered channel.
Meet(w, i, r, j, c) ==
  /\ maxsize[c] = 0
  /\ May(w, i, "Write", c) /\ May(r, j, "Read", c)
  /\ got' = [got EXCEPT ![r] = put[w]]
  /\ phase' = [phase EXCEPT ![w] = "served", ![r] = "served"]
  /\ index' = [index EXCEPT ![w] = i, ![r] = j]
  /\ UNCHANGED <<que, put>>

GiveUp(t) ==
  /\ phase[t] = "waiting"
  /\ phase' = [phase EXCEPT ![t] = "unserved"]
  /\ UNCHANGED <<que, index, put, got>>

Leave(t) ==
  /\ phase[t] \in {"served", "unserved"}
  /\ phase' = [phase EXCEPT ![t] = "out"]
  /\ index' = [index EXCEPT ![t] = NoSignal]
  /\ UNCHANGED <<que, put, got>>

Next ==
  \E t \in Threads :
    \/ \E v \in Values : Call(t, v)
    \/ GiveUp(t) \/ Leave(t)
    \/ \E i \in DOMAIN evlinks[t], c \in Chans :
         \/ Write(t, i, c) \/ Read(t, i, c)
         \/ \E r \in Threads : \E j \in DOMAIN evlinks[r] : Meet(t, i, r, j, c)

Spec == Init /\ [][Next]_vars
=============================================================================
