----------------------------- MODULE MCSyncChan -----------------------------
(* Instances of SyncChan for TLC. *)
EXTENDS SyncChan, TLC

CONSTANTS t1, t2, t3, buf, sync

read(c)  == [op |-> "Read", chan |-> c]
write(c) == [op |-> "Write", chan |-> c]

\* A buffered and an unbuffered channel, as chasync and chsync of the test.
Capacities == (buf :> 1) @@ (sync :> 0)
OneBuffer == (buf :> 1)

\* push to each channel, a reader that waits for both, and pop.
Select == (t1 :> <<write(buf)>>) @@ (t2 :> <<write(sync)>>)
            @@ (t3 :> <<read(buf), read(sync)>>)
\* push and pop only.
PushPop == (t1 :> <<write(buf)>>) @@ (t2 :> <<read(buf)>>) @@ (t3 :> <<write(buf)>>)
\* One writer and one reader of an unbuffered channel.
Meeting == (t1 :> <<write(sync)>>) @@ (t2 :> <<read(sync)>>)
Unbuffered == (sync :> 0)

VARIABLE sleepers   \* history: who was asleep on the other event when popsignal began

Asleeps(t) == Asleep(myChan(t), coevent(myOp(t)))

MCInit == Init /\ sleepers = [t \in Threads |-> {}]
MCNext ==
  /\ Next
  /\ sleepers' = [t \in Threads |->
                    CASE wpc[t] = "pop" /\ wpc'[t] = "scan" -> Asleeps(t)
                      [] wpc'[t] \notin {"scan", "enter"} -> {}
                      [] OTHER -> sleepers[t]]
MCSpec == MCInit /\ [][MCNext]_<<vars, sleepers>>
MCFairSpec == MCSpec /\ \A t \in Threads : WF_vars(WaitStep(t))

\* An operation serves whom it can: when a thread leaves a channel, the other
\* side has nothing to do there, or (unbuffered) the two have met, or nobody
\* who slept on the other event when it came is still asleep (signal_nm walks
\* past the groups that another channel has woken).
OperationServesSleepers ==
  [][\A t \in Threads : wpc[t] = "scan" /\ wpc'[t] \in {"pop", "return"} =>
       \/ IF isSyncChan(myChan(t)) THEN done[t]
                                   ELSE empty_event_nm(myChan(t), coevent(myOp(t)))
       \/ \A u \in sleepers[t] : waitstate[u] = "NoWait"]_<<vars, sleepers>>
=============================================================================
