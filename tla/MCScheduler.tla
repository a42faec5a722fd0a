---------------------------- MODULE MCScheduler ----------------------------
(* Model-checking instance of Scheduler: two workers sharing action a1,   *)
(* worker w1 also serving a2, so one slot object sits in two lists.       *)
EXTENDS Scheduler

CONSTANTS w1, w2, a1, a2, p1, p2, s1, s2, s3, k1, k2

MCWorkers == {w1, w2}
MCActions == {a1, a2}
MCWorkerActions == (w1 :> {a1, a2}) @@ (w2 :> {a1})
MCMaxRuns == (w1 :> 1) @@ (w2 :> 1)
\* both workers heartbeat, or w2 has stopped
MCWorkerSnapshots == {{w1, w2}, {w1}}
MCAssigners == {p1, p2}
\* enough identities for the kept lists, the unacked slots and a full replenish
MCSlotIds == {s1, s2, s3}
MCAckIds == {k1, k2}
\* slot and ack identities are interchangeable: both are allocated by \E
MCSymmetry == Permutations(MCSlotIds) \cup Permutations(MCAckIds)
\* The liveness run: one worker, one action, two goroutines that can keep
\* the read lock overlapping (reader starvation needs no more).
MCWorkersLive == {w1}
MCActionsLive == {a1}
MCWorkerActionsLive == (w1 :> {a1})
MCMaxRunsLive == (w1 :> 1)
MCWorkerSnapshotsLive == {{w1}}
====
