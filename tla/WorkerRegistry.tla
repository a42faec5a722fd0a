---------------------------- MODULE WorkerRegistry ----------------------------
(***************************************************************************)
(* The Worker and WorkerSemaphore rows of one worker, as the statements of *)
(* internal/repository/prisma/dbsqlc/workers.sql.go change them. Each SQL  *)
(* statement is one atomic step.                                           *)
(*                                                                         *)
(* The worker's listener sessions (dispatcher streams) are the             *)
(* environment: a session is established at time Ts[s], marks the worker   *)
(* active with UpdateWorkerActiveStatus(true, Ts[s]) and, when its stream  *)
(* ends, inactive with UpdateWorkerActiveStatus(false, Ts[s]). Sessions    *)
(* overlap when a worker reconnects before its old stream is torn down.    *)
(* The step-run statements that take and give back semaphore slots are    *)
(* outside src/ and are the environment too.                               *)
(***************************************************************************)
EXTENDS Integers

CONSTANTS
  Sessions,      \* listener sessions, numbered in the order they are established
  Ts,            \* [Sessions -> Nat]: lastListenerEstablished of each session
  MaxRunsValues, \* values the maxRuns parameter takes
  DefaultSlots,  \* COALESCE(maxRuns, 100): the default
  MaxHeld,       \* bound on the worker's held step runs
  Null           \* model value: SQL NULL

ASSUME Sessions \subseteq Nat /\ Ts \in [Sessions -> Nat]
ASSUME Null \notin Nat /\ MaxRunsValues \subseteq Nat

VARIABLES
  row,       \* the Worker row: "none", "live" or "deleted"
  maxRuns,   \* Worker.maxRuns (Null or a number)
  isActive,  \* Worker.isActive
  lle,       \* Worker.lastListenerEstablished (Null or a timestamp)
  fresh,     \* Worker.lastHeartbeatAt is within the last minute
  sem,       \* the WorkerSemaphore row exists
  slots,     \* WorkerSemaphore.slots
  held,      \* step runs RUNNING or ASSIGNED on the worker, semaphore not released
  sess       \* state of each listener session

vars == <<row, maxRuns, isActive, lle, fresh, sem, slots, held, sess>>

dbVars == <<row, maxRuns, isActive, lle, fresh, sem, slots>>

\* COALESCE(maxRuns, 100)
Capacity == IF maxRuns = Null THEN DefaultSlots ELSE maxRuns

\* the value ResolveWorkerSemaphoreSlots writes:
\* COALESCE(maxRuns, 100) - COUNT(held step runs)
ResolvedSlots == Capacity - held

-----------------------------------------------------------------------------
(* The statements                                                          *)

\* CreateWorker: INSERT with a fresh id; isActive defaults to false,
\* lastHeartbeatAt and lastListenerEstablished to NULL
CreateWorker ==
  /\ row = "none"
  /\ \E m \in MaxRunsValues \cup {Null} :
       /\ row' = "live" /\ maxRuns' = m
       /\ isActive' = FALSE /\ lle' = Null /\ fresh' = FALSE
  /\ UNCHANGED <<sem, slots, held, sess>>

\* CreateWorkerSemaphore: INSERT (workerId, COALESCE(maxRuns, 100)), the
\* worker's own maxRuns passed again
CreateWorkerSemaphore ==
  /\ row = "live" /\ ~sem
  /\ sem' = TRUE
  /\ slots' = Capacity
  /\ UNCHANGED <<row, maxRuns, isActive, lle, fresh, held, sess>>

\* Mutant: the semaphore row outlives its worker (no cascade).
DeleteWorkerKeepSemaphore ==
  /\ row = "live"
  /\ row' = "deleted"
  /\ UNCHANGED <<maxRuns, isActive, lle, fresh, sem, slots, held, sess>>

\* DeleteWorker: the row goes, and its semaphore row with it
DeleteWorker ==
  /\ row = "live"
  /\ row' = "deleted" /\ sem' = FALSE
  /\ UNCHANGED <<maxRuns, isActive, lle, fresh, slots, held, sess>>

\* UpdateWorker: each parameter is COALESCEd with the column; the callers
\* pass a heartbeat time, a new maxRuns, or both
UpdateWorker ==
  /\ row = "live"
  /\ \E hb \in BOOLEAN, m \in MaxRunsValues \cup {Null} :
       /\ hb \/ m # Null
       /\ fresh' = (hb \/ fresh)
       /\ maxRuns' = IF m = Null THEN maxRuns ELSE m
  /\ UNCHANGED <<row, isActive, lle, sem, slots, held, sess>>

\* Mutant: the listener timestamp must be strictly newer.
UpdateWorkerActiveStatusStrict(active, t) ==
  /\ row = "live"
  /\ IF lle = Null \/ lle < t
       THEN isActive' = active /\ lle' = t
       ELSE UNCHANGED <<isActive, lle>>
  /\ UNCHANGED <<row, maxRuns, fresh, sem, slots>>

\* UpdateWorkerActiveStatus: applied only when lastListenerEstablished is
\* NULL or not newer than the caller's; otherwise no row is updated
UpdateWorkerActiveStatus(active, t) ==
  /\ row = "live"
  /\ IF lle = Null \/ lle <= t
       THEN isActive' = active /\ lle' = t
       ELSE UNCHANGED <<isActive, lle>>
  /\ UNCHANGED <<row, maxRuns, fresh, sem, slots>>

\* ResolveWorkerSemaphoreSlots: a semaphore whose slots differ from
\* COALESCE(maxRuns, 100) minus the held step runs is rewritten, if the
\* worker heartbeated within the last minute
ResolveWorkerSemaphoreSlots ==
  /\ sem /\ row = "live" /\ fresh
  /\ slots # ResolvedSlots
  /\ slots' = ResolvedSlots
  /\ UNCHANGED <<row, maxRuns, isActive, lle, fresh, sem, held, sess>>

-----------------------------------------------------------------------------
(* Environment                                                             *)

\* a minute passes without a heartbeat
HeartbeatExpires ==
  /\ fresh
  /\ fresh' = FALSE
  /\ UNCHANGED <<row, maxRuns, isActive, lle, sem, slots, held, sess>>

\* a step run is assigned to the worker: it takes a slot
StepRunAssigned ==
  /\ sem /\ slots > 0 /\ held < MaxHeld
  /\ slots' = slots - 1 /\ held' = held + 1
  /\ UNCHANGED <<row, maxRuns, isActive, lle, fresh, sem, sess>>

\* a step run finishes and releases its semaphore slot
StepRunReleased ==
  /\ held > 0
  /\ held' = held - 1
  /\ slots' = IF sem THEN slots + 1 ELSE slots
  /\ UNCHANGED <<row, maxRuns, isActive, lle, fresh, sem, sess>>

\* session s is established (sessions start in order, on a live worker)
\* and marks the worker active
SessionConnect(s) ==
  /\ sess[s] = "idle" /\ row = "live"
  /\ \A r \in Sessions : r < s => sess[r] # "idle"
  /\ sess' = [sess EXCEPT ![s] = "connecting"]
  /\ UNCHANGED <<dbVars, held>>

ConnectApplied(s) ==
  /\ sess[s] = "connecting"
  /\ UpdateWorkerActiveStatus(TRUE, Ts[s])
  /\ sess' = [sess EXCEPT ![s] = "open"]
  /\ UNCHANGED held

\* the session's stream ends
SessionEnds(s) ==
  /\ sess[s] = "open"
  /\ sess' = [sess EXCEPT ![s] = "closing"]
  /\ UNCHANGED <<dbVars, held>>

DisconnectApplied(s) ==
  /\ sess[s] = "closing"
  /\ UpdateWorkerActiveStatus(FALSE, Ts[s])
  /\ sess' = [sess EXCEPT ![s] = "closed"]
  /\ UNCHANGED held

Init ==
  /\ row = "none" /\ maxRuns = Null /\ isActive = FALSE /\ lle = Null
  /\ fresh = FALSE /\ sem = FALSE /\ slots = 0 /\ held = 0
  /\ sess = [s \in Sessions |-> "idle"]

Next ==
  \/ CreateWorker \/ CreateWorkerSemaphore \/ DeleteWorker \/ UpdateWorker
  \/ ResolveWorkerSemaphoreSlots
  \/ HeartbeatExpires \/ StepRunAssigned \/ StepRunReleased
  \/ \E s \in Sessions :
       SessionConnect(s) \/ ConnectApplied(s) \/ SessionEnds(s) \/ DisconnectApplied(s)

Spec == Init /\ [][Next]_vars

-----------------------------------------------------------------------------
(* Properties                                                               *)

TypeOK ==
  /\ row \in {"none", "live", "deleted"}
  /\ maxRuns \in MaxRunsValues \cup {Null}
  /\ isActive \in BOOLEAN /\ fresh \in BOOLEAN
  /\ sem \in BOOLEAN /\ (sem => row = "live")   \* WorkerSemaphore.workerId references Worker
  /\ lle \in {Ts[s] : s \in Sessions} \cup {Null}
  /\ slots \in Int /\ held \in 0..MaxHeld
  /\ sess \in [Sessions -> {"idle", "connecting", "open", "closing", "closed"}]

\* the most recently established session, if any
Started == {s \in Sessions : sess[s] # "idle"}
Newest == CHOOSE s \in Started : \A r \in Started : r <= s

\* no UpdateWorkerActiveStatus call is in flight
Quiescent == \A s \in Sessions : sess[s] \notin {"connecting", "closing"}

\* Whenever no status update is in flight, isActive says whether the
\* worker's newest listener session is open: an older session's late
\* disconnect cannot mark a reconnected worker inactive, and the newest
\* session's own disconnect does mark it inactive. The updates of
\* overlapping sessions reach the database in any order.
ActiveFollowsNewestSession ==
  (row = "live" /\ Quiescent /\ Started # {}) =>
    (isActive <=> sess[Newest] = "open")

=============================================================================
