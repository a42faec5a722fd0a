----------------------------- MODULE Scheduler -----------------------------
(***************************************************************************)
(* The tenant-scoped slot scheduler of pkg/scheduling/v2/scheduler.go.      *)
(*                                                                         *)
(* State kept by the Go Scheduler struct:                                  *)
(*   workers       the snapshot installed by setWorkers                    *)
(*   actions       action id -> slot list and the two replenish hints      *)
(*   unackedSlots  ack id -> slot, assigned but not yet acked/nacked       *)
(* plus the heap of slot objects they point to (slots), the one replenish  *)
(* goroutine that may be running (rp), the tryAssignBatch goroutines that  *)
(* hold actionsMu for reading (asg), and, as environment, the database's   *)
(* count of flushed step runs per worker (dbRunning) and the flush layer   *)
(* that writes assignments and then calls ack or nack (flushed).           *)
(*                                                                         *)
(* A slot list is a set: the code shuffles every list at replenish time,   *)
(* so any active slot of the list can be the one findSlot reaches first.   *)
(***************************************************************************)
EXTENDS Integers, FiniteSets, FiniteSetsExt, Functions, TLC

CONSTANTS
  Workers,        \* worker ids (model values)
  Actions,        \* action ids (model values)
  WorkerActions,  \* [Workers -> SUBSET Actions]: the WorkerAction rows in the database
  MaxRuns,        \* [Workers -> Nat]: Worker."maxRuns", the worker's capacity
  Assigners,      \* concurrent tryAssignBatch goroutines (model values)
  MaxBatch,       \* largest sub-batch a goroutine takes (the code uses 50)
  SlotIds,        \* identities for slot objects; unreferenced ones are reused
  AckIds,         \* identities for outstanding ack ids (see FreeAckIds)
  WorkerSnapshots, \* the sets of active workers setWorkers may install
  MustReplenish   \* values of mustReplenish callers use: loopReplenish passes TRUE,
                  \* callers outside src/ may pass FALSE

ASSUME WorkerActions \in [Workers -> SUBSET Actions]
ASSUME MaxRuns \in [Workers -> Nat]
ASSUME WorkerSnapshots \subseteq SUBSET Workers
ASSUME MaxBatch \in Nat \ {0}
ASSUME MustReplenish \subseteq BOOLEAN /\ MustReplenish # {}

VARIABLES
  workers,        \* s.workers (only the ids matter to the scheduler)
  actions,        \* s.actions
  slots,          \* slot objects: [worker, usedOnce, expired]
  unackedSlots,   \* s.unackedSlots
  rp,             \* the running replenish call, if any
  asg,            \* tryAssignBatch goroutines
  dbRunning,      \* step runs of each worker written to the database and not finished
  flushed         \* ack ids whose assignment the flush layer has written, not yet acked

vars == <<workers, actions, slots, unackedSlots, rp, asg, dbRunning, flushed>>

SlotRec == [worker : Workers, usedOnce : BOOLEAN, expired : BOOLEAN]
ActionRec == [slots : SUBSET SlotIds, lastReplenishedSlotCount : Nat,
              lastReplenishedWorkerCount : Nat]

-----------------------------------------------------------------------------
(* Slot and action helpers                                                  *)

\* slot.active(): not used and not expired
Active(s) == ~slots[s].usedOnce /\ ~slots[s].expired

\* action.activeCount()
ActiveCount(a) == Cardinality({s \in actions[a].slots : Active(s)})

\* the slots of action lists and of the candidate snapshots held by assigners
ListedSlots == UNION {actions[a].slots : a \in DOMAIN actions}
                 \cup UNION {asg[p].cand : p \in Assigners}

\* a slot object nothing references any more is garbage: its identity is free
\* for reuse and its fields no longer matter
Garbage == [worker |-> CHOOSE w \in Workers : TRUE, usedOnce |-> TRUE, expired |-> TRUE]
Collect(sl, refs) == [s \in SlotIds |-> IF s \in refs THEN sl[s] ELSE Garbage]

\* ack ids of unacked slots that belong to worker w
UnackedIdsOf(w) == {i \in DOMAIN unackedSlots : slots[unackedSlots[i]].worker = w}

-----------------------------------------------------------------------------
(* setWorkers / getWorkers                                                  *)

\* setWorkers replaces the map wholesale with the active workers the caller read.
setWorkers ==
  /\ \E ws \in WorkerSnapshots : workers' = ws
  /\ UNCHANGED <<actions, slots, unackedSlots, rp, asg, dbRunning, flushed>>

-----------------------------------------------------------------------------
(* replenish(ctx, mustReplenish)                                            *)
(* rp.pc: "idle" (replenishMu free), "listed" (ListActionsForWorkers done), *)
(* "decided" (actionsToReplenish computed), "queried" (available slots     *)
(* loaded; Lock() on actionsMu requested).                                  *)

RpIdle == [pc |-> "idle", must |-> FALSE, a2w |-> [a \in Actions |-> {}],
           toReplenish |-> {}, avail |-> [w \in {} |-> 0]]

\* ListActionsForWorkers(workerIds): rows for the workers of the snapshot,
\* folded into actionsToWorkerIds; workerIdsToActions is its inverse.
ActionsToWorkerIds(ws) == [a \in Actions |-> {w \in ws : a \in WorkerActions[w]}]
WorkerIdsToActions(w) == {a \in Actions : w \in rp.a2w[a]}

\* Lock (mustReplenish) or TryLock replenishMu, snapshot the workers, query the
\* actions. A failed TryLock or a failed query returns with nothing changed.
ReplenishListActions ==
  /\ rp.pc = "idle"
  /\ \E must \in MustReplenish :
       rp' = [RpIdle EXCEPT !.pc = "listed", !.must = must,
                            !.a2w = ActionsToWorkerIds(workers)]
  /\ UNCHANGED <<workers, actions, slots, unackedSlots, asg, dbRunning, flushed>>

\* FUNCTION 1, under actionsMu.RLock: which actions to replenish.
ShouldReplenish(a) ==
  \/ rp.must
  \/ a \notin DOMAIN actions
  \/ ActiveCount(a) = 0
  \/ ActiveCount(a) <= actions[a].lastReplenishedSlotCount \div 2
  \/ Cardinality(rp.a2w[a]) > actions[a].lastReplenishedWorkerCount

ReplenishDecide ==
  /\ rp.pc = "listed"
  /\ rp' = [rp EXCEPT !.pc = "decided",
                      !.toReplenish = {a \in Actions : rp.a2w[a] # {} /\ ShouldReplenish(a)}]
  /\ UNCHANGED <<workers, actions, slots, unackedSlots, asg, dbRunning, flushed>>

\* ListAvailableSlotsForWorkers: the WorkerSemaphore count, maxRuns minus the
\* worker's ASSIGNED/RUNNING step runs (ResolveWorkerSemaphoreSlots).
AvailableSlots(w) == MaxRuns[w] - dbRunning[w]

\* FUNCTION 2: load the available slots of every worker of a replenished action.
ReplenishListSlots ==
  /\ rp.pc = "decided"
  /\ LET ws == UNION {rp.a2w[a] : a \in rp.toReplenish}
     IN rp' = [rp EXCEPT !.pc = "queried", !.avail = [w \in ws |-> AvailableSlots(w)]]
  /\ UNCHANGED <<workers, actions, slots, unackedSlots, asg, dbRunning, flushed>>

\* the second query fails: return err, nothing committed
ReplenishQueryFails ==
  /\ rp.pc = "decided"
  /\ rp' = RpIdle
  /\ UNCHANGED <<workers, actions, slots, unackedSlots, asg, dbRunning, flushed>>

FreshCount(w) == IF rp.avail[w] - Cardinality(UnackedIdsOf(w)) > 0
                   THEN rp.avail[w] - Cardinality(UnackedIdsOf(w)) ELSE 0

\* newSlot for every fresh slot of every worker in ws: disjoint sets of
\* identities taken from free (any of them: identities are interchangeable)
Allocations(ws, free) ==
  {f \in [ws -> SUBSET free] :
     /\ \A w \in ws : Cardinality(f[w]) = FreshCount(w)
     /\ \A v, w \in ws : v # w => f[v] \cap f[w] = {}}

\* The slots the replenish pass would allocate and install are computed
\* from the state at the time of the write.
ReplenishedWorkers == DOMAIN rp.avail
ReplenishedActions == UNION {WorkerIdsToActions(w) : w \in ReplenishedWorkers}
UnackedSlotsOf(w) == {unackedSlots[i] : i \in UnackedIdsOf(w)}

\* FUNCTIONS 3 and 4, under actionsMu.Lock then unackedMu.Lock, given the
\* identities fresh[w] of the new slots of each worker: fresh slots plus the
\* worker's unacked slots (expiry extended) become the new list of every
\* action of the worker; the lists are installed with their hints; expired
\* slots are dropped from every list; actions left with no slot are deleted.
InstallSlots(fresh) ==
  LET queried    == ReplenishedWorkers
      newActs    == ReplenishedActions
      extended   == UNION {UnackedSlotsOf(w) : w \in queried}
      slotsOf(w) == fresh[w] \cup UnackedSlotsOf(w)
      newSlots(a) == UNION {slotsOf(w) : w \in {x \in queried : a \in WorkerIdsToActions(x)}}
      slots1     == [s \in SlotIds |->
                      IF \E w \in queried : s \in fresh[w]
                        THEN [worker |-> CHOOSE w \in queried : s \in fresh[w],
                              usedOnce |-> FALSE, expired |-> FALSE]
                      ELSE IF s \in extended THEN [slots[s] EXCEPT !.expired = FALSE]
                      ELSE slots[s]]
      installed  == [a \in DOMAIN actions \cup newActs |->
                      IF a \in newActs
                        THEN [slots |-> newSlots(a),
                              lastReplenishedSlotCount |-> Cardinality(newSlots(a)),
                              lastReplenishedWorkerCount |-> Cardinality(rp.a2w[a])]
                        ELSE actions[a]]
      swept      == [a \in DOMAIN installed |->
                      [installed[a] EXCEPT !.slots = {s \in @ : ~slots1[s].expired}]]
      actions1   == RestrictDomain(swept, LAMBDA a : swept[a].slots # {})
  IN /\ actions' = actions1
     /\ slots' = Collect(slots1, UNION {actions1[a].slots : a \in DOMAIN actions1}
                                  \cup UNION {asg[p].cand : p \in Assigners}
                                  \cup Range(unackedSlots))

\* actionsMu.Lock() returns once no tryAssignBatch holds the read lock
NoReaders == \A p \in Assigners : asg[p].pc = "idle"

ReplenishWrite ==
  /\ rp.pc = "queried"
  /\ NoReaders
  /\ LET kept   == UNION {actions[a].slots : a \in DOMAIN actions \ ReplenishedActions}
         allocs == Allocations(ReplenishedWorkers, SlotIds \ (kept \cup Range(unackedSlots)))
     IN /\ Assert(allocs # {}, "SlotIds too small for the slots replenish creates")
        /\ \E fresh \in allocs : InstallSlots(fresh)
  /\ rp' = RpIdle
  /\ UNCHANGED <<workers, unackedSlots, asg, dbRunning, flushed>>

\* time passes: a listed slot reaches its expiry (now >= expiresAt)
SlotExpires ==
  /\ \E s \in ListedSlots \cup Range(unackedSlots) :
       /\ ~slots[s].expired
       /\ slots' = [slots EXCEPT ![s].expired = TRUE]
  /\ UNCHANGED <<workers, actions, unackedSlots, rp, asg, dbRunning, flushed>>

-----------------------------------------------------------------------------
(* tryAssignBatch / tryAssignSingleton / findSlot                          *)
(* asg[p]: pc "idle" or "locked" (holding actionsMu.RLock), todo = queue   *)
(* items of the sub-batch not yet tried, cand = the candidateSlots slice.  *)

AsgIdle == [pc |-> "idle", todo |-> 0, cand |-> {}]

\* Mutant: a reader-preferring lock, RLock ignores the waiting writer.
RLockReaderPreferring == TRUE

\* RLock does not block unless a writer is waiting: replenish has called
\* actionsMu.Lock() once its second query returned.
RLockAvailable == rp.pc # "queried"

\* RLock and take candidateSlots = s.actions[actionId].slots for a sub-batch of
\* n items. (When the action is missing the code RUnlocks at once and returns
\* every item as noSlots: no scheduler state changes.)
tryAssignBatch(p, a, n) ==
  /\ asg[p].pc = "idle"
  /\ RLockAvailable
  /\ a \in DOMAIN actions
  /\ asg' = [asg EXCEPT ![p] = [pc |-> "locked", todo |-> n, cand |-> actions[a].slots]]
  /\ UNCHANGED <<workers, actions, slots, unackedSlots, rp, dbRunning, flushed>>

\* Mutant: use() is a plain store, not a compare-and-set; only expiry checked.
AssignableWithoutCas(s) == ~slots[s].expired

\* findSlot: skip a slot that is not active(); take it if use() wins (usedOnce
\* was false, set under the slot's lock).
Assignable(s) == Active(s)

\* assignedCount++ under assignedCountMu gives an id no other assignment ever
\* had; the model keeps only what the registry relies on, an id that is not
\* outstanding.
FreeAckIds == AckIds \ DOMAIN unackedSlots

\* tryAssignSingleton succeeds: slot s used, ackId taken, unackedSlots[ackId] = s
tryAssignSingleton(p, s) ==
  /\ asg[p].pc = "locked"
  /\ asg[p].todo > 0
  /\ s \in asg[p].cand
  /\ Assignable(s)
  /\ Assert(FreeAckIds # {}, "AckIds too small")
  /\ slots' = [slots EXCEPT ![s].usedOnce = TRUE]
  /\ \E ackId \in FreeAckIds : unackedSlots' = (ackId :> s) @@ unackedSlots
  /\ asg' = [asg EXCEPT ![p].todo = @ - 1]
  /\ UNCHANGED <<workers, actions, rp, dbRunning, flushed>>

\* Mutant: the noSlots path is taken without an item left in the sub-batch.
tryAssignSingletonNoSlotsUnguarded(p) ==
  /\ asg[p].pc = "locked"
  /\ asg' = [asg EXCEPT ![p].todo = @ - 1]
  /\ UNCHANGED <<workers, actions, slots, unackedSlots, rp, dbRunning, flushed>>

\* tryAssignSingleton returns noSlots: findSlot found nothing in either half of
\* the ring. getRankedSlots may first have filtered the candidates (sticky
\* HARD to another worker, a required label no worker has), so an item can
\* find nothing even while active slots remain.
tryAssignSingletonNoSlots(p) ==
  /\ asg[p].pc = "locked"
  /\ asg[p].todo > 0
  /\ asg' = [asg EXCEPT ![p].todo = @ - 1]
  /\ UNCHANGED <<workers, actions, slots, unackedSlots, rp, dbRunning, flushed>>

\* wg.Wait() returned: actionsMu.RUnlock()
tryAssignBatchDone(p) ==
  /\ asg[p].pc = "locked"
  /\ asg[p].todo = 0
  /\ asg' = [asg EXCEPT ![p] = AsgIdle]
  /\ slots' = Collect(slots, UNION {actions[a].slots : a \in DOMAIN actions}
                              \cup UNION {asg'[q].cand : q \in Assigners}
                              \cup Range(unackedSlots))
  /\ UNCHANGED <<workers, actions, unackedSlots, rp, dbRunning, flushed>>

-----------------------------------------------------------------------------
(* The flush layer (outside src/): writes assigned items, then ack or nack. *)

\* ack(ids): under unackedMu, slot.ack() and delete each present id
ack(ids) ==
  /\ unackedSlots' = RestrictDomain(unackedSlots, LAMBDA i : i \notin ids)
  /\ flushed' = flushed \ ids
  /\ slots' = Collect(slots, ListedSlots \cup Range(unackedSlots'))

\* Mutant: nack also hands the slot back (usedOnce reset).
nackReactivating(ids) ==
  LET back == {unackedSlots[i] : i \in ids \cap DOMAIN unackedSlots}
  IN /\ unackedSlots' = RestrictDomain(unackedSlots, LAMBDA i : i \notin ids)
     /\ flushed' = flushed \ ids
     /\ slots' = Collect([s \in SlotIds |-> IF s \in back THEN [slots[s] EXCEPT !.usedOnce = FALSE]
                                                         ELSE slots[s]],
                         ListedSlots \cup Range(unackedSlots'))

\* nack(ids): under unackedMu, slot.nack() and delete each present id
nack(ids) ==
  /\ unackedSlots' = RestrictDomain(unackedSlots, LAMBDA i : i \notin ids)
  /\ flushed' = flushed \ ids
  /\ slots' = Collect(slots, ListedSlots \cup Range(unackedSlots'))

Unflushed == DOMAIN unackedSlots \ flushed

\* the assignments of ids are written to the database (step runs ASSIGNED)
FlushWrite ==
  /\ \E ids \in SUBSET Unflushed \ {{}} :
       /\ dbRunning' = [w \in Workers |->
                          dbRunning[w] + Cardinality(ids \cap UnackedIdsOf(w))]
       /\ flushed' = flushed \cup ids
  /\ UNCHANGED <<workers, actions, slots, unackedSlots, rp, asg>>

\* the write succeeded: ack the ids
FlushAck ==
  /\ \E ids \in SUBSET flushed \ {{}} : ack(ids)
  /\ UNCHANGED <<workers, actions, rp, asg, dbRunning>>

\* the write failed: nack the ids
FlushNack ==
  /\ \E ids \in SUBSET Unflushed \ {{}} : nack(ids)
  /\ UNCHANGED <<workers, actions, rp, asg, dbRunning>>

\* a step run of w finishes and releases its semaphore slot
StepRunFinishes ==
  /\ \E w \in Workers :
       /\ dbRunning[w] > 0
       /\ dbRunning' = [dbRunning EXCEPT ![w] = @ - 1]
  /\ UNCHANGED <<workers, actions, slots, unackedSlots, rp, asg, flushed>>

-----------------------------------------------------------------------------

Init ==
  /\ workers = {}
  /\ actions = [a \in {} |-> {}]
  /\ slots = [s \in SlotIds |-> Garbage]
  /\ unackedSlots = [i \in {} |-> {}]
  /\ rp = RpIdle
  /\ asg = [p \in Assigners |-> AsgIdle]
  /\ dbRunning = [w \in Workers |-> 0]
  /\ flushed = {}

Singleton(p) == (\E s \in SlotIds : tryAssignSingleton(p, s)) \/ tryAssignSingletonNoSlots(p)

Next ==
  \/ setWorkers
  \/ ReplenishListActions \/ ReplenishDecide \/ ReplenishListSlots
  \/ ReplenishQueryFails \/ ReplenishWrite
  \/ SlotExpires
  \/ \E p \in Assigners :
       \/ \E a \in Actions, n \in 1..MaxBatch : tryAssignBatch(p, a, n)
       \/ Singleton(p)
       \/ tryAssignBatchDone(p)
  \/ FlushWrite \/ FlushAck \/ FlushNack \/ StepRunFinishes

\* The replenish goroutine and the assignment goroutines are scheduled by
\* the Go runtime: once a step of theirs is enabled and stays so, it runs.
Fairness ==
  /\ WF_vars(ReplenishDecide)
  /\ WF_vars(ReplenishListSlots)
  /\ WF_vars(ReplenishWrite)
  /\ \A p \in Assigners : WF_vars(Singleton(p)) /\ WF_vars(tryAssignBatchDone(p))

Spec == Init /\ [][Next]_vars /\ Fairness

-----------------------------------------------------------------------------
(* Properties                                                               *)

TypeOK ==
  /\ workers \subseteq Workers
  /\ DOMAIN actions \subseteq Actions
  /\ \A a \in DOMAIN actions : actions[a] \in ActionRec
  /\ slots \in [SlotIds -> SlotRec]
  /\ DOMAIN unackedSlots \subseteq AckIds /\ Range(unackedSlots) \subseteq SlotIds
  /\ rp.pc \in {"idle", "listed", "decided", "queried"}
  /\ asg \in [Assigners -> [pc : {"idle", "locked"}, todo : 0..MaxBatch, cand : SUBSET SlotIds]]
  /\ dbRunning \in [Workers -> Nat]
  /\ flushed \subseteq DOMAIN unackedSlots

\* Exclusive reservation (slot.use() is a compare-and-set): no slot is held
\* by two outstanding ack ids, and every slot held by one has been used,
\* although one slot object sits in the lists of all of its worker's actions
\* and goroutines of different actions probe those lists concurrently.
UniqueAssignment ==
  /\ IsInjective(unackedSlots)
  /\ \A i \in DOMAIN unackedSlots : slots[unackedSlots[i]].usedOnce

ReplenishCompletes == rp.pc # "idle" ~> rp.pc = "idle"

\* No over-commit: the step runs the database holds for w plus the
\* assignments to w not yet written never exceed maxRuns.
NoOverCommit ==
  \A w \in Workers :
    dbRunning[w] + Cardinality(UnackedIdsOf(w) \cap Unflushed) <= MaxRuns[w]

\* The scheduler implements SlotPool: offered = the active slots listed for w
\* (action lists and candidate snapshots), reserved = w's unacked ids.
\* Every step of replenish, assignment, expiry, ack and nack is a SlotPool
\* step or leaves both unchanged.
Pool == INSTANCE SlotPool WITH
          offered <- [w \in Workers |->
                        Cardinality({s \in ListedSlots : slots[s].worker = w /\ Active(s)})],
          reserved <- [w \in Workers |-> Cardinality(UnackedIdsOf(w))]

ImplementsSlotPool == Pool!PoolSpec

====
