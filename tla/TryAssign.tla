------------------------------ MODULE TryAssign ------------------------------
(***************************************************************************)
(* Scheduler.tryAssign of pkg/scheduling/v2/scheduler.go: the partition    *)
(* goroutine run for each action's queue items, with the rate limiter and  *)
(* the results it streams.                                                 *)
(*                                                                         *)
(* A partition drops the items whose scheduling timeout has passed, then    *)
(* works through sub-batches (queueutils.BatchLinear). For each sub-batch  *)
(* tryAssignBatch reserves rate-limit units item by item, takes            *)
(* actionsMu.RLock, finds the action (or answers noSlots for all), runs one *)
(* tryAssignSingleton goroutine per item that was not rate limited, waits,  *)
(* and the partition sends the sub-batch's assigned items. A final message *)
(* carries the unassigned, timed-out and rate-limited items.               *)
(*                                                                         *)
(* A winning slot keeps the item's rate-limit ack/nack (slot.use); the     *)
(* flush layer later fires one of them through Scheduler.ack or nack.      *)
(* Slots are abstracted to a count of active slots per action; the slot    *)
(* races themselves are the subject of module Scheduler.                   *)
(***************************************************************************)
EXTENDS Integers, FiniteSets, FiniteSetsExt

CONSTANTS
  Partitions,  \* action ids of the queue items (model values)
  NumItems,    \* queue items, numbered in the order of the input slice
  PartOf,      \* [Items -> Partitions]: qi.ActionId
  Units,       \* [Items -> Nat]: units of the step run's rate limit (0: none)
  Capacity,    \* units the rate-limit key has left in the window
  Slots,       \* [Partitions -> Nat]: active slots of each action
  BatchSize,   \* the sub-batch size (50 in the code)
  Deadlines    \* items whose scheduleTimeoutAt is set

Items == 1..NumItems

ASSUME PartOf \in [Items -> Partitions] /\ Units \in [Items -> Nat]
ASSUME Deadlines \subseteq Items
ASSUME Capacity \in Nat /\ Slots \in [Partitions -> Nat] /\ BatchSize \in Nat \ {0}

VARIABLES
  part,      \* partition goroutines: pc, rest (items not yet batched), batch
  res,       \* outcome of each item
  rl,        \* state of each item's rate-limit reservation
  finished,  \* items whose tryAssignSingleton goroutine has returned
  free,      \* active slots left for each action
  reports,   \* number of result messages each item appeared in
  schedulingTimedOut, \* the partition's list of timed-out items
  buffered,  \* messages in resultsCh not yet received by the caller
  closed,    \* resultsCh has been closed
  expired    \* items whose scheduleTimeoutAt is before now (the clock)

vars == <<part, res, rl, finished, free, reports, schedulingTimedOut, buffered, closed, expired>>

\* isTimedOut: scheduleTimeoutAt is set (not zero) and before now
IsTimedOut(i) == i \in Deadlines /\ i \in expired

\* make(chan *assignResults, len(actionIdToQueueItems))
ChanCap == Cardinality(Partitions)

ItemsOf(p) == {i \in Items : PartOf[i] = p}

\* Mutant: the sub-batch slicer takes one item too few.
FirstItemsShort(S, k) == {i \in S : Cardinality({j \in S : j < i}) < k - 1}

\* the k first items of S in input order
FirstItems(S, k) == {i \in S : Cardinality({j \in S : j < i}) < k}

\* units the limiter holds: reservations in flight or stored in a slot, and
\* acked ones (consumed until the window rolls)
Held == MapThenSumSet(LAMBDA i : Units[i], {i \in Items : rl[i] \in {"reserved", "acked"}})

\* next sub-batch, or the final message when none is left
NextBatch(p, rest) ==
  IF rest = {} THEN [pc |-> "final", rest |-> {}, batch |-> {}]
  ELSE [pc |-> "rl", rest |-> rest \ FirstItems(rest, BatchSize),
        batch |-> FirstItems(rest, BatchSize)]

-----------------------------------------------------------------------------

\* isTimedOut(qi) for each item, once, before the first sub-batch: the
\* items whose scheduleTimeoutAt is set and past go to schedulingTimedOut,
\* the rest are batched
FilterTimedOut(p) ==
  /\ part[p].pc = "filter"
  /\ LET timedOut == {i \in ItemsOf(p) : IsTimedOut(i)}
     IN /\ schedulingTimedOut' = schedulingTimedOut \cup timedOut
        /\ part' = [part EXCEPT ![p] = NextBatch(p, ItemsOf(p) \ timedOut)]
  /\ UNCHANGED <<res, rl, finished, free, reports, buffered, closed, expired>>

\* tryAssignBatch's first loop, for the next item i of the sub-batch:
\* without rate limits nothing happens; otherwise rl.use reserves all the
\* units or none, and a refused item gets a rateLimitResult
RateLimitUse(p) ==
  /\ part[p].pc = "rl"
  /\ \E i \in part[p].batch :
       /\ rl[i] = "unchecked"
       /\ \A j \in part[p].batch : j < i => rl[j] # "unchecked"
       /\ IF Units[i] = 0 THEN rl' = [rl EXCEPT ![i] = "free"] /\ UNCHANGED res
          ELSE IF Held + Units[i] <= Capacity
            THEN rl' = [rl EXCEPT ![i] = "reserved"] /\ UNCHANGED res
            ELSE rl' = [rl EXCEPT ![i] = "denied"] /\ res' = [res EXCEPT ![i] = "rateLimited"]
  /\ UNCHANGED <<part, finished, free, reports, schedulingTimedOut, buffered, closed, expired>>

\* actionsMu.RLock(); s.actions[actionId] is missing: RUnlock, and every
\* result of the sub-batch gets noSlots (no reservation is released)
ActionMissing(p) ==
  /\ part[p].pc = "rl"
  /\ \A i \in part[p].batch : rl[i] # "unchecked"
  /\ res' = [i \in Items |-> IF i \in part[p].batch /\ res[i] = "pending"
                               THEN "noSlots" ELSE res[i]]
  /\ part' = [part EXCEPT ![p].pc = "send"]
  /\ UNCHANGED <<rl, finished, free, reports, schedulingTimedOut, buffered, closed, expired>>

\* actionsMu.RLock(); the action is present: spawn the goroutines
ActionFound(p) ==
  /\ part[p].pc = "rl"
  /\ \A i \in part[p].batch : rl[i] # "unchecked"
  /\ part' = [part EXCEPT ![p].pc = "assign"]
  /\ UNCHANGED <<res, rl, finished, free, reports, schedulingTimedOut, buffered, closed, expired>>

\* the items that get a tryAssignSingleton goroutine (no rateLimitResult)
\* and have not returned yet
Awaiting(p) == {i \in part[p].batch : res[i] # "rateLimited"} \ finished

\* Mutant: a slot is taken without checking that one is active.
AssignSlotUnguarded(p, i) ==
  /\ part[p].pc = "assign"
  /\ i \in Awaiting(p)
  /\ free' = [free EXCEPT ![p] = @ - 1]
  /\ res' = [res EXCEPT ![i] = "assigned"]
  /\ finished' = finished \cup {i}
  /\ UNCHANGED <<part, rl, reports, schedulingTimedOut, buffered, closed, expired>>

\* tryAssignSingleton wins a slot: the slot keeps the item's rate-limit
\* closures, the result is a success
AssignSlot(p, i) ==
  /\ part[p].pc = "assign"
  /\ i \in Awaiting(p)
  /\ free[p] > 0
  /\ free' = [free EXCEPT ![p] = @ - 1]
  /\ res' = [res EXCEPT ![i] = "assigned"]
  /\ finished' = finished \cup {i}
  /\ UNCHANGED <<part, rl, reports, schedulingTimedOut, buffered, closed, expired>>

\* findSlot finds nothing (no active slot, or ranking filtered them all):
\* noSlots, returned without calling rateLimitNack
AssignNoSlots(p, i) ==
  /\ part[p].pc = "assign"
  /\ i \in Awaiting(p)
  /\ res' = [res EXCEPT ![i] = "noSlots"]
  /\ finished' = finished \cup {i}
  /\ UNCHANGED <<part, rl, free, reports, schedulingTimedOut, buffered, closed, expired>>

\* wg.Wait() and RUnlock returned; resultsCh <- the sub-batch's assigned
\* items (blocking while the buffer is full); BatchLinear goes on with the
\* next sub-batch
SendBatch(p) ==
  /\ \/ part[p].pc = "send"
     \/ part[p].pc = "assign" /\ Awaiting(p) = {}
  /\ buffered < ChanCap
  /\ buffered' = buffered + 1
  /\ reports' = [i \in Items |-> IF i \in part[p].batch /\ res[i] = "assigned"
                                   THEN reports[i] + 1 ELSE reports[i]]
  /\ part' = [part EXCEPT ![p] = NextBatch(p, part[p].rest)]
  /\ UNCHANGED <<res, rl, finished, free, schedulingTimedOut, closed, expired>>

\* Mutant: the sub-batches' assigned items are also collected in assigned
\* and sent again in the final message.
SendFinalWithAssigned(p) ==
  /\ part[p].pc = "final"
  /\ buffered < ChanCap
  /\ buffered' = buffered + 1
  /\ reports' = [i \in Items |-> reports[i]
                    + (IF i \in ItemsOf(p) /\ res[i] # "pending" THEN 1 ELSE 0)
                    + (IF i \in ItemsOf(p) \cap schedulingTimedOut THEN 1 ELSE 0)]
  /\ part' = [part EXCEPT ![p].pc = "done"]
  /\ UNCHANGED <<res, rl, finished, free, schedulingTimedOut, closed, expired>>

\* resultsCh <- assigned (never appended to: empty), unassigned,
\* schedulingTimedOut and rateLimited
SendFinal(p) ==
  /\ part[p].pc = "final"
  /\ buffered < ChanCap
  /\ buffered' = buffered + 1
  /\ reports' = [i \in Items |-> reports[i]
                    + (IF i \in ItemsOf(p) /\ res[i] \in {"noSlots", "rateLimited"} THEN 1 ELSE 0)
                    + (IF i \in ItemsOf(p) \cap schedulingTimedOut THEN 1 ELSE 0)]
  /\ part' = [part EXCEPT ![p].pc = "done"]
  /\ UNCHANGED <<res, rl, finished, free, schedulingTimedOut, closed, expired>>

\* the outer goroutine: wg.Wait() for every partition, then close(resultsCh)
CloseResults ==
  /\ ~closed
  /\ \A p \in Partitions : part[p].pc = "done"
  /\ closed' = TRUE
  /\ UNCHANGED <<part, res, rl, finished, free, reports, schedulingTimedOut, buffered, expired>>

\* the caller receives one message from resultsCh
ReceiveResult ==
  /\ buffered > 0
  /\ buffered' = buffered - 1
  /\ UNCHANGED <<part, res, rl, finished, free, reports, schedulingTimedOut, closed, expired>>

\* the flush layer acks or nacks an assigned item: Scheduler.ack / nack
\* call slot.ack / slot.nack, which fire the stored rate-limit closure
FlushAck ==
  \E i \in Items :
    /\ res[i] = "assigned" /\ reports[i] > 0 /\ rl[i] = "reserved"
    /\ rl' = [rl EXCEPT ![i] = "acked"]
    /\ UNCHANGED <<part, res, finished, free, reports, schedulingTimedOut, buffered, closed, expired>>

FlushNack ==
  \E i \in Items :
    /\ res[i] = "assigned" /\ reports[i] > 0 /\ rl[i] = "reserved"
    /\ rl' = [rl EXCEPT ![i] = "nacked"]
    /\ UNCHANGED <<part, res, finished, free, reports, schedulingTimedOut, buffered, closed, expired>>

\* now passes an item's scheduleTimeoutAt; it stays passed
DeadlinePasses(i) ==
  /\ i \in Deadlines \ expired
  /\ expired' = expired \cup {i}
  /\ UNCHANGED <<part, res, rl, finished, free, reports, schedulingTimedOut, buffered, closed>>

Init ==
  /\ part = [p \in Partitions |-> [pc |-> "filter", rest |-> {}, batch |-> {}]]
  /\ res = [i \in Items |-> "pending"]
  /\ rl = [i \in Items |-> "unchecked"]
  /\ finished = {}
  /\ free = Slots
  /\ reports = [i \in Items |-> 0]
  /\ schedulingTimedOut = {}
  /\ buffered = 0
  /\ closed = FALSE
  /\ expired \in SUBSET Deadlines

Next ==
  \/ \E p \in Partitions :
       \/ FilterTimedOut(p) \/ RateLimitUse(p) \/ ActionMissing(p) \/ ActionFound(p)
       \/ \E i \in Items : AssignSlot(p, i) \/ AssignNoSlots(p, i)
       \/ SendBatch(p) \/ SendFinal(p)
  \/ CloseResults \/ ReceiveResult
  \/ FlushAck \/ FlushNack
  \/ \E i \in Items : DeadlinePasses(i)

\* Each partition goroutine, each item goroutine and the closing goroutine
\* runs when it can (the Go scheduler runs ready goroutines). The caller
\* drains resultsCh as results stream in, as the design's streaming output
\* requires. The flush layer gets no fairness.
Fairness ==
  /\ \A p \in Partitions :
       /\ WF_vars(FilterTimedOut(p)) /\ WF_vars(RateLimitUse(p))
       /\ WF_vars(ActionMissing(p) \/ ActionFound(p))
       /\ WF_vars(SendBatch(p)) /\ WF_vars(SendFinal(p))
       /\ \A i \in Items : WF_vars(AssignSlot(p, i) \/ AssignNoSlots(p, i))
  /\ WF_vars(CloseResults) /\ WF_vars(ReceiveResult)

Spec == Init /\ [][Next]_vars /\ Fairness

-----------------------------------------------------------------------------
(* Properties                                                               *)

TypeOK ==
  /\ \A p \in Partitions :
       /\ part[p].pc \in {"filter", "rl", "assign", "send", "final", "done"}
       /\ part[p].rest \subseteq ItemsOf(p) /\ part[p].batch \subseteq ItemsOf(p)
  /\ res \in [Items -> {"pending", "rateLimited", "assigned", "noSlots"}]
  /\ schedulingTimedOut \subseteq Items
  /\ rl \in [Items -> {"unchecked", "free", "reserved", "denied", "acked", "nacked"}]
  /\ finished \subseteq Items
  /\ free \in [Partitions -> Nat]
  /\ reports \in [Items -> 0..2]
  /\ buffered \in 0..ChanCap /\ closed \in BOOLEAN
  /\ expired \subseteq Deadlines

\* When a partition has sent its final message, each of its items has been
\* reported in exactly one result message: assigned ones in their
\* sub-batch's message, the others in the final one. An item timed out at
\* the filter is in the final message only, although its deadline is read
\* once while other items' deadlines pass during the call.
ReportedOnce ==
  \A p \in Partitions :
    part[p].pc = "done" => \A i \in ItemsOf(p) : reports[i] = 1

\* Every tryAssign call ends: each partition gets through its sub-batches
\* and its final message although resultsCh holds only one message per
\* action and each partition sends one per sub-batch plus one, and the
\* channel is closed and drained.
TryAssignCompletes == <>(closed /\ buffered = 0)

\* Every rate-limit reservation stays resolvable: it belongs to an item still
\* being assigned or to one whose slot holds its ack/nack. (The design: "on no
\* active slot anywhere: rate-limit nack, return noSlots".)
ReservationsResolvable ==
  \A i \in Items : rl[i] = "reserved" => res[i] \in {"pending", "assigned"}

=============================================================================
