-------------------------- MODULE CancelInProgress --------------------------
(***************************************************************************)
(* The CANCEL_IN_PROGRESS concurrency strategy of the workflows controller *)
(* (internal/services/controllers/workflows/queue.go,                      *)
(* queueByCancelInProgress) for one tenant and one concurrency group key.  *)
(*                                                                         *)
(* An evaluation takes the key's in-process mutex with TryLock, lists the  *)
(* key's RUNNING and then its QUEUED workflow runs (two queries, oldest    *)
(* first), sends cancellations for the oldest running runs, and queues     *)
(* the oldest queued runs. Cancelling and starting only enqueue messages:  *)
(* the database changes a run's status later (the environment actions).    *)
(* Runs are numbered in createdAt order.                                   *)
(***************************************************************************)
EXTENDS Integers, FiniteSets

CONSTANTS
  NumRuns,   \* workflow runs created for the key over the behaviour
  MaxRuns,   \* workflowVersion.ConcurrencyMaxRuns
  Procs,     \* goroutines that may evaluate the key concurrently in one engine
  Paused,    \* runs whose IsPaused flag is set
  KeyErrors  \* runs whose concurrency group expression does not evaluate

Runs == 1..NumRuns

ASSUME NumRuns \in Nat /\ MaxRuns \in Nat \ {0} /\ Paused \subseteq Runs
ASSUME KeyErrors \subseteq Runs

VARIABLES
  st,          \* WorkflowRun.status in the database ("none" = not yet created)
  startSent,   \* runs whose job runs queueWorkflowRunJobs asked to start, not yet applied
  cancelSent,  \* runs whose cancellation has been requested
  ev,          \* the evaluation each goroutine is in
  key,         \* WorkflowRun.concurrencyGroupId: "unset", "set" (this key) or "error"
  qmsg,        \* runs with a workflow-run-queued message not yet handled
  fmsg,        \* runs with a workflow-run-finished message not yet handled
  onFailure,   \* the status of each run's onFailure job run
  alerted      \* runs for which tenantAlerter.HandleAlert was called

handlerVars == <<key, qmsg, fmsg, onFailure, alerted>>

vars == <<st, startSent, cancelSent, ev, key, qmsg, fmsg, onFailure, alerted>>

Status == {"none", "queued", "running", "cancelled", "succeeded", "failed"}

Finished == {"cancelled", "succeeded", "failed"}

\* onFailure job run: not yet final, asked to start, asked to cancel, final
JobStatus == {"created", "startSent", "cancelSent", "final"}

\* the runs of the key (GroupKey filter of ListWorkflowRuns) in status x
OfKey(x) == {r \in Runs : st[r] = x /\ key[r] = "set"}

EvIdle == [pc |-> "idle", running |-> {}, queued |-> {}, toCancel |-> 0]

\* the k oldest runs of the list S (rows are ordered by createdAt ASC)
Oldest(S, k) == {r \in S : Cardinality({q \in S : q < r}) < k}

-----------------------------------------------------------------------------
(* queueByCancelInProgress                                                  *)

\* mutex.TryLock() on the key's mutex succeeds: no other goroutine of the
\* engine is inside. (A failed TryLock returns nil and changes nothing.)
TryLock(p) ==
  /\ ev[p].pc = "idle"
  /\ \A q \in Procs : ev[q].pc = "idle"
  /\ ev' = [ev EXCEPT ![p].pc = "locked"]
  /\ UNCHANGED <<st, startSent, cancelSent, handlerVars>>

\* ListWorkflowRuns(status RUNNING)
ListRunning(p) ==
  /\ ev[p].pc = "locked"
  /\ ev' = [ev EXCEPT ![p].pc = "listedRunning",
                      ![p].running = OfKey("running")]
  /\ UNCHANGED <<st, startSent, cancelSent, handlerVars>>

\* Mutant: the max(0, ...) around the count is missing.
CancelCountUnclamped(running, queued) ==
  Cardinality(running) + Cardinality(queued) - MaxRuns

\* toCancel := max(0, runningCount+queuedCount-maxRuns)
CancelCount(running, queued) ==
  LET excess == Cardinality(running) + Cardinality(queued) - MaxRuns
  IN IF excess > 0 THEN excess ELSE 0

\* ListWorkflowRuns(status QUEUED), then the count of runs to cancel
ListQueued(p) ==
  /\ ev[p].pc = "listedRunning"
  /\ LET queued == OfKey("queued")
     IN ev' = [ev EXCEPT ![p].pc = "listed", ![p].queued = queued,
                         ![p].toCancel = CancelCount(ev[p].running, queued)]
  /\ UNCHANGED <<st, startSent, cancelSent, handlerVars>>

\* either query returns an error: return it, deferred Unlock
ListFails(p) ==
  /\ ev[p].pc \in {"locked", "listedRunning"}
  /\ ev' = [ev EXCEPT ![p] = EvIdle]
  /\ UNCHANGED <<st, startSent, cancelSent, handlerVars>>

\* Mutant: the cancel loop indexes the queued list's rows.
CancelTargetsFromQueued(p) ==
  LET n == IF ev[p].toCancel < Cardinality(ev[p].running)
             THEN ev[p].toCancel ELSE Cardinality(ev[p].running)
  IN Oldest(ev[p].queued, n)

\* runningWorkflowRuns.Rows[i] for i < toCancel && i < runningCount
CancelTargets(p) == Oldest(ev[p].running, ev[p].toCancel)

\* cancelWorkflowRun: lists the run's RUNNING step runs and sends a
\* step-run cancel task for each, in parallel; ok is the set of runs all
\* of whose sends succeeded
CancelWorkflowRun(targets, ok) == ok \subseteq targets

\* cancelWorkflowRunJobs: re-reads the run, lists its job runs and sends a
\* job-run cancel task for each one that is not the onFailure job; ok is
\* the set of runs all of whose reads and sends succeeded
CancelWorkflowRunJobs(targets, ok) == ok \subseteq targets

\* one goroutine pair per run i < toCancel && i < runningCount: the
\* step-run half and the job-run half each send their cancel tasks or fail
\* on their own. A run whose cancellation reached the queue by either half
\* is being cancelled. errGroup.Wait() returns the first error, after which
\* the function returns without queueing anything.
CancelOldest(p) ==
  /\ ev[p].pc = "listed"
  /\ LET targets == CancelTargets(p)
     IN \E stepOk \in SUBSET targets : \E jobOk \in SUBSET targets :
          /\ CancelWorkflowRun(targets, stepOk)
          /\ CancelWorkflowRunJobs(targets, jobOk)
          /\ cancelSent' = cancelSent \cup stepOk \cup jobOk
          /\ ev' = IF stepOk = targets /\ jobOk = targets
                     THEN [ev EXCEPT ![p].pc = "cancelled"]
                     ELSE [ev EXCEPT ![p] = EvIdle]
  /\ UNCHANGED <<st, startSent, handlerVars>>

\* toQueue = min(maxRuns - (runningCount - toCancel), queuedCount): the
\* oldest toQueue rows of the queued list
ToQueue(p) ==
  LET toQueue == MaxRuns - (Cardinality(ev[p].running) - ev[p].toCancel)
  IN Oldest(ev[p].queued, toQueue)

\* queueWorkflowRunJobs on runs that are not paused: ListJobRunsForWorkflowRun
\* and startManyJobRuns on every job run except the onFailure one; ok is
\* the set of runs for which this succeeded
QueueWorkflowRunJobs(ok) ==
  /\ startSent' = startSent \cup ok
  /\ UNCHANGED onFailure

\* each queued run is re-read; a paused one is skipped, the others go to
\* queueWorkflowRunJobs; any may fail. Then Unlock.
QueueRuns(p) ==
  /\ ev[p].pc = "cancelled"
  /\ \E ok \in SUBSET (ToQueue(p) \ Paused) : QueueWorkflowRunJobs(ok)
  /\ ev' = [ev EXCEPT ![p] = EvIdle]
  /\ UNCHANGED <<st, cancelSent, key, qmsg, fmsg, alerted>>

-----------------------------------------------------------------------------
(* handleWorkflowRunQueued and handleWorkflowRunFinished                    *)

\* evalWorkflowRunConcurrency: the group key, or the evaluation error written
\* in its place (UpdateWorkflowRunFromGroupKeyEval)
EvalWorkflowRunConcurrency(r) == IF r \in KeyErrors THEN "error" ELSE "set"

\* handleWorkflowRunQueued, concurrency-expression branch: GetWorkflowRunById,
\* then evalWorkflowRunConcurrency reads the input and the additional
\* metadata, evaluates the expression and writes the group key or the error
\* (UpdateWorkflowRunFromGroupKeyEval). Without a key the run is re-read and
\* its job runs other than the onFailure one are cancelled with
\* GROUP_KEY_REQUIRED; with one, checkTenantQueue. A failing read or write
\* before the update returns the error with nothing written (a stuttering
\* step); a failing cancel returns it after the write. An error leaves the
\* message to be delivered again.
HandleWorkflowRunQueued(r) ==
  /\ r \in qmsg
  /\ key' = [key EXCEPT ![r] = EvalWorkflowRunConcurrency(r)]
  /\ \/ /\ key'[r] = "set"
        /\ qmsg' = qmsg \ {r}
        /\ UNCHANGED cancelSent
     \/ /\ key'[r] = "error"
        /\ \E ok \in SUBSET {r} :
             /\ CancelWorkflowRunJobs({r}, ok)
             /\ cancelSent' = cancelSent \cup ok
             /\ qmsg' = IF ok = {r} THEN qmsg \ {r} ELSE qmsg
  /\ UNCHANGED <<st, startSent, ev, fmsg, onFailure, alerted>>

\* Mutant: the error of startJobRun is dropped and the handler returns nil.
HandleFinishedSwallowingStartError(r) ==
  /\ r \in fmsg
  /\ LET pending == onFailure[r] # "final"
         failed  == st[r] = "failed"
     IN \/ /\ onFailure' = IF pending THEN [onFailure EXCEPT ![r] =
                                             IF failed THEN "startSent" ELSE "cancelSent"]
                                      ELSE onFailure
           /\ alerted' = IF failed /\ pending THEN alerted \cup {r} ELSE alerted
        \/ /\ failed /\ pending
           /\ UNCHANGED <<onFailure, alerted>>
  /\ fmsg' = fmsg \ {r}
  /\ UNCHANGED <<st, startSent, cancelSent, ev, key, qmsg>>

\* handleWorkflowRunFinished: GetWorkflowRunById and the onFailure job run
\* (GetJobRunByWorkflowRunIdAndJobId). If that job run is not final
\* (a start or cancel task not yet processed is not), it is started when
\* the run FAILED, and otherwise sent a cancel task; a final onFailure job
\* run means no alert. Then HandleAlert for a FAILED run (its error is only
\* logged) and checkTenantQueue. A failing read, start or send returns the
\* error before anything is written (a stuttering step), and the message
\* is delivered again.
HandleWorkflowRunFinished(r) ==
  /\ r \in fmsg
  /\ LET pending == onFailure[r] # "final"   \* !IsFinalJobRunStatus
         failed  == st[r] = "failed"
     IN /\ onFailure' = IF pending THEN [onFailure EXCEPT ![r] =
                                          IF failed THEN "startSent" ELSE "cancelSent"]
                                   ELSE onFailure
        /\ alerted' = IF failed /\ pending THEN alerted \cup {r} ELSE alerted
  /\ fmsg' = fmsg \ {r}
  /\ UNCHANGED <<st, startSent, cancelSent, ev, key, qmsg>>

-----------------------------------------------------------------------------
(* The rest of the engine and the database                                 *)

\* a workflow run for the key is created QUEUED (createdAt order) and its
\* workflow-run-queued message is sent
NewRun ==
  \E r \in Runs :
    /\ st[r] = "none"
    /\ \A q \in Runs : q < r => st[q] # "none"
    /\ st' = [st EXCEPT ![r] = "queued"]
    /\ qmsg' = qmsg \cup {r}
    /\ UNCHANGED <<startSent, cancelSent, ev, key, fmsg, onFailure, alerted>>

\* the started job runs move the workflow run to RUNNING
StartApplied ==
  \E r \in startSent :
    /\ startSent' = startSent \ {r}
    /\ st' = IF st[r] = "queued" THEN [st EXCEPT ![r] = "running"] ELSE st
    /\ UNCHANGED <<cancelSent, ev, handlerVars>>

\* a workflow run finishes; the workflow-run-finished message is sent
Finish(r, x) ==
  /\ st' = [st EXCEPT ![r] = x]
  /\ fmsg' = fmsg \cup {r}
  /\ UNCHANGED <<startSent, cancelSent, ev, key, qmsg, onFailure, alerted>>

\* the cancel tasks are processed: a running run, or a queued one whose job
\* runs were cancelled, ends CANCELLED
CancelApplied ==
  \E r \in cancelSent :
    /\ st[r] \in {"queued", "running"}
    /\ Finish(r, "cancelled")

\* a running workflow run completes or fails
RunSucceeds ==
  \E r \in Runs :
    /\ st[r] = "running"
    /\ \E x \in {"succeeded", "failed"} : Finish(r, x)

\* the onFailure job run's start or cancel task is processed
OnFailureJobEnds ==
  \E r \in Runs :
    /\ onFailure[r] \in {"startSent", "cancelSent"}
    /\ onFailure' = [onFailure EXCEPT ![r] = "final"]
    /\ UNCHANGED <<st, startSent, cancelSent, ev, key, qmsg, fmsg, alerted>>

Init ==
  /\ st = [r \in Runs |-> "none"]
  /\ startSent = {}
  /\ cancelSent = {}
  /\ ev = [p \in Procs |-> EvIdle]
  /\ key = [r \in Runs |-> "unset"]
  /\ qmsg = {} /\ fmsg = {}
  /\ onFailure = [r \in Runs |-> "created"]
  /\ alerted = {}

Next ==
  \/ \E p \in Procs :
       \/ TryLock(p) \/ ListRunning(p) \/ ListQueued(p) \/ ListFails(p)
       \/ CancelOldest(p) \/ QueueRuns(p)
  \/ \E r \in Runs : HandleWorkflowRunQueued(r) \/ HandleWorkflowRunFinished(r)
  \/ NewRun \/ StartApplied \/ CancelApplied \/ RunSucceeds \/ OnFailureJobEnds

\* The message queue's consumers keep delivering a message until a handler
\* returns nil, and the database does not fail for ever: a delivery that
\* can complete eventually does.
Fairness ==
  \A r \in Runs :
    /\ WF_vars(HandleWorkflowRunQueued(r) /\ r \notin qmsg')
    /\ WF_vars(HandleWorkflowRunFinished(r))

Spec == Init /\ [][Next]_vars /\ Fairness

-----------------------------------------------------------------------------
(* Properties                                                               *)

TypeOK ==
  /\ st \in [Runs -> Status]
  /\ startSent \subseteq Runs /\ cancelSent \subseteq Runs
  /\ ev \in [Procs -> [pc : {"idle", "locked", "listedRunning", "listed", "cancelled"},
                       running : SUBSET Runs, queued : SUBSET Runs,
                       toCancel : 0..NumRuns]]
  /\ key \in [Runs -> {"unset", "set", "error"}]
  /\ qmsg \subseteq Runs /\ fmsg \subseteq Runs
  /\ onFailure \in [Runs -> JobStatus] /\ alerted \subseteq Runs

\* Every failed workflow run gets its onFailure job run started and the
\* tenant alerted, even when the finished handler fails and its message is
\* delivered again, and even when a concurrency cancel was sent to the run
\* before it failed.
FailureHandled ==
  \A r \in Runs : st[r] = "failed" ~> (onFailure[r] # "created" /\ r \in alerted)

\* A run the controller has asked to cancel is never afterwards asked to
\* start: the queue loop takes only rows of the QUEUED list, and the
\* cancelled rows come from the RUNNING list, although the two lists are
\* separate queries and statuses change between them.
NoStartAfterCancel ==
  [][\A r \in cancelSent : r \in startSent' => r \in startSent]_vars

\* The concurrency limit: the runs that are running, or started and about to
\* run, and not being cancelled never exceed maxRuns.
ActiveRuns == {r \in Runs : (st[r] = "running" \/ (st[r] = "queued" /\ r \in startSent))
                            /\ r \notin cancelSent}

ActiveWithinMaxRuns == Cardinality(ActiveRuns) <= MaxRuns

=============================================================================
