----------------------------- MODULE GroupKeyRun -----------------------------
(***************************************************************************)
(* The get-group-key runs of the workflows controller                      *)
(* (internal/services/controllers/workflows/queue.go) for one tenant: a    *)
(* workflow run with a concurrency strategy and a group-key action gets a  *)
(* get-group-key run, which is handed to a worker to compute the key.      *)
(*                                                                         *)
(* Three callers run scheduleGetGroupAction on a run, concurrently:        *)
(*  - handleWorkflowRunQueued, once per workflow run;                      *)
(*  - the requeue loop, for runs not assigned whose requeueAfter passed;   *)
(*    it cancels a run whose scheduleTimeoutAt passed instead;             *)
(*  - the reassign loop, for runs assigned to a worker no longer active.   *)
(* scheduleGetGroupAction writes PENDING_ASSIGNMENT, asks the database to  *)
(* assign the run to a worker, and sends the group-key-action message to   *)
(* that worker's dispatcher. Each database call is a separate step, and    *)
(* each may fail (the goroutine returns the error).                        *)
(*                                                                         *)
(* The queries ListGetGroupKeyRunsToRequeue, ListGetGroupKeyRunsToReassign *)
(* and AssignGetGroupKeyRunToWorker are not under src/: they are modelled  *)
(* from their names and the comments of their callers. The updates are    *)
(* modelled as the plain writes the Go code asks for.                      *)
(***************************************************************************)
EXTENDS FiniteSets

CONSTANTS
  Runs,       \* get-group-key runs of the tenant
  Workers,    \* workers with the group-key action
  NoWorker,   \* model value: no worker selected
  TimeoutSet  \* runs whose scheduleTimeoutAt is set

ASSUME NoWorker \notin Workers /\ TimeoutSet \subseteq Runs

Callers == {"queued", "requeue", "reassign"}

Unassigned == {"pending", "pendingAssignment"}

Terminal == {"succeeded", "cancelled"}

VARIABLES
  status,    \* GetGroupKeyRun.status
  worker,    \* GetGroupKeyRun.workerId
  due,       \* requeueAfter has passed
  timedOut,  \* scheduleTimeoutAt is set and has passed
  active,    \* the worker is active (heartbeat and listener)
  sent,      \* group-key-action-assigned messages, as <<run, worker>>
  call       \* call[c][g]: caller c's goroutine for run g: pc and selected worker

vars == <<status, worker, due, timedOut, active, sent, call>>

Idle == [pc |-> "none", w |-> NoWorker]

\* a loop's goroutines have all returned: errgroup Wait() is done
LoopIdle(c) == \A g \in Runs : call[c][g].pc = "none"

Goto(c, g, pc) == call' = [call EXCEPT ![c][g].pc = pc]

-----------------------------------------------------------------------------
(* handleWorkflowRunQueued, first branch                                   *)

\* the workflow run has a concurrency strategy and a get-group-key run:
\* GetGroupKeyRunForEngine, then scheduleGetGroupAction
WorkflowRunQueued(g) ==
  /\ call["queued"][g].pc = "start"
  /\ Goto("queued", g, "setPending")
  /\ UNCHANGED <<status, worker, due, timedOut, active, sent>>

-----------------------------------------------------------------------------
(* scheduleGetGroupAction                                                  *)

\* UpdateGetGroupKeyRun(status PENDING_ASSIGNMENT)
SetPending(c, g) ==
  /\ call[c][g].pc = "setPending"
  /\ status' = [status EXCEPT ![g] = "pendingAssignment"]
  /\ Goto(c, g, "assign")
  /\ UNCHANGED <<worker, due, timedOut, active, sent>>

\* Mutant: the error of AssignGetGroupKeyRunToWorker is dropped and the
\* message is sent with whatever worker id came back.
AssignIgnoringError(c, g) ==
  /\ call[c][g].pc = "assign"
  /\ \E w \in Workers \cup {NoWorker} :
       /\ status' = [status EXCEPT ![g] = IF w = NoWorker THEN @ ELSE "assigned"]
       /\ worker' = [worker EXCEPT ![g] = IF w = NoWorker THEN @ ELSE w]
       /\ call' = [call EXCEPT ![c][g] = [pc |-> "send", w |-> w]]
  /\ UNCHANGED <<due, timedOut, active, sent>>

\* AssignGetGroupKeyRunToWorker selects an active worker for a run waiting
\* for assignment and records it
Assign(c, g) ==
  /\ call[c][g].pc = "assign"
  /\ status[g] = "pendingAssignment"
  /\ \E w \in Workers :
       /\ active[w]
       /\ status' = [status EXCEPT ![g] = "assigned"]
       /\ worker' = [worker EXCEPT ![g] = w]
       /\ call' = [call EXCEPT ![c][g] = [pc |-> "send", w |-> w]]
  /\ UNCHANGED <<due, timedOut, active, sent>>

\* ErrNoWorkerAvailable: "requeueing", return nil
NoWorkerAvailable(c, g) ==
  /\ call[c][g].pc = "assign"
  /\ \/ status[g] # "pendingAssignment"
     \/ \A w \in Workers : ~active[w]
  /\ call' = [call EXCEPT ![c][g] = Idle]
  /\ UNCHANGED <<status, worker, due, timedOut, active, sent>>

\* mq.AddMessage(QueueTypeFromDispatcherID(dispatcherId), getGroupActionTask)
Send(c, g) ==
  /\ call[c][g].pc = "send"
  /\ sent' = sent \cup {<<g, call[c][g].w>>}
  /\ call' = [call EXCEPT ![c][g] = Idle]
  /\ UNCHANGED <<status, worker, due, timedOut, active>>

\* a database call or AddMessage returns an error: the goroutine returns it
CallFails(c, g) ==
  /\ call[c][g].pc \in {"setPending", "assign", "send", "check", "reassignUpdate"}
  /\ call' = [call EXCEPT ![c][g] = Idle]
  /\ UNCHANGED <<status, worker, due, timedOut, active, sent>>

-----------------------------------------------------------------------------
(* runGetGroupKeyRunRequeue and runGetGroupKeyRunReassign (one tenant)    *)

\* ListGetGroupKeyRunsToRequeue: runs not yet assigned whose requeueAfter
\* has passed; one goroutine each
RequeueList ==
  /\ LoopIdle("requeue")
  /\ \E g \in Runs : status[g] \in Unassigned /\ due[g]
  /\ call' = [call EXCEPT !["requeue"] =
               [g \in Runs |-> IF status[g] \in Unassigned /\ due[g]
                                 THEN [pc |-> "check", w |-> NoWorker] ELSE Idle]]
  /\ UNCHANGED <<status, worker, due, timedOut, active, sent>>

\* Mutant: the scheduling timeout is never checked.
RequeueCheckNoTimeout(g) ==
  /\ call["requeue"][g].pc = "check"
  /\ due' = [due EXCEPT ![g] = FALSE]
  /\ Goto("requeue", g, "setPending")
  /\ UNCHANGED <<status, worker, timedOut, active, sent>>

\* isTimedOut: cancelGetGroupKeyRun(SCHEDULING_TIMED_OUT); otherwise
\* UpdateGetGroupKeyRun(requeueAfter = now + 4s), then scheduleGetGroupAction
RequeueCheck(g) ==
  /\ call["requeue"][g].pc = "check"
  /\ IF timedOut[g]
       THEN /\ status' = [status EXCEPT ![g] = "cancelled"]
            /\ call' = [call EXCEPT !["requeue"][g] = Idle]
            /\ UNCHANGED due
       ELSE /\ due' = [due EXCEPT ![g] = FALSE]
            /\ Goto("requeue", g, "setPending")
            /\ UNCHANGED status
  /\ UNCHANGED <<worker, timedOut, active, sent>>

\* ListGetGroupKeyRunsToReassign: runs assigned to an inactive worker
ReassignList ==
  /\ LoopIdle("reassign")
  /\ \E g \in Runs : status[g] = "assigned" /\ ~active[worker[g]]
  /\ call' = [call EXCEPT !["reassign"] =
               [g \in Runs |-> IF status[g] = "assigned" /\ ~active[worker[g]]
                                 THEN [pc |-> "reassignUpdate", w |-> NoWorker] ELSE Idle]]
  /\ UNCHANGED <<status, worker, due, timedOut, active, sent>>

\* UpdateGetGroupKeyRun(requeueAfter = now + 4s, status PENDING_ASSIGNMENT),
\* then scheduleGetGroupAction
ReassignUpdate(g) ==
  /\ call["reassign"][g].pc = "reassignUpdate"
  /\ status' = [status EXCEPT ![g] = "pendingAssignment"]
  /\ due' = [due EXCEPT ![g] = FALSE]
  /\ Goto("reassign", g, "setPending")
  /\ UNCHANGED <<worker, timedOut, active, sent>>

-----------------------------------------------------------------------------
(* Environment: the clock, the workers                                     *)

\* now passes requeueAfter
RequeueAfterPasses(g) ==
  /\ ~due[g]
  /\ due' = [due EXCEPT ![g] = TRUE]
  /\ UNCHANGED <<status, worker, timedOut, active, sent, call>>

\* now passes scheduleTimeoutAt
ScheduleTimeoutPasses(g) ==
  /\ g \in TimeoutSet /\ ~timedOut[g]
  /\ timedOut' = [timedOut EXCEPT ![g] = TRUE]
  /\ UNCHANGED <<status, worker, due, active, sent, call>>

\* a worker stops heartbeating or comes back
WorkerActivity(w) ==
  /\ active' = [active EXCEPT ![w] = ~@]
  /\ UNCHANGED <<status, worker, due, timedOut, sent, call>>

\* the assigned worker received the message and reports the group key
WorkerFinishes(g) ==
  /\ status[g] = "assigned"
  /\ <<g, worker[g]>> \in sent
  /\ active[worker[g]]
  /\ status' = [status EXCEPT ![g] = "succeeded"]
  /\ UNCHANGED <<worker, due, timedOut, active, sent, call>>

Init ==
  /\ status = [g \in Runs |-> "pending"]
  /\ worker = [g \in Runs |-> NoWorker]
  /\ due = [g \in Runs |-> FALSE]
  /\ timedOut = [g \in Runs |-> FALSE]
  /\ active \in [Workers -> BOOLEAN]
  /\ sent = {}
  /\ call = [c \in Callers |-> [g \in Runs |->
               IF c = "queued" THEN [pc |-> "start", w |-> NoWorker] ELSE Idle]]

Next ==
  \/ \E g \in Runs :
       \/ WorkflowRunQueued(g) \/ RequeueCheck(g) \/ ReassignUpdate(g)
       \/ RequeueAfterPasses(g) \/ ScheduleTimeoutPasses(g) \/ WorkerFinishes(g)
       \/ \E c \in Callers :
            SetPending(c, g) \/ Assign(c, g) \/ NoWorkerAvailable(c, g)
            \/ Send(c, g) \/ CallFails(c, g)
  \/ RequeueList \/ ReassignList
  \/ \E w \in Workers : WorkerActivity(w)

(***************************************************************************)
(* Fairness. The two loops run on tickers: weak fairness. The clock        *)
(* advances: weak fairness. The database does not fail forever: a step     *)
(* that is enabled again and again (the next tick retries it) is           *)
(* eventually taken, strong fairness. Nothing is assumed of the workers.   *)
(***************************************************************************)
Fairness ==
  /\ WF_vars(RequeueList) /\ WF_vars(ReassignList)
  /\ \A g \in Runs :
       /\ WF_vars(RequeueAfterPasses(g)) /\ WF_vars(ScheduleTimeoutPasses(g))
       /\ SF_vars(WorkflowRunQueued(g)) /\ SF_vars(RequeueCheck(g))
       /\ SF_vars(ReassignUpdate(g))
       /\ \A c \in Callers :
            /\ SF_vars(SetPending(c, g)) /\ SF_vars(Send(c, g))
            /\ SF_vars(Assign(c, g) \/ NoWorkerAvailable(c, g))

Spec == Init /\ [][Next]_vars /\ Fairness

-----------------------------------------------------------------------------
(* Properties                                                               *)

TypeOK ==
  /\ status \in [Runs -> Unassigned \cup {"assigned"} \cup Terminal]
  /\ worker \in [Runs -> Workers \cup {NoWorker}]
  /\ due \in [Runs -> BOOLEAN] /\ timedOut \in [Runs -> BOOLEAN]
  /\ active \in [Workers -> BOOLEAN]
  /\ sent \subseteq Runs \X Workers
  /\ call \in [Callers -> [Runs -> [pc : {"none", "start", "check", "reassignUpdate",
                                           "setPending", "assign", "send"},
                                     w : Workers \cup {NoWorker}]]]

\* A get-group-key run waiting for a worker does not wait forever: the
\* requeue loop either gets it assigned or, once its scheduling timeout
\* has passed, cancels it, even if no worker is ever active and every
\* database call may fail for a while.
WaitingResolved ==
  \A g \in Runs : status[g] \in Unassigned ~> status[g] \notin Unassigned

\* Once a get-group-key run has succeeded or been cancelled its status does
\* not change: the loops act only on runs that are not assigned, or that
\* are assigned to an inactive worker, although they act on rows listed
\* before their goroutines run.
TerminalIsFinal ==
  [][\A g \in Runs : status[g] \in Terminal => status'[g] = status[g]]_vars

=============================================================================
