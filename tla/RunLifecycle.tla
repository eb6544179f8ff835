---------------------------- MODULE RunLifecycle ----------------------------
(***************************************************************************)
(* The life of a test run in the single-instance qarunner server:          *)
(*   - core/orchestrator.py   RunOrchestrator.create / execute / cancel;   *)
(*   - adapters/asyncio_scheduler.py   the poller, its semaphore, drain;   *)
(*   - adapters/{sqlite,postgres}_store.py   the queries on table runs;    *)
(*   - api/routes.py   cancel_run, delete_run, delete_user;                *)
(*   - api/app.py   the lifespan: crash recovery, start, shutdown.         *)
(*                                                                         *)
(* The database outlives the process; everything else is lost when the     *)
(* process stops.  One action is one stretch of code between two awaits,   *)
(* or one commit of the database, so every interleaving of the poller, the *)
(* execution tasks and the HTTP handlers is a behaviour.                   *)
(***************************************************************************)
EXTENDS Naturals, FiniteSets

CONSTANTS
    Runs,            \* run ids the id generator can hand out
    Users,           \* values of created_by
    Exempt,          \* the ones without a cap: admins and "system:schedule"
    NodeIds,         \* values worker_node_id can have (default: gethostname())
    MaxConcurrency,  \* slots of AsyncioScheduler._semaphore
    InflightLimit,   \* settings.max_inflight_runs_per_user, 0 = no limit
    MaxStops,        \* bound: crashes and shutdowns in a behaviour
    MaxFailures,     \* bound: failing store calls in a behaviour
    NoRun            \* not a run id

ASSUME ConcurrencyAssumption == MaxConcurrency \in Nat \ {0}
ASSUME LimitAssumption == InflightLimit \in Nat
ASSUME BoundsAssumption == MaxStops \in Nat /\ MaxFailures \in Nat
ASSUME RunsAssumption == IsFiniteSet(Runs) /\ NoRun \notin Runs
ASSUME NodesAssumption == NodeIds # {}
ASSUME UsersAssumption == Exempt \subseteq Users /\ Users # {}

VARIABLES
    \* ---- table runs --------------------------------------------------------
    status,      \* "unborn" before create, "deleted" after DELETE
    summary,     \* summary_json is not NULL
    createdBy,
    workerNode,  \* worker_node_id, stamped by create
    createdAt,   \* created_at, the key of the FIFO
    clock,       \* the next created_at
    \* ---- the process -------------------------------------------------------
    node,        \* settings.worker_node_id of this incarnation
    phase,       \* where the lifespan is
    poller,      \* program counter of _poller_loop
    claimed,     \* the run_id dequeue_next_queued returned, before its task
    slots,       \* _semaphore._value
    task,        \* program counter of execute(run_id), "none" if not in _keyed
    local,       \* status and summary of execute's local variable run
    signalled,   \* task.cancel() was called, CancelledError not yet raised
    \* ---- HTTP handlers -----------------------------------------------------
    toSignal,    \* cancel_run passed its status check
    toCancel,    \* scheduler.cancel done, cancel_if_inflight pending
    toDelete,    \* delete_run or delete_user will delete this row
    \* ---- bookkeeping of the model ------------------------------------------
    starts,      \* how often a run's test process was started
    stops, failures

dbVars   == <<status, summary, createdBy, workerNode, createdAt, clock>>
taskVars == <<task, local, signalled>>
procVars == <<node, phase, poller, claimed, slots>>
reqVars  == <<toSignal, toCancel, toDelete>>
vars     == <<dbVars, procVars, taskVars, reqVars, starts, stops, failures>>

Inflight == {"queued", "running"}
Terminal == {"completed", "failed", "timeout", "cancelled"}
Statuses == Inflight \cup Terminal \cup {"unborn", "deleted"}
Phases   == {"down", "up", "draining", "aborting"}
PollerPc == {"off", "acquire", "dequeue", "spawn", "sleep"}

(***************************************************************************)
(* execute(): "get" awaits store.get; "prepare" is steps 1-2, which await  *)
(* the copy of the tests into the jail; "work" is steps 3-6, from the call *)
(* of the runner to the report; "final" awaits the save of step 7 and      *)
(* "saved" is after its commit; "errsave" and "cancelsave" await the save  *)
(* of the two except branches; "cleanup" is the finally; "done" waits for  *)
(* the scheduler's done callback.                                          *)
(***************************************************************************)
TaskPc == {"none", "get", "prepare", "work", "final", "saved", "errsave", "cancelsave",
           "cleanup", "done"}
LiveTask == TaskPc \ {"none", "done"}

NoOutcome == [status |-> "running", summary |-> FALSE]
Outcomes  == [status : Terminal \cup {"running"}, summary : BOOLEAN]

----------------------------------------------------------------------------
Init ==
    /\ status = [r \in Runs |-> "unborn"]
    /\ summary = [r \in Runs |-> FALSE]
    /\ createdBy = [r \in Runs |-> CHOOSE u \in Users : TRUE]
    /\ workerNode = [r \in Runs |-> CHOOSE n \in NodeIds : TRUE]
    /\ createdAt = [r \in Runs |-> 0]
    /\ clock = 0
    /\ node = CHOOSE n \in NodeIds : TRUE
    /\ phase = "down"
    /\ poller = "off"
    /\ claimed = NoRun
    /\ slots = MaxConcurrency
    /\ task = [r \in Runs |-> "none"]
    /\ local = [r \in Runs |-> NoOutcome]
    /\ signalled = [r \in Runs |-> FALSE]
    /\ toSignal = {} /\ toCancel = {} /\ toDelete = {}
    /\ starts = [r \in Runs |-> 0]
    /\ stops = 0 /\ failures = 0

----------------------------------------------------------------------------
(***************************************************************************)
(* Creating runs.  The count and the insert are one transaction, behind a  *)
(* lock per creator (create_if_below_inflight_limit); an exempt creator    *)
(* inserts with save().  enqueue() only wakes the poller, which also wakes *)
(* by itself after poll_interval, so the event needs no variable.          *)
(***************************************************************************)
InflightOf(u) == {r \in Runs : createdBy[r] = u /\ status[r] \in Inflight}

\* Fault: count only the queued rows.
BelowQueuedLimit(u) == Cardinality(InflightOf(u) \cap {r \in Runs : status[r] = "queued"})
                          < InflightLimit

BelowInflightLimit(u) == Cardinality(InflightOf(u)) < InflightLimit

Capped(u) == u \notin Exempt /\ InflightLimit # 0

CreateRun(u, r) ==
    /\ phase = "up"
    /\ status[r] = "unborn"
    /\ Capped(u) => BelowInflightLimit(u)
    /\ status' = [status EXCEPT ![r] = "queued"]
    /\ summary' = [summary EXCEPT ![r] = FALSE]
    /\ createdBy' = [createdBy EXCEPT ![r] = u]
    /\ workerNode' = [workerNode EXCEPT ![r] = node]
    /\ createdAt' = [createdAt EXCEPT ![r] = clock]
    /\ clock' = clock + 1
    /\ UNCHANGED <<procVars, taskVars, reqVars, starts, stops, failures>>

----------------------------------------------------------------------------
(***************************************************************************)
(* The poller loop.  dequeue_next_queued commits in the database ("spawn") *)
(* before its answer reaches the loop.                                     *)
(***************************************************************************)
\* Fault: take a slot without waiting for one.
AcquireWithoutWaiting ==
    /\ poller = "acquire"
    /\ slots' = slots - 1
    /\ poller' = "dequeue"
    /\ UNCHANGED <<dbVars, node, phase, claimed, taskVars, reqVars, starts, stops, failures>>

PollerAcquire ==
    /\ poller = "acquire"
    /\ slots > 0
    /\ slots' = slots - 1
    /\ poller' = "dequeue"
    /\ UNCHANGED <<dbVars, node, phase, claimed, taskVars, reqVars, starts, stops, failures>>

Queued == {r \in Runs : status[r] = "queued"}

DequeueNextQueued(r) ==
    /\ poller = "dequeue"
    /\ r \in Queued
    /\ \A q \in Queued : createdAt[r] <= createdAt[q]
    /\ status' = [status EXCEPT ![r] = "running"]
    /\ claimed' = r
    /\ poller' = "spawn"
    /\ UNCHANGED <<summary, createdBy, workerNode, createdAt, clock, node, phase, slots,
                   taskVars, reqVars, starts, stops, failures>>

\* Fault: an empty queue keeps the slot.
DequeueEmptyLeaks ==
    /\ poller = "dequeue"
    /\ Queued = {}
    /\ poller' = "sleep"
    /\ UNCHANGED <<dbVars, node, phase, claimed, slots, taskVars, reqVars, starts, stops,
                   failures>>

DequeueEmpty ==
    /\ poller = "dequeue"
    /\ Queued = {}
    /\ slots' = slots + 1
    /\ poller' = "sleep"
    /\ UNCHANGED <<dbVars, node, phase, claimed, taskVars, reqVars, starts, stops, failures>>

\* The store raises, before the commit or after it (the answer is lost).
DequeueFails ==
    /\ poller \in {"dequeue", "spawn"}
    /\ failures < MaxFailures
    /\ failures' = failures + 1
    /\ claimed' = NoRun
    /\ slots' = slots + 1
    /\ poller' = "sleep"
    /\ UNCHANGED <<dbVars, node, phase, taskVars, reqVars, starts, stops>>

Spawn ==
    /\ poller = "spawn"
    /\ task' = [task EXCEPT ![claimed] = "get"]
    /\ local' = [local EXCEPT ![claimed] = NoOutcome]
    /\ signalled' = [signalled EXCEPT ![claimed] = FALSE]
    /\ claimed' = NoRun
    /\ poller' = "acquire"
    /\ UNCHANGED <<dbVars, node, phase, slots, reqVars, starts, stops, failures>>

PollerWake ==
    /\ poller = "sleep"
    /\ poller' = "acquire"
    /\ UNCHANGED <<dbVars, node, phase, claimed, slots, taskVars, reqVars, starts, stops,
                   failures>>

OnTaskDone(r) ==
    /\ task[r] = "done"
    /\ task' = [task EXCEPT ![r] = "none"]
    /\ local' = [local EXCEPT ![r] = NoOutcome]
    /\ slots' = slots + 1
    /\ UNCHANGED <<dbVars, node, phase, poller, claimed, signalled, reqVars, starts, stops,
                   failures>>

----------------------------------------------------------------------------
(***************************************************************************)
(* execute(run_id).  Once task.cancel() was called the code cannot go on   *)
(* from its await: only Interrupted can move the task, except that a       *)
(* commit already handed to the database may still happen.                 *)
(***************************************************************************)
TaskStep(r, from, to) ==
    /\ task[r] = from
    /\ task' = [task EXCEPT ![r] = to]

ExecuteSkips(r) == status[r] \in Terminal \cup {"deleted"}

\* store.get: a terminal row ends the task, and so does RunNotFound.  The row is
\* not read again: what is committed after this read is not seen before the end.
ExecuteLoad(r) ==
    /\ ~signalled[r]
    /\ \/ ExecuteSkips(r) /\ TaskStep(r, "get", "done")
       \/ ~ExecuteSkips(r) /\ TaskStep(r, "get", "prepare")
    /\ UNCHANGED <<dbVars, procVars, local, signalled, reqVars, starts, stops, failures>>

\* store.get or registry.get raises: both are outside the try block.
ExecuteLoadFails(r) ==
    /\ ~signalled[r]
    /\ failures < MaxFailures
    /\ failures' = failures + 1
    /\ TaskStep(r, "get", "done")
    /\ UNCHANGED <<dbVars, procVars, local, signalled, reqVars, starts, stops>>

\* The jail is ready and the runner is called, without another look at the row.
ExecuteStart(r) ==
    /\ ~signalled[r]
    /\ TaskStep(r, "prepare", "work")
    /\ starts' = [starts EXCEPT ![r] = @ + 1]
    /\ UNCHANGED <<dbVars, procVars, local, signalled, reqVars, stops, failures>>

\* Steps 3-6: the process ended and the outcome is in the local variable.
ExecuteOutcome(r) ==
    /\ ~signalled[r]
    /\ TaskStep(r, "work", "final")
    /\ \E o \in {[status |-> "completed", summary |-> TRUE],
                 [status |-> "failed", summary |-> FALSE],
                 [status |-> "timeout", summary |-> TRUE],
                 [status |-> "timeout", summary |-> FALSE]} :
          local' = [local EXCEPT ![r] = o]
    /\ UNCHANGED <<dbVars, procVars, signalled, reqVars, starts, stops, failures>>

\* Any step raises: the jail copy, the runner, the collector, save_cases, ...
ExecuteRaises(r) ==
    /\ ~signalled[r]
    /\ TaskStep(r, "prepare", "errsave") \/ TaskStep(r, "work", "errsave")
    /\ local' = [local EXCEPT ![r] = [status |-> "failed", summary |-> @.summary]]
    /\ UNCHANGED <<dbVars, procVars, signalled, reqVars, starts, stops, failures>>

\* store.save: an upsert of the whole row, whatever the row holds.
Save(r) ==
    /\ status' = [status EXCEPT ![r] = local[r].status]
    /\ summary' = [summary EXCEPT ![r] = local[r].summary]
    /\ UNCHANGED <<createdBy, workerNode, createdAt, clock>>

FinalSave(r) ==
    /\ TaskStep(r, "final", "saved")
    /\ Save(r)
    /\ UNCHANGED <<procVars, local, signalled, reqVars, starts, stops, failures>>

\* The save raises, before its commit or after it.
FinalSaveFails(r) ==
    /\ ~signalled[r]
    /\ failures < MaxFailures
    /\ failures' = failures + 1
    /\ TaskStep(r, "final", "errsave") \/ TaskStep(r, "saved", "errsave")
    /\ local' = [local EXCEPT ![r] = [status |-> "failed", summary |-> @.summary]]
    /\ UNCHANGED <<dbVars, procVars, signalled, reqVars, starts, stops>>

FinalSaveReturns(r) ==
    /\ ~signalled[r]
    /\ TaskStep(r, "saved", "cleanup")
    /\ UNCHANGED <<dbVars, procVars, local, signalled, reqVars, starts, stops, failures>>

HandlerSave(r) ==
    /\ TaskStep(r, "errsave", "cleanup") \/ TaskStep(r, "cancelsave", "cleanup")
    /\ Save(r)
    /\ UNCHANGED <<procVars, local, signalled, reqVars, starts, stops, failures>>

HandlerSaveFails(r) ==
    /\ ~signalled[r]
    /\ failures < MaxFailures
    /\ failures' = failures + 1
    /\ TaskStep(r, "errsave", "cleanup") \/ TaskStep(r, "cancelsave", "cleanup")
    /\ UNCHANGED <<dbVars, procVars, local, signalled, reqVars, starts, stops>>

ExecuteCleanup(r) ==
    /\ ~signalled[r]
    /\ TaskStep(r, "cleanup", "done")
    /\ UNCHANGED <<dbVars, procVars, local, signalled, reqVars, starts, stops, failures>>

\* Fault (BUG-9): relabel a finished execution.
RelabelledOutcome(r) == [status |-> "cancelled", summary |-> local[r].summary]

\* What the except branch keeps: the outcome, if it was reached (BUG-9).
CancelledOutcome(r) ==
    IF task[r] \in {"prepare", "work"}
    THEN [status |-> "cancelled", summary |-> FALSE]
    ELSE local[r]

\* Fault: the handler around the jail copy swallows the cancellation.
InterruptedSwallowed(r) ==
    /\ signalled[r]
    /\ signalled' = [signalled EXCEPT ![r] = FALSE]
    /\ UNCHANGED <<dbVars, procVars, task, local, reqVars, starts, stops, failures>>

\* CancelledError is raised at the await the task is at.  Outside the try, in
\* an except branch or in the finally nothing catches it.
Interrupted(r) ==
    /\ signalled[r]
    /\ signalled' = [signalled EXCEPT ![r] = FALSE]
    /\ \/ /\ task[r] \in {"prepare", "work", "final", "saved"}
          /\ task' = [task EXCEPT ![r] = "cancelsave"]
          /\ local' = [local EXCEPT ![r] = CancelledOutcome(r)]
       \/ /\ TaskStep(r, "errsave", "cleanup") \/ TaskStep(r, "cancelsave", "cleanup")
             \/ TaskStep(r, "get", "done") \/ TaskStep(r, "cleanup", "done")
          /\ UNCHANGED local
    /\ UNCHANGED <<dbVars, procVars, reqVars, starts, stops, failures>>

----------------------------------------------------------------------------
(***************************************************************************)
(* POST /runs/{id}/cancel: the status check, then scheduler.cancel in the  *)
(* same stretch as the continuation, then cancel_if_inflight.              *)
(***************************************************************************)
CancelCheck(r) ==
    /\ phase = "up"
    /\ status[r] \in Inflight
    /\ toSignal' = toSignal \cup {r}
    /\ UNCHANGED <<dbVars, procVars, taskVars, toCancel, toDelete, starts, stops, failures>>

\* scheduler.cancel finds a task only from Spawn on.
CancelSignal(r) ==
    /\ r \in toSignal
    /\ signalled' = [signalled EXCEPT ![r] = @ \/ task[r] \in LiveTask]
    /\ toSignal' = toSignal \ {r}
    /\ toCancel' = toCancel \cup {r}
    /\ UNCHANGED <<dbVars, procVars, task, local, toDelete, starts, stops, failures>>

\* Fault (BUG-3): cancel whatever the row says.
CancelAlways(r) ==
    status' = [status EXCEPT ![r] = IF @ = "deleted" THEN @ ELSE "cancelled"]

\* Fault: leave running rows to their task.
CancelQueuedOnly(r) ==
    status' = [status EXCEPT ![r] = IF @ = "queued" THEN "cancelled" ELSE @]

CancelIfInflight(r) ==
    status' = [status EXCEPT ![r] = IF @ \in Inflight THEN "cancelled" ELSE @]

CancelCommit(r) ==
    /\ r \in toCancel
    /\ CancelIfInflight(r)
    /\ toCancel' = toCancel \ {r}
    /\ UNCHANGED <<summary, createdBy, workerNode, createdAt, clock, procVars, taskVars,
                   toSignal, toDelete, starts, stops, failures>>

CancelFails(r) ==
    /\ r \in toCancel
    /\ failures < MaxFailures
    /\ failures' = failures + 1
    /\ toCancel' = toCancel \ {r}
    /\ UNCHANGED <<dbVars, procVars, taskVars, toSignal, toDelete, starts, stops>>

(***************************************************************************)
(* DELETE /runs/{id} refuses a queued or running run; DELETE /users/{name} *)
(* deletes every run of the user, in flight or not, and touches no task.   *)
(* Both read first and delete later.  Runs are unlocked here, and the      *)
(* deleted accounts are ones with a cap (an admin's go the same way).      *)
(***************************************************************************)
DeleteCheck(r) ==
    /\ phase = "up"
    /\ status[r] \in Terminal
    /\ toDelete' = toDelete \cup {r}
    /\ UNCHANGED <<dbVars, procVars, taskVars, toSignal, toCancel, starts, stops, failures>>

DeleteUser(u) ==
    /\ phase = "up"
    /\ toDelete' = toDelete \cup
          {r \in Runs : createdBy[r] = u /\ status[r] \in Inflight \cup Terminal}
    /\ UNCHANGED <<dbVars, procVars, taskVars, toSignal, toCancel, starts, stops, failures>>

DeleteCommit(r) ==
    /\ r \in toDelete
    /\ status' = [status EXCEPT ![r] = "deleted"]
    /\ summary' = [summary EXCEPT ![r] = FALSE]
    /\ toDelete' = toDelete \ {r}
    /\ UNCHANGED <<createdBy, workerNode, createdAt, clock, procVars, taskVars, toSignal,
                   toCancel, starts, stops, failures>>

----------------------------------------------------------------------------
(***************************************************************************)
(* The lifespan of the process.                                            *)
(***************************************************************************)
\* Fault: recovery puts interrupted runs back into the queue.
RequeueInterruptedRuns(n) ==
    status' = [r \in Runs |-> IF status[r] = "running" /\ workerNode[r] = n
                              THEN "queued" ELSE status[r]]

\* Fault: no recovery.
IgnoreInterruptedRuns(n) == status' = status

MarkInterruptedRuns(n) ==
    status' = [r \in Runs |-> IF status[r] = "running" /\ workerNode[r] = n
                              THEN "failed" ELSE status[r]]

\* initialize, mark_interrupted_runs, task_scheduler.start.
Startup(n) ==
    /\ phase = "down"
    /\ node' = n
    /\ MarkInterruptedRuns(n)
    /\ phase' = "up"
    /\ poller' = "acquire"
    /\ UNCHANGED <<summary, createdBy, workerNode, createdAt, clock, claimed, slots, taskVars,
                   reqVars, starts, stops, failures>>

\* The process is gone, and with it all that is not in the database.
Exit ==
    /\ phase' = "down"
    /\ poller' = "off"
    /\ claimed' = NoRun
    /\ slots' = MaxConcurrency
    /\ task' = [r \in Runs |-> "none"]
    /\ local' = [r \in Runs |-> NoOutcome]
    /\ signalled' = [r \in Runs |-> FALSE]
    /\ toSignal' = {} /\ toCancel' = {} /\ toDelete' = {}
    /\ UNCHANGED <<dbVars, node, starts, failures>>

Crash ==
    /\ phase # "down"
    /\ stops < MaxStops
    /\ stops' = stops + 1
    /\ Exit

\* The server has answered its open requests; task_scheduler.shutdown cancels
\* the poller wherever it is: a slot it holds and a run it claimed are dropped.
BeginShutdown ==
    /\ phase = "up"
    /\ stops < MaxStops
    /\ toSignal = {} /\ toCancel = {} /\ toDelete = {}
    /\ stops' = stops + 1
    /\ phase' = "draining"
    /\ poller' = "off"
    /\ claimed' = NoRun
    /\ UNCHANGED <<dbVars, node, slots, taskVars, reqVars, starts, failures>>

LiveRuns == {r \in Runs : task[r] \in LiveTask}

\* drain: shutdown_drain_timeout_seconds are over, stragglers are cancelled.
DrainTimeout ==
    /\ phase = "draining"
    /\ LiveRuns # {}
    /\ signalled' = [r \in Runs |-> signalled[r] \/ r \in LiveRuns]
    /\ phase' = "aborting"
    /\ UNCHANGED <<dbVars, node, poller, claimed, slots, task, local, reqVars, starts, stops,
                   failures>>

FinishShutdown ==
    /\ phase \in {"draining", "aborting"}
    /\ LiveRuns = {}
    /\ Exit
    /\ UNCHANGED stops

----------------------------------------------------------------------------
PollerNext ==
    \/ PollerAcquire
    \/ \E r \in Runs : DequeueNextQueued(r)
    \/ DequeueEmpty
    \/ DequeueFails
    \/ Spawn
    \/ PollerWake

ExecuteNext(r) ==
    \/ ExecuteLoad(r)
    \/ ExecuteLoadFails(r)
    \/ ExecuteStart(r)
    \/ ExecuteOutcome(r)
    \/ ExecuteRaises(r)
    \/ FinalSave(r)
    \/ FinalSaveFails(r)
    \/ FinalSaveReturns(r)
    \/ HandlerSave(r)
    \/ HandlerSaveFails(r)
    \/ ExecuteCleanup(r)
    \/ Interrupted(r)
    \/ OnTaskDone(r)

RequestNext ==
    \/ \E u \in Users, r \in Runs : CreateRun(u, r)
    \/ \E r \in Runs : \/ CancelCheck(r) \/ CancelSignal(r) \/ CancelCommit(r)
                       \/ CancelFails(r) \/ DeleteCheck(r) \/ DeleteCommit(r)
    \/ \E u \in Users \ Exempt : DeleteUser(u)

LifespanNext ==
    \/ \E n \in NodeIds : Startup(n)
    \/ Crash
    \/ BeginShutdown
    \/ DrainTimeout
    \/ FinishShutdown

Next == PollerNext \/ (\E r \in Runs : ExecuteNext(r)) \/ RequestNext \/ LifespanNext

Spec == Init /\ [][Next]_vars

(***************************************************************************)
(* Fairness: the event loop runs what is ready.  An execution ends because *)
(* the runner enforces run.timeout; a handler that started goes on; the    *)
(* process is restarted (docker-compose.yml: restart: unless-stopped).     *)
(* Nothing obliges anyone to create, cancel, delete, crash or shut down.   *)
(***************************************************************************)
Fairness ==
    /\ WF_vars(PollerNext)
    /\ \A r \in Runs : WF_vars(ExecuteNext(r))
    /\ \A r \in Runs : WF_vars(CancelSignal(r)) /\ WF_vars(CancelCommit(r))
                       /\ WF_vars(DeleteCommit(r))
    /\ WF_vars(\E n \in NodeIds : Startup(n))
    /\ WF_vars(FinishShutdown)

FairSpec == Spec /\ Fairness

----------------------------------------------------------------------------
(* Properties *)

\* Rows, program counters and handlers stay in their domains; no step drives the
\* semaphore or a counter below zero.
TypeOK ==
    /\ status \in [Runs -> Statuses]
    /\ summary \in [Runs -> BOOLEAN]
    /\ createdBy \in [Runs -> Users]
    /\ workerNode \in [Runs -> NodeIds]
    /\ createdAt \in [Runs -> Nat]
    /\ clock \in Nat
    /\ node \in NodeIds
    /\ phase \in Phases
    /\ poller \in PollerPc
    /\ claimed \in Runs \cup {NoRun}
    /\ slots \in Nat
    /\ task \in [Runs -> TaskPc]
    /\ local \in [Runs -> Outcomes]
    /\ signalled \in [Runs -> BOOLEAN]
    /\ toSignal \subseteq Runs /\ toCancel \subseteq Runs /\ toDelete \subseteq Runs
    /\ starts \in [Runs -> Nat]
    /\ stops \in Nat /\ failures \in Nat

Held == IF poller \in {"dequeue", "spawn"} THEN 1 ELSE 0
TaskRuns == {r \in Runs : task[r] # "none"}

\* The semaphore neither leaks nor invents a slot: while the server is up every
\* slot is free, held by the poller, or held by a task that has not been
\* reaped, whatever failed or was cancelled on the way.
SlotAccounting ==
    phase = "up" => slots + Held + Cardinality(TaskRuns) = MaxConcurrency

\* The test process of a run is started at most once, over any number of
\* crashes and restarts: dequeue_next_queued hands a run out once and recovery
\* never requeues it.
ExecutedAtMostOnce == \A r \in Runs : starts[r] <= 1

\* No user without exemption has more runs in flight than the limit, although
\* requests of the same user race each other, tasks re-save rows and rows are
\* deleted and saved again.
InflightCap ==
    \A u \in Users : Capped(u) => Cardinality(InflightOf(u)) <= InflightLimit

\* While the server is up and no store call has failed, a running row stamped
\* with this node has somebody who will end it: the poller, a task that has yet
\* to save, or a cancel handler about to write.
RunningIsOwned ==
    (phase = "up" /\ failures = 0) =>
        \A r \in Runs : (status[r] = "running" /\ workerNode[r] = node) =>
            \/ claimed = r
            \/ task[r] \in {"get", "prepare", "work", "final", "errsave", "cancelsave"}
            \/ r \in toCancel

\* BUG-9: no record says "cancelled" and carries the results of a finished test.
CancelledCarriesNoResults ==
    \A r \in Runs : status[r] = "cancelled" => ~summary[r]

\* Stopped before its process started: the task was told to stop or is past the
\* call of the runner without having made it; or the row ended before the task
\* read it; or the row left the queue and nobody holds the run any more.
Stopped(r) ==
    /\ starts[r] = 0
    /\ \/ signalled[r]
       \/ task[r] \in {"errsave", "cancelsave", "cleanup", "done"}
       \/ status[r] \in Terminal \cup {"deleted"} /\ task[r] \in {"none", "get"}
       \/ status[r] \notin {"unborn", "queued"} /\ task[r] = "none" /\ claimed # r

\* A run that was stopped before its process started never comes back: not
\* through its task, which may be preparing the jail, nor through the poller, a
\* failing save, a crash or the recovery.  (A cancel that finds no task to signal
\* and commits after the task read the row does not stop the run: see README.)
NoStartAfterCancel == [][\A r \in Runs : Stopped(r) => Stopped(r)']_vars

\* BUG-3: without store failures the outcome of an execution is final; neither
\* a late cancel nor a restart relabels it, only a delete removes it.
OutcomeIsSticky ==
    [][\A r \in Runs :
          (failures = 0 /\ status[r] \in {"completed", "failed", "timeout"})
             => status'[r] \in {status[r], "deleted"}]_vars

\* Every run that is accepted leaves queued and running: the queue survives
\* restarts, interrupted runs are recovered, slots come back.
EveryRunSettles ==
    \A r \in Runs : (status[r] \in Inflight) ~> (status[r] \notin Inflight)

Contract == INSTANCE RunContract WITH Runs <- Runs, status <- status

\* The database rows behave as RunContract says, whatever the process does.
RefinesContract == Contract!CSpec

----------------------------------------------------------------------------
(***************************************************************************)
(* What the invariants above rest on: how the rows, the poller and the     *)
(* tasks depend on each other.  IInv is inductive, and each property above *)
(* is inductive relative to it (RunLifecycle_proofs).                      *)
(***************************************************************************)
Started == {"running", "cancelled", "deleted"}
Finished == {"completed", "failed", "timeout"}

\* The poller runs exactly while the server is up, holds a run exactly between
\* the commit of its dequeue and its task, and that run was never started;
\* no task outlives the process.
PollerOwnsClaim ==
    /\ poller # "off" <=> phase = "up"
    /\ poller = "spawn" <=> claimed # NoRun
    /\ claimed # NoRun => /\ task[claimed] = "none"
                          /\ status[claimed] \in Started
                          /\ starts[claimed] = 0
    /\ phase = "down" => /\ \A r \in Runs : task[r] = "none"
                         /\ slots = MaxConcurrency

\* What a task at each await may find in its row and will write over it: a save
\* never takes a run back to queued or running, and it overwrites an outcome
\* only with the same one or, after an error, with failed.
TaskAgreesWithRow(r) ==
    /\ signalled[r] => task[r] \in LiveTask
    /\ task[r] \in {"get", "prepare", "work"} => local[r] = NoOutcome
    /\ task[r] \in {"get", "prepare", "work", "final"} => status[r] \in Started
    /\ task[r] \in {"final", "saved"} => local[r].status \in Finished
    /\ task[r] = "saved" => status[r] \in {local[r].status, "deleted"}
    /\ task[r] = "errsave" => /\ local[r].status = "failed"
                              /\ status[r] \in Started \cup Finished
                              /\ failures = 0 => status[r] \in Started
    /\ task[r] = "cancelsave" => /\ local[r].status \in Terminal
                                 /\ local[r].status = "cancelled" => ~local[r].summary
                                 /\ status[r] \in Started \cup {local[r].status}
TasksAgreeWithRows == \A r \in Runs : TaskAgreesWithRow(r)

\* A run that is not yet dequeued has no task and was never started, a task
\* that has not called the runner has not started it, and only a finished or a
\* deleted row can carry results.
RowHistory(r) ==
    /\ status[r] = "unborn" => r \notin toDelete
    /\ status[r] \in {"unborn", "queued"} => task[r] = "none" /\ starts[r] = 0
    /\ task[r] \in {"get", "prepare"} => starts[r] = 0
    /\ starts[r] <= 1
    /\ status[r] \notin Finished \cup {"deleted"} => ~summary[r]
RowHistories == \A r \in Runs : RowHistory(r)

\* Without store failures, a task of a running row that was told to stop has a
\* cancel handler behind it that has yet to write.
SignalledIsCancelled ==
    (phase = "up" /\ failures = 0) =>
        \A r \in Runs : signalled[r] => r \in toCancel \/ status[r] # "running"

\* The inductive invariant: the poller, the tasks and the rows agree about who
\* owns which run and what may still be written over it.
IInv == TypeOK /\ PollerOwnsClaim /\ TasksAgreeWithRows /\ RowHistories

----------------------------------------------------------------------------
(* What documents and comments say, and the code does not do. *)

\* docs/API_REFERENCE.md on RunStatus: queued, running, then a terminal state;
\* docs/SYSTEM_REQUIREMENTS.md 3.2: a terminal state has no further transition.
TerminalIsFinal ==
    [][\A r \in Runs : status[r] \in Terminal =>
          status'[r] \in {status[r], "deleted"}]_vars
============================================================================
