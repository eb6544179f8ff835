# A TLA+ model of qarunner

qarunner accepts requests to run test suites, executes them in containers and
keeps their results. The repository holds two systems:

1. **the server that runs today**, a FastAPI process (or a few replicas of it)
   with a database (`api/`, `core/`, `adapters/sqlite_store.py`,
   `adapters/postgres_store.py`, `adapters/asyncio_scheduler.py`,
   `adapters/apscheduler_schedule.py`);
2. **the worker-execution architecture** it is being migrated to: immutable
   aggregates (`domain/`), use cases (`application/`) and PostgreSQL adapters
   (`adapters/postgres_*`), with a control plane and remote workers.

All paths below are relative to `src/qarunner/` unless they start with
`docs/` or `README.md`.

## Inventory

| Component | State | Operations | Hard because | Modules |
|---|---|---|---|---|
| Run orchestrator, `core/orchestrator.py` | the local `run` of each execution | create, execute, cancel, drain | every `await` is a preemption point; `CancelledError` can arrive at each; saves are unconditional upserts | `RunLifecycle` |
| Persistent scheduler, `adapters/asyncio_scheduler.py` | semaphore, `_keyed` tasks, poller | poll, spawn, cancel, reap, shutdown, drain | a claim commits before the poller knows of it; the slot must come back on every path | `RunLifecycle` |
| Store, `adapters/{sqlite,postgres}_store.py` | tables runs, schedules, users, ... | conditional updates, upserts | the only state that survives a crash | `RunLifecycle`, `Console` |
| Routes, `api/routes.py` | none of their own | cancel, delete, lock, cleanup, users, schedules | check, await, act | `RunLifecycle`, `Console` |
| Lifespan, `api/app.py` | startup and exit stack | recover, start, drain, stop | crash at any point, restart under another name | `RunLifecycle` |
| Cron, `core/schedule_service.py`, `adapters/apscheduler_schedule.py` | jobs per replica, `last_run_at` | fire, claim, edit, delete | replicas fire together; edits race claims and deletes | `Console` |
| Retention | lock, cleanup claim, artifact directory | lock, delete, clean up | row and directory are changed apart | `Console` |
| Accounts and throttles, `core/auth.py`, `core/login_throttle.py`, `core/rate_limit.py` | roles, token versions, bounded tables | create, demote, delete, login | last admin; cascades statement by statement | `Console` (roles) |
| Run aggregate, `domain/{run,assignment,attempt,retry,unknown}.py` | reservations, executions, intents, fence | offer, claim, commit start, events, evidence, unknown, adjudicate, retry, cancel | commands of superseded workers, cancel and retry races, expiry instants | `ExecutionRun` |
| Rows of the aggregate, `adapters/postgres_assignment.py` | `qep_runs`, `qep_assignments`, `qep_attempts` | publish offer, claim, start, expiry, release | three statements per command, swallowed failures | `AssignmentStore` |
| Retries, `domain/{run_retry_policy,unknown_review,duplicate_risk_acceptance}.py`, `application/{run_retry,retry_commit_start}.py` | policies, budgets, decisions, receipts | evaluate, review, accept a risk, queue, start | authority that is superseded between evaluation, queueing and start | `RunRetry` |
| Suites and creation of Batches, `domain/suite.py`, `adapters/postgres_{suite,batch}.py` | Suites, revisions, Batches by key | register, revise, retire, create | READ COMMITTED transactions over one row lock and unique indexes | `SuiteCatalog` |
| Batch before execution, `domain/{batch,cancellation}.py`, `application/batch_preexecution.py` | phase, intents, rejections, bases | plan, cancel, close, reject | a proof of several statements that nothing was started | `BatchPreexecution` |
| Finalization, `domain/{run,batch}_finalization.py` and their adapters | bases, readiness, resolutions | close a Run, declare ready, close the Batch | candidates that are stale when they are published; many Runs must agree before one Batch ends | `RunFinalization`, `BatchFinalization` |
| Outbox, `adapters/postgres_outbox_publisher.py` | event rows with a lease | insert, claim, deliver, record, repair | at-least-once delivery, results recorded late | `Outbox` |
| Workers, unit of work, manifests, analysis, runners, migrations, frontend | | | see *Not modelled* | |

How the parts interact: a route creates a row and wakes the poller; the poller
claims the row in the database and creates an asyncio task; the task talks to
the runner and saves the row; a cancel reaches the task through the scheduler
and the row through the store; the lifespan recovers rows at start and drains
tasks at exit; cron jobs of every replica create runs through a claim in the
database. In the new architecture a Suite is registered and a Batch created for
one of its revisions; the Batch goes through its phases or is closed before any
of it runs; its Runs are offered to workers, executed, repeated under a policy or
a decision, and closed; the Batch is declared ready and closed on what its Runs
became. Every command loads an aggregate under a row lock, applies one method and
writes it back together with outbox events, which a publisher delivers.

What makes each correct is the list of properties below; `PROJECT.json` lists
the hazards line by line.

## Modules

| Module | What it models |
|---|---|
| `RunLifecycle` | one server process and its database: creation with the per-user cap, poller, executions, cancel, delete, crash, recovery, drain |
| `RunContract` | what a client that polls the runs table may see; abstract specification of `RunLifecycle` |
| `Console` | the other tables of the server: accounts, profiles, schedules with the jobs of every replica, retention |
| `ExecutionRun` | one `Run` aggregate of the worker domain with everything it owns |
| `AssignmentStore` | the rows of that aggregate and the transactions that write them; implements `ExecutionRun` |
| `RunRetry` | who may repeat an execution: policies with budgets, reviews, decisions, and the commands that queue and start a retry |
| `SuiteCatalog` | Suites, their revisions, and the creation of Batches, in interleaved transactions |
| `SuiteContract` | Suites and Batches with atomic commands; abstract specification of `SuiteCatalog` |
| `BatchPreexecution` | one `Batch` until its Runs execute: phases, cancel, closure, rejection, proof, handoff |
| `RunFinalization` | how a Run is closed: candidates, their constructors, the transaction |
| `BatchFinalization` | extends `RunFinalization` by the Batch of these Runs: readiness, classification, outcome |
| `Outbox` | rows of `qep_outbox_events`, the publishers that lease and deliver them, and the repair scan |
| `RunLifecycle_proofs`, `Console_proofs`, `ExecutionRun_proofs`, `RunRetry_proofs`, `SuiteCatalog_proofs`, `BatchPreexecution_proofs`, `BatchFinalization_proofs`, `Gateways_proofs` (of `Outbox` and `AssignmentStore`) | the theorems, checked by TLAPS |
| `MC...` | each specification for TLC: symmetry sets and, where a constant is a function, its value |

### RunLifecycle

An action is one stretch of code between two awaits, or one commit of the
database. State and code correspond as follows.

- The row: `status`, `summary` (whether `summary_json` is set), `createdBy`,
  `workerNode`, `createdAt`. `"unborn"` and `"deleted"` stand for a row that is
  not there, so that a deleted row which comes back can be told apart.
- The process: `poller` is the program counter of `_poller_loop`, `claimed` the
  run between `dequeue_next_queued` and `create_task`, `slots` the semaphore,
  `task[r]` the program counter of `execute(r)`, `local[r]` its local `run`,
  `signalled[r]` a `task.cancel()` whose `CancelledError` is yet to be raised.
- The handlers: `toSignal`, `toCancel`, `toDelete` are requests between their
  check and their effect.
- `starts`, `stops`, `failures` count for the properties and the bounds.

`execute` is split at its awaits: `ExecuteLoad` (the row is read and the status
checked), `ExecuteStart` (the jail is ready and the runner is called; `starts` counts
here), `ExecuteOutcome` or `ExecuteRaises`, `FinalSave` (the commit) and `FinalSaveReturns` (the answer),
`HandlerSave` for both `except` branches, `ExecuteCleanup` for the `finally`,
`OnTaskDone` for the scheduler's callback. `Interrupted` raises the
`CancelledError` where the task happens to be; a commit that was already handed
to the database may still happen before it. Each store call may fail
(`DequeueFails`, `ExecuteLoadFails`, `FinalSaveFails`, `HandlerSaveFails`,
`CancelFails`), before its commit or, where it matters, after it. `Crash` drops
all that is not in the database; `BeginShutdown`, `DrainTimeout` and
`FinishShutdown` are the exit stack of `lifespan`.

A run that is stopped before its process starts is not started: that is
`NoStartAfterCancel`, and it is about the task being told to stop between the read of
the row and the call of the runner, about failing saves, and about crashes and the
recovery after them. It is not true that a run whose *row* is cancelled is never
started. `cancel` signals the task first and writes the row later. A signal sent
between the dequeue and `create_task` finds no task; if the task then reads the row
before the cancel commits, nothing stops it, and the process starts beside a cancelled
row. `Stopped` therefore names what stops a run, and does not list that case;
`CancelledCarriesNoResults` says what still holds of it.

Left out: command building, path checks, what is in the jail directory, notifications
(fire and forget, they change no row), the lock and retention columns (see
`Console`), and what the runner does (its outcome is a choice).

### Console

What the server keeps beside the lifecycle of runs. Every SQL statement commits
alone, so a handler is a sequence of steps (`task[t].op` is the one it is about to
take) and other handlers interleave between them. Checks of a handler are made on
what it read, conditions of a statement on what is stored: `UpdateUser` against
`DemoteIfNotLastAdmin` and `UpdateRole`, `CleanupRuns` against `ClaimRunCleanup`,
`UpdateSchedule` against `SaveSchedule`.

Every replica has its own job of a schedule (`jobs[r]`), which follows only the edits
that replica served. A tick makes the jobs that elapse `due`; `Trigger` reads the row,
`Fire` computes the tick from the expression it read (or takes the clock when that
fails), and `ClaimScheduleRun` takes the tick with its compare-and-set on `last_run_at`.
Two expressions, one of them with every second tick, make job, row and tick disagree.
`inserted` counts insertions of the schedule's row: an edit that read the row before its
deletion brings it back (see *Where documents and code differ*), and ticks are compared
among claims on the same insertion. A fire that went by the clock is told apart from
others by its clock alone: two of them for one tick are two runs unless their clocks
agree. The expressions are validated when they are saved, so that only a row written
otherwise or a changed time zone database leads there.

One profile, one schedule of it and one finished run of one owner stand for the
tables; an account `eve` that owns them and an admin `ada` can both be promoted,
demoted and deleted, by one another only as the routes allow. `Restart` stops and
starts the deployment as a whole: handlers are gone, cleanup claims are given back
and the stored schedule is registered again. `config.py` asks for one instance to own
the recovery at startup; a restart of one replica beside a cleanup of another is not
modelled.

Left out: passwords and tokens, credentials and the console's own suite table,
which no property relates to anything else, and the time a claim may be retried.

### ExecutionRun

One command is one action: `application/` loads the aggregate, applies one
method of `Run` and stores it under compare-and-set on the version, so stale and
rejected commands and exact replays change nothing. Identities and digests
become positions in the histories (`asg`, `att`, `intents`). Times are stamps of
the control plane's clock. Messages of workers carry a worker and a fence, and
any attempt, current or superseded, can be addressed.

The constructors re-validate the whole history after each command
(`__post_init__`). The model leaves these checks out of the actions and states them as
the invariant `AggregateValid`: the guards of the commands are enough. Two checks are
excepted, because no command makes them and only the constructor refuses:
`WindowAccepted` (a reservation that is over when it is offered) and
`AdjudicationAccepted` (a decision about an attempt that is not unknown, or one of the
kind that is not supported yet). They are guards of `Offer` and `AppendAdjudication`,
under names of their own, and `AggregateValid` claims neither the window as offered
nor the decisions of an attempt. Everything else it claims does not depend on them:
the proof of `AggregatesAreValid` leaves both operators unopened, and with both
replaced by `TRUE` TLC finds no violation on a smaller instance (two reservations, one
decision).

Documents under `docs/greenfield/` describe further states this code does not
have yet (`10_STATE_MODEL_CONTRACT.md` calls the code a starting point for the
migration); the model follows the code.

### AssignmentStore

The gateway of `adapters/postgres_assignment.py`, which persists the first
execution of a Run (a Run in any other phase is refused, `Loadable`). A session
locks the row (`GetRunForUpdate`), takes the time, decides on the rebuilt aggregate,
writes the rows of the assignment and the attempt (`PublishOffer`, `PublishClaim`,
`PublishCommitStart`, `PublishExpire`, `PublishRelease`) and then the row of the Run
(`WriteRun`). A statement may fail at either place (`PublishFails`); the method marks
the transaction and raises, and its caller may swallow the exception, so that the
block ends normally: `Commits` is what `__aexit__` then looks at. `RollBack` is an
exception that leaves the block, or the end of the process.

What the domain allows (`MayOffer`, `MayClaim`, ...) and what the statements then
write (`AfterOffer`, `AfterClaim`, ...) are operators of the rows and the time, so
that the invariant can say of a transaction that it has staged exactly one command.
Rows with the same `offered_at` are in the order of their insertion; the query
orders them by id, and at most one of them is open.

`Refines` maps the committed rows to `ExecutionRun`, with the transaction's time as
its clock while one is open. The rows of a half-finished transaction are never in
`db`; that they never get there is what the refinement checks. The model lets the
clock move at most once while a transaction is open.

### RunRetry

`EvaluatePolicy` is `evaluate_run_retry` on the usage and the source fact of that
moment, `PickUpAdjudication` a decision a caller found, `ProposeStart` a worker with
its receipt. Each leaves a submission in `req`, which is carried out
(`QueuePolicyRetry`, `QueueAdjudicatedRetry`, `CommitRetryStart`) when policies may
have been superseded (`Supersede`), another decision appended (`Adjudicate`), the Run
cancelled, reserved, released or retried by another caller. Authorities are versions:
`AuthorityCurrent` compares the one in an intent with the current one. `rests` keeps,
for the property only, the authority that was current at the start.

The port has no PostgreSQL implementation yet; its publish is one transaction that
compares the authority and the versions in the publication with the stored ones, as
the port describes and the fake of the tests does.

The review of an unknown outcome (`domain/unknown_review.py`) is a function of when
the outcome was recorded, when a reviewer started and when it is evaluated;
`EvaluateReview` stores the result so that two evaluations can be compared.

Seconds stand for both budgets (execution time and resource units); one Run stands
for the scope of a policy.

### SuiteCatalog

One caller has one transaction at a time, and each statement of
`adapters/postgres_suite.py` and `adapters/postgres_batch.py` is a step: the lookup
(`SelectExisting`), `SELECT ... FOR UPDATE` (`LockSuite`, which waits for the row lock
and then sees what is committed, `Decides`), the inserts (`InsertSuite`,
`InsertRevision`, `InsertBatch`, which wait while another transaction has an
uncommitted row with the same key), and `SelectWinner` after the rollback to the
savepoint. `tx[p].row` is what a transaction has written; `Exit` makes it visible
unless the transaction was marked. What a caller believes of a Suite (its version, its
project, the revision) is arbitrary or old.

`RefinesCatalog` says that each transaction takes effect at its commit as one atomic
command of `SuiteContract`. Names of Suites are taken to differ.

### BatchPreexecution

The phases of a Batch (`domain/batch.py`) and the three commands that end it
before anything runs (`application/batch_preexecution.py`): request a cancel,
reconcile it into a closure, record a rejection. A command begins (`BeginCancel`,
`BeginClose`, `BeginReject`) with what its caller knows of the Batch: version,
scope and stage, which may be stale when `RequireClosureAuthority` or
`RequireRejectionAuthority` locks the row. From there each call of the gateway
in `ProvePreexecutionClosure` is a step of its own, because the transaction runs
at READ COMMITTED: `ScanExecutionChildren`, `ReadSealedTaskInventory`,
`ReadCurrentTaskLedgerPosition`, `ReadTrustedTaskStops` (with the sealed plan),
then one of the three `Publish...` actions, which commit. `Rollback` breaks a
transaction off at any of them. `RequestCancel` reads and writes only the locked
row and its facts, and is one step.

`Loadable` is `Batch.__post_init__`: the facts of a stored Batch bind to its state
and version. It is the guard of every command, because a row that is not loadable
cannot be loaded, and part of the invariant `BatchValid`.

`lock` is the row lock of `SELECT ... FOR UPDATE OF batch`. An insert that refers
to the Batch needs a key-share lock on that row and waits (`RowFree`); an update
of a task or of the ledger does not touch it and may happen between any two
statements of the proof.

The repository has no writer of Runs, tasks, ledgers and seals for a Batch yet,
only their schema, the queries that read them and tests that insert rows.
`MaterializeRun`, `StartTask`, `StopTask`, `OpenLedger`, `MoveLedger`,
`SealInventory` and `SealPlan` are those writers as the commands see them, marked
external. What is assumed of them: they look at the state of the Batch in the
statement that inserts, so that nothing is started in a Batch that is closed, a
task moves the ledger, and a seal lists the tasks of its position. Liveness is not
claimed: whether a requested cancellation is ever closed depends on writers that
do not exist yet.

A rejection that meets materialized Runs writes its handoff and then raises
`RejectionMaterializedConflict`. The callers (so far tests) catch it inside the
transaction, which commits; the model does the same.

Left out: digests, issuers and permissions (a mismatch raises before anything is
written), orphaned children (the schema's foreign keys exclude them), audit rows.

### RunFinalization and BatchFinalization

`History` is the life of the Runs as these transactions see it: reservations,
executions with a result for each item of the Run's shard, indexed evidence, lost
executions, decisions on them, retries and a cancel. `ExecutionRun` has the commands
themselves; here they are rows and versions.

A caller describes what it sees (`Candidate`), and the constructors of
`domain/run_finalization.py` decide whether that is a basis at all (`CommandValid`,
down to `OriginalValid`, `EffectiveValid` and `ResolutionValid` of each item). It
submits its candidate later: `FinalizeRun` compares versions (`PublicationBinds`),
looks for the evidence (`EvidenceBound`) and writes basis, attempt, Run and event.
A caller's only freedom is the kind of basis and whether it attaches the lineage of a
lost execution. It may do so in any phase of the Run before its closure: neither the
constructors nor the transaction look at the phase beyond "closed", at open
reservations or at pending retry intents. `RequestCancel` is that of the code: a Run
that is not executing is cancelled, also after an execution, its reservation is closed
and its retry intent stays pending. So a closed Run may have a reservation or a retry
outstanding, and what is checked is that these change nothing of it any more
(`ClosedForGood`) and that its Batch does not become ready meanwhile
(`BatchEndsOnItsRuns`). Of the decisions on a lost execution,
`mark_completed_from_verified_evidence` is one the finalization accepts and the
constructor of the Attempt does not support yet; it is kept, so that the finalization
is checked as it is written. References to retry decisions between the attempts are left out, as
a basis may leave them out.

`BatchFinalization` adds the Batch. A readiness snapshot (`ProposeReadiness`) is
compared row by row (`SourceMatches`) under the lock of the Batch, whose statement
joins the readiness fact before it waits: `LockForReadiness` and `BeginReadiness` are
two steps. `readiness` and `bbasis` are the tables of readiness facts and Batch bases:
that neither ever has a second row is part of `BatchEndsOnItsRuns`. `ProposeBatch` builds the basis of the Batch from the resolutions of its
items, `EvaluateBatchOutcome` decides, and `FinalizeBatch` rebuilds the snapshot from
the rows and publishes. `intent` (whether the Batch was cancelled) is fixed in `Init`:
no code cancels a Batch whose Runs are finalized. Every item belongs to the shard of
a Run, so that an item that was not executed cannot occur.

### Outbox

One transaction of `adapters/postgres_outbox_publisher.py` is one action:
`ClaimBatch`, `RecordSuccess`, `RecordFailure`, `RepairStuckLeases`; the delivery
between them (`DeliverySucceeds`, `DeliveryRaises`) is outside any transaction,
and a sink that raises may have received the event or not. `Abandon` is a process
that stops, or a query that raises out of `publish_pending`, with rows in its
hands. `InsertOutbox` is the insert of a unit of work. `held`, `snap` and `doing`
are the local variables of `publish_pending`: `snap` is the `attempts` its claim
returned, from which `_record_delivery_failure` computes the new count.

Time is kept as far as the queries compare it: a pending row becomes `due` when
`available_at` has passed (`BecomesDue`), a leased row becomes `overdue` when
`leased_at` is older than the timeout (`LeaseGrowsOld`). A lease may grow old in
the hands of a publisher that is only slow; that publisher then records its
result on a row which is pending, leased by another one, or settled.

Left out: payload, digest and `last_error`, which no query looks at.

## Runs

| Run | Instance | Shows |
|---|---|---|
| `lifecycle` | 2 runs, a capped user (limit 1) and the exempt scheduler, 1 slot, 1 stop, 1 failing store call; 1.9 M states | slots add up, at most one start, the cap, no orphaned running row, no results on a cancelled row, a run stopped before its start is not started, outcomes are final; rows refine `RunContract` |
| `lifecycle_liveness` | 2 runs, 1 slot, 1 stop, no failing call, one node name; fairness | every accepted run leaves queued and running |
| `lifecycle_terminal` | 1 run | *violated*: a cancelled row is overwritten by the save that was under way |
| `console` | 2 accounts, 2 replicas, 2 handlers at a time, 3 requests, of which 1 may be a restart, clock to 3; 1.1 M states | an admin remains, a cron tick creates one run, a lock keeps artifacts from the cleanup |
| `execution` | 1 worker, 3 reservations, 2 executions, 2 adjudications, clock to 2; 1.1 M states | the commands keep the aggregate valid; retries are authorized; one live execution, superseded ones frozen; a cancel is the end of starts; the first fact stands |
| `assignment_store` | 2 workers, 2 sessions, 3 reservations, clock to 3; 0.4 M states | the committed rows implement `ExecutionRun` |
| `retry` | 2 callers, one suite and two platform retries, 2 seconds, 2 executions, 2 decisions, 2 policy versions; 3.1 M states | the budget holds, retries are covered, escalations stand |
| `suites` | 2 Suites, revisions, projects, keys, requests, Batches and callers; 0.6 M states | transactions implement `SuiteContract`; answers stand |
| `batch_preexecution` | 2 callers, 2 cancel keys, 1 rejection, 1 Run, 2 tasks, 1 ledger move, 1 rollback; 3.0 M states | a closed Batch has no Run and no running task, every stored Batch can be loaded again, closures and handoffs are announced once, the first cancellation stands |
| `finalization` | a Run with one item and a retry, a Run with two items, 2 callers, one failed test allowed; 1.2 M states | a closed Run rests on its last execution and stays as it is; a lost execution stays visible; a Batch ends on its Runs; succeeded means executed |
| `finalization_infra` | 1 Run, 1 caller; fairness | *violated*: a Run written off as infrastructure failure is never closed |
| `outbox` | 2 rows, 2 publishers, batches of 2, 2 attempts, 1 stop, 1 slow delivery; 0.4 M states; fairness | published means delivered, quarantine is earned, a poison event is delivered a bounded number of times, settled rows are left alone, every event is published or quarantined in the end |

**Bounds.** `MaxStops` and `MaxFailures` bound crashes and failing calls in a
behaviour; one of each, at any point, reaches every pair (failure, recovery) of
a run. Two runs are needed for competition over the slot and the cap; a third
adds no new pair. Two executions at once, and any number of runs and slots, are
covered by the proofs.
In `ExecutionRun` two executions make a retry; two instants put expiry before, at and
after a command; two adjudications let one supersede another.
In `AssignmentStore` two sessions race for the lock, and three reservations let one
expire, one be released and one start.
In `RunRetry` two versions let a policy be superseded once at any point; `Ttl` and
`Sla` are as short as the clock allows, so that an acceptance can expire and a review
be late; `MaxReleases` bounds how often a reservation is given back.
In `SuiteCatalog` two of everything let any two transactions collide on a Suite, a
revision, a key or an id; a caller starts as many transactions as there are ids to use.
In `Console`, `MaxRequests` is three requests beside the fires of schedules: two that
race and one that prepares or follows them; a restart takes the place of one.
In `BatchFinalization` one Run is retried beside one with two items, which is the
smallest Batch with a retry, a partial result and a choice among outcomes.
In `Outbox`, `MaxStops` and `MaxSlow` bound abandoned batches and leases that
expire in the hands of their publisher; one of each lets two publishers hold the
same row, with the rest of an abandoned batch next to it. Two attempts make a
retry and a quarantine. In `BatchPreexecution`, `MaxMoves` and `MaxFaults` bound
ledger versions without a task and broken transactions; two callers meet in every
order, two tasks let one be stopped while the other runs, and the phases bound
the versions.
Behaviours end when the bounds are used up, and a Run, a Batch or an empty outbox may
rest for good: only the `RunLifecycle` and `suites` runs check deadlock. The server
never stops (the poller keeps polling, or the process is down and starts); in
`SuiteCatalog` a caller can always give up, so the check says little there.

**Fairness** (`FairSpec` of `RunLifecycle`). The event loop runs what is ready: weak
fairness of the poller, of each execution and of handlers that have begun. An
execution ends because the runner enforces the timeout. The process is started again
(`docker-compose.yml`: `restart: unless-stopped`). Nobody is obliged to create,
cancel, delete, crash or shut down, and a drain that waits need not time out.
In `Outbox`, `publish_pending` and `repair_stuck_leases` are polled: the latter's
docstring calls it "idempotent and safe to poll", the repository has no caller of
either outside its tests yet, and `EveryEventSettles` is what such a caller gets.
A delivery returns or raises, and time passes. Nobody is obliged to insert, to
stop or to be slow.
In `BatchFinalization` (`LiveSpec`) a Run that can be proposed for closure again and
again is proposed, and a command that could be carried out again and again is not
given up every time. With the check on evidence removed from `FinalizeRun` the same
run passes: it is that check, not the fairness, that the counterexample is about.

## Where documents and code differ

Two runs end in a counterexample to a sentence of the documentation; the findings in
`PROJECT.json` quote it.

- `lifecycle_terminal`: cancelled is documented as terminal; a save that was under way
  overwrites it.
- `finalization_infra`: the state model closes an unknown execution that was decided
  `mark_infra_failed_no_retry`; the basis of such a closure must have no evidence root
  and the gateway refuses an execution without one.

Others met while modelling; the modules follow the code.

- `delete_run` says that "a run the caller asked to delete always leaves the store";
  the upsert of an execution that was cancelled and has yet to save inserts the row
  again (`Reinsert` in `RunContract`).
- The docstring of `execute` says that "Top-level try/except guarantees the run never
  stays in RUNNING."; `store.get` and `registry.get` run before the `try`, and when
  one raises the row stays running until the next start.
- `README.md` and `config.py` say that runs cancelled by the drain are "recovered as
  FAILED on the next start"; the `CancelledError` branch of `execute` saves them as
  cancelled. `config.py` also says that startup fails queued runs; `MarkInterruptedRuns`
  leaves them queued.
- `mark_interrupted_runs` recovers the rows of its own `worker_node_id`, by default the
  host name: a container that is recreated under another name leaves the old rows
  running. `EveryRunSettles` is claimed for a stable name.
- `save_schedule` leaves `last_run_at` alone so that an edit cannot make a tick run
  twice; an edit that read the schedule before its deletion inserts it again with the
  `last_run_at` it read, and a tick claimed in between runs again.
- Two edits of one schedule, one enabling and one disabling it, save and register in
  different orders: the row may be enabled without a job until the next start.
- `delete_user` removes what the account owns before the guarded delete of the account:
  when that finds the last admin, everything but the account is gone. Edits under way
  insert rows of the deleted account again.
- `docs/greenfield/04_DETAILED_DESIGN.md` answers the same request under the same key
  with the original response; `_require_suite_accepts` comes first, so a replay after
  the Suite was retired is refused. A registration repeated after a later revision is
  answered `already_exists`.
- A readiness command that waited for the row lock sees the new state of the Batch and
  the old join with its readiness fact: an exact replay is answered with a conflict and
  succeeds when it is repeated.
- `10_STATE_MODEL_CONTRACT.md` keeps the lineage of every lost execution;
  `RunItemResolution` requires it only when the first one was lost, and a candidate may
  omit it for a later one. `UnknownStaysVisible` is stated for the first.
- `10_STATE_MODEL_CONTRACT.md` ends a cancelled retry with its intent and closes its
  Run on the outcome of its last execution, or returns it to review; it wants a closed
  Run without a current Assignment or pending RetryIntent. `Run.request_cancel` makes
  the Run cancelled and leaves `pending_retry_intent_id`; no code moves a row of
  `qep_retry_intents` out of `pending`, and the finalization does not look there. A Run
  whose last execution failed can then be closed, but the readiness query still finds
  its pending intent and its Batch never becomes ready; one whose last execution was
  lost with a retry decided cannot be closed at all. TLC finds such closed Runs at once
  when `r \notin open \cup pending` is added to `ClosedRestsOnLastAttempt`.
- A chain of retries that mixes a policy's with an adjudicated one has no valid list of
  decision references; a basis that lists none is accepted.

## Proofs

`RunLifecycle_proofs` proves, for every number of runs, users, nodes and slots,
every limit and every bound:

| Theorem | Property |
|---|---|
| `TypeCorrect` | `TypeOK` |
| `SlotsAddUp` | `SlotAccounting` |
| `AtMostOnce` | `ExecutedAtMostOnce` |
| `CapHolds` | `InflightCap` |
| `NoOrphans` | `RunningIsOwned` |
| `CancelledIsBare` | `CancelledCarriesNoResults` |
| `NoLateStart` | `NoStartAfterCancel` |
| `OutcomesStick` | `OutcomeIsSticky` |
| `Refinement` | `RefinesContract` |

None of the properties is inductive by itself: whether a save is harmless
depends on where its task is and on what the row held when the task got there.
The inductive invariant `IInv` says just that.

- `PollerOwnsClaim`: the poller runs exactly while the server is up, and a claimed
  run has no task and was never started.
- `TaskAgreesWithRow`: for each program counter, which statuses the row may have
  and what the task will write over it. A task up to its final save finds running,
  cancelled or deleted; after the commit the row holds the outcome or is deleted.
- `RowHistory`: a row that is not dequeued has no task and no start; only
  finished or deleted rows carry results.

`InitIInv` and `Inductive` prove it, with one step for each action; `TypeCorrect`,
`AtMostOnce` and `CancelledIsBare` are consequences. The others are inductive
relative to `IInv`: `SlotStep` counts the tasks with the cardinality theorems,
`CapStep` uses that no step but a create makes a row in flight
(`NothingElseSubmits`), `OwnerStep` strengthens `RunningIsOwned` by
`SignalledIsCancelled` (a task told to stop has a cancel handler behind it),
`StoppedStep` shows that no step revives a run stopped before its start,
`OutcomesStick` looks at single steps, and `ContractStep` maps
every step to a step of `RunContract` or to none (the variables have the same
names, so the mapping is the identity on `status`).

`NoLateStart` is about steps; `StoppedNeverStarts` says the same of a behaviour: from
the moment a task is told to stop before it called the runner, or its row has ended
before the task read it, `starts` stays zero for good.

The assumptions on constants are the named `ASSUME`s of `RunLifecycle`: at least
one slot, natural bounds, finitely many run ids, some node and some user, exempt
users among the users.

`Gateways_proofs` proves of `Outbox`, for every finite set of rows and publishers,
every `max_attempts` and `limit`, and every number of stops and slow deliveries:

| Theorem | Property |
|---|---|
| `OutboxTypeCorrect` | `TypeOK` |
| `AtLeastOnce` | `PublishedWasDelivered` |
| `NoEarlyQuarantine` | `QuarantineIsEarned` |
| `PoisonIsBounded` | `DeliveriesBounded` |
| `SettledForGood` | `SettledIsFinal` |

Its inductive invariant adds `PublisherMemory` to the rows: a publisher remembers
no more failures than there were, the one it has yet to record included, and a
success it has yet to record has reached the sink. That is what makes a late
record harmless, although it checks only that the row is leased and not by whom.

`DeliveriesBounded` needs more than what happened: it needs what can still happen.
Several publishers may hold claims of one row, each counts on from the `attempts` its
own claim returned, and a record of one sets back the count of another.
`FailuresBudgeted` therefore adds, to the failures that were, those that each
publisher can still count on the row (`Above(Counted(e))`, a set of pairs of a
publisher and a number, so that the sum is a cardinality) and those that a later claim
can (`ClaimsAhead`), and says that `max_attempts * (repairs + 1)` covers them all. A
delivery that fails takes one from the publisher's part and adds it to the failures; a
claim moves what was ahead to the publisher; a record that makes the row pending again
moves it back; a repair, and nothing else, makes a claim possible next to one in hands,
for which the right-hand side grows. `CountsEnd` says that no claim is handed out at
the limit.

The assumptions are the named `ASSUME`s of `Outbox`: positive `max_attempts`
(the constructor refuses less) and `limit`, natural bounds, finitely many rows and
publishers.

Of `AssignmentStore` it proves, for any sessions, workers, clock and number of
reservations:

| Theorem | Property |
|---|---|
| `StoreImplementsRun` | `Refines` |

`StoreInv` is the invariant. The rows by themselves have one open reservation, the
last, exactly while the Run is assigned, and no attempt before the Run is running
(`RowsOK`): otherwise the reservation that `get_run_for_update` takes for the active
one need not be the current one of the aggregate. The lock is held by whoever has a
transaction, so the committed rows stay as they were loaded, and what the transaction
has staged is what one command makes of them at the time it read (`OneCommand`,
`TransactionOK`), unless it is marked. So `Exit` is that command of `ExecutionRun`
(`CommandImplements`) or leaves the rows alone, a clock that moved on while the lock was
held shows when it is released, and every other step changes nothing that the
aggregate shows.

`Console_proofs` proves, for any finite set of accounts and any number of replicas,
handlers, requests, restarts and ticks:

| Theorem | Property |
|---|---|
| `AnAdminRemains` | `AdminRemains` |
| `TicksFireOnce` | `OneRunPerTick` |
| `LocksHold` | `LockKeepsArtifacts` |

`AdminRemains` is inductive as it stands: each statement that takes an administrator
away counts them in the same statement (`AnotherAdmin`). The other two are not.
`LastRunCovers` says that `last_run_at` of the stored row is at least every tick
claimed on it, so the compare-and-set of a later claim excludes them all;
`CleanerHoldsClaim` says that one cleanup at a time holds the run, which stays
unlocked and claimed until that cleanup finishes.

`ExecutionRun_proofs` proves, for any workers and any number of reservations,
executions, decisions and events:

| Theorem | Property |
|---|---|
| `AggregatesAreValid` | `AggregateValid` |
| `OneAttemptLives` | `OneLiveAttempt` |
| `RetriesHaveAuthority` | `RetriesAreAuthorized` |
| `CancelStopsExecutions` | `NoExecutionAfterCancel` |
| `SupersededStaysFrozen` | `SupersededIsFrozen` |
| `FirstFactsStand` | `FirstFactStands` |

`AggregateValid` is what the constructors check beyond `WindowAccepted` and
`AdjudicationAccepted`, which the proof leaves unopened, and it is nearly enough by itself:
the histories, pointers and tails it relates pin the state down. What it lacks is
`OneLiveAttempt` (a command of a worker finds the execution it thinks it has) and
`RecordedByNow` (no time on record is ahead of the clock, or a new record could be
out of order). The commands fall into groups with one lemma each
(`ReservationsAlone`, `AttemptsAlone`, `ReservationCloses`, ...): which histories a
command touches decides which conjuncts it can disturb. The three action properties
look at single steps and use the invariant to exclude that a superseded, cancelled
or finished execution is the live one.

`RunRetry_proofs` proves, for any callers, clock, deadlines, policies and number of
executions and decisions:

| Theorem | Property |
|---|---|
| `RetriesHaveCover` | `RetriesAreCovered` |
| `BudgetsHold` | `BudgetRespected` |
| `EscalationsStand` | `EscalationStands` |

Its invariant says that the receipts are one for each execution that was repeated, in
that order, and a last one while a retry is pending (`PendingOK`, `ReceiptsInOrder`,
`StartedFromReceipts`), and that a caller's decision to queue is right as long as the
Run has the version it was made on (`QueueRequestOK`). Every step that could make
such a decision wrong moves the version (`MovedOn`); once a retry is pending, the
execution it repeats stays as it is. `EscalatedIsLate` says that what was escalated
is late: later evaluations can only find the same.

For the budget, `QueueRequestOK` also says that a decision under a policy can still be
afforded (`Affords`) as long as the Run has the version it was made on, although the
usage it was computed from is older than the command. The seconds spent are the number
of elements of `Seconds`, one for each second of each receipt: a new receipt adds a
set of its own, and no induction over the receipts is needed.

`SuiteCatalog_proofs` proves, for any Suites, revisions, projects, keys, requests,
Batches and callers:

| Theorem | Property |
|---|---|
| `AnswersHold` | `AnswersStand` |
| `CatalogRefined` | `RefinesCatalog` |

The invariant is about open transactions: row locks exclude each other and unique keys
hold over committed and staged rows alike (`Exclusive`), and what a transaction has
staged is what the abstract command would write on the rows as they are now
(`RegisterReady`, `ChangeReady`, `CreateReady`). So `Exit`, which makes it visible, is
a step of `SuiteContract` (`SuiteCommit`, `BatchCommit`), and every other step leaves
the committed rows alone.

`BatchPreexecution_proofs` proves, for any callers, keys, Runs and tasks and any
number of ledger moves and rollbacks:

| Theorem | Property |
|---|---|
| `ClosedBatchesAreIdle` | `ClosedMeansIdle` |
| `StoredBatchesLoad` | `BatchValid` |
| `EventsAgree` | `EventsMatchFacts` |
| `FirstCancelStands` | `CancelStands` |

`LockedFactsStand` is the heart of it: what a command found when it locked the row
(`AuthorityStands`) and what each statement of the proof has established since
(`EvidenceStands`) is still so at every later statement, although writers that do not
need the row go on between them.

`BatchFinalization_proofs` proves, for any Runs, items, callers, retries and policy:

| Theorem | Property |
|---|---|
| `ClosedRunsRest` | `ClosedRestsOnLastAttempt` |
| `ClosedRunsStand` | `ClosedForGood` |
| `UnknownIsVisible` | `UnknownStaysVisible` |
| `BatchesEnd` | `BatchEndsOnItsRuns` |
| `SuccessIsExecuted` | `SuccessMeansExecuted` |

A candidate is valid by the constructors for good (`WellFormed`) and true of its Run
as long as the version it was read at is current (`RunRequestOK`, `Describes`). The
index of evidence is the one writer that does not move the version; `Settled` says
that it has nothing left to change on a Run that can be described. Nothing here needs
the phase of the Run, its reservations or its retries. A closed Run keeps
that description (`ClosedOK`), the readiness fact holds the bases of its Runs
(`ReadinessStands`), and the outcome of the Batch is the one its items classify to:
from there the properties of the outcome are about finite sets of items.

Every inductive invariant was checked by TLC on the instance of its component's run
before it was proved.

**Assumptions.** All are named `ASSUME`s which TLC evaluates in the runs. Bounds are
natural numbers (for the clock of `ExecutionRun`, positive). `Console`: finitely many
accounts, one of them the owner and one another, as the deployment bootstraps an
administrator. `SuiteCatalog`, `BatchPreexecution`, `RunRetry` and
`BatchFinalization`: the value that stands for "nothing" is none of the things it is
told apart from. `BatchFinalization`: finitely many items, in shards that are nonempty
and disjoint, as `domain/manifest.py` makes them.

**Only model-checked.** `EveryRunSettles` and `EveryEventSettles`: liveness under
fairness is outside the prover's reach. The two runs that end in a counterexample have
nothing to prove. Every invariant, every action property and every refinement that a
passing run checks is a theorem.

## Plan

The plan is carried out: the parts of the system that keep state are modelled, and what
the runs check is proved except as said above. What is worth doing when the code goes
on:

1. A second gateway for the retry path, when the repository gets one
   (`postgres_assignment.py` rebuilds every Run without retries): the mapping of
   `AssignmentStore` leaves `intents` and `pending` empty until then.
2. Workers and the unit of work, as soon as a command or a process uses them.

## Not modelled

- **Workers** (`domain/worker*.py`, `bounded_queue.py`, `secret_delivery.py`,
  `target_access.py`, `resource_profile.py`): immutable values whose methods return a
  new value. No caller, store or process in the repository makes two of them meet, so
  there is no behaviour beyond single method calls yet.
- **Unit of work** (`adapters/postgres_application_uow.py`): a generic store of
  versioned facts without a command that uses it. What it has in common with the other
  gateways (a marked transaction is rolled back, replay by key) is modelled there.
- **Manifests, shard plans, result analysis** (`domain/manifest.py`, `core/flaky.py`,
  `core/regression.py`, `core/trend.py`): pure functions without state. The shards of
  `BatchFinalization` are a constant.
- **Login throttle and rate limit**: synchronous functions over a table in memory;
  nothing interleaves with them.
- **Passwords, tokens, credentials, profiles' contents**: rows that no property relates
  to anything else.
- **Runners, collectors, reporters, analyzers, notifications** (I/O; their outcomes are
  choices of the model), **migrations** (run once), the **frontend**, immutable values,
  digests and permission tables, and the formatting of API answers.
