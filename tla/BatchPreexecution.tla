-------------------------- MODULE BatchPreexecution --------------------------
(***************************************************************************)
(* One Batch until its Runs execute: its phases (domain/batch.py), the     *)
(* commands that cancel, close and reject it                               *)
(* (application/batch_preexecution.py), the proof that nothing was started *)
(* (application/preexecution_proof.py) and their transactions              *)
(* (adapters/postgres_batch_cancellation.py).                              *)
(*                                                                         *)
(* Each command locks the row of the Batch, but its authority, its         *)
(* expected version and its scope were read before.  The proof reads one   *)
(* table after the other at READ COMMITTED.  While the row is locked the   *)
(* foreign keys keep out inserts of Runs, tasks and seals, but not the     *)
(* updates that stop a task or move the ledger.                            *)
(*                                                                         *)
(* The writers of Runs, tasks, ledger and seals are not in the repository; *)
(* they are modelled as these commands and the schema see them.            *)
(***************************************************************************)
EXTENDS Naturals, FiniteSets

CONSTANTS
    Procs,       \* callers of the commands
    Keys,        \* idempotency keys of cancel requests
    Rejections,  \* rejection ids
    Runs,        \* Runs the plan may materialize
    Tasks,       \* task generations of the phases before execution
    MaxMoves,    \* bound: ledger versions opened without a task
    MaxFaults,   \* bound: transactions that break off
    NoProc, NoFact

ASSUME BatchBounds == MaxMoves \in Nat /\ MaxFaults \in Nat
ASSUME ProcsAssumption == NoProc \notin Procs

VARIABLES
    state, version, intent, rejection, basis,  \* the Batch and its facts
    handoffs,                                  \* materialized-scope handoffs
    sent,                                      \* outbox events of each kind
    runs, task, ledger, seals, planSealed,     \* what others write
    lock,                                      \* who holds the row lock
    pc, cmd,                                   \* the commands under way
    moves, faults

batchVars == <<state, version, intent, rejection, basis, handoffs, sent>>
otherVars == <<runs, task, ledger, seals, planSealed, moves>>
procVars  == <<pc, cmd>>
vars      == <<batchVars, otherVars, lock, procVars, faults>>

Phases   == {"draft", "validating", "collecting", "planning", "awaiting_admission", "queued"}
Closed   == {"cancelled", "rejected"}
States   == Phases \cup {"running"} \cup Closed
Scopes   == {"pre_plan", "frozen_plan"}
Stages   == {"validation", "collection", "planning", "admission"}
Events   == {"cancel_requested", "cancelled", "rejected", "handoff"}
Steps    == {"scan", "handoff", "inventory", "position", "stops", "publish"}

AllowedTransitions ==
    [draft |-> "validating", validating |-> "collecting", collecting |-> "planning",
     planning |-> "awaiting_admission", awaiting_admission |-> "queued", queued |-> "running"]

StageByPhase ==
    [validating |-> "validation", collecting |-> "collection", planning |-> "planning",
     awaiting_admission |-> "admission"]

\* BatchCancellationIntent, BatchRejection and BatchPreexecutionClosureBasis as stored.
Intents == [key : Keys, source : Nat, scope : Scopes]
Facts   == [id : Rejections, source : Nat, stage : Stages]
Bases   == [kind : {"rejection", "prestart_cancel"}, source : Nat, phase : Phases, scope : Scopes]

ASSUME FactAssumption == NoFact \notin Intents \cup Facts \cup Bases

ExpectedScope(s) == IF s \in {"awaiting_admission", "queued"} THEN "frozen_plan" ELSE "pre_plan"

NoCommand == [op |-> "none", id |-> NoFact, version |-> 0, scope |-> "pre_plan",
              stage |-> NoFact, seen |-> {}, at |-> 0]

Started == {t \in Tasks : task[t] # "none"}
Stopped == {t \in Tasks : task[t] = "stopped"}

Init ==
    /\ state = "draft" /\ version = 0
    /\ intent = NoFact /\ rejection = NoFact /\ basis = NoFact
    /\ handoffs = {} /\ sent = [e \in Events |-> 0]
    /\ runs = {} /\ task = [t \in Tasks |-> "none"]
    /\ ledger = 0 /\ seals = {} /\ planSealed = FALSE
    /\ lock = NoProc
    /\ pc = [p \in Procs |-> "idle"] /\ cmd = [p \in Procs |-> NoCommand]
    /\ moves = 0 /\ faults = 0

----------------------------------------------------------------------------
(* What Batch.__post_init__ checks whenever a Batch is built or loaded. *)

PendingCancelBinds ==
    /\ state \in Phases
    /\ intent.source + 1 = version
    /\ intent.scope = ExpectedScope(state)

\* BatchPreexecutionClosureBasis
BasisValid(b) ==
    /\ b.kind = "rejection" => b.phase \in DOMAIN StageByPhase
    /\ b.kind = "prestart_cancel" => b.phase \in Phases
    /\ b.scope = ExpectedScope(b.phase)

CancelBasisBinds ==
    /\ state = "cancelled" /\ intent # NoFact /\ rejection = NoFact
    /\ intent.source + 1 = basis.source
    /\ intent.scope = basis.scope

RejectionBinds ==
    /\ state = "rejected" /\ rejection # NoFact /\ intent = NoFact
    /\ rejection.source = basis.source
    /\ rejection.stage = StageByPhase[basis.phase]

Loadable ==
    IF basis = NoFact
    THEN rejection = NoFact /\ (intent # NoFact => PendingCancelBinds)
    ELSE /\ BasisValid(basis) /\ basis.source + 1 = version
         /\ IF basis.kind = "rejection" THEN RejectionBinds ELSE CancelBasisBinds

----------------------------------------------------------------------------
(* The writers outside: inserts that refer to the Batch wait for its row. *)

RowFree == lock = NoProc

\* Fault: the phase moves on under a pending cancellation.
MayAdvanceRegardless == state \in DOMAIN AllowedTransitions

MayAdvance == state \in DOMAIN AllowedTransitions /\ intent = NoFact

\* Batch.transition, by the owner of the phase.
Transition ==
    /\ RowFree /\ MayAdvance
    /\ state' = AllowedTransitions[state]
    /\ version' = version + 1
    /\ UNCHANGED <<intent, rejection, basis, handoffs, sent, otherVars, lock, procVars, faults>>

\* A frozen plan is turned into Runs; a cancel may have been requested.
MaterializeRun(r) ==
    /\ RowFree /\ r \notin runs
    /\ state \in {"awaiting_admission", "queued", "running"}
    /\ runs' = runs \cup {r}
    /\ UNCHANGED <<batchVars, task, ledger, seals, planSealed, moves, lock, procVars, faults>>

StartTask(t) ==
    /\ RowFree /\ ledger > 0 /\ task[t] = "none" /\ state \in Phases
    /\ task' = [task EXCEPT ![t] = "started"]
    /\ ledger' = ledger + 1
    /\ UNCHANGED <<batchVars, runs, seals, planSealed, moves, lock, procVars, faults>>

\* An update: the lock of the Batch row does not keep it out.
StopTask(t) ==
    /\ task[t] = "started"
    /\ task' = [task EXCEPT ![t] = "stopped"]
    /\ UNCHANGED <<batchVars, runs, ledger, seals, planSealed, moves, lock, procVars, faults>>

OpenLedger ==
    /\ RowFree /\ ledger = 0 /\ state \in Phases
    /\ ledger' = 1
    /\ UNCHANGED <<batchVars, runs, task, seals, planSealed, moves, lock, procVars, faults>>

\* A new ledger version, an update as well.
MoveLedger ==
    /\ moves < MaxMoves /\ ledger > 0
    /\ moves' = moves + 1
    /\ ledger' = ledger + 1
    /\ UNCHANGED <<batchVars, runs, task, seals, planSealed, lock, procVars, faults>>

\* The inventory of the tasks so far is sealed at the position of the ledger.
SealInventory ==
    /\ RowFree /\ ledger > 0
    /\ ~\E s \in seals : s.at = ledger
    /\ seals' = seals \cup {[at |-> ledger, tasks |-> Started]}
    /\ UNCHANGED <<batchVars, runs, task, ledger, planSealed, moves, lock, procVars, faults>>

SealPlan ==
    /\ RowFree /\ ~planSealed
    /\ state \in {"awaiting_admission", "queued"}
    /\ planSealed' = TRUE
    /\ UNCHANGED <<batchVars, runs, task, ledger, seals, moves, lock, procVars, faults>>

----------------------------------------------------------------------------
(* Commands.  A command begins with what its caller knows of the Batch. *)

Begin(p, op, id) ==
    /\ pc[p] = "idle"
    /\ pc' = [pc EXCEPT ![p] = "authority"]
    /\ cmd' = [cmd EXCEPT ![p] = [NoCommand EXCEPT
                  !.op = op, !.id = id, !.version = version, !.scope = ExpectedScope(state),
                  !.stage = IF state \in DOMAIN StageByPhase THEN StageByPhase[state] ELSE NoFact]]
    /\ UNCHANGED <<batchVars, otherVars, lock, faults>>

BeginCancel(p) == \E k \in Keys : Begin(p, "cancel", k)
BeginClose(p)  == Begin(p, "close", NoFact)
BeginReject(p) == \E i \in Rejections : Begin(p, "reject", i)

Ends(p) ==
    /\ pc' = [pc EXCEPT ![p] = "idle"]
    /\ cmd' = [cmd EXCEPT ![p] = NoCommand]

NewIntent(p) == [key |-> cmd[p].id, source |-> cmd[p].version, scope |-> cmd[p].scope]

\* Fault: a request with another key replaces the stored one.
AcceptsOtherKey(p) ==
    /\ intent = NoFact \/ intent.key # cmd[p].id
    /\ state \in Phases
    /\ version = cmd[p].version
    /\ cmd[p].scope = ExpectedScope(state)

\* A stored intent is returned or the request refused: either way it stands.
AcceptsCancel(p) ==
    /\ intent = NoFact /\ rejection = NoFact
    /\ state \in Phases
    /\ version = cmd[p].version
    /\ cmd[p].scope = ExpectedScope(state)

PublishCancellation(p) ==
    /\ intent' = NewIntent(p)
    /\ version' = version + 1
    /\ sent' = [sent EXCEPT !["cancel_requested"] = @ + 1]

\* RequestBatchCancellation: one transaction on the locked row.
RequestCancel(p) ==
    /\ pc[p] = "authority" /\ cmd[p].op = "cancel" /\ RowFree
    /\ IF Loadable /\ AcceptsCancel(p) THEN PublishCancellation(p) ELSE UNCHANGED <<intent, version, sent>>
    /\ Ends(p)
    /\ UNCHANGED <<state, rejection, basis, handoffs, otherVars, lock, faults>>

Locks(p) ==
    /\ lock' = p
    /\ pc' = [pc EXCEPT ![p] = "scan"]
    /\ UNCHANGED cmd

Unlock == lock' = NoProc

EndTransaction(p) == Unlock /\ Ends(p)

\* require_closure_authority and the checks on the loaded Batch.
MayClose(p) ==
    /\ version = cmd[p].version
    /\ intent # NoFact /\ basis = NoFact
    /\ intent.source + 1 = cmd[p].version
    /\ intent.scope = cmd[p].scope

RequireClosureAuthority(p) ==
    /\ pc[p] = "authority" /\ cmd[p].op = "close" /\ RowFree
    /\ IF Loadable /\ MayClose(p) THEN Locks(p) ELSE Ends(p) /\ UNCHANGED lock
    /\ UNCHANGED <<batchVars, otherVars, faults>>

\* require_rejection_authority and the checks on the loaded Batch.
MayReject(p) ==
    /\ version = cmd[p].version
    /\ state \in DOMAIN StageByPhase
    /\ cmd[p].stage = StageByPhase[state]
    /\ rejection = NoFact /\ intent = NoFact

RequireRejectionAuthority(p) ==
    /\ pc[p] = "authority" /\ cmd[p].op = "reject" /\ RowFree
    /\ IF Loadable /\ MayReject(p) THEN Locks(p) ELSE Ends(p) /\ UNCHANGED lock
    /\ UNCHANGED <<batchVars, otherVars, faults>>

----------------------------------------------------------------------------
(* ProvePreexecutionClosure: children, sealed inventory, stops, plan. *)

Goto(p, step) == pc' = [pc EXCEPT ![p] = step]

\* A step of the proof: when it does not hold the transaction is rolled back.
Proves(p, from, holds, to, known) ==
    /\ pc[p] = from
    /\ IF holds
       THEN Goto(p, to) /\ cmd' = [cmd EXCEPT ![p] = known] /\ UNCHANGED lock
       ELSE EndTransaction(p)
    /\ UNCHANGED <<batchVars, otherVars, faults>>

ScanExecutionChildren(p) ==
    /\ pc[p] = "scan"
    /\ Goto(p, IF runs = {} THEN "inventory" ELSE "handoff")
    /\ cmd' = [cmd EXCEPT ![p].seen = runs]
    /\ UNCHANGED <<batchVars, otherVars, lock, faults>>

\* The seal of the current position, of which the tasks must be a match.
SealedAt(n) == \E s \in seals : s.at = n /\ s.tasks = Started

ReadSealedTaskInventory(p) ==
    Proves(p, "inventory", SealedAt(ledger), "position",
           [cmd[p] EXCEPT !.seen = Started, !.at = ledger])

\* The ledger is read once more: it must not have moved on since.
ReadCurrentTaskLedgerPosition(p) ==
    Proves(p, "position", ledger = cmd[p].at, "stops", cmd[p])

\* Fault: the tasks that are still running are not missed.
StopsWereIssued(p) == Stopped \subseteq cmd[p].seen

StopsCover(p) == Stopped = cmd[p].seen

PlanReady(p) == cmd[p].scope = "frozen_plan" => planSealed

ReadTrustedTaskStops(p) ==
    Proves(p, "stops", StopsCover(p) /\ PlanReady(p), "publish", cmd[p])

----------------------------------------------------------------------------
Fact(p) == [id |-> cmd[p].id, source |-> cmd[p].version, stage |-> cmd[p].stage]

\* assemble_zero_child_snapshot
Snapshot(p) == [source |-> version, scope |-> cmd[p].scope]

Basis(p, kind) ==
    [kind |-> kind, source |-> Snapshot(p).source, phase |-> state, scope |-> Snapshot(p).scope]

CancelScopeBinds(p) == intent # NoFact /\ Snapshot(p).scope = intent.scope

Trigger(p) == IF cmd[p].op = "close" THEN intent ELSE Fact(p)

\* Fault: a repeated handoff is published again.
HandoffUnknown(p) == FALSE

HandoffStored(p) == \E h \in handoffs : h.trigger = Trigger(p)

\* The same handoff is a replay, a different one a conflict: both change nothing.
\* A rejection then raises; its caller catches that inside the transaction, which
\* commits the handoff.
PublishMaterializedHandoff(p) ==
    /\ pc[p] = "handoff"
    /\ IF HandoffStored(p)
       THEN UNCHANGED <<handoffs, sent>>
       ELSE /\ handoffs' = handoffs \cup
                  {[trigger |-> Trigger(p), source |-> cmd[p].version, runs |-> cmd[p].seen]}
            /\ sent' = [sent EXCEPT !["handoff"] = @ + 1]
    /\ EndTransaction(p)
    /\ UNCHANGED <<state, version, intent, rejection, basis, otherVars, faults>>

FinalizeUnmaterializedCancel == state' = "cancelled" /\ version' = version + 1
RejectPreexecution           == state' = "rejected" /\ version' = version + 1

InsertRejection(p)            == rejection' = Fact(p)
InsertPreexecutionBasis(b)    == basis' = b
InsertTerminalOutbox(event)   == sent' = [sent EXCEPT ![event] = @ + 1]

\* The aggregate checks the snapshot once more: an error rolls back.
PublishPreexecutionClosure(p) ==
    /\ pc[p] = "publish" /\ cmd[p].op = "close"
    /\ LET b == Basis(p, "prestart_cancel")
       IN  IF CancelScopeBinds(p) /\ BasisValid(b)
           THEN FinalizeUnmaterializedCancel /\ InsertPreexecutionBasis(b)
                /\ InsertTerminalOutbox("cancelled")
           ELSE UNCHANGED <<state, version, basis, sent>>
    /\ EndTransaction(p)
    /\ UNCHANGED <<intent, rejection, handoffs, otherVars, faults>>

PublishPreexecutionRejection(p) ==
    /\ pc[p] = "publish" /\ cmd[p].op = "reject"
    /\ LET b == Basis(p, "rejection")
       IN  IF BasisValid(b)
           THEN RejectPreexecution /\ InsertRejection(p) /\ InsertPreexecutionBasis(b)
                /\ InsertTerminalOutbox("rejected")
           ELSE UNCHANGED <<state, version, rejection, basis, sent>>
    /\ EndTransaction(p)
    /\ UNCHANGED <<intent, handoffs, otherVars, faults>>

\* The connection is lost, or a statement raises: __aexit__ rolls back.
Rollback(p) ==
    /\ pc[p] \in Steps /\ faults < MaxFaults
    /\ faults' = faults + 1
    /\ EndTransaction(p)
    /\ UNCHANGED <<batchVars, otherVars>>

----------------------------------------------------------------------------
Execute(p) ==
    \/ RequestCancel(p)
    \/ RequireClosureAuthority(p)
    \/ RequireRejectionAuthority(p)
    \/ ScanExecutionChildren(p)
    \/ ReadSealedTaskInventory(p)
    \/ ReadCurrentTaskLedgerPosition(p)
    \/ ReadTrustedTaskStops(p)
    \/ PublishMaterializedHandoff(p)
    \/ PublishPreexecutionClosure(p)
    \/ PublishPreexecutionRejection(p)

Next ==
    \/ Transition \/ OpenLedger \/ MoveLedger \/ SealInventory \/ SealPlan
    \/ \E r \in Runs : MaterializeRun(r)
    \/ \E t \in Tasks : StartTask(t) \/ StopTask(t)
    \/ \E p \in Procs : BeginCancel(p) \/ BeginClose(p) \/ BeginReject(p) \/ Execute(p) \/ Rollback(p)

Spec == Init /\ [][Next]_vars

----------------------------------------------------------------------------
(* Properties *)

\* The row, the facts and the commands have their shapes; whoever holds the row
\* lock is in a transaction.
TypeOK ==
    /\ state \in States /\ version \in Nat
    /\ intent \in Intents \cup {NoFact} /\ rejection \in Facts \cup {NoFact}
    /\ basis \in Bases \cup {NoFact}
    /\ sent \in [Events -> Nat]
    /\ runs \subseteq Runs
    /\ task \in [Tasks -> {"none", "started", "stopped"}]
    /\ pc \in [Procs -> {"idle", "authority"} \cup Steps]
    /\ \A p \in Procs : pc[p] \in Steps <=> lock = p

\* A Batch closed before execution has no Run and no running task, at the
\* moment it is closed and ever after: nothing slips in between the statements
\* of the proof and its commit.
ClosedMeansIdle ==
    state \in Closed => runs = {} /\ Started = Stopped

\* The binding checks of Batch.__post_init__ hold of every stored Batch: no
\* sequence of commands leaves a row that get_batch_for_update cannot load.
BatchValid == TypeOK /\ Loadable

\* The first cancellation stands: from then on the Batch keeps its phase or is
\* cancelled, whichever requests, transitions and rejections come late.
CancelStands ==
    [][intent # NoFact => intent' = intent /\ state' \in {state, "cancelled"}]_vars

\* What is recorded is announced, and nothing else: a Batch is reported closed
\* once and each handoff once, however often the commands are repeated.
EventsMatchFacts ==
    /\ sent["cancel_requested"] = 0 <=> intent = NoFact
    /\ sent["cancelled"] + sent["rejected"] = (IF basis = NoFact THEN 0 ELSE 1)
    /\ sent["handoff"] = Cardinality(handoffs)

----------------------------------------------------------------------------
(* What the proofs need to know besides. *)

Commands == [op : {"none", "cancel", "close", "reject"}, id : Keys \cup Rejections \cup {NoFact},
             version : Nat, scope : Scopes, stage : Stages \cup {NoFact},
             seen : (SUBSET Runs) \cup (SUBSET Tasks), at : Nat]

\* A command carries the arguments of its kind.
CommandsOK ==
    /\ cmd \in [Procs -> Commands]
    /\ \A p \in Procs : /\ cmd[p].op = "cancel" => cmd[p].id \in Keys
                        /\ cmd[p].op = "reject" => cmd[p].id \in Rejections
    /\ ledger \in Nat /\ IsFiniteSet(handoffs)

ClosedHasBasis == state \in Closed => basis # NoFact

\* What a command found when it locked the row is still so.
AuthorityStands(p) ==
    /\ cmd[p].version = version /\ basis = NoFact
    /\ \/ /\ cmd[p].op = "close"
          /\ intent # NoFact /\ intent.scope = cmd[p].scope
       \/ /\ cmd[p].op = "reject"
          /\ intent = NoFact /\ state \in DOMAIN StageByPhase /\ cmd[p].stage = StageByPhase[state]

\* So is what it has proved of the Runs and tasks.
EvidenceStands(p) ==
    /\ pc[p] \in {"inventory", "position", "stops", "publish"} => runs = {}
    /\ pc[p] \in {"position", "stops", "publish"} => cmd[p].seen = Started
    /\ pc[p] = "publish" => Started = Stopped

LockedFactsStand == \A p \in Procs : pc[p] \in Steps => AuthorityStands(p) /\ EvidenceStands(p)

IInv ==
    /\ BatchValid /\ CommandsOK /\ ClosedHasBasis /\ LockedFactsStand
    /\ ClosedMeansIdle /\ EventsMatchFacts
=============================================================================
