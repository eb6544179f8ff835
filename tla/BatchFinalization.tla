-------------------------- MODULE BatchFinalization --------------------------
(***************************************************************************)
(* The end of a Batch whose Runs execute: it is declared ready for         *)
(* finalization once every Run is closed (application/                     *)
(* begin_batch_finalization.py, adapters/                                  *)
(* postgres_batch_finalization_readiness.py), then classified item by item *)
(* and closed (domain/batch_finalization.py, application/                  *)
(* batch_finalization.py, adapters/postgres_batch_finalization.py).        *)
(*                                                                         *)
(* It composes the Runs of RunFinalization, which go on executing,         *)
(* retrying and closing, with the two commands on the Batch row.  Both     *)
(* lock that row.  A readiness command that has to wait for the lock keeps *)
(* the readiness fact it read before: the two steps of BeginReadiness.     *)
(*                                                                         *)
(* Every manifest item belongs to the shard of a Run, because the frozen   *)
(* plan must bind each shard to a stored Run; not_executed items cannot    *)
(* occur here.                                                             *)
(***************************************************************************)
EXTENDS RunFinalization

CONSTANTS
    MaxTestFailed    \* max_test_failed_items of the success policy

ASSUME PolicyAssumption == MaxTestFailed \in Nat

VARIABLES
    bstate, bversion,  \* qep_batches
    intent,            \* qep_batch_cancellation_intents: requested before the Runs started
    readiness,         \* qep_batch_finalization_readiness_facts
    bbasis,            \* qep_batch_finalization_bases
    scope,             \* Runs with their run_fanout scope items
    started, finished  \* batch.finalization.started.v1 and batch.finalized.v1 events

batchVars == <<bstate, bversion, intent, readiness, bbasis, scope, started, finished>>
allVars   == <<vars, batchVars>>

Terminal == {"succeeded", "failed", "partial", "cancelled"}

Init ==
    /\ RunInit
    /\ req = [c \in Callers |-> None]
    /\ bstate = "running" /\ bversion = 1 /\ intent \in BOOLEAN
    /\ readiness = {} /\ bbasis = {}
    /\ scope = {} /\ started = 0 /\ finished = 0

\* The fan-out of a Batch cancellation is recorded for a closed Run.
RecordFanout(r) ==
    /\ intent /\ basis[r] # None /\ r \notin scope
    /\ scope' = scope \cup {r}
    /\ UNCHANGED <<vars, bstate, bversion, intent, readiness, bbasis, started, finished>>

----------------------------------------------------------------------------
(* Readiness. *)

AllClosed == \A r \in Runs : basis[r] # None

\* BatchFinalizationReadinessSnapshot: the closures of all Runs and what could
\* still create an attempt.
ReadinessSnapshot ==
    [version |-> bversion, bases |-> basis, intent |-> intent,
     retries |-> pending, opportunities |-> open]

\* The constructor wants a closure of every Run.
ProposeReadiness(c) ==
    /\ req[c] = None /\ AllClosed /\ bstate = "running"
    /\ req' = [req EXCEPT ![c] = [op |-> "ready", cand |-> ReadinessSnapshot]]
    /\ UNCHANGED <<runVars, batchVars>>

\* The parts of _validate_source_snapshot, in the order of its queries: the row of
\* a Run with its basis, its resolutions, its handoff, then the pending intents and
\* the open reservations of all Runs.
ClosureMatches(s, r) ==
    /\ basis[r] # None /\ basis[r].source = s.bases[r].source
    /\ run[r].phase = "closed" /\ run[r].outcome = s.bases[r].outcome
    /\ run[r].version = s.bases[r].source + 1

ResolutionsMatch(s, r) == basis[r].items = s.bases[r].items

HandoffMatches(s, r) == closed[r] = <<Handoff(s.bases[r])>>

RetriesMatch(s) == s.retries = pending

OpportunitiesMatch(s) == s.opportunities = open

\* The manifest, the plan and the policy are frozen before the Runs exist.
SourceMatches(s) ==
    /\ s.intent = intent
    /\ \A r \in Runs : ClosureMatches(s, r) /\ ResolutionsMatch(s, r) /\ HandoffMatches(s, r)
    /\ RetriesMatch(s) /\ OpportunitiesMatch(s)

\* snapshot.reason
Ready(s) == s.retries = {} /\ s.opportunities = {}

\* The statement that locks the Batch row starts: its join with the readiness fact
\* is from before any wait.
LockForReadiness(c) ==
    /\ req[c] # None /\ req[c].op = "ready"
    /\ req' = [req EXCEPT ![c] = [op |-> "locking", cand |-> req[c].cand, seen |-> readiness]]
    /\ UNCHANGED <<runVars, batchVars>>

\* BatchFinalizationReadinessMutationSnapshot: the row can still be declared ready.
ReadinessMutation(s) == bstate = "running" /\ bversion = s.version

\* require_readiness_authority, for a Batch that had no readiness fact: the columns
\* of the locked row are fresh after a wait, the join is not.  With a fact the
\* command is an exact replay or a conflict.
ReadinessAuthority(s, seen) == seen = {} /\ ReadinessMutation(s)

\* lookup_stored, and the same query again before the publication.
ReadinessStored == readiness # {}

\* _insert_readiness_fact
InsertReadinessFact(s) == readiness' = readiness \cup {s}

\* _publish_batch_projection of either command.
PublishBatchProjection(state) == bstate' = state /\ bversion' = bversion + 1

\* _insert_outbox of the readiness command, with the audit row before it.
InsertStarted == started' = started + 1

\* _publish_readiness
PublishReadiness(s) ==
    /\ InsertReadinessFact(s) /\ PublishBatchProjection("finalizing") /\ InsertStarted
    /\ UNCHANGED <<intent, bbasis, scope, finished>>

\* BeginBatchFinalization.execute under the lock; refused or replayed, it changes
\* nothing but the caller, who may start over.
BeginReadiness(c) ==
    /\ req[c] # None /\ req[c].op = "locking"
    /\ LET s == req[c].cand
       IN  IF /\ ReadinessAuthority(s, req[c].seen) /\ SourceMatches(s)
              /\ Ready(s) /\ ~ReadinessStored
           THEN PublishReadiness(s)
           ELSE UNCHANGED batchVars
    /\ req' = [req EXCEPT ![c] = None]
    /\ UNCHANGED runVars

----------------------------------------------------------------------------
(* The outcome of the Batch. *)

BatchItems == UNION {ItemsOf[r] : r \in Runs}

\* FrozenBoundShardPlan: the Run an item's shard is bound to.
RunOf(i) == CHOOSE r \in Runs : i \in ItemsOf[r]

\* BatchItemResolution.from_run_resolution
ItemClass(i) == basis[RunOf(i)].items[i].class

\* BatchUnknownFactRef.from_resolution: the items to list as once lost track of.
UnknownFactRefs ==
    {i \in BatchItems : LET x == basis[RunOf(i)].items[i]
                        IN  x.lineage /\ x.effective.decision # None}

\* BatchItemResolutionSet.counts: every manifest item in one class.
Counts == [k \in Classes |-> Cardinality({i \in BatchItems : ItemClass(i) = k})]

\* Fault: the policy's limit is taken for a count that still fails.
EvaluateBeyondLimit(n) ==
    IF n["cancelled"] = Cardinality(BatchItems) THEN "cancelled"
    ELSE IF n["cancelled"] + n["unknown_lineage"] > 0 THEN "partial"
    ELSE IF n["infra_failed"] > 0 \/ n["test_failed"] > MaxTestFailed + 1 THEN "failed"
    ELSE "succeeded"

\* evaluate_batch_outcome; the branches in the order of the code.
EvaluateBatchOutcome(n) ==
    IF n["cancelled"] = Cardinality(BatchItems) THEN "cancelled"
    ELSE IF n["cancelled"] + n["unknown_lineage"] > 0 THEN "partial"
    ELSE IF n["infra_failed"] > 0 \/ n["test_failed"] > MaxTestFailed THEN "failed"
    ELSE "succeeded"

\* BatchResolutionCounts.__post_init__
CountsComplete(n) == SumFunction(n) = Cardinality(BatchItems)

\* BatchFinalizationBasis.__post_init__: the unknown items it lists are those it
\* counts, and cancelled items need a request to cancel the Batch.
Evaluable(n) ==
    /\ CountsComplete(n)
    /\ n["unknown_lineage"] = Cardinality(UnknownFactRefs)
    /\ n["cancelled"] > 0 => intent

\* canonicalize_batch_cancellation_scope_items: one fact for every item of the
\* manifest, of whichever Run, and replays of a fact collapsed.
CanonicalScope == scope = Runs

\* Only a cancelled Batch has a scope, and it is complete.
ScopeComplete == IF intent THEN CanonicalScope ELSE scope = {}

\* BatchFinalizationSourceSnapshot: what a basis must repeat of the rows it is about.
SourceSnapshot == [source |-> bversion, intent |-> intent, bases |-> basis, counts |-> Counts,
                   unknown |-> UnknownFactRefs]

\* BatchFinalizationBasis.build from the rows of the closed Runs.
BatchBasis == [snapshot |-> SourceSnapshot, outcome |-> EvaluateBatchOutcome(Counts)]

ProposeBatch(c) ==
    /\ req[c] = None /\ bstate = "finalizing"
    /\ Evaluable(Counts) /\ ScopeComplete
    /\ req' = [req EXCEPT ![c] = [op |-> "batch", cand |-> BatchBasis]]
    /\ UNCHANGED <<runVars, batchVars>>

\* _validate_readiness_binding
ReadinessBinds(x) ==
    \E s \in readiness :
        /\ s.version + 1 = x.source
        /\ s.bases = x.bases /\ s.intent = x.intent
        /\ s.retries = {} /\ s.opportunities = {}

\* _terminal_run_ref: the row of a Run agrees with its basis.
TerminalRun(r) ==
    run[r].phase = "closed" /\ basis[r] # None /\ run[r].outcome = basis[r].outcome

\* The parts of _rebuild_source_snapshot: the terminal Runs, the fan-out of a
\* cancellation, the items by their Run's resolutions.
TerminalRunsRebuilt(x) == \A r \in Runs : TerminalRun(r) /\ basis[r] = x.bases[r]

FanoutRebuilt(x) == x.intent = intent /\ ScopeComplete

ItemsRebuilt(x) == x.counts = Counts /\ x.unknown = UnknownFactRefs

SourceRebuilt(x) == TerminalRunsRebuilt(x) /\ FanoutRebuilt(x) /\ ItemsRebuilt(x)

\* BatchFinalizationMutationSnapshot.__post_init__
BatchMutation(x) == bstate = "finalizing" /\ bversion = x.source

\* Fault: the state of the Batch is not looked at again under its lock.
AuthorityUnchecked(x) == TRUE

\* require_finalization_authority with a fresh read of the basis, lookup_stored and
\* the version of the Batch.
BatchAuthority(x) == bbasis = {} /\ BatchMutation(x)

\* _insert_basis, with the resolutions of the items before it.
InsertBatchBasis(b) == bbasis' = bbasis \cup {b}

\* _insert_outbox of the finalization, with the audit row before it.
InsertFinalized == finished' = finished + 1

\* _publish_finalization
PublishBatch(b) ==
    /\ InsertBatchBasis(b) /\ PublishBatchProjection(b.outcome) /\ InsertFinalized
    /\ UNCHANGED <<intent, readiness, scope, started>>

FinalizeBatch(c) ==
    /\ req[c] # None /\ req[c].op = "batch"
    /\ LET b == req[c].cand
           x == b.snapshot
       IN  BatchAuthority(x) /\ ReadinessBinds(x) /\ SourceRebuilt(x) /\ PublishBatch(b)
    /\ req' = [req EXCEPT ![c] = None]
    /\ UNCHANGED runVars

----------------------------------------------------------------------------
BatchNext ==
    \/ \E r \in Runs : RecordFanout(r)
    \/ \E c \in Callers : \/ ProposeReadiness(c) \/ LockForReadiness(c) \/ BeginReadiness(c)
                          \/ ProposeBatch(c) \/ FinalizeBatch(c)

Next ==
    \/ RunNext /\ UNCHANGED batchVars
    \/ (\E c \in Callers : Drop(c)) /\ UNCHANGED batchVars
    \/ BatchNext

Spec == Init /\ [][Next]_allVars

\* Whoever closes Runs proposes again what was dropped, and a command that can be
\* carried out time and again is not given up every time.
Fairness ==
    /\ \A r \in Runs : SF_allVars((\E c \in Callers : ProposeRun(c, r)) /\ UNCHANGED batchVars)
    /\ \A c \in Callers : /\ SF_allVars(FinalizeRun(c) /\ UNCHANGED batchVars)
                          /\ WF_allVars(Drop(c) /\ UNCHANGED batchVars)

LiveSpec == Spec /\ Fairness

----------------------------------------------------------------------------
(* Properties *)

\* A closed Run rests on its last execution, whose indexed evidence says what the
\* basis says, or on the fact that it had none and was cancelled.  That nothing was
\* reserved or queued for it any more is not claimed: the transaction looks at no
\* reservation and at no retry intent, and both can outlive the Run.
ClosedRestsOnLastAttempt ==
    \A r \in Runs : basis[r] # None =>
        /\ run[r].phase = "closed" /\ run[r].outcome = basis[r].outcome
        /\ basis[r].attempt = Len(att[r])
        /\ att[r] # <<>> => /\ Latest(r).evidence
                            /\ Latest(r).stored = AttemptState(Latest(r))
                            /\ AttemptState(Latest(r)) # "attempt_unknown" =>
                                  run[r].outcome = AttemptState(Latest(r))
        /\ att[r] = <<>> => run[r].cancel

\* The first basis of a Run stands, and nothing of the Run changes after it,
\* however late a worker, a retry or another finalization comes.
ClosedForGood ==
    [][\A r \in Runs : basis[r] # None =>
          basis'[r] = basis[r] /\ run'[r] = run[r] /\ att'[r] = att[r]
          /\ closed'[r] = closed[r]]_allVars

\* An item whose first execution was lost track of never makes its Batch succeed
\* or fail: it keeps the Batch partial, whatever its retries brought.
UnknownStaysVisible ==
    bstate \in Terminal =>
        \A r \in Runs : (att[r] # <<>> /\ att[r][1].unknown) => bstate = "partial"

\* A Batch ends when all its Runs have, on the very bases that made it ready, in
\* the state its own basis gives it, and each event is sent once.
BatchEndsOnItsRuns ==
    /\ bstate # "running" => /\ AllClosed /\ open = {} /\ pending = {}
                             /\ \E s \in readiness : s.bases = basis
    /\ bstate \in Terminal => \E b \in bbasis : b.snapshot.bases = basis /\ b.outcome = bstate
    /\ started = Cardinality(readiness) /\ started <= 1
    /\ finished = Cardinality(bbasis) /\ finished <= 1

\* succeeded means that every item was executed and its last execution has
\* indexed evidence, none of it a failure of the platform, and that no more tests
\* failed there than the policy allows.
SuccessMeansExecuted ==
    bstate = "succeeded" =>
        /\ \A r \in Runs : /\ att[r] # <<>> /\ Latest(r).evidence
                           /\ Results(Latest(r)) \subseteq Completed
        /\ MaxTestFailed >= Cardinality({i \in BatchItems : \E r \in Runs :
                              i \in ItemsOf[r] /\ Latest(r).result[i] = "test_failed"})

\* The state model's row "unknown + mark_infra_failed_no_retry": a Run whose last
\* execution was lost and written off by decision is closed (as infra_failed).  The
\* basis of such a closure has no evidence root, and FinalizeRun refuses an execution
\* without one.
InfraVerdictCloses ==
    \A r \in Runs :
        (att[r] # <<>> /\ Latest(r).decision = "mark_infra_failed_no_retry") ~> (basis[r] # None)

----------------------------------------------------------------------------
(***************************************************************************)
(* The inductive invariant behind these properties.  What a caller wrote   *)
(* down stays true of the Run as long as the version it read is current:   *)
(* the writers that do not move the version (the evidence index) find      *)
(* nothing to do on a Run that can be described.                           *)
(***************************************************************************)

RunRows     == [phase : Phases, version : Nat, cancel : BOOLEAN, outcome : Outcomes \cup {None}]
AttemptRows(r) == [version : Nat, result : [ItemsOf[r] -> Outcomes \cup {None}],
                   unknown : BOOLEAN, evidence : BOOLEAN, decision : Decisions \cup {None},
                   stored : Facts \cup {"start_committed"}]

TypeOK ==
    /\ run \in [Runs -> RunRows]
    /\ att = [r \in Runs |-> att[r]] /\ \A r \in Runs : att[r] \in Seq(AttemptRows(r))
    /\ open \subseteq Runs /\ pending \subseteq Runs
    /\ basis = [r \in Runs |-> basis[r]] /\ closed = [r \in Runs |-> closed[r]]
    /\ req = [c \in Callers |-> req[c]]
    /\ bstate \in {"running", "finalizing"} \cup Terminal

\* A running Run has an execution.
PhaseOK(r) ==
    run[r].phase = "running" => att[r] # <<>>

\* The items of a basis say of the first execution whether it was lost, and of a
\* completed item what the last execution found.  row and s are the rows of Run r.
ItemsAgree(b, r, s) ==
    \A i \in ItemsOf[r] :
        /\ (s # <<>> /\ s[1].unknown) => b.items[i].original.fact = "attempt_unknown"
        /\ b.items[i].effective.outcome \in Completed =>
              s # <<>> /\ s[Len(s)].result[i] = b.items[i].effective.outcome

\* No evidence can still arrive that would change what the items say.
Settled(b, r, a) ==
    /\ Observed(a) \/ a.unknown
    /\ \/ a.unknown => a.evidence
       \/ \A i \in ItemsOf[r] : b.items[i].effective.outcome = "infra_failed"

\* The Run is as the candidate says.
Describes(b, r, row, s) ==
    /\ b.cancel = row.cancel
    /\ s # <<>> => b.state = AttemptState(s[Len(s)]) /\ Settled(b, r, s[Len(s)])
    /\ ItemsAgree(b, r, s)

\* What the constructors ensure of a basis for good.
WellFormed(b, r) ==
    /\ b.run = r /\ DOMAIN b.items = ItemsOf[r] /\ b.outcome \in Outcomes
    /\ b.source \in Nat /\ b.attempt \in Nat
    /\ b.attempt > 0 => b.state \in Facts
    /\ CommandValid(b)

RunRequestOK(b, r, row, s) ==
    /\ WellFormed(b, r)
    /\ row.version >= b.source
    /\ row.version = b.source => Describes(b, r, row, s)

RequestOK(q) ==
    /\ q.op \in {"run", "ready", "locking", "batch"}
    /\ q.op = "run" => \E r \in Runs : RunRequestOK(q.cand, r, run[r], att[r])
    /\ q.op \in {"ready", "locking"} => AllClosed /\ q.cand.bases = basis
    /\ q.op = "batch" => q.cand.outcome = EvaluateBatchOutcome(q.cand.snapshot.counts)

ClosedOK(r) == WellFormed(basis[r], r) /\ ItemsAgree(basis[r], r, att[r])

\* The bases a Batch was declared ready on are those of its Runs.
ReadinessStands == \A s \in readiness : AllClosed /\ s.bases = basis

IInv ==
    /\ TypeOK
    /\ \A r \in Runs : PhaseOK(r)
    /\ \A r \in Runs : basis[r] # None => ClosedOK(r)
    /\ \A c \in Callers : req[c] # None => RequestOK(req[c])
    /\ ClosedRestsOnLastAttempt
    /\ ReadinessStands
    /\ BatchEndsOnItsRuns
    /\ bstate \in Terminal => bstate = EvaluateBatchOutcome(Counts)
=============================================================================
