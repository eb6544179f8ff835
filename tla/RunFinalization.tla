--------------------------- MODULE RunFinalization ---------------------------
(***************************************************************************)
(* The immutable end of a Run: the values a finalization rests on          *)
(* (domain/run_finalization.py), the command (application/                 *)
(* run_finalization.py) and its transaction (adapters/                     *)
(* postgres_run_finalization.py).                                          *)
(*                                                                         *)
(* A caller reads the Run, builds a candidate basis from what it saw and   *)
(* submits it, late, repeatedly, or beside another caller's.  The          *)
(* constructors decide which candidates exist at all (CommandValid); the   *)
(* transaction, which holds the row lock of the Run from its first         *)
(* statement to its commit, decides whether one is published.              *)
(*                                                                         *)
(* The history of the Run (reservations, executions, evidence, unknown     *)
(* outcomes, retries, cancellation) is written by others; ExecutionRun     *)
(* models those commands.  Here they are what this transaction can see of  *)
(* them: rows and versions.  Digests are the values they identify.         *)
(***************************************************************************)
EXTENDS Naturals, Sequences, FiniteSets, FiniteSetsExt

CONSTANTS
    Runs,         \* the Runs of one Batch
    Items,        \* manifest items
    ItemsOf,      \* the shard of each Run: [Runs -> SUBSET Items]
    Callers,      \* callers of the finalization commands
    MaxAttempts,  \* bound: executions of each Run
    None

ASSUME ShardsAssumption ==
    /\ IsFiniteSet(Items)
    /\ ItemsOf \in [Runs -> (SUBSET Items) \ {{}}]
    /\ \A r, s \in Runs : r # s => ItemsOf[r] \cap ItemsOf[s] = {}
ASSUME NoneAssumption == None \notin Callers
ASSUME FinalizationBounds == MaxAttempts \in [Runs -> Nat]

VARIABLES
    run,     \* qep_runs: phase, version, cancel request, outcome
    att,     \* qep_attempts by number, with their evidence and adjudication
    open,    \* qep_assignments: Runs with an offered or claimed reservation
    pending, \* qep_retry_intents: Runs with a pending intent
    basis,   \* qep_run_finalization_bases
    closed,  \* run.closed.v1 events in the outbox
    req      \* what each caller is about to submit

histVars == <<run, att, open, pending>>
runVars  == <<histVars, basis, closed>>
vars     == <<runVars, req>>

Completed == {"passed", "test_failed"}
Outcomes  == Completed \cup {"infra_failed", "cancelled"}
Facts     == Outcomes \cup {"attempt_unknown"}
Kinds     == {"verified_evidence", "verified_cancellation_evidence", "prestart_cancel",
              "unknown_adjudication"}
Retrying  == {"retry"}  \* confirm_stopped_then_retry, accept_duplicate_risk_then_retry
Decisions == Retrying \cup {"mark_infra_failed_no_retry", "mark_completed_from_verified_evidence"}
Classes   == Outcomes \cup {"unknown_lineage"}
Phases    == {"queued", "assigned", "retry_queued", "running", "cancelled", "closed"}

----------------------------------------------------------------------------
(* One execution, as its rows and its verified evidence show it. *)

NewAttempt(r) == [version |-> 0, result |-> [i \in ItemsOf[r] |-> None], unknown |-> FALSE,
                  evidence |-> FALSE, decision |-> None, stored |-> "start_committed"]

\* AttemptExecutionFact of an item.
ItemFact(a, i) == IF a.unknown THEN "attempt_unknown" ELSE a.result[i]

Precedence == [o \in Outcomes |-> CHOOSE n \in 0..3 :
                  o = <<"passed", "cancelled", "test_failed", "infra_failed">>[n + 1]]

\* RunItemResolutionSet.audit_outcome.
AuditOutcome(S) == CHOOSE o \in S : \A p \in S : Precedence[p] <= Precedence[o]

Results(a) == {a.result[i] : i \in DOMAIN a.result}

Observed(a) == None \notin Results(a)

AttemptState(a) == IF a.unknown THEN "attempt_unknown" ELSE AuditOutcome(Results(a))

Latest(r) == att[r][Len(att[r])]

----------------------------------------------------------------------------
(***************************************************************************)
(* The history of the Runs, by its own writers.  Each locks the row of the *)
(* Run and moves its version, except the evidence index.  None of them     *)
(* finds a closed Run in a phase it accepts.                               *)
(***************************************************************************)
RunInit ==
    /\ run = [r \in Runs |-> [phase |-> "queued", version |-> 0, cancel |-> FALSE, outcome |-> None]]
    /\ att = [r \in Runs |-> <<>>]
    /\ open = {} /\ pending = {}
    /\ basis = [r \in Runs |-> None]
    /\ closed = [r \in Runs |-> <<>>]

Moves(r, phase) == run' = [run EXCEPT ![r].phase = phase, ![r].version = @ + 1]

\* A reservation; one that ends without an execution leaves nothing behind that
\* matters here, so none is released.
Offer(r) ==
    /\ run[r].phase \in {"queued", "retry_queued"} /\ Len(att[r]) < MaxAttempts[r]
    /\ Moves(r, "assigned")
    /\ open' = open \cup {r}
    /\ UNCHANGED <<att, pending, basis, closed, req>>

CommitStart(r) ==
    /\ run[r].phase = "assigned"
    /\ Moves(r, "running")
    /\ att' = [att EXCEPT ![r] = Append(@, NewAttempt(r))]
    /\ open' = open \ {r} /\ pending' = pending \ {r}
    /\ UNCHANGED <<basis, closed, req>>

Executing(r) == run[r].phase = "running" /\ ~Observed(Latest(r)) /\ ~Latest(r).unknown

\* What evidence can say: a result per item, or one fact about the execution.
ResultsOf(r) == [ItemsOf[r] -> Completed] \cup {[i \in ItemsOf[r] |-> o] : o \in Outcomes}

\* The evidence of an attempt is verified and indexed; the Run's row stays.
IndexEvidence(r, f) ==
    /\ Executing(r)
    /\ "cancelled" \in Range(f) => run[r].cancel
    /\ att' = [att EXCEPT ![r][Len(att[r])].result = f, ![r][Len(att[r])].evidence = TRUE]
    /\ UNCHANGED <<run, open, pending, basis, closed, req>>

MarkUnknown(r) ==
    /\ Executing(r)
    /\ Moves(r, "running")
    /\ att' = [att EXCEPT ![r][Len(att[r])].unknown = TRUE, ![r][Len(att[r])].version = @ + 1]
    /\ UNCHANGED <<open, pending, basis, closed, req>>

\* The evidence of an unknown attempt turns up after all.
IndexLateEvidence(r, f) ==
    /\ run[r].phase = "running" /\ Latest(r).unknown /\ ~Latest(r).evidence
    /\ f \in [ItemsOf[r] -> Completed]
    /\ att' = [att EXCEPT ![r][Len(att[r])].result = f, ![r][Len(att[r])].evidence = TRUE]
    /\ UNCHANGED <<run, open, pending, basis, closed, req>>

\* A decision that closes without evidence, or rests on it, or permits a retry.  (The
\* constructor of the Attempt does not support the second kind yet; the finalization
\* already accepts it, and is checked with it.)
Adjudicate(r, d) ==
    /\ run[r].phase = "running" /\ Latest(r).unknown /\ Latest(r).decision = None
    /\ d = "mark_completed_from_verified_evidence" => Latest(r).evidence
    /\ Moves(r, "running")
    /\ att' = [att EXCEPT ![r][Len(att[r])].decision = d, ![r][Len(att[r])].version = @ + 1]
    /\ UNCHANGED <<open, pending, basis, closed, req>>

QueueRetry(r) ==
    /\ run[r].phase = "running" /\ ~run[r].cancel
    /\ IF Latest(r).unknown
       THEN Latest(r).decision \in Retrying
       ELSE Observed(Latest(r)) /\ AttemptState(Latest(r)) \in {"test_failed", "infra_failed"}
    /\ Moves(r, "retry_queued")
    /\ pending' = pending \cup {r}
    /\ UNCHANGED <<att, open, basis, closed, req>>

\* The request ends a Run that is not executing, whatever it has executed before,
\* and gives up its reservation.  The pending retry intent stays where it is.
RequestCancel(r) ==
    /\ run[r].phase \in {"queued", "assigned", "retry_queued", "running"} /\ ~run[r].cancel
    /\ run' = [run EXCEPT ![r].cancel = TRUE, ![r].version = @ + 1,
                          ![r].phase = IF @ = "running" THEN "running" ELSE "cancelled"]
    /\ open' = open \ {r}
    /\ UNCHANGED <<att, pending, basis, closed, req>>

History(r) ==
    \/ Offer(r) \/ CommitStart(r)
    \/ \E f \in ResultsOf(r) : IndexEvidence(r, f) \/ IndexLateEvidence(r, f)
    \/ MarkUnknown(r) \/ QueueRetry(r) \/ RequestCancel(r)
    \/ \E d \in Decisions : Adjudicate(r, d)

----------------------------------------------------------------------------
(***************************************************************************)
(* Candidates.  The caller describes what it sees; its only freedom is the *)
(* kind of basis and whether it attaches an unknown lineage.               *)
(***************************************************************************)
Original(r, i) ==
    IF att[r] = <<>>
    THEN [kind |-> "prestart_cancel", attempt |-> 0, fact |-> "cancelled", evidence |-> FALSE]
    ELSE LET f == ItemFact(att[r][1], i)
         IN  [kind |-> IF f \in Completed THEN "attempt_result" ELSE "attempt_terminal_fallback",
              attempt |-> 1, fact |-> f, evidence |-> att[r][1].evidence]

\* OriginalItemResolution.__post_init__.
OriginalValid(o) ==
    CASE o.kind = "prestart_cancel" -> o.fact = "cancelled" /\ o.attempt = 0 /\ ~o.evidence
      [] o.kind = "attempt_result"  -> o.attempt > 0 /\ o.fact \in Completed /\ o.evidence
      [] OTHER -> o.attempt > 0 /\ o.fact \in {"infra_failed", "cancelled", "attempt_unknown"}

\* select_latest_authorized_complete_attempt: the last one that says something of
\* every item, in the continuous chain of retries.
LatestComplete(r) ==
    LET complete == {k \in 1..Len(att[r]) : k > 1 /\ Observed(att[r][k]) /\ ~att[r][k].unknown}
    IN  IF complete = {} THEN 0 ELSE Max(complete)

\* The chain of decisions up to the attempt an item's outcome comes from.
AdjudicationOf(r) ==
    LET unknown == {k \in DOMAIN att[r] : att[r][k].unknown /\ att[r][k].decision # None}
    IN  IF unknown = {} THEN None ELSE att[r][Max(unknown)].decision

Effective(r, i, kind) ==
    LET k == LatestComplete(r)
        E(source, n, outcome, evidence, d) ==
            [source |-> source, attempt |-> n, outcome |-> outcome, evidence |-> evidence,
             decision |-> d]
    IN  CASE kind = "unknown_adjudication" ->
               E("unknown_adjudication", Len(att[r]),
                 IF Latest(r).decision = "mark_infra_failed_no_retry" THEN "infra_failed"
                 ELSE Latest(r).result[i],
                 Latest(r).decision # "mark_infra_failed_no_retry", Latest(r).decision)
          [] kind # "unknown_adjudication" /\ k > 0 ->
               E("authorized_retry", k, att[r][k].result[i], att[r][k].evidence, AdjudicationOf(r))
          [] OTHER ->
               LET o == Original(r, i) IN E("original", o.attempt, o.fact, o.evidence, None)

\* EffectiveItemResolution.__post_init__.
EffectiveValid(e) ==
    /\ e.outcome \in Outcomes
    /\ CASE e.source = "original" -> e.decision = None
         [] e.source = "authorized_retry" -> e.attempt > 0 /\ e.decision \in Retrying \cup {None}
         [] OTHER -> /\ e.attempt > 0
                     /\ \/ /\ e.decision = "mark_infra_failed_no_retry"
                           /\ e.outcome = "infra_failed" /\ ~e.evidence
                        \/ e.decision = "mark_completed_from_verified_evidence" /\ e.evidence

\* Fault: an unknown original execution may be counted by its later outcome.
LineageForgotten(original, effective, lineage) ==
    lineage => effective.decision # None

\* RunItemResolution.__post_init__, its rules on unknown outcomes.
LineageValid(original, effective, lineage) ==
    /\ lineage => effective.decision # None
    /\ original.fact = "attempt_unknown" => lineage

Mirrors(o, e) == e.outcome = o.fact /\ e.attempt = o.attempt /\ e.evidence = o.evidence

\* RunItemResolution.__post_init__.
ResolutionValid(x) ==
    /\ OriginalValid(x.original) /\ EffectiveValid(x.effective)
    /\ x.effective.source = "original" =>
          x.original.fact # "attempt_unknown" /\ Mirrors(x.original, x.effective)
    /\ LineageValid(x.original, x.effective, x.lineage)
    /\ x.class = IF x.lineage THEN "unknown_lineage" ELSE x.effective.outcome

Resolution(r, i, kind, lineage) ==
    LET e == Effective(r, i, kind)
    IN  [original |-> Original(r, i), effective |-> e, lineage |-> lineage,
         class |-> IF lineage THEN "unknown_lineage" ELSE e.outcome]

\* The items of a Run with one resolution each, RunItemResolutionSet.
ResolutionSet(r, kind, lineage) == [i \in ItemsOf[r] |-> Resolution(r, i, kind, lineage)]

\* RunFinalizationBasis._validate_cancel_rule: the decisions name the request to
\* cancel this Run.
CancelRule(b) == b.cancel

\* RunFinalizationBasis._validate_input_kind, by kind of terminal input.
PrestartBasis(b) == b.attempt = 0 /\ ~b.evidence /\ CancelRule(b) /\ b.outcome = "cancelled"

CancellationBasis(b) ==
    /\ b.attempt > 0 /\ b.state = "cancelled" /\ b.evidence
    /\ CancelRule(b) /\ b.outcome = "cancelled"

AdjudicationBasis(b) ==
    /\ b.attempt > 0 /\ b.state = "attempt_unknown"
    /\ \/ /\ b.decision = "mark_infra_failed_no_retry"
          /\ b.outcome = "infra_failed" /\ ~b.evidence
       \/ b.decision = "mark_completed_from_verified_evidence" /\ b.evidence

EvidenceBasis(b) ==
    b.attempt > 0 /\ b.state # "attempt_unknown" /\ b.evidence /\ b.outcome = b.state

\* RunFinalizationBasis.__post_init__.  References to the retry decisions
\* between the attempts are left out: a basis that lists none of them is valid.
BasisValid(b) ==
    CASE b.kind = "prestart_cancel"                -> PrestartBasis(b)
      [] b.kind = "verified_cancellation_evidence" -> CancellationBasis(b)
      [] b.kind = "unknown_adjudication"           -> AdjudicationBasis(b)
      [] OTHER                                     -> EvidenceBasis(b)

\* RunFinalizationBasis.build, from the Run as the caller reads it.
Candidate(r, kind, lineage) ==
    LET n == Len(att[r])
    IN  [run |-> r, source |-> run[r].version, kind |-> kind, attempt |-> n,
         attVersion |-> IF n = 0 THEN None ELSE Latest(r).version,
         state |-> IF n = 0 THEN None ELSE AttemptState(Latest(r)),
         evidence |-> n > 0 /\ Latest(r).evidence
                      /\ ~(kind = "unknown_adjudication"
                           /\ Latest(r).decision = "mark_infra_failed_no_retry"),
         decision |-> IF n = 0 THEN None ELSE Latest(r).decision,
         cancel |-> run[r].cancel,
         items |-> ResolutionSet(r, kind, lineage),
         outcome |-> AuditOutcome({Effective(r, i, kind).outcome : i \in ItemsOf[r]})]

\* The kinds that have something to describe: the items need an outcome.
Describable(r, kind) ==
    CASE kind = "prestart_cancel" -> att[r] = <<>>
      [] kind = "unknown_adjudication" ->
           /\ att[r] # <<>> /\ Latest(r).unknown
           /\ \/ Latest(r).decision = "mark_infra_failed_no_retry"
              \/ Latest(r).decision = "mark_completed_from_verified_evidence" /\ Latest(r).evidence
      [] OTHER -> att[r] # <<>> /\ Observed(Latest(r)) /\ ~Latest(r).unknown

\* FinalizeRunCommand.__post_init__ and the constructors of what it carries.
CommandValid(c) ==
    /\ BasisValid(c)
    /\ \A i \in DOMAIN c.items : ResolutionValid(c.items[i])
    /\ c.outcome = AuditOutcome({c.items[i].effective.outcome : i \in DOMAIN c.items})
    /\ c.attempt = 0 <=> c.attVersion = None

\* A caller prepares the end of a Run that is still open.  Nothing obliges it to wait
\* for a reservation or a pending retry: neither is in the basis.
ProposeRun(c, r) ==
    /\ req[c] = None
    /\ run[r].phase # "closed"
    /\ \E kind \in Kinds, lineage \in BOOLEAN :
          /\ Describable(r, kind)
          /\ CommandValid(Candidate(r, kind, lineage))
          /\ req' = [req EXCEPT ![c] = [op |-> "run", cand |-> Candidate(r, kind, lineage)]]
    /\ UNCHANGED runVars

----------------------------------------------------------------------------
(* FinalizeRun: one transaction under the row lock of the Run. *)

\* require_finalization_authority: the version the Run is, or was, closed from.
SourceVersion(r) == IF basis[r] = None THEN run[r].version ELSE basis[r].source

\* get_mutation_snapshot_for_update: the Run and its last execution, both locked.
MutationSnapshot(r) ==
    [version |-> run[r].version, attempt |-> Len(att[r]),
     attVersion |-> IF att[r] = <<>> THEN None ELSE Latest(r).version]

\* RunFinalizationPublication.__post_init__: the basis is about that snapshot.
PublicationBinds(b) ==
    MutationSnapshot(b.run) =
        [version |-> b.source, attempt |-> b.attempt, attVersion |-> b.attVersion]

\* Fault: what the basis says of the execution is believed.
EvidenceClaimed(b) == TRUE

\* _require_verified_terminal_input: an execution ends a Run only with a root that
\* is indexed for it.
EvidenceBound(b) == b.attempt > 0 => b.evidence /\ Latest(b.run).evidence

\* A stored basis is returned if it is this one and a conflict otherwise.
NotStored(b) == SourceVersion(b.run) = b.source /\ basis[b.run] = None

\* _publish_attempt_terminal: the state the basis gives the last attempt.
PublishAttemptTerminal(b) ==
    att' = IF b.attempt = 0 THEN att
           ELSE [att EXCEPT ![b.run][b.attempt].stored = b.state,
                            ![b.run][b.attempt].version = @ + 1]

\* Fault: the projection of the Run keeps its phase.
ProjectInPlace(b) ==
    run' = [run EXCEPT ![b.run].outcome = b.outcome, ![b.run].version = @ + 1]

\* RunFinalizationState of a closed Run.
ClosedState(b) == [phase |-> "closed", outcome |-> b.outcome, version |-> b.source + 1,
                   cancel |-> run[b.run].cancel]

\* _publish_run_projection
PublishRunProjection(b) == run' = [run EXCEPT ![b.run] = ClosedState(b)]

\* RunClosedHandoff: a closure is identified by its Run, its source version and
\* its basis.
RunClosed(r, source, b) == [run |-> r, source |-> source, basis |-> b]

\* build_run_closed_handoff
Handoff(b) == RunClosed(b.run, b.source, b)

\* _insert_outbox, with the audit row before it.
InsertOutbox(b) == closed' = [closed EXCEPT ![b.run] = Append(@, Handoff(b))]

\* _insert_basis, with the resolutions of the items before it.
InsertBasis(b) == basis' = [basis EXCEPT ![b.run] = b]

\* _publish_finalization, in one transaction.
PublishRun(b) ==
    /\ InsertBasis(b) /\ PublishAttemptTerminal(b)
    /\ PublishRunProjection(b) /\ InsertOutbox(b)

\* A second submission of the same command, after a lost answer, is that of another
\* caller who holds the same candidate.
FinalizeRun(c) ==
    /\ req[c] # None /\ req[c].op = "run"
    /\ LET b == req[c].cand
       IN  NotStored(b) /\ PublicationBinds(b) /\ EvidenceBound(b) /\ PublishRun(b)
    /\ req' = [req EXCEPT ![c] = None]
    /\ UNCHANGED <<open, pending>>

\* The caller gives up, or its transaction broke off and was rolled back.
Drop(c) ==
    /\ req[c] # None
    /\ req' = [req EXCEPT ![c] = None]
    /\ UNCHANGED runVars

RunNext ==
    \/ \E r \in Runs : History(r)
    \/ \E c \in Callers : FinalizeRun(c) \/ \E r \in Runs : ProposeRun(c, r)

=============================================================================
