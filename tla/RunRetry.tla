------------------------------ MODULE RunRetry ------------------------------
(***************************************************************************)
(* Who may repeat an execution: a policy with a budget (domain/            *)
(* run_retry_policy.py), or people deciding on an unknown outcome (domain/ *)
(* unknown_review.py, duplicate_risk_acceptance.py); the commands that     *)
(* queue a retry (application/run_retry.py) and that start it              *)
(* (application/retry_commit_start.py).                                    *)
(*                                                                         *)
(* A caller evaluates a policy or picks up a decision, and submits what it *)
(* made of it when the Run, the policy or the decision may have moved on.  *)
(* The gateway has no implementation yet: its publish is one transaction   *)
(* that takes a publication only if the authority and the versions in it   *)
(* are still the stored ones (as its port describes and its fake does).    *)
(*                                                                         *)
(* ExecutionRun has the whole aggregate; here the Run is its state,        *)
(* version, executions and pending intent.  Seconds stand for both of the  *)
(* budgets, execution time and resource units, which are treated alike.    *)
(***************************************************************************)
EXTENDS Naturals, Sequences, FiniteSets, SequencesExt

CONSTANTS
    Callers,      \* callers of the retry commands
    MaxRetries,   \* max_retries of the policy of each family
    MaxSeconds,   \* the seconds all retries under a policy may take
    Until,        \* the end of the policies' and authorities' windows
    Ttl, Sla,     \* one hour of a risk acceptance, one day to start a review
    MaxTime,      \* bound: clock
    MaxAttempts, MaxAdjudications, MaxVersions,  \* bounds: executions, decisions, policies
    MaxReleases,  \* bound: the Run's version up to which reservations are given back
    None

Families == {"suite", "platform"}

ASSUME RetryAssumption ==
    /\ MaxRetries \in [Families -> Nat] /\ MaxSeconds \in Nat
    /\ Until \in Nat /\ Ttl \in Nat /\ Sla \in Nat /\ MaxTime \in Nat
    /\ MaxAttempts \in Nat /\ MaxAdjudications \in Nat /\ MaxVersions \in Nat
    /\ MaxReleases \in Nat

\* SuiteRetryPolicy and PlatformRetryPolicy refuse larger limits.
SignedLimit == [suite |-> 1, platform |-> 2]
ASSUME SignedLimits == \A f \in Families : MaxRetries[f] <= SignedLimit[f]

VARIABLES
    run,      \* state, version and cancel intent of the Run
    att,      \* its executions
    pending,  \* the pending retry intent, or None
    receipts, \* RetryQueueReceipts in the order of queueing
    policy,   \* the current version of each family's policy authority
    review,   \* of the last execution: when a review started, and whether it was escalated
    req,      \* what each caller is about to submit
    now

vars == <<run, att, pending, receipts, policy, review, req, now>>

PermitsRetry == {"confirm_stopped_then_retry", "accept_duplicate_risk_then_retry"}
Decisions    == PermitsRetry \cup {"mark_infra_failed_no_retry"}

\* What a retry rests on: a policy of a family, or a decision on an unknown outcome.
Authorities == [family : Families \cup {"unknown"}, version : Nat,
                cause : PermitsRetry \cup {"test_failed", "infra_failed"}]
Intents     == [source : Nat, authority : Authorities]

ASSUME IntentAssumption == None \notin Intents

\* "provenance" says what an execution repeats, "rests" is the authority that was
\* current when it started.
Attempt(provenance, rests) ==
    [state |-> "running", stop |-> FALSE, listed |-> FALSE, version |-> 0, unknownAt |-> 0,
     adj |-> <<>>, provenance |-> provenance, rests |-> rests]

\* An UnknownReviewEvaluation: its status, who was notified and what was audited.
Quiet(status) == [status |-> status, notified |-> {}, audited |-> {}]

Init ==
    /\ run = [state |-> "running", version |-> 0, cancel |-> FALSE]
    /\ att = <<Attempt(None, None)>>
    /\ pending = None /\ receipts = <<>>
    /\ policy = [f \in Families |-> 1]
    /\ review = [started |-> 0, evaluation |-> Quiet("pending")]
    /\ req = [c \in Callers |-> None]
    /\ now = 1

Current == att[Len(att)]

Touch(state) == run' = [run EXCEPT !.state = state, !.version = @ + 1]

----------------------------------------------------------------------------
(* What happens around the commands. *)

Tick == now < MaxTime /\ now' = now + 1
        /\ UNCHANGED <<run, att, pending, receipts, policy, review, req>>

\* UnknownObservation: what is recorded with an unknown outcome is when it was.
ObservedAt(outcome) == IF outcome = "attempt_unknown" THEN now ELSE 0

\* The execution ends; its reason is on the policy's list or not, and a failure of
\* the platform comes with a proof that the execution stopped or without.
AttemptEnds(outcome, stop, listed) ==
    /\ run.state = "running" /\ Current.state = "running"
    /\ Touch("running")
    /\ att' = [att EXCEPT ![Len(att)] =
                 [Current EXCEPT !.state = outcome, !.stop = stop, !.listed = listed,
                                 !.version = @ + 1, !.unknownAt = ObservedAt(outcome)]]
    /\ UNCHANGED <<pending, receipts, policy, review, req, now>>

\* A decision on an unknown outcome; accept_duplicate_risk_then_retry rests on a
\* DuplicateRiskAcceptance given at the same time, the only time that matters.
Adjudication(d) ==
    [decision |-> d, at |-> IF d = "accept_duplicate_risk_then_retry" THEN now ELSE 0]

\* append_current_unknown_adjudication
Adjudicate(d) ==
    /\ run.state = "running" /\ pending = None
    /\ Current.state = "attempt_unknown" /\ Len(Current.adj) < MaxAdjudications
    /\ Touch("running")
    /\ att' = [att EXCEPT ![Len(att)].adj = Append(@, Adjudication(d)),
                          ![Len(att)].version = @ + 1]
    /\ UNCHANGED <<pending, receipts, policy, review, req, now>>

\* A new version of the policy or of its approval replaces the current one.
Supersede(f) ==
    /\ policy[f] < MaxVersions
    /\ policy' = [policy EXCEPT ![f] = @ + 1]
    /\ UNCHANGED <<run, att, pending, receipts, review, req, now>>

RequestCancel ==
    /\ ~run.cancel /\ run.state # "cancelled"
    /\ run' = [state |-> IF run.state = "running" THEN "running" ELSE "cancelled",
               version |-> run.version + 1, cancel |-> TRUE]
    /\ UNCHANGED <<att, pending, receipts, policy, review, req, now>>

\* Offer and claim of the retry, and the end of a reservation that was not used.
Assign ==
    /\ run.state = "retry_queued" /\ Touch("assigned")
    /\ UNCHANGED <<att, pending, receipts, policy, review, req, now>>
Unassign ==
    /\ run.state = "assigned" /\ run.version < MaxReleases
    /\ Touch("retry_queued")
    /\ UNCHANGED <<att, pending, receipts, policy, review, req, now>>

----------------------------------------------------------------------------
(* The review of an unknown outcome. *)

\* Fault: the reviewer's start opens the review's day anew.
DeadlineFromStart ==
    (IF review.started # 0 THEN review.started ELSE Current.unknownAt) + Sla

\* UnknownReviewRequest: requested when the outcome was recorded as unknown,
\* review_start_deadline one day after that.
Deadline == Current.unknownAt + Sla

\* evaluate_unknown_review: a start decides, otherwise the time of evaluation; the
\* deadline itself is still in time.
Breached == (IF review.started # 0 THEN review.started ELSE now) > Deadline

\* The UnknownReviewNotifications and UnknownReviewAuditFacts of a breach.
Recipients == {"suite_owner", "platform_on_call"}
Audits     == {"security", "operations"}

Evaluation ==
    IF Breached THEN [status |-> "sla_breached", notified |-> Recipients, audited |-> Audits]
    ELSE Quiet(IF review.started # 0 THEN "started" ELSE "pending")

\* The matrix of UnknownReviewEvaluation: a breach, and nothing else, is escalated,
\* and a start in time is never one.
EvaluationValid(e) ==
    /\ e.status = "pending" => review.started = 0
    /\ e.status = "started" => review.started \in 1..Deadline
    /\ e.status = "sla_breached" => review.started = 0 \/ review.started > Deadline
    /\ IF e.status = "sla_breached" THEN e.notified = Recipients /\ e.audited = Audits
       ELSE e = Quiet(e.status)

\* An independent reviewer starts.
StartReview ==
    /\ Current.state = "attempt_unknown" /\ review.started = 0
    /\ review' = [review EXCEPT !.started = now]
    /\ UNCHANGED <<run, att, pending, receipts, policy, req, now>>

EvaluateReview ==
    /\ Current.state = "attempt_unknown" /\ EvaluationValid(Evaluation)
    /\ review' = [review EXCEPT !.evaluation = Evaluation]
    /\ UNCHANGED <<run, att, pending, receipts, policy, req, now>>

----------------------------------------------------------------------------
(* Queueing. *)

\* RetryBudgetUsage: the reservations made under a family's policy, and the sum of
\* their seconds, as the number of all the seconds of each of them.
Reserved(f) == {j \in DOMAIN receipts : receipts[j].intent.authority.family = f}
Seconds(f)  == UNION {{j} \X (1 .. receipts[j].reservation.seconds) : j \in Reserved(f)}
Spent(f)    == Cardinality(Seconds(f))

Outcome == [f \in Families |-> IF f = "suite" THEN "test_failed" ELSE "infra_failed"]

\* RetrySourceFact of the execution to repeat.
SourceFact == [outcome |-> Current.state, listed |-> Current.listed, stop |-> Current.stop]

\* Fault: the seconds of this retry are left out of the sum.
AllowsIfAnyLeft(f, seconds) ==
    /\ SourceFact.outcome = Outcome[f] /\ SourceFact.listed
    /\ now < Until
    /\ Cardinality(Reserved(f)) < MaxRetries[f]
    /\ Spent(f) < MaxSeconds
    /\ f = "platform" => SourceFact.stop

\* evaluate_run_retry: every mismatch fails closed.
Allows(f, seconds) ==
    /\ SourceFact.outcome = Outcome[f] /\ SourceFact.listed
    /\ now < Until
    /\ Cardinality(Reserved(f)) < MaxRetries[f]
    /\ Spent(f) + seconds <= MaxSeconds
    /\ f = "platform" => SourceFact.stop

Propose(c, r) ==
    /\ req[c] = None
    /\ req' = [req EXCEPT ![c] = r]
    /\ UNCHANGED <<run, att, pending, receipts, policy, review, now>>

Submission(op, intent, seconds) ==
    [op |-> op, intent |-> intent, seconds |-> seconds, at |-> now,
     runVersion |-> run.version, attVersion |-> Current.version]

\* What a policy retry and an adjudicated retry rest on.
PolicyAuthority(f) == [family |-> f, version |-> policy[f], cause |-> Outcome[f]]
UnknownAuthority   == [family |-> "unknown", version |-> Len(Current.adj),
                       cause |-> Last(Current.adj).decision]

\* RetryIntent: the execution it repeats and the authority it was made under.
Intent(authority) == [source |-> Len(att), authority |-> authority]

\* RetryProvenance.from_intent
Provenance(n) == [intent |-> n, source |-> n.source, authority |-> n.authority]

\* A decision RETRY; CLOSED_NO_RETRY publishes the decision and leaves the Run alone.
EvaluatePolicy(c, f, seconds) ==
    /\ Allows(f, seconds)
    /\ Propose(c, Submission("queue", Intent(PolicyAuthority(f)), seconds))

\* The decision the caller saw last.
PickUpAdjudication(c) ==
    /\ Current.state = "attempt_unknown" /\ Current.adj # <<>>
    /\ UnknownAuthority.cause \in PermitsRetry
    /\ Propose(c, Submission("queue", Intent(UnknownAuthority), 0))

\* RunRetryWriteAuthority and UnknownRetryWriteAuthority: the authority that is
\* current now; of an unknown outcome, the last decision on it if that permits a retry.
PolicyWriteAuthority(f) == policy[f]
UnknownWriteAuthority ==
    IF Current.adj # <<>> /\ UnknownAuthority.cause \in PermitsRetry
    THEN UnknownAuthority.version ELSE None

\* The authority an intent was made under is the current one.
AuthorityCurrent(n) ==
    IF n.authority.family \in Families
    THEN n.authority.version = PolicyWriteAuthority(n.authority.family)
    ELSE n.source = Len(att) /\ n.authority.version = UnknownWriteAuthority

VersionsMatch(r) == r.runVersion = run.version /\ r.attVersion = Current.version

\* The decision an intent rests on.
Verdict(n) == att[n.source].adj[n.authority.version]

AcceptsRisk(n) == n.authority.cause = "accept_duplicate_risk_then_retry"

\* DuplicateRiskAcceptance: given with the decision, for this intent.
Acceptance(n) == [given |-> Verdict(n).at, intent |-> n]

\* consume_duplicate_risk_acceptance: once, and by the time of the request.
Unconsumed(a)     == \A q \in Range(receipts) : q.consumption # a
AcceptanceLive(r) ==
    AcceptsRisk(r.intent) =>
        /\ Unconsumed(Acceptance(r.intent))
        /\ r.at >= Acceptance(r.intent).given /\ r.at < Acceptance(r.intent).given + Ttl

\* RetryBudgetReservation.from_decision: what the decision requested, for its intent.
Reservation(r) == [intent |-> r.intent, seconds |-> r.seconds]

\* RetryQueueReceipt: a policy's retry reserves budget, an adjudicated one consumes
\* the acceptance if it rests on one.
Receipt(r) ==
    [intent |-> r.intent,
     reservation |-> IF r.intent.authority.family \in Families THEN Reservation(r) ELSE None,
     consumption |-> IF AcceptsRisk(r.intent) THEN Acceptance(r.intent) ELSE None]

\* The command on the Run and the gateway's publication.
PublishRetry(c) ==
    /\ AuthorityCurrent(req[c].intent) /\ VersionsMatch(req[c])
    /\ ~run.cancel /\ run.state = "running" /\ pending = None
    /\ Touch("retry_queued")
    /\ pending' = req[c].intent
    /\ receipts' = Append(receipts, Receipt(req[c]))
    /\ req' = [req EXCEPT ![c] = None]
    /\ UNCHANGED <<att, policy, review, now>>

QueuePolicyRetry(c) ==
    /\ req[c] # None /\ req[c].op = "queue" /\ req[c].intent.authority.family \in Families
    /\ PublishRetry(c)

QueueAdjudicatedRetry(c) ==
    /\ req[c] # None /\ req[c].op = "queue" /\ req[c].intent.authority.family = "unknown"
    /\ AcceptanceLive(req[c])
    /\ PublishRetry(c)

----------------------------------------------------------------------------
(* Starting. *)

\* The worker that claimed the retry asks to start it, with the receipt it was given.
ProposeStart(c) ==
    /\ run.state = "assigned" /\ receipts # <<>>
    /\ Propose(c, Submission("start", Last(receipts).intent, 0))

\* Fault: queueing was the authorization.
AuthorityAtQueueing(q) == TRUE

\* _authority_matches: the receipt's authority is revalidated at the start, and the
\* acceptance it consumed is the one the current decision gives.
AuthorityMatches(q) ==
    /\ AuthorityCurrent(q.intent)
    /\ q.consumption # None => q.consumption = Acceptance(q.intent)

\* require_receipt_for_update: the stored receipt of an intent.
ReceiptsOf(n) == {q \in Range(receipts) : q.intent = n}

\* RetryCommitPublication: the execution started is the one its receipt queued.
CommitBinds(q, a) == a.provenance # None /\ a.provenance.intent = q.intent

\* CommitRetryStart: Run.commit_start and publish.
CommitRetryStart(c) ==
    /\ req[c] # None /\ req[c].op = "start"
    /\ Len(att) < MaxAttempts
    /\ VersionsMatch(req[c])
    /\ run.state = "assigned" /\ pending = req[c].intent
    /\ \E q \in ReceiptsOf(req[c].intent) :
          LET f   == q.intent.authority.family
              new == Attempt(Provenance(pending),
                             IF f \in Families THEN PolicyWriteAuthority(f)
                             ELSE UnknownWriteAuthority)
          IN  AuthorityMatches(q) /\ CommitBinds(q, new) /\ att' = Append(att, new)
    /\ Touch("running")
    /\ review' = [started |-> 0, evaluation |-> Quiet("pending")]
    /\ pending' = None
    /\ req' = [req EXCEPT ![c] = None]
    /\ UNCHANGED <<receipts, policy, now>>

\* The command is refused, or its answer is lost and the caller gives up.
Drop(c) ==
    /\ req[c] # None
    /\ req' = [req EXCEPT ![c] = None]
    /\ UNCHANGED <<run, att, pending, receipts, policy, review, now>>

----------------------------------------------------------------------------
Around ==
    \/ Tick \/ RequestCancel \/ Assign \/ Unassign
    \/ \E o \in {"passed", "attempt_unknown"} : AttemptEnds(o, FALSE, FALSE)
    \/ \E listed \in BOOLEAN : AttemptEnds("test_failed", FALSE, listed)
    \/ \E stop \in BOOLEAN : AttemptEnds("infra_failed", stop, TRUE)
    \/ \E d \in Decisions : Adjudicate(d)
    \/ \E f \in Families : Supersede(f)
    \/ StartReview \/ EvaluateReview

Command(c) ==
    \/ \E f \in Families, s \in 1..MaxSeconds : EvaluatePolicy(c, f, s)
    \/ PickUpAdjudication(c) \/ QueuePolicyRetry(c) \/ QueueAdjudicatedRetry(c)
    \/ ProposeStart(c) \/ CommitRetryStart(c)
    \/ Drop(c)

Next == Around \/ \E c \in Callers : Command(c)

Spec == Init /\ [][Next]_vars

----------------------------------------------------------------------------
(* Properties *)

\* However many evaluations run side by side on the same usage, the retries of a
\* Run never exceed the number and the seconds its policies allow.
BudgetRespected ==
    \A f \in Families : Cardinality(Reserved(f)) <= MaxRetries[f] /\ Spent(f) <= MaxSeconds

\* An execution is repeated only under the authority that was current both when
\* the retry was queued and when it started, about the execution right before it,
\* which a policy must know to have stopped if the platform failed; each receipt
\* starts one execution at most.
RetriesAreCovered ==
    \A k \in DOMAIN att : k > 1 =>
        LET p == att[k].provenance
            f == p.authority.family
        IN  /\ p.source = k - 1 /\ att[k].rests = p.authority.version
            /\ Cardinality({q \in DOMAIN receipts : receipts[q].intent = p.intent}) = 1
            /\ f \in Families => att[k - 1].state = Outcome[f] /\ att[k - 1].listed
            /\ att[k - 1].state = "infra_failed" => att[k - 1].stop
            /\ f = "unknown" =>
                  /\ p.authority.version = Len(att[k - 1].adj)
                  /\ Verdict(p.intent).decision \in PermitsRetry

\* An escalated review stays escalated, and its recipients notified, also when the
\* reviewer starts after all.
EscalationStands ==
    [][review.evaluation.status = "sla_breached" /\ Len(att') = Len(att) =>
         review'.evaluation = review.evaluation]_vars

----------------------------------------------------------------------------
(***************************************************************************)
(* The inductive invariant behind these three properties.                  *)
(* The receipts are one for each execution that was repeated, in that      *)
(* order, and a last one while a retry is pending; what they rest on was   *)
(* true of the execution when they were queued and cannot change after.    *)
(***************************************************************************)

Adjudications == [decision : Decisions, at : Nat]
Provenances   == [intent : Intents, source : Nat, authority : Authorities]
Attempts ==
    [state : {"running", "passed", "attempt_unknown", "test_failed", "infra_failed"},
     stop : BOOLEAN, listed : BOOLEAN, version : Nat, unknownAt : Nat, adj : Seq(Adjudications),
     provenance : Provenances \cup {None}, rests : Nat \cup {None}]
Receipts ==
    [intent : Intents, reservation : [intent : Intents, seconds : Nat] \cup {None},
     consumption : [given : Nat, intent : Intents] \cup {None}]

TypeOK ==
    /\ run \in [state : {"running", "retry_queued", "assigned", "cancelled"}, version : Nat,
               cancel : BOOLEAN]
    /\ att \in Seq(Attempts) /\ att # <<>>
    /\ pending \in Intents \cup {None}
    /\ receipts \in Seq(Receipts)
    /\ policy \in [Families -> Nat]
    /\ review \in [started : Nat,
                  evaluation : [status : {"pending", "started", "sla_breached"},
                                notified : SUBSET Recipients, audited : SUBSET Audits]]
    /\ req = [c \in Callers |-> req[c]]
    /\ now \in Nat \ {0}

\* The execution an intent repeats is one its authority allows to repeat.
Covers(n, a) ==
    /\ n.authority.family \in Families =>
          /\ n.authority.cause = Outcome[n.authority.family]
          /\ a.state = n.authority.cause /\ a.listed
          /\ a.state = "infra_failed" => a.stop
    /\ n.authority.family = "unknown" =>
          /\ a.state = "attempt_unknown" /\ a.adj # <<>>
          /\ n.authority.version = Len(a.adj) /\ a.adj[Len(a.adj)].decision \in PermitsRetry

\* A retry is pending exactly while the Run is not executing, for the last receipt.
PendingOK ==
    /\ pending = None <=> run.state = "running"
    /\ pending = None => Len(receipts) = Len(att) - 1
    /\ pending # None => /\ Len(receipts) = Len(att) /\ pending = receipts[Len(att)].intent
                         /\ Covers(pending, Current)

ReceiptsInOrder == \A j \in DOMAIN receipts : receipts[j].intent.source = j

\* Every repeated execution has its receipt, and rests on what that rests on.
StartedFromReceipts ==
    \A k \in DOMAIN att : k > 1 =>
        /\ att[k].provenance = Provenance(receipts[k - 1].intent)
        /\ att[k].rests = receipts[k - 1].intent.authority.version
        /\ Covers(receipts[k - 1].intent, att[k - 1])

\* The budget has room for another retry.
Affords(f, seconds) == Cardinality(Reserved(f)) < MaxRetries[f] /\ Spent(f) + seconds <= MaxSeconds

\* A decision to queue a retry is right as long as the Run has not moved.
QueueRequestOK(r) ==
    /\ r.intent \in Intents /\ r.seconds \in Nat /\ r.runVersion \in Nat
    /\ run.version >= r.runVersion
    /\ run.version = r.runVersion =>
          /\ r.intent.source = Len(att) /\ Covers(r.intent, Current)
          /\ r.intent.authority.family \in Families =>
                Affords(r.intent.authority.family, r.seconds)

\* A review that was escalated is too late for good.
EscalatedIsLate ==
    review.evaluation.status = "sla_breached" =>
        /\ Current.state = "attempt_unknown" /\ Breached
        /\ review.evaluation.notified = Recipients /\ review.evaluation.audited = Audits

IInv ==
    /\ TypeOK /\ PendingOK /\ ReceiptsInOrder /\ StartedFromReceipts
    /\ \A c \in Callers : (req[c] # None /\ req[c].op = "queue") => QueueRequestOK(req[c])
    /\ EscalatedIsLate
    /\ BudgetRespected /\ \A f \in Families : IsFiniteSet(Seconds(f))
=============================================================================
