---------------------------- MODULE ExecutionRun ----------------------------
(***************************************************************************)
(* One Run of the worker-execution domain (src/qarunner/domain): the       *)
(* aggregate of its Assignments (reservations on a worker), Attempts (real *)
(* executions, each with a fence), retry intents and cancellation          *)
(* (run.py, assignment.py, attempt.py, retry.py, unknown.py).              *)
(*                                                                         *)
(* A command is one action: the control plane loads the aggregate, applies *)
(* the command and writes it back under compare-and-set on its version, so *)
(* a stale command, a rejected one and an exact replay change nothing.     *)
(* Commands arrive from workers of any attempt, current or superseded, and *)
(* in any order.  Times are stamps of the control plane's clock, which     *)
(* does not go back; the lower bounds the commands check ("before claim",  *)
(* "before cancel intent", ...) then hold by themselves.                   *)
(*                                                                         *)
(* The constructors re-validate the whole aggregate after every command    *)
(* (__post_init__).  Two of their checks are the only refusal of a bad     *)
(* input: the window of a new reservation (WindowAccepted) and a decision  *)
(* about an attempt (AdjudicationAccepted); these are guards below, and no *)
(* property claims what they check.  The actions leave every other check   *)
(* of the constructors out, and AggregateValid states those as an          *)
(* invariant: the guards of the commands keep every history valid.         *)
(***************************************************************************)
EXTENDS Naturals, Sequences, FiniteSets

CONSTANTS
    Workers,          \* worker generations (WorkerRef)
    MaxTime,          \* bound: clock
    MaxAssignments,   \* bound: reservations of the Run
    MaxAttempts,      \* bound: executions of the Run
    MaxAdjudications, \* bound: decisions on one unknown attempt
    MaxEvents         \* bound: events of one attempt

ASSUME WorkersAssumption == Workers # {}
ASSUME BoundsAssumption ==
    /\ MaxTime \in Nat \ {0} /\ MaxAssignments \in Nat /\ MaxAttempts \in Nat
    /\ MaxAdjudications \in Nat /\ MaxEvents \in Nat

VARIABLES
    state,      \* Run.state
    fence,      \* Run.current_fence
    asg,        \* Run.assignments; the position is the id
    current,    \* Run.current_assignment_id, 0 for None
    att,        \* Run.attempts; the position is the id
    intents,    \* Run.retry_intents; the position is the id
    pending,    \* Run.pending_retry_intent_id, 0 for None
    cancelAt,   \* Run.cancel_intent.recorded_at, 0 for None
    stopAt,     \* Run.cancellation_stop, the earlier of its two stop times, 0 for None
    now         \* the clock

vars == <<state, fence, asg, current, att, intents, pending, cancelAt, stopAt, now>>

RunStates == {"planned", "queued", "assigned", "running", "retry_queued", "cancelled"}
Open      == {"offered", "claimed"}
Closed    == {"expired_prestart", "released_prestart", "cancelled_prestart"}
AssignmentStates == Open \cup Closed \cup {"committed"}
Executing == {"start_committed", "provisioning", "running", "uploading"}
Failed    == {"test_failed", "infra_failed"}
TerminalAttempt == Failed \cup {"passed", "cancelled", "attempt_unknown"}
PermitsRetry == {"confirm_stopped_then_retry", "accept_duplicate_risk_then_retry"}
Decisions == PermitsRetry \cup {"mark_infra_failed_no_retry",
                                 "mark_completed_from_verified_evidence"}

Times == 0..MaxTime
Assignments == [state : AssignmentStates, worker : Workers, retry : 0..MaxAttempts,
                offered : Times, expires : 0..(MaxTime + 1), claimed : Times,
                committed : Times, closed : Times]
Attempts == [state : Executing \cup TerminalAttempt, fence : Nat, asg : Nat,
             worker : Workers, retry : 0..MaxAttempts, unknownAt : Times,
             adj : Seq([decision : Decisions, at : Times]), events : 0..MaxEvents]
\* authority: the adjudication a retry rests on, or the failure its policy is for.
Intents == [source : Nat, adj : 0..MaxAdjudications, outcome : Failed \cup {"unknown"},
            created : Times]

----------------------------------------------------------------------------
Init ==
    /\ state = "planned" /\ fence = 0
    /\ asg = <<>> /\ current = 0
    /\ att = <<>>
    /\ intents = <<>> /\ pending = 0
    /\ cancelAt = 0 /\ stopAt = 0
    /\ now = 1

Tick ==
    /\ now < MaxTime
    /\ now' = now + 1
    /\ UNCHANGED <<state, fence, asg, current, att, intents, pending, cancelAt, stopAt>>

\* Run.transition: the only plain edge.
Enqueue ==
    /\ state = "planned"
    /\ state' = "queued"
    /\ UNCHANGED <<fence, asg, current, att, intents, pending, cancelAt, stopAt, now>>

----------------------------------------------------------------------------
(***************************************************************************)
(* Reservations.  An assignment carries the retry intent that was pending  *)
(* when it was offered.                                                    *)
(***************************************************************************)
Offered(w, e) == [state |-> "offered", worker |-> w, retry |-> pending, offered |-> now,
                  expires |-> e, claimed |-> 0, committed |-> 0, closed |-> 0]
Claimed(a)      == [a EXCEPT !.state = "claimed", !.claimed = now]
Committed(a)    == [a EXCEPT !.state = "committed", !.committed = now]
ClosedAs(a, kind) == [a EXCEPT !.state = kind, !.closed = now]

\* No command checks the window: the constructor of the Assignment refuses one
\* that is over when it is offered.
WindowAccepted(e) == e > now

Offer(w, e) ==
    /\ Len(asg) < MaxAssignments
    /\ state \in {"queued", "retry_queued"} /\ current = 0
    /\ state = "queued" <=> pending = 0
    /\ WindowAccepted(e)
    /\ asg' = Append(asg, Offered(w, e))
    /\ current' = Len(asg) + 1
    /\ state' = "assigned"
    /\ UNCHANGED <<fence, att, intents, pending, cancelAt, stopAt, now>>

\* Fault: the expiry instant still belongs to the worker.
InWindowInclusive(i) == now <= asg[i].expires

\* The window a claim and a start commit must fall into: the expiry instant is
\* already outside.
InWindow(i) == now < asg[i].expires

Claim(i, w) ==
    /\ state = "assigned" /\ current = i
    /\ asg[i].worker = w
    /\ asg[i].state = "offered"
    /\ InWindow(i)
    /\ asg' = [asg EXCEPT ![i] = Claimed(@)]
    /\ UNCHANGED <<state, fence, current, att, intents, pending, cancelAt, stopAt, now>>

\* Where the Run waits after a reservation ended without an execution.
ResumeState(i) == IF asg[i].retry # 0 THEN "retry_queued" ELSE "queued"

ClosePrecommit(i, kind) ==
    /\ state = "assigned" /\ current = i
    /\ asg[i].state \in Open
    /\ asg' = [asg EXCEPT ![i] = ClosedAs(@, kind)]
    /\ current' = 0
    /\ state' = ResumeState(i)
    /\ UNCHANGED <<fence, att, intents, pending, cancelAt, stopAt, now>>

ExpirePrecommit(i) ==
    /\ now >= asg[i].expires
    /\ ClosePrecommit(i, "expired_prestart")

ReleasePrecommit(i, w) ==
    /\ asg[i].worker = w
    /\ InWindow(i)
    /\ ClosePrecommit(i, "released_prestart")

----------------------------------------------------------------------------
(***************************************************************************)
(* Executions.                                                             *)
(***************************************************************************)
\* Fault: any attempt of the Run will do.
IsKnownAttempt(k) == k \in DOMAIN att

\* _current_attempt: only the latest attempt, and only at the Run's fence.
IsCurrentAttempt(k) == k = Len(att) /\ att[k].fence = fence

\* Fault: an adjudication that was superseded still authorizes.
AuthoritativeOnce(n, k) ==
    IF n.outcome \in Failed
    THEN att[k].state = n.outcome
    ELSE /\ att[k].state = "attempt_unknown"
         /\ n.adj \in DOMAIN att[k].adj
         /\ att[k].adj[n.adj].decision \in PermitsRetry

\* _ensure_retry_intent_authoritative, for an intent n on attempt k.
Authoritative(n, k) ==
    IF n.outcome \in Failed
    THEN att[k].state = n.outcome
    ELSE /\ att[k].state = "attempt_unknown"
         /\ att[k].adj # <<>>
         /\ n.adj = Len(att[k].adj)
         /\ att[k].adj[n.adj].decision \in PermitsRetry

\* The first execution has no intent; every other one consumes the pending one.
RetryAllowed(i) ==
    IF att = <<>>
    THEN pending = 0 /\ asg[i].retry = 0
    ELSE /\ pending # 0 /\ asg[i].retry = pending
         /\ IsCurrentAttempt(intents[pending].source)
         /\ Authoritative(intents[pending], intents[pending].source)

NewAttempt(i, w) == [state |-> "start_committed", fence |-> fence + 1, asg |-> i,
                     worker |-> w, retry |-> pending, unknownAt |-> 0, adj |-> <<>>,
                     events |-> 0]

CommitStart(i, w) ==
    /\ Len(att) < MaxAttempts
    /\ state = "assigned" /\ current = i
    /\ asg[i].worker = w
    /\ asg[i].state = "claimed"
    /\ InWindow(i)
    /\ RetryAllowed(i)
    /\ fence' = fence + 1
    /\ att' = Append(att, NewAttempt(i, w))
    /\ asg' = [asg EXCEPT ![i] = Committed(@)]
    /\ state' = "running"
    /\ pending' = 0
    /\ UNCHANGED <<current, intents, cancelAt, stopAt, now>>

AllowedTransitions ==
    {<<"start_committed", "provisioning">>, <<"provisioning", "running">>,
     <<"provisioning", "uploading">>, <<"running", "uploading">>}

\* The states an attempt may be moved to from s.
MayMoveTo(s) == {to \in Executing : <<s, to>> \in AllowedTransitions}

TransitionAttempt(k, to) ==
    /\ IsCurrentAttempt(k)
    /\ to \in MayMoveTo(att[k].state)
    /\ att' = [att EXCEPT ![k].state = to]
    /\ UNCHANGED <<state, fence, asg, current, intents, pending, cancelAt, stopAt, now>>

\* A message of worker w that carries fence f speaks for attempt k.  The caller's
\* AttemptAuthority is the Run's fence and the worker of its latest attempt.
EnsureAuthority(k, w, f) ==
    /\ att[k].fence = fence /\ f = fence
    /\ att[k].worker = att[Len(att)].worker /\ w = att[Len(att)].worker

\* Sequence numbers have no gaps, and nothing follows the end.
AcceptsEvent(a, seq) == a.state \in Executing /\ seq = a.events + 1

RecordEvent(k, w, f, seq) ==
    /\ IsCurrentAttempt(k)
    /\ EnsureAuthority(k, w, f)
    /\ AcceptsEvent(att[k], seq)
    /\ att' = [att EXCEPT ![k].events = seq]
    /\ UNCHANGED <<state, fence, asg, current, intents, pending, cancelAt, stopAt, now>>

\* Fault: unknown overrides a failure that is already proven.
UnknownOverridesFailure == Executing \cup Failed

\* Where an attempt can still become unknown.
UnknownEligible == Executing

\* A trusted observer (lease watchdog, reconciler, ...) lost track of the attempt.
MarkUnknown(k) ==
    /\ IsCurrentAttempt(k)
    /\ att[k].state \in UnknownEligible
    /\ att' = [att EXCEPT ![k].state = "attempt_unknown", ![k].unknownAt = now]
    /\ UNCHANGED <<state, fence, asg, current, intents, pending, cancelAt, stopAt, now>>

\* A cancel request got no proof that the execution stopped.
MarkCancelStopUnproven(k) == cancelAt # 0 /\ MarkUnknown(k)

\* _finalize_evidence: the evidence of an attempt that is uploading decides it.
Finalize(k, w, f, outcome) ==
    /\ EnsureAuthority(k, w, f)
    /\ att[k].state = "uploading"
    /\ att' = [att EXCEPT ![k].state = outcome]

\* Evidence without a stop proof: classified from exit and case facts.
FinalizeEvidence(k, w, f, outcome) ==
    /\ IsCurrentAttempt(k)
    /\ Finalize(k, w, f, outcome)
    /\ UNCHANGED <<state, fence, asg, current, intents, pending, cancelAt, stopAt, now>>

----------------------------------------------------------------------------
(***************************************************************************)
(* Unknown attempts and retries.                                           *)
(***************************************************************************)
\* No command looks at the state of the attempt or at the decision: the constructor
\* of the Attempt refuses a decision about any other attempt than an unknown one,
\* and the one that is not supported yet.
AdjudicationAccepted(k, d) ==
    /\ att[k].state = "attempt_unknown"
    /\ d # "mark_completed_from_verified_evidence"

Adjudicated(a, d) == [a EXCEPT !.adj = Append(@, [decision |-> d, at |-> now])]

AppendAdjudication(k, d) ==
    /\ IsCurrentAttempt(k)
    /\ AdjudicationAccepted(k, d)
    /\ Len(att[k].adj) < MaxAdjudications
    /\ pending = 0 /\ state = "running"
    /\ att' = [att EXCEPT ![k] = Adjudicated(@, d)]
    /\ UNCHANGED <<state, fence, asg, current, intents, pending, cancelAt, stopAt, now>>

\* Fault: a cancel request does not stop a retry from being queued.
QueueRetryAlthoughCancelled(n) ==
    /\ state = "running" /\ pending = 0
    /\ state' = "retry_queued"
    /\ current' = 0
    /\ intents' = Append(intents, n)
    /\ pending' = Len(intents) + 1
    /\ UNCHANGED <<fence, asg, att, cancelAt, stopAt, now>>

QueueRetry(n) ==
    /\ cancelAt = 0
    /\ state = "running" /\ pending = 0
    /\ state' = "retry_queued"
    /\ current' = 0
    /\ intents' = Append(intents, n)
    /\ pending' = Len(intents) + 1
    /\ UNCHANGED <<fence, asg, att, cancelAt, stopAt, now>>

\* The intent names the adjudication it was made from, which may be superseded.
QueueAdjudicatedRetry(k, j) ==
    /\ IsCurrentAttempt(k)
    /\ LET n == [source |-> k, adj |-> j, outcome |-> "unknown", created |-> now]
       IN  Authoritative(n, k) /\ QueueRetry(n)
    /\ current # 0 /\ asg[current].state = "committed"

\* A policy decision RETRY taken on this version of the Run.
QueuePolicyRetry(k, outcome) ==
    /\ IsCurrentAttempt(k)
    /\ LET n == [source |-> k, adj |-> 0, outcome |-> outcome, created |-> now]
       IN  Authoritative(n, k) /\ QueueRetry(n)

----------------------------------------------------------------------------
(***************************************************************************)
(* Cancellation.  Before a start commit the request closes the Run; after  *)
(* one it only records the intent.                                         *)
(***************************************************************************)
\* A reservation that is already over is closed as expired, not as cancelled.
CancelledClosure(i) == IF InWindow(i) THEN "cancelled_prestart" ELSE "expired_prestart"

\* Fault: a cancel request ends the Run at once.
CancelsAtOnce == "cancelled"

\* Only an execution under way outlives the request.
StateAfterCancel == IF state = "running" THEN "running" ELSE "cancelled"

RequestCancel ==
    /\ cancelAt = 0
    /\ state \in {"queued", "assigned", "running", "retry_queued"}
    /\ cancelAt' = now
    /\ state' = StateAfterCancel
    /\ IF state = "assigned"
       THEN /\ asg' = [asg EXCEPT ![current] = ClosedAs(@, CancelledClosure(current))]
            /\ current' = 0
       ELSE UNCHANGED <<asg, current>>
    /\ UNCHANGED <<fence, att, intents, pending, stopAt, now>>

\* TrustedCancellationStop: recorded by now, after the process and its access to the
\* system under test stopped; s is the earlier of the two times.
TrustedStops == 1..now

\* The stop proof s must not be older than the request.
StopProves(s) == s >= cancelAt

FinalizeCancelled(k, w, f, s) ==
    /\ cancelAt # 0
    /\ StopProves(s)
    /\ IsCurrentAttempt(k)
    /\ stopAt = 0
    /\ state = "running"
    /\ Finalize(k, w, f, "cancelled")
    /\ state' = "cancelled"
    /\ current' = 0
    /\ stopAt' = s
    /\ UNCHANGED <<fence, asg, intents, pending, cancelAt, now>>

----------------------------------------------------------------------------
ReservationNext ==
    \/ \E w \in Workers, e \in 1..(MaxTime + 1) : Offer(w, e)
    \/ \E i \in DOMAIN asg : \/ \E w \in Workers : Claim(i, w) \/ ReleasePrecommit(i, w)
                                                   \/ CommitStart(i, w)
                             \/ ExpirePrecommit(i)

AttemptNext(k) ==
    \/ \E to \in Executing : TransitionAttempt(k, to)
    \/ \E w \in Workers, f \in 1..fence :
          \/ \E seq \in 1..MaxEvents : RecordEvent(k, w, f, seq)
          \/ \E outcome \in Failed \cup {"passed"} : FinalizeEvidence(k, w, f, outcome)
          \/ \E s \in TrustedStops : FinalizeCancelled(k, w, f, s)
    \/ MarkUnknown(k) \/ MarkCancelStopUnproven(k)
    \/ \E d \in Decisions : AppendAdjudication(k, d)
    \/ \E j \in 1..MaxAdjudications : QueueAdjudicatedRetry(k, j)
    \/ \E outcome \in Failed : QueuePolicyRetry(k, outcome)

Next ==
    \/ Tick \/ Enqueue \/ RequestCancel
    \/ ReservationNext
    \/ \E k \in DOMAIN att : AttemptNext(k)

Spec == Init /\ [][Next]_vars

----------------------------------------------------------------------------
(***************************************************************************)
(* What the constructors check (__post_init__ of Assignment, Attempt and   *)
(* Run), without what WindowAccepted and AdjudicationAccepted stand for:   *)
(* the window as offered, and the decisions of an attempt.                 *)
(***************************************************************************)
AssignmentValid(a) ==
    /\ a.claimed # 0 => a.offered <= a.claimed /\ a.claimed < a.expires
    /\ a.committed # 0 => /\ a.claimed # 0 /\ a.claimed <= a.committed
                          /\ a.committed < a.expires
    /\ a.state = "offered" => a.claimed = 0
    /\ a.state = "claimed" => a.claimed # 0
    /\ a.committed # 0 <=> a.state = "committed"
    /\ a.closed # 0 <=> a.state \in Closed
    /\ a.state = "expired_prestart" => a.closed >= a.expires
    /\ a.state \in Closed \ {"expired_prestart"} =>
          a.offered <= a.closed /\ a.claimed <= a.closed /\ a.closed < a.expires

AttemptValid(k) ==
    /\ att[k].state = "attempt_unknown" <=> att[k].unknownAt # 0
    /\ k > 1 <=> att[k].retry # 0

\* _validate_normalized_history, the attempts.
AttemptHistory ==
    /\ fence = Len(att)
    /\ \A k \in DOMAIN att :
          /\ att[k].fence = k
          /\ att[k].asg \in DOMAIN asg
          /\ asg[att[k].asg].state = "committed"
          /\ asg[att[k].asg].worker = att[k].worker
          /\ att[k].unknownAt # 0 => att[k].unknownAt >= asg[att[k].asg].committed
          /\ asg[att[k].asg].retry = att[k].retry
          /\ k > 1 => /\ att[k].retry \in DOMAIN intents
                      /\ intents[att[k].retry].source = k - 1
                      /\ att[k - 1].asg < att[k].asg

\* _validate_normalized_history, the retry intents: each still rests on the
\* last word about its source.
IntentHistory ==
    /\ pending # 0 => pending = Len(intents) /\ intents[pending].source = Len(att)
    /\ \A n \in DOMAIN intents :
          /\ intents[n].source \in DOMAIN att
          /\ Authoritative(intents[n], intents[n].source)
          /\ intents[n].outcome = "unknown" =>
                intents[n].created >= att[intents[n].source].adj[intents[n].adj].at
          /\ \A m \in DOMAIN intents : m # n =>
                \/ intents[m].source # intents[n].source
                \/ intents[m].adj # intents[n].adj
                \/ intents[m].outcome # intents[n].outcome

EndedAt(a) == IF a.closed # 0 THEN a.closed ELSE a.committed

\* _validate_normalized_history, the reservations: one open at most, in epochs.
AssignmentHistory ==
    /\ current # 0 => current = Len(asg)
    /\ \A i \in DOMAIN asg :
          /\ asg[i].retry # 0 => /\ asg[i].retry \in DOMAIN intents
                                 /\ asg[i].offered >= intents[asg[i].retry].created
          /\ asg[i].state = "committed" => \E k \in DOMAIN att : att[k].asg = i
          /\ asg[i].state \in Closed => i # current
          /\ asg[i].state \in Open => i = current
          /\ i > 1 => /\ asg[i - 1].retry <= asg[i].retry
                      /\ asg[i].offered >= EndedAt(asg[i - 1])

\* _validate_cancel_intent_causality and _validate_cancellation_history.
CancellationHistory ==
    /\ cancelAt # 0 => /\ \A i \in DOMAIN asg : EndedAt(asg[i]) <= cancelAt
                       /\ pending # 0 => intents[pending].created <= cancelAt
    /\ \A i \in DOMAIN asg : asg[i].state = "cancelled_prestart" =>
          i = Len(asg) /\ state = "cancelled" /\ cancelAt # 0 /\ asg[i].closed = cancelAt

LatestIs(s) == att # <<>> /\ att[Len(att)].state = s

\* _validate_state_pointers.
StatePointers ==
    /\ state = "planned" => asg = <<>> /\ att = <<>> /\ intents = <<>>
    /\ state = "queued" => current = 0 /\ pending = 0 /\ att = <<>> /\ intents = <<>>
    /\ state = "retry_queued" => current = 0 /\ pending # 0
    /\ state = "assigned" => /\ current # 0 /\ asg[current].state \in Open
                             /\ att # <<>> => pending # 0 /\ asg[current].retry = pending
    /\ state = "running" => current # 0 /\ asg[current].state = "committed" /\ pending = 0
    /\ state = "cancelled" => current = 0 /\ cancelAt # 0
    /\ (state = "cancelled" /\ att # <<>> /\ pending = 0) => stopAt # 0 /\ LatestIs("cancelled")
    /\ stopAt # 0 => state = "cancelled" /\ pending = 0 /\ LatestIs("cancelled")
                     /\ stopAt >= cancelAt
    /\ LatestIs("cancelled") => state = "cancelled" /\ stopAt # 0
    /\ cancelAt # 0 => state \in {"running", "cancelled"}

\* _validate_retry_intent_consumption: used in order, the pending one last.
RetryConsumption ==
    /\ \A k \in DOMAIN att : att[k].retry = k - 1
    /\ Len(intents) = (IF att = <<>> THEN 0 ELSE Len(att) - 1) + (IF pending = 0 THEN 0 ELSE 1)

\* _validate_assignment_epoch_tails: nothing is reserved behind a start commit
\* for the same intent.
EpochTails ==
    \A k \in DOMAIN att, i \in DOMAIN asg :
        i > att[k].asg => asg[i].retry # att[k].retry

----------------------------------------------------------------------------
(* Properties *)

\* The Run, its reservations, executions and intents stay in their domains.
TypeOK ==
    /\ state \in RunStates
    /\ fence \in Nat
    /\ asg \in Seq(Assignments)
    /\ current \in Nat
    /\ att \in Seq(Attempts)
    /\ intents \in Seq(Intents)
    /\ pending \in Nat
    /\ cancelAt \in Times /\ stopAt \in Times /\ now \in Times

\* No sequence of commands whose own guards pass leads to reservations, executions,
\* retries and a cancellation that the constructors would refuse.  (The window of a
\* new reservation and the decisions of an attempt are checked by nothing but the
\* constructors: they are not part of the claim.)
AggregateValid ==
    /\ TypeOK
    /\ \A i \in DOMAIN asg : AssignmentValid(asg[i])
    /\ \A k \in DOMAIN att : AttemptValid(k)
    /\ AttemptHistory
    /\ IntentHistory
    /\ AssignmentHistory
    /\ CancellationHistory
    /\ StatePointers
    /\ RetryConsumption
    /\ EpochTails

\* At most one execution is under way, it is the latest, it holds the Run's
\* fence, and the Run says running.
OneLiveAttempt ==
    \A k \in DOMAIN att : att[k].state \in Executing =>
        k = Len(att) /\ k = fence /\ state = "running" /\ att[k].asg = current

\* Once a cancel request is accepted no further execution is started, although
\* commit_start itself never looks at the request.
NoExecutionAfterCancel ==
    [][cancelAt # 0 => Len(att') = Len(att)]_vars

\* A superseded execution is frozen: nothing its worker still sends changes it.
SupersededIsFrozen ==
    [][\A k \in DOMAIN att : (k < Len(att) \/ pending # 0 \/ state = "cancelled")
          => att'[k] = att[k]]_vars

\* The first terminal fact about an execution stands; an unknown one only
\* collects decisions.
FirstFactStands ==
    [][\A k \in DOMAIN att : att[k].state \in TerminalAttempt =>
          /\ att'[k].state = att[k].state
          /\ att'[k].events = att[k].events
          /\ att'[k].adj # att[k].adj => att[k].state = "attempt_unknown"]_vars

\* An execution is repeated only after a failure, or after somebody's last word
\* on an unknown outcome allowed it; nothing that passed or was cancelled runs
\* again.
RetriesAreAuthorized ==
    \A k \in DOMAIN att : k > 1 =>
        \/ att[k - 1].state \in Failed
        \/ /\ att[k - 1].state = "attempt_unknown"
           /\ att[k - 1].adj # <<>>
           /\ att[k - 1].adj[Len(att[k - 1].adj)].decision \in PermitsRetry

----------------------------------------------------------------------------
(* What the proofs need to know besides. *)

\* No time on record is ahead of the clock.
RecordedByNow ==
    /\ now >= 1 /\ cancelAt <= now
    /\ \A i \in DOMAIN asg : /\ asg[i].offered <= now /\ asg[i].claimed <= now
                            /\ asg[i].committed <= now /\ asg[i].closed <= now
    /\ \A k \in DOMAIN att : /\ att[k].unknownAt <= now
                            /\ \A j \in DOMAIN att[k].adj : att[k].adj[j].at <= now
    /\ \A n \in DOMAIN intents : intents[n].created <= now

IInv == AggregateValid /\ OneLiveAttempt /\ RecordedByNow /\ Len(att) <= MaxAttempts
=============================================================================
