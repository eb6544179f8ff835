------------------------------- MODULE Outbox -------------------------------
(***************************************************************************)
(* The transactional outbox (adapters/postgres_outbox_publisher.py): rows  *)
(* of qep_outbox_events that units of work insert, and publishers that     *)
(* lease them, deliver them to a sink and record the result, each in a     *)
(* transaction of its own.  A publisher can stop between any two of these, *)
(* and a scan gives leases that are too old back, also those of a          *)
(* publisher that is only slow.                                            *)
(*                                                                         *)
(* Time is abstracted to what the queries compare: a pending row is due    *)
(* when its available_at has passed, a leased row is overdue when its      *)
(* leased_at is older than the timeout of the repair scan.                 *)
(***************************************************************************)
EXTENDS Naturals, FiniteSets

CONSTANTS
    Events,       \* rows of qep_outbox_events
    Publishers,   \* callers of publish_pending
    Limit,        \* its limit
    MaxAttempts,  \* max_attempts
    MaxStops,     \* bound: publishers that stop half way
    MaxSlow,      \* bound: deliveries slower than the lease timeout
    NoEvent       \* not a row

ASSUME PublisherAssumption == Limit \in Nat \ {0} /\ MaxAttempts \in Nat \ {0}
ASSUME OutboxBounds == MaxStops \in Nat /\ MaxSlow \in Nat
ASSUME EventsAssumption == IsFiniteSet(Events) /\ NoEvent \notin Events
ASSUME FinitelyManyPublishers == IsFiniteSet(Publishers)

VARIABLES
    status,     \* "none" before the insert
    attempts,
    due,        \* pending rows whose available_at has passed
    overdue,    \* leased rows older than the lease timeout
    held,       \* claimed rows a publisher has yet to deliver
    snap,       \* attempts as the claim of a publisher returned it
    doing,      \* the row a publisher has delivered and has yet to record
    result,     \* what the sink answered: "ok", or "error" for an exception
    delivered,  \* rows the sink has received
    failed,     \* failed deliveries of a row
    repairs,    \* leases of a row given back by the scan
    stops, slow

rowVars == <<status, attempts, due, overdue>>
pubVars == <<held, snap, doing, result>>
logVars == <<delivered, failed, repairs>>
vars    == <<rowVars, pubVars, logVars, stops, slow>>

Settled  == {"published", "quarantined"}
Statuses == {"none", "pending", "leased"} \cup Settled

Init ==
    /\ status = [e \in Events |-> "none"]
    /\ attempts = [e \in Events |-> 0]
    /\ due = {} /\ overdue = {}
    /\ held = [p \in Publishers |-> {}]
    /\ snap = [p \in Publishers |-> [e \in Events |-> 0]]
    /\ doing = [p \in Publishers |-> NoEvent]
    /\ result = [p \in Publishers |-> "ok"]
    /\ delivered = {}
    /\ failed = [e \in Events |-> 0]
    /\ repairs = [e \in Events |-> 0]
    /\ stops = 0 /\ slow = 0

----------------------------------------------------------------------------
\* The insert of a unit of work, available at once.
InsertOutbox(e) ==
    /\ status[e] = "none"
    /\ status' = [status EXCEPT ![e] = "pending"]
    /\ due' = due \cup {e}
    /\ UNCHANGED <<attempts, overdue, pubVars, logVars, stops, slow>>

\* One UPDATE ... RETURNING: the oldest rows, up to the limit.  Transactions
\* stamp available_at before they commit, so any due row may be the oldest.
ClaimBatch(p) ==
    /\ doing[p] = NoEvent /\ held[p] = {}
    /\ \E S \in SUBSET due :
          /\ S # {}
          /\ Cardinality(S) = Limit \/ (S = due /\ Cardinality(S) < Limit)
          /\ status' = [e \in Events |-> IF e \in S THEN "leased" ELSE status[e]]
          /\ due' = due \ S
          /\ held' = [held EXCEPT ![p] = S]
          /\ snap' = [snap EXCEPT ![p] = [e \in Events |-> IF e \in S THEN attempts[e] ELSE 0]]
    /\ UNCHANGED <<attempts, overdue, doing, result, logVars, stops, slow>>

\* publish_pending offers the next claimed row to the sink.
TakeNext(p, e) ==
    /\ doing[p] = NoEvent
    /\ e \in held[p]
    /\ held' = [held EXCEPT ![p] = @ \ {e}]
    /\ doing' = [doing EXCEPT ![p] = e]

DeliverySucceeds(p, e) ==
    /\ TakeNext(p, e)
    /\ result' = [result EXCEPT ![p] = "ok"]
    /\ delivered' = delivered \cup {e}
    /\ UNCHANGED <<rowVars, snap, failed, repairs, stops, slow>>

\* Fault: an exception of the sink is swallowed.
DeliverySwallowed(p, e) ==
    /\ TakeNext(p, e)
    /\ result' = [result EXCEPT ![p] = "ok"]
    /\ \E got \in SUBSET {e} : delivered' = delivered \cup got
    /\ failed' = [failed EXCEPT ![e] = @ + 1]
    /\ UNCHANGED <<rowVars, snap, repairs, stops, slow>>

\* The sink raises; the event may have reached it all the same.
DeliveryRaises(p, e) ==
    /\ TakeNext(p, e)
    /\ result' = [result EXCEPT ![p] = "error"]
    /\ \E got \in SUBSET {e} : delivered' = delivered \cup got
    /\ failed' = [failed EXCEPT ![e] = @ + 1]
    /\ UNCHANGED <<rowVars, snap, repairs, stops, slow>>

\* Fault: record whatever has become of the row.
RecordsRegardless(e) == TRUE

\* WHERE id = $1 AND status = 'leased', by whoever holds the lease by now.
StillLeased(e) == status[e] = "leased"

RecordSuccess(p) ==
    /\ doing[p] # NoEvent /\ result[p] = "ok"
    /\ LET e == doing[p] IN
          IF StillLeased(e)
          THEN /\ status' = [status EXCEPT ![e] = "published"]
               /\ overdue' = overdue \ {e}
          ELSE UNCHANGED <<status, overdue>>
    /\ doing' = [doing EXCEPT ![p] = NoEvent]
    /\ UNCHANGED <<attempts, due, held, snap, result, logVars, stops, slow>>

\* Fault: one attempt too few.
ExhaustedEarly(n) == n + 1 >= MaxAttempts
\* Fault: one attempt too many.
ExhaustedLate(n) == n > MaxAttempts

Exhausted(n) == n >= MaxAttempts

\* Fault: the word of the report instead of the status of the row.
ReportedAfterFailure(n) == IF Exhausted(n) THEN "quarantined" ELSE "retried"

StatusAfterFailure(n) == IF Exhausted(n) THEN "quarantined" ELSE "pending"

\* The new count comes from the claim, not from the row.  The row is due again
\* after retry_backoff_seconds.
RecordFailure(p) ==
    /\ doing[p] # NoEvent /\ result[p] = "error"
    /\ LET e == doing[p]
           n == snap[p][e] + 1
       IN  IF StillLeased(e)
           THEN /\ status' = [status EXCEPT ![e] = StatusAfterFailure(n)]
                /\ attempts' = [attempts EXCEPT ![e] = n]
                /\ overdue' = overdue \ {e}
           ELSE UNCHANGED <<status, attempts, overdue>>
    /\ doing' = [doing EXCEPT ![p] = NoEvent]
    /\ UNCHANGED <<due, held, snap, result, logVars, stops, slow>>

\* The publisher's process stops, or a query raises out of publish_pending:
\* the rest of the batch stays leased.
Abandon(p) ==
    /\ stops < MaxStops
    /\ doing[p] # NoEvent \/ held[p] # {}
    /\ stops' = stops + 1
    /\ held' = [held EXCEPT ![p] = {}]
    /\ doing' = [doing EXCEPT ![p] = NoEvent]
    /\ UNCHANGED <<rowVars, snap, result, logVars, slow>>

----------------------------------------------------------------------------
BecomesDue(e) ==
    /\ status[e] = "pending" /\ e \notin due
    /\ due' = due \cup {e}
    /\ UNCHANGED <<status, attempts, overdue, pubVars, logVars, stops, slow>>

InHands(e) == \E p \in Publishers : e \in held[p] \/ doing[p] = e

\* An abandoned lease grows old; one in the hands of a publisher only if the
\* publisher is slow.
LeaseGrowsOld(e) ==
    /\ status[e] = "leased" /\ e \notin overdue
    /\ InHands(e) => slow < MaxSlow
    /\ overdue' = overdue \cup {e}
    /\ slow' = IF InHands(e) THEN slow + 1 ELSE slow
    /\ UNCHANGED <<status, attempts, due, pubVars, logVars, stops>>

\* Fault: the scan finds nothing.
NoStuckLeases == {}

StuckLeases == {e \in overdue : status[e] = "leased"}

RepairStuckLeases ==
    /\ StuckLeases # {}
    /\ status' = [e \in Events |-> IF e \in StuckLeases THEN "pending" ELSE status[e]]
    /\ due' = due \cup StuckLeases
    /\ overdue' = overdue \ StuckLeases
    /\ repairs' = [e \in Events |-> IF e \in StuckLeases THEN repairs[e] + 1 ELSE repairs[e]]
    /\ UNCHANGED <<attempts, pubVars, delivered, failed, stops, slow>>

----------------------------------------------------------------------------
Publish(p) ==
    \/ ClaimBatch(p)
    \/ \E e \in Events : DeliverySucceeds(p, e) \/ DeliveryRaises(p, e)
    \/ RecordSuccess(p)
    \/ RecordFailure(p)

Next ==
    \/ \E e \in Events : InsertOutbox(e) \/ BecomesDue(e) \/ LeaseGrowsOld(e)
    \/ \E p \in Publishers : Publish(p) \/ Abandon(p)
    \/ RepairStuckLeases

Spec == Init /\ [][Next]_vars

(***************************************************************************)
(* Fairness: publish_pending and repair_stuck_leases are polled (the class *)
(* is written to be, and leaves the polling to its caller), a delivery     *)
(* returns or raises, and time passes.                                     *)
(***************************************************************************)
FairSpec ==
    /\ Spec
    /\ \A p \in Publishers : WF_vars(Publish(p))
    /\ \A e \in Events : WF_vars(BecomesDue(e)) /\ WF_vars(LeaseGrowsOld(e))
    /\ WF_vars(RepairStuckLeases)

----------------------------------------------------------------------------
(* Properties *)

\* Rows have a status the schema admits, only pending rows are due, and what
\* publishers hold are rows.
TypeOK ==
    /\ status \in [Events -> Statuses]
    /\ attempts \in [Events -> Nat]
    /\ due \subseteq {e \in Events : status[e] = "pending"}
    /\ overdue \subseteq {e \in Events : status[e] = "leased"}
    /\ held \in [Publishers -> SUBSET Events]
    /\ snap \in [Publishers -> [Events -> Nat]]
    /\ doing \in [Publishers -> Events \cup {NoEvent}]
    /\ result \in [Publishers -> {"ok", "error"}]
    /\ delivered \subseteq Events
    /\ failed \in [Events -> Nat]
    /\ repairs \in [Events -> Nat]
    /\ stops \in Nat /\ slow \in Nat

\* At-least-once: no row is marked published that the sink has not received,
\* although the result may be recorded on the lease of another publisher.
PublishedWasDelivered ==
    \A e \in Events : status[e] = "published" => e \in delivered

\* A row is quarantined only after max_attempts deliveries really failed: late
\* results, stops and repairs never count as failures.
QuarantineIsEarned ==
    \A e \in Events : /\ attempts[e] <= failed[e]
                      /\ status[e] = "quarantined" => failed[e] >= MaxAttempts

\* A poison event is not delivered for ever.  The count is taken from the claim,
\* so a repaired lease starts a second count next to the first; each repair
\* costs at most max_attempts further deliveries, never more.
DeliveriesBounded ==
    \A e \in Events : failed[e] <= MaxAttempts * (repairs[e] + 1)

\* A published or quarantined row is never touched again, whoever is late.
SettledIsFinal ==
    [][\A e \in Events : status[e] \in Settled =>
          status'[e] = status[e] /\ attempts'[e] = attempts[e]]_vars

\* Every event is in the end published or quarantined: no stop of a publisher
\* leaves a row leased for good.
EveryEventSettles ==
    \A e \in Events : (status[e] # "none") ~> (status[e] \in Settled)

----------------------------------------------------------------------------
\* What the counts rest on: a publisher remembers no more failures than there
\* were, one of them being the delivery it has yet to record, and a success it
\* has yet to record has reached the sink.
PublisherMemory(p) ==
    /\ \A e \in held[p] : snap[p][e] <= failed[e]
    /\ doing[p] # NoEvent =>
          /\ result[p] = "ok" => doing[p] \in delivered
          /\ result[p] = "error" => snap[p][doing[p]] + 1 <= failed[doing[p]]

\* What the bound on deliveries rests on.  A count ends with the quarantine, and
\* a claim never starts from a count that has ended.
CountsEnd ==
    /\ \A e \in Events : status[e] # "quarantined" => attempts[e] < MaxAttempts
    /\ \A p \in Publishers :
          /\ doing[p] \notin held[p]
          /\ \A e \in held[p] : snap[p][e] < MaxAttempts
          /\ doing[p] # NoEvent => snap[p][doing[p]] < MaxAttempts

\* How far each publisher has counted the failures of a row: to the end if it
\* has no failed delivery of that row ahead of it or to record.
Counted(e) ==
    [p \in Publishers |->
        IF e \in held[p] THEN snap[p][e]
        ELSE IF doing[p] = e /\ result[p] = "error" THEN snap[p][e] + 1
        ELSE MaxAttempts]

\* The failures that publishers can still count, a publisher and a number each,
\* and those that a later claim of the row can.
Above(count) ==
    {t \in Publishers \X (1 .. MaxAttempts) : t[2] > count[t[1]]}

ClaimsAhead(e) ==
    IF status[e] \in {"none", "pending"} THEN MaxAttempts - attempts[e] ELSE 0

\* The failures that were and those that can follow: a repair is all that adds.
FailuresBudgeted ==
    \A e \in Events :
        failed[e] + Cardinality(Above(Counted(e))) + ClaimsAhead(e)
            <= MaxAttempts * (repairs[e] + 1)

\* The inductive invariant: the rows and what publishers remember of them, and
\* the failures that can still be counted.
RowsRemembered ==
    /\ TypeOK
    /\ \A p \in Publishers : PublisherMemory(p)
    /\ PublishedWasDelivered
    /\ QuarantineIsEarned

IInv == RowsRemembered /\ CountsEnd /\ FailuresBudgeted
=============================================================================
