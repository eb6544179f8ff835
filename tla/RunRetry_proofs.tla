-------------------------- MODULE RunRetry_proofs --------------------------
(***************************************************************************)
(* Proofs about RunRetry: retries stay within the budget, each is covered  *)
(* by the authority it was queued and started under, and an escalated      *)
(* review stays escalated.                                                 *)
(*                                                                         *)
(* The argument is about versions.  A caller's decision to queue a retry   *)
(* was right when it was made, and every step that could make it wrong     *)
(* moves the Run's version, so a decision that is published is still       *)
(* right.  Once a retry is pending the execution it repeats stays as it    *)
(* is, so what its receipt rests on is true when the retry starts.         *)
(***************************************************************************)
EXTENDS RunRetry, FiniteSetTheorems, TLAPS

\* The part of IInv about the callers.
QueueRequests ==
    \A c \in Callers : (req[c] # None /\ req[c].op = "queue") => QueueRequestOK(req[c])

\* The part of IInv about the budget.
BudgetKept == BudgetRespected /\ \A f \in Families : IsFiniteSet(Seconds(f))

-----------------------------------------------------------------------------
(* Sequences. *)

\* The last execution is replaced (AttemptEnds, Adjudicate).
LEMMA ReplacedLast ==
    ASSUME NEW T, NEW s \in Seq(T), s # <<>>, NEW b \in T
    PROVE  LET t == [s EXCEPT ![Len(s)] = b]
           IN  /\ t \in Seq(T) /\ t # <<>> /\ Len(t) = Len(s) /\ DOMAIN t = DOMAIN s
               /\ t[Len(t)] = b
               /\ \A k \in DOMAIN s : k # Len(s) => t[k] = s[k]
               /\ \A k \in DOMAIN s : k > 1 => k - 1 \in DOMAIN s /\ k - 1 # Len(s)
OBVIOUS

\* An execution or a receipt is appended (CommitRetryStart, PublishRetry).
LEMMA Appended ==
    ASSUME NEW T, NEW s \in Seq(T), NEW b \in T
    PROVE  /\ Append(s, b) \in Seq(T) /\ Append(s, b) # <<>>
           /\ Len(Append(s, b)) = Len(s) + 1 /\ DOMAIN Append(s, b) = 1..(Len(s) + 1)
           /\ Append(s, b)[Len(s) + 1] = b
           /\ \A k \in 1..Len(s) : Append(s, b)[k] = s[k]
OBVIOUS

\* The last execution is one of the Run's.
LEMMA LastInSeq ==
    ASSUME NEW T, NEW s \in Seq(T), s # <<>>
    PROVE  /\ s[Len(s)] \in T /\ Len(s) \in Nat /\ Len(s) >= 1 /\ DOMAIN s = 1..Len(s)
           /\ \A k \in 1..Len(s) : s[k] \in T
OBVIOUS
-----------------------------------------------------------------------------
(* Requests. *)

\* After a step that moves the Run's version every decision to queue is stale.
LEMMA MovedOn ==
    ASSUME TypeOK, QueueRequests, run'.version = run.version + 1,
           req' = req \/ \E c \in Callers : req' = [req EXCEPT ![c] = None]
    PROVE  QueueRequests'
  <1> SUFFICES ASSUME NEW c \in Callers, (req[c] # None)', (req[c].op = "queue")'
               PROVE  QueueRequestOK(req[c])'
    BY DEF QueueRequests
  <1>1. req[c]' = req[c]
    BY DEF TypeOK
  <1>2. QueueRequestOK(req[c])
    BY <1>1 DEF QueueRequests
  <1>3. run.version \in Nat
    BY DEF TypeOK
  <1> QED
    BY <1>1, <1>2, <1>3 DEF QueueRequestOK

\* A step that leaves the Run and its executions leaves a decision as right as it was.
LEMMA StaysRight ==
    ASSUME TypeOK, QueueRequests, UNCHANGED <<run, att, receipts>>,
           \/ req' = req
           \/ \E c \in Callers : req' = [req EXCEPT ![c] = None]
           \/ \E c \in Callers : \E r : /\ req' = [req EXCEPT ![c] = r]
                                        /\ r.op = "queue" => QueueRequestOK(r)
    PROVE  QueueRequests'
  <1> SUFFICES ASSUME NEW c \in Callers, (req[c] # None)', (req[c].op = "queue")'
               PROVE  QueueRequestOK(req[c])'
    BY DEF QueueRequests
  <1>1. QueueRequestOK(req'[c])
    BY DEF TypeOK, QueueRequests
  <1> QED
    BY <1>1 DEF QueueRequestOK, Current, Affords, Reserved, Spent, Seconds

\* The budget is spent by receipts alone.
LEMMA BudgetStays == ASSUME BudgetKept, UNCHANGED receipts PROVE BudgetKept'
  BY DEF BudgetKept, BudgetRespected, Reserved, Spent, Seconds
-----------------------------------------------------------------------------
(* The inductive invariant. *)

\* IInv by its parts.
LEMMA InvParts == IInv <=> /\ TypeOK /\ PendingOK /\ ReceiptsInOrder /\ StartedFromReceipts
                           /\ QueueRequests /\ EscalatedIsLate /\ BudgetKept
  BY DEF IInv, QueueRequests, BudgetKept

\* A Run with its first execution satisfies the invariant.
LEMMA InitIInv == Init => IInv
  <1> SUFFICES ASSUME Init PROVE IInv
    OBVIOUS
  <1> DEFINE a == Attempt(None, None)
  <1>1. a \in Attempts /\ a.state = "running"
    BY DEF Attempt, Attempts
  <1>2. att = <<a>> /\ Len(att) = 1 /\ DOMAIN att = 1..1 /\ att # <<>> /\ att \in Seq(Attempts)
    BY <1>1 DEF Init
  <1>3. receipts = <<>> /\ Len(receipts) = 0 /\ DOMAIN receipts = {} /\ receipts \in Seq(Receipts)
    BY DEF Init
  <1>4. TypeOK
    BY <1>2, <1>3 DEF Init, TypeOK, Quiet
  <1>5. PendingOK
    BY <1>2, <1>3 DEF Init, PendingOK
  <1>6. ReceiptsInOrder /\ StartedFromReceipts
    BY <1>2, <1>3 DEF ReceiptsInOrder, StartedFromReceipts
  <1>7. QueueRequests /\ EscalatedIsLate
    BY DEF Init, QueueRequests, EscalatedIsLate, Quiet
  <1>8. BudgetKept
    <2> SUFFICES ASSUME NEW f \in Families
                 PROVE  /\ IsFiniteSet(Seconds(f))
                        /\ Cardinality(Reserved(f)) <= MaxRetries[f] /\ Spent(f) <= MaxSeconds
      BY DEF BudgetKept, BudgetRespected
    <2>1. Reserved(f) = {} /\ Seconds(f) = {}
      BY <1>3 DEF Reserved, Seconds
    <2> QED
      BY <2>1, FS_EmptySet, RetryAssumption DEF Spent
  <1> QED
    BY <1>4, <1>5, <1>6, <1>7, <1>8, InvParts

\* The last execution changes in what it found and was decided on, never in what it
\* repeats or rests on; no retry is pending.
LEMMA CurrentChanges ==
    ASSUME IInv, NEW b \in Attempts, run.state = "running", Touch("running"),
           att' = [att EXCEPT ![Len(att)] = b],
           b.provenance = Current.provenance, b.rests = Current.rests,
           review.evaluation.status = "sla_breached" =>
               b.state = Current.state /\ b.unknownAt = Current.unknownAt,
           UNCHANGED <<pending, receipts, policy, review, req, now>>
    PROVE  IInv'
  <1> USE InvParts
  <1>0. att \in Seq(Attempts) /\ att # <<>>
    BY DEF TypeOK
  <1>1. /\ att' \in Seq(Attempts) /\ att' # <<>> /\ Len(att') = Len(att) /\ DOMAIN att' = DOMAIN att
        /\ att'[Len(att')] = b
        /\ \A k \in DOMAIN att : k # Len(att) => att'[k] = att[k]
        /\ \A k \in DOMAIN att : k > 1 => k - 1 \in DOMAIN att /\ k - 1 # Len(att)
    BY <1>0, ReplacedLast
  <1>2. /\ run' = [run EXCEPT !.state = "running", !.version = run.version + 1]
        /\ run'.version = run.version + 1 /\ run.version \in Nat /\ run'.state = "running"
    BY DEF Touch, TypeOK
  <1>3. TypeOK'
    <2>1. PICK v \in Nat : v = run.version + 1
      BY <1>2
    <2>2. run' = [run EXCEPT !.state = "running", !.version = v]
      BY <1>2, <2>1
    <2>3. run' \in [state : {"running", "retry_queued", "assigned", "cancelled"}, version : Nat,
                   cancel : BOOLEAN]
      BY <2>2 DEF TypeOK
    <2> QED
      BY <1>1, <2>3 DEF TypeOK
  <1>4. PendingOK'
    BY <1>1, <1>2 DEF PendingOK
  <1>5. ReceiptsInOrder'
    BY DEF ReceiptsInOrder
  <1>6. StartedFromReceipts'
    <2> SUFFICES ASSUME NEW k \in DOMAIN att, k > 1
                 PROVE  /\ att'[k].provenance = Provenance(receipts[k - 1].intent)
                        /\ att'[k].rests = receipts[k - 1].intent.authority.version
                        /\ Covers(receipts[k - 1].intent, att'[k - 1])
      BY <1>1 DEF StartedFromReceipts, Provenance, Covers
    <2>1. att'[k].provenance = att[k].provenance /\ att'[k].rests = att[k].rests
      BY <1>1 DEF Current
    <2>2. att'[k - 1] = att[k - 1]
      BY <1>1
    <2> QED
      BY <2>1, <2>2 DEF StartedFromReceipts
  <1>7. QueueRequests'
    BY <1>2, MovedOn
  <1>8. EscalatedIsLate'
    BY <1>1 DEF EscalatedIsLate, Breached, Deadline, Current
  <1> QED
    BY <1>3, <1>4, <1>5, <1>6, <1>7, <1>8, BudgetStays DEF IInv, QueueRequests, BudgetKept

\* An execution that ends had no escalated review.
LEMMA AttemptEndsKeeps ==
    ASSUME IInv, NEW outcome \in {"passed", "attempt_unknown", "test_failed", "infra_failed"},
           NEW stop \in BOOLEAN, NEW listed \in BOOLEAN, AttemptEnds(outcome, stop, listed)
    PROVE  IInv'
  <1>0. att \in Seq(Attempts) /\ att # <<>> /\ now \in Nat /\ Current \in Attempts
    BY LastInSeq DEF IInv, TypeOK, Current
  <1>1. PICK v \in Nat : v = Current.version + 1
    BY <1>0 DEF Attempts
  <1>2. PICK u \in Nat : u = ObservedAt(outcome)
    BY <1>0 DEF ObservedAt
  <1> DEFINE b == [Current EXCEPT !.state = outcome, !.stop = stop, !.listed = listed,
                                  !.version = v, !.unknownAt = u]
  <1>3. b \in Attempts /\ b.provenance = Current.provenance /\ b.rests = Current.rests
    BY <1>0 DEF Attempts
  <1>4. att' = [att EXCEPT ![Len(att)] = b]
    BY <1>1, <1>2, Zenon DEF AttemptEnds
  <1>5. review.evaluation.status # "sla_breached"
    BY DEF IInv, EscalatedIsLate, AttemptEnds
  <1> QED
    BY <1>3, <1>4, <1>5, CurrentChanges DEF AttemptEnds

\* A decision is appended, and the outcome stays unknown since the same time.
LEMMA AdjudicateKeeps ==
    ASSUME IInv, NEW d \in Decisions, Adjudicate(d)
    PROVE  IInv'
  <1>0. /\ att \in Seq(Attempts) /\ att # <<>> /\ now \in Nat /\ Current \in Attempts
        /\ Len(att) \in DOMAIN att
    BY LastInSeq DEF IInv, TypeOK, Current
  <1>1. PICK v \in Nat : v = Current.version + 1
    BY <1>0 DEF Attempts
  <1>2. Adjudication(d) \in Adjudications
    BY <1>0 DEF Adjudication, Adjudications
  <1>3. PICK l \in Seq(Adjudications) : l = Append(Current.adj, Adjudication(d))
    BY <1>0, <1>2, Appended DEF Attempts
  <1> DEFINE b == [Current EXCEPT !.adj = l, !.version = v]
  <1>4. /\ b \in Attempts /\ b.provenance = Current.provenance /\ b.rests = Current.rests
        /\ b.state = Current.state /\ b.unknownAt = Current.unknownAt
    BY <1>0 DEF Attempts
  <1>5. att' = [att EXCEPT ![Len(att)] = b]
    BY <1>0, <1>1, <1>3 DEF Adjudicate, Current
  <1> QED
    BY <1>4, <1>5, CurrentChanges DEF Adjudicate

-----------------------------------------------------------------------------
(* Steps that leave the executions and the receipts. *)

\* The Run changes, and no retry begins or ends to be pending (RequestCancel, Assign,
\* Unassign).
LEMMA RunMoves ==
    ASSUME IInv, NEW s \in {"running", "retry_queued", "assigned", "cancelled"},
           NEW b \in BOOLEAN, (s = "running") <=> (run.state = "running"),
           run' = [state |-> s, version |-> run.version + 1, cancel |-> b],
           UNCHANGED <<att, pending, receipts, policy, review, req, now>>
    PROVE  IInv'
  <1> USE InvParts
  <1>1. PICK v \in Nat : v = run.version + 1
    BY DEF TypeOK
  <1>2. run' = [state |-> s, version |-> v, cancel |-> b]
    BY <1>1
  <1>3. TypeOK'
    BY <1>2 DEF TypeOK
  <1>4. PendingOK'
    BY <1>2 DEF PendingOK, Current
  <1>5. ReceiptsInOrder' /\ StartedFromReceipts'
    BY DEF ReceiptsInOrder, StartedFromReceipts, Provenance
  <1>6. QueueRequests'
    BY <1>1, <1>2, MovedOn
  <1>7. EscalatedIsLate'
    BY DEF EscalatedIsLate, Breached, Deadline, Current
  <1> QED
    BY <1>3, <1>4, <1>5, <1>6, <1>7, BudgetStays DEF IInv, QueueRequests, BudgetKept

\* A retry that is pending stays so when its Run is cancelled.
LEMMA RequestCancelKeeps == ASSUME IInv, RequestCancel PROVE IInv'
  <1>1. PICK s : s = IF run.state = "running" THEN "running" ELSE "cancelled"
    OBVIOUS
  <1>2. run' = [state |-> s, version |-> run.version + 1, cancel |-> TRUE]
    BY <1>1 DEF RequestCancel
  <1>3. s \in {"running", "cancelled"} /\ ((s = "running") <=> (run.state = "running"))
    BY <1>1
  <1> QED
    BY <1>2, <1>3, RunMoves DEF RequestCancel

\* A reservation is made or given back while the retry is pending.
LEMMA AssignKeeps == ASSUME IInv, Assign \/ Unassign PROVE IInv'
  <1>1. PICK s \in {"retry_queued", "assigned"} :
            Touch(s) /\ UNCHANGED <<att, pending, receipts, policy, review, req, now>>
    BY DEF Assign, Unassign
  <1>2. run \in [state : {"running", "retry_queued", "assigned", "cancelled"}, version : Nat,
                 cancel : BOOLEAN]
    BY DEF IInv, TypeOK
  <1>3. PICK b \in BOOLEAN : b = run.cancel
    BY <1>2
  <1>4. run' = [state |-> s, version |-> run.version + 1, cancel |-> b]
    BY <1>1, <1>2, <1>3 DEF Touch
  <1>5. run.state # "running"
    BY DEF Assign, Unassign
  <1> QED
    BY <1>1, <1>4, <1>5, RunMoves

\* What is true of the Run, its executions and its receipts stays true while they stay.
LEMMA RunStays ==
    ASSUME IInv, UNCHANGED <<run, att, pending, receipts>>
    PROVE  PendingOK' /\ ReceiptsInOrder' /\ StartedFromReceipts'
  BY DEF IInv, PendingOK, ReceiptsInOrder, StartedFromReceipts, Provenance, Current

\* Time passes: a review that was late is later.
LEMMA TickKeeps == ASSUME IInv, Tick PROVE IInv'
  <1> USE InvParts
  <1>1. now \in Nat \ {0} /\ now' = now + 1
    BY DEF Tick, TypeOK
  <1>2. TypeOK'
    BY <1>1 DEF TypeOK, Tick
  <1>3. QueueRequests'
    BY StaysRight DEF Tick
  <1>4. EscalatedIsLate'
    <2>0. Current \in Attempts
      BY LastInSeq DEF Current, TypeOK
    <2>1. PICK d \in Nat : d = Deadline
      BY <2>0, RetryAssumption DEF Deadline, Attempts
    <2>2. Deadline' = Deadline
      BY DEF Tick, Deadline, Current
    <2>3. Breached => Breached'
      BY <1>1, <2>1, <2>2 DEF Breached, Tick
    <2> QED
      BY <2>3 DEF EscalatedIsLate, Tick, Current
  <1> QED
    BY <1>2, <1>3, <1>4, RunStays, BudgetStays DEF IInv, QueueRequests, BudgetKept, Tick

\* A new policy changes neither receipts nor decisions made.
LEMMA SupersedeKeeps == ASSUME IInv, NEW f \in Families, Supersede(f) PROVE IInv'
  <1> USE InvParts
  <1>1. policy' \in [Families -> Nat]
    BY DEF Supersede, TypeOK
  <1>2. TypeOK'
    BY <1>1 DEF TypeOK, Supersede
  <1>3. QueueRequests'
    BY StaysRight DEF Supersede
  <1>4. EscalatedIsLate'
    BY DEF EscalatedIsLate, Breached, Deadline, Current, Supersede
  <1> QED
    BY <1>2, <1>3, <1>4, RunStays, BudgetStays DEF IInv, QueueRequests, BudgetKept, Supersede

\* A start after the deadline is a breach as well.
LEMMA StartReviewKeeps == ASSUME IInv, StartReview PROVE IInv'
  <1> USE InvParts
  <1>1. review' = [review EXCEPT !.started = now] /\ now \in Nat \ {0} /\ review.started = 0
    BY DEF StartReview, TypeOK
  <1>2. TypeOK' /\ review'.started = now /\ review'.evaluation = review.evaluation
    BY <1>1 DEF TypeOK, StartReview
  <1>3. QueueRequests'
    BY StaysRight DEF StartReview
  <1>4. EscalatedIsLate'
    BY <1>1, <1>2 DEF EscalatedIsLate, Breached, Deadline, Current, StartReview
  <1> QED
    BY <1>2, <1>3, <1>4, RunStays, BudgetStays DEF IInv, QueueRequests, BudgetKept, StartReview

\* An evaluation escalates only what is late.
LEMMA EvaluateReviewKeeps == ASSUME IInv, EvaluateReview PROVE IInv'
  <1> USE InvParts
  <1>1. /\ review' = [review EXCEPT !.evaluation = Evaluation]
        /\ Evaluation \in [status : {"pending", "started", "sla_breached"},
                           notified : SUBSET Recipients, audited : SUBSET Audits]
    BY DEF EvaluateReview, Evaluation, Quiet
  <1>2. TypeOK' /\ review'.started = review.started /\ review'.evaluation = Evaluation
    BY <1>1 DEF TypeOK, EvaluateReview
  <1>3. QueueRequests'
    BY StaysRight DEF EvaluateReview
  <1>4. EscalatedIsLate'
    <2>1. Evaluation.status = "sla_breached" =>
              Breached /\ Evaluation.notified = Recipients /\ Evaluation.audited = Audits
      BY DEF Evaluation, Quiet
    <2>2. Breached' = Breached /\ Current' = Current
      BY <1>2 DEF Breached, Deadline, Current, EvaluateReview
    <2> QED
      BY <1>2, <2>1, <2>2 DEF EscalatedIsLate, EvaluateReview, Recipients, Audits
  <1> QED
    BY <1>2, <1>3, <1>4, RunStays, BudgetStays DEF IInv, QueueRequests, BudgetKept, EvaluateReview

-----------------------------------------------------------------------------
(* The commands. *)

\* A caller forms a request or drops it.
LEMMA ProposeKeeps ==
    ASSUME IInv, NEW c \in Callers, NEW r, Propose(c, r), r.op = "queue" => QueueRequestOK(r)
    PROVE  IInv'
  <1> USE InvParts
  <1>1. TypeOK'
    BY DEF TypeOK, Propose
  <1>2. QueueRequests'
    BY StaysRight DEF Propose
  <1>3. EscalatedIsLate'
    BY DEF EscalatedIsLate, Breached, Deadline, Current, Propose
  <1> QED
    BY <1>1, <1>2, <1>3, RunStays, BudgetStays DEF IInv, QueueRequests, BudgetKept, Propose

\* A request that is given up leaves nothing.
LEMMA DropKeeps == ASSUME IInv, NEW c \in Callers, Drop(c) PROVE IInv'
  <1> USE InvParts
  <1>1. TypeOK'
    BY DEF TypeOK, Drop
  <1>2. QueueRequests'
    BY StaysRight DEF Drop
  <1>3. EscalatedIsLate'
    BY DEF EscalatedIsLate, Breached, Deadline, Current, Drop
  <1> QED
    BY <1>1, <1>2, <1>3, RunStays, BudgetStays DEF IInv, QueueRequests, BudgetKept, Drop

\* A submission to queue is right when it is made if its authority covers the execution.
LEMMA SubmittedRight ==
    ASSUME IInv, NEW a \in Authorities, NEW seconds \in Nat, Covers(Intent(a), Current),
           a.family \in Families => Affords(a.family, seconds)
    PROVE  QueueRequestOK(Submission("queue", Intent(a), seconds))
  <1>1. Intent(a) \in Intents /\ Intent(a).source = Len(att) /\ Intent(a).authority = a
    BY LastInSeq DEF IInv, TypeOK, Intent, Intents
  <1>2. run.version \in Nat
    BY DEF IInv, TypeOK
  <1> QED
    BY <1>1, <1>2 DEF QueueRequestOK, Submission

\* evaluate_run_retry allows only what its policy covers.
LEMMA EvaluatePolicyKeeps ==
    ASSUME IInv, NEW c \in Callers, NEW f \in Families, NEW s \in 1..MaxSeconds,
           EvaluatePolicy(c, f, s)
    PROVE  IInv'
  <1>1. PolicyAuthority(f) \in Authorities
    BY DEF IInv, TypeOK, PolicyAuthority, Authorities, Outcome, Families
  <1>2. Covers(Intent(PolicyAuthority(f)), Current)
    BY DEF EvaluatePolicy, Allows, SourceFact, Covers, Intent, PolicyAuthority, Outcome, Families
  <1>3. s \in Nat
    BY RetryAssumption
  <1>4. QueueRequestOK(Submission("queue", Intent(PolicyAuthority(f)), s))
    <2>1. PolicyAuthority(f).family = f /\ Affords(f, s)
      BY DEF PolicyAuthority, EvaluatePolicy, Allows, Affords
    <2> QED
      BY <1>1, <1>2, <1>3, <2>1, SubmittedRight
  <1> QED
    BY <1>4, ProposeKeeps DEF EvaluatePolicy

\* The last decision covers the retry it permits.
LEMMA PickUpAdjudicationKeeps ==
    ASSUME IInv, NEW c \in Callers, PickUpAdjudication(c)
    PROVE  IInv'
  <1>1. Current \in Attempts
    BY LastInSeq DEF IInv, TypeOK, Current
  <1>2. Current.adj \in Seq(Adjudications) /\ Len(Current.adj) \in Nat
    BY <1>1 DEF Attempts
  <1>3. Last(Current.adj) = Current.adj[Len(Current.adj)]
    BY DEF Last
  <1>4. UnknownAuthority \in Authorities
    BY <1>2 DEF PickUpAdjudication, UnknownAuthority, Authorities
  <1>5. Covers(Intent(UnknownAuthority), Current)
    BY <1>3 DEF PickUpAdjudication, UnknownAuthority, Covers, Intent, Families
  <1>6. QueueRequestOK(Submission("queue", Intent(UnknownAuthority), 0))
    <2>1. UnknownAuthority.family \notin Families
      BY DEF UnknownAuthority, Families
    <2> QED
      BY <1>4, <1>5, <2>1, SubmittedRight
  <1> QED
    BY <1>6, ProposeKeeps DEF PickUpAdjudication

\* A request to start is checked when it is carried out.
LEMMA ProposeStartKeeps == ASSUME IInv, NEW c \in Callers, ProposeStart(c) PROVE IInv'
  <1>1. Submission("start", Last(receipts).intent, 0).op # "queue"
    BY DEF Submission
  <1> QED
    BY <1>1, ProposeKeeps DEF ProposeStart

\* What a published request leaves behind is a receipt.
LEMMA ReceiptType ==
    ASSUME IInv, NEW r, QueueRequestOK(r), run.version = r.runVersion
    PROVE  Receipt(r) \in Receipts /\ Receipt(r).intent = r.intent
  <1> DEFINE n == r.intent
  <1>1. n \in Intents /\ n.authority \in Authorities /\ r.seconds \in Nat
    BY DEF QueueRequestOK, Intents
  <1>2. n.source = Len(att) /\ Covers(n, Current)
    BY DEF QueueRequestOK
  <1>3. AcceptsRisk(n) => Acceptance(n) \in [given : Nat, intent : Intents]
    <2> SUFFICES ASSUME AcceptsRisk(n) PROVE Verdict(n).at \in Nat
      BY <1>1 DEF Acceptance
    <2>1. n.authority.family = "unknown"
      BY <1>1, <1>2 DEF AcceptsRisk, Covers, Authorities, Outcome, Families
    <2>2. Current \in Attempts
      BY LastInSeq DEF IInv, TypeOK, Current
    <2>3. Current.adj \in Seq(Adjudications) /\ Current.adj # <<>>
      BY <1>2, <2>1, <2>2 DEF Covers, Attempts
    <2>4. Verdict(n) = Current.adj[Len(Current.adj)]
      BY <1>2, <2>1 DEF Verdict, Covers, Current
    <2>5. Current.adj[Len(Current.adj)] \in Adjudications
      BY <2>3, LastInSeq
    <2> QED
      BY <2>4, <2>5 DEF Adjudications
  <1>4. Reservation(r) \in [intent : Intents, seconds : Nat]
    BY <1>1 DEF Reservation
  <1> QED
    BY <1>1, <1>3, <1>4 DEF Receipt, Receipts

\* A receipt adds itself and its seconds to the budget of its family, and to no
\* other; the decision it comes from had room for it.
LEMMA ReservationGrows ==
    ASSUME IInv, NEW r, QueueRequestOK(r), run.version = r.runVersion,
           DOMAIN receipts = 1..Len(receipts), Len(receipts) \in Nat,
           DOMAIN receipts' = 1..(Len(receipts) + 1),
           receipts'[Len(receipts) + 1] = Receipt(r),
           \A k \in 1..Len(receipts) : receipts'[k] = receipts[k]
    PROVE  BudgetKept'
  <1> DEFINE j == Len(receipts) + 1
             q == Receipt(r)
             g == r.intent.authority.family
  <1> USE InvParts
  <1>0. q.intent = r.intent /\ r.seconds \in Nat
    BY ReceiptType DEF QueueRequestOK
  <1> SUFFICES ASSUME NEW f \in Families
               PROVE  /\ IsFiniteSet(Seconds(f)')
                      /\ Cardinality(Reserved(f)') <= MaxRetries[f]
                      /\ Cardinality(Seconds(f)') <= MaxSeconds
    BY DEF BudgetKept, BudgetRespected, Spent
  <1>1. IsFiniteSet(Reserved(f)) /\ IsFiniteSet(Seconds(f)) /\ j \notin Reserved(f)
    <2>1. IsFiniteSet(1..Len(receipts)) /\ Reserved(f) \in SUBSET (1..Len(receipts))
      BY FS_Interval DEF Reserved
    <2> QED
      BY <2>1, FS_Subset DEF BudgetKept
  <1>2. CASE g # f
    <2>1. Reserved(f)' = Reserved(f)
      BY <1>0, <1>2 DEF Reserved
    <2>2. Seconds(f)' = Seconds(f)
      BY <2>1 DEF Seconds, Reserved
    <2> QED
      BY <1>1, <2>1, <2>2 DEF BudgetKept, BudgetRespected, Spent
  <1>3. CASE g = f
    <2>0. PICK z \in Nat : z = r.seconds
      BY <1>0
    <2> DEFINE more == {j} \X (1 .. z)
    <2>1. Affords(f, z) /\ q.reservation.seconds = z
      BY <1>3, <2>0 DEF QueueRequestOK, Receipt, Reservation
    <2>2. Reserved(f)' = Reserved(f) \cup {j}
      BY <1>0, <1>3 DEF Reserved
    <2>3. Seconds(f)' = Seconds(f) \cup more
      BY <2>1, <2>2 DEF Seconds, Reserved
    <2>4. Seconds(f) \cap more = {}
      BY <1>1 DEF Seconds
    <2>5. IsFiniteSet(more) /\ Cardinality(more) = z
      <3>1. IsFiniteSet(1 .. z) /\ Cardinality(1 .. z) = z
        BY FS_Interval
      <3>2. IsFiniteSet({j}) /\ Cardinality({j}) = 1
        BY FS_Singleton
      <3>3. IsFiniteSet(more) /\ Cardinality(more) = Cardinality({j}) * Cardinality(1 .. z)
        BY <3>1, <3>2, FS_Product
      <3> QED
        BY <3>1, <3>2, <3>3
    <2> HIDE DEF more, j, q, g
    <2>6. Cardinality(Seconds(f)') = Cardinality(Seconds(f)) + z /\ IsFiniteSet(Seconds(f)')
      <3>1. Cardinality(Seconds(f) \cap more) = 0 /\ Cardinality(Seconds(f)) \in Nat
        BY <1>1, <2>4, FS_EmptySet, FS_CardinalityType
      <3>2. /\ IsFiniteSet(Seconds(f) \cup more)
            /\ Cardinality(Seconds(f) \cup more) =
                   Cardinality(Seconds(f)) + Cardinality(more) - Cardinality(Seconds(f) \cap more)
        BY <1>1, <2>5, FS_Union
      <3> QED
        BY <2>3, <2>5, <3>1, <3>2
    <2>7. Cardinality(Reserved(f)') = Cardinality(Reserved(f)) + 1
          /\ Cardinality(Reserved(f)) \in Nat
      BY <1>1, <2>2, FS_AddElement, FS_CardinalityType
    <2> QED
      BY <2>1, <2>6, <2>7, RetryAssumption DEF Affords, Spent
  <1> QED
    BY <1>2, <1>3

\* The retry becomes pending, with the receipt of the last execution.
LEMMA PublishKeeps ==
    ASSUME IInv, NEW c \in Callers, req[c] # None, req[c].op = "queue", PublishRetry(c)
    PROVE  IInv'
  <1> USE InvParts
  <1> DEFINE n == req[c].intent
             q == Receipt(req[c])
  <1>1. QueueRequestOK(req[c]) /\ run.version = req[c].runVersion
    BY DEF QueueRequests, PublishRetry, VersionsMatch
  <1>2. /\ n \in Intents /\ n # None /\ n.source = Len(att) /\ Covers(n, Current)
        /\ q \in Receipts /\ q.intent = n
    BY <1>1, ReceiptType, IntentAssumption DEF QueueRequestOK
  <1>3. /\ run.state = "running" /\ pending = None /\ pending' = n
        /\ receipts' = Append(receipts, q) /\ req' = [req EXCEPT ![c] = None]
        /\ Touch("retry_queued") /\ UNCHANGED <<att, policy, review, now>>
    BY DEF PublishRetry
  <1> HIDE DEF n, q
  <1>4. /\ att \in Seq(Attempts) /\ att # <<>> /\ Len(att) \in Nat /\ DOMAIN att = 1..Len(att)
        /\ receipts \in Seq(Receipts) /\ Len(receipts) = Len(att) - 1
        /\ DOMAIN receipts = 1..Len(receipts) /\ Len(receipts) \in Nat
    BY <1>3, LastInSeq DEF TypeOK, PendingOK
  <1>5. /\ receipts' \in Seq(Receipts) /\ Len(receipts') = Len(att)
        /\ DOMAIN receipts' = 1..Len(att)
        /\ receipts'[Len(att)] = q
        /\ \A k \in 1..Len(receipts) : receipts'[k] = receipts[k]
    <2>1. Len(receipts) + 1 = Len(att)
      BY <1>4
    <2>2. /\ receipts' \in Seq(Receipts) /\ Len(receipts') = Len(receipts) + 1
          /\ DOMAIN receipts' = 1..(Len(receipts) + 1)
          /\ receipts'[Len(receipts) + 1] = q
          /\ \A k \in 1..Len(receipts) : receipts'[k] = receipts[k]
      <3>1. receipts \in Seq(Receipts) /\ q \in Receipts /\ receipts' = Append(receipts, q)
        BY <1>2, <1>3, <1>4
      <3> QED
        BY <3>1, Appended
    <2> QED
      BY <2>1, <2>2
  <1>6. PICK v \in Nat : v = run.version + 1
    BY DEF TypeOK
  <1>7. run' = [run EXCEPT !.state = "retry_queued", !.version = v]
    BY <1>3, <1>6 DEF Touch
  <1>8. /\ run' \in [state : {"running", "retry_queued", "assigned", "cancelled"}, version : Nat,
                    cancel : BOOLEAN]
        /\ run'.state = "retry_queued" /\ run'.version = v
    BY <1>7 DEF TypeOK
  <1>9. TypeOK'
    BY <1>2, <1>3, <1>5, <1>8 DEF TypeOK
  <1>10. PendingOK'
    BY <1>2, <1>3, <1>5, <1>8 DEF PendingOK, Current
  <1>11. ReceiptsInOrder'
    BY <1>2, <1>4, <1>5 DEF ReceiptsInOrder
  <1>12. StartedFromReceipts'
    <2> SUFFICES ASSUME NEW k \in DOMAIN att, k > 1
                 PROVE  /\ att[k].provenance = Provenance(receipts'[k - 1].intent)
                        /\ att[k].rests = receipts'[k - 1].intent.authority.version
                        /\ Covers(receipts'[k - 1].intent, att[k - 1])
      BY <1>3 DEF StartedFromReceipts, Provenance, Covers
    <2>1. receipts'[k - 1] = receipts[k - 1]
      BY <1>4, <1>5
    <2> QED
      BY <2>1 DEF StartedFromReceipts
  <1>13. QueueRequests'
    BY <1>3, <1>6, <1>8, MovedOn
  <1>14. EscalatedIsLate'
    BY <1>3 DEF EscalatedIsLate, Breached, Deadline, Current
  <1>15. BudgetKept'
    <2>1. Len(receipts) + 1 = Len(att) /\ Receipt(req[c]) = q
      BY <1>4 DEF q
    <2>2. /\ DOMAIN receipts' = 1..(Len(receipts) + 1)
          /\ receipts'[Len(receipts) + 1] = Receipt(req[c])
      BY <1>5, <2>1
    <2> QED
      BY <1>1, <1>4, <1>5, <2>2, ReservationGrows
  <1> QED
    BY <1>9, <1>10, <1>11, <1>12, <1>13, <1>14, <1>15 DEF IInv, QueueRequests, BudgetKept

\* The pending retry starts: its execution rests on the authority of its receipt.
LEMMA CommitRetryStartKeeps ==
    ASSUME IInv, NEW c \in Callers, CommitRetryStart(c)
    PROVE  IInv'
  <1> USE InvParts
  <1>1. /\ run.state = "assigned" /\ pending = req[c].intent /\ Touch("running")
        /\ review' = [started |-> 0, evaluation |-> Quiet("pending")] /\ pending' = None
        /\ req' = [req EXCEPT ![c] = None] /\ UNCHANGED <<receipts, policy, now>>
    BY DEF CommitRetryStart
  <1>2. pending # None /\ pending \in Intents /\ pending.authority \in Authorities
    BY <1>1 DEF PendingOK, TypeOK, Intents
  <1> DEFINE f == pending.authority.family
             rests == IF f \in Families THEN PolicyWriteAuthority(f) ELSE UnknownWriteAuthority
  <1>3. att' = Append(att, Attempt(Provenance(pending), rests)) /\ AuthorityCurrent(pending)
    BY <1>1 DEF CommitRetryStart, ReceiptsOf, AuthorityMatches
  <1>4. rests = pending.authority.version /\ pending.authority.version \in Nat
    BY <1>2, <1>3 DEF AuthorityCurrent, Authorities
  <1> DEFINE a == Attempt(Provenance(pending), pending.authority.version)
  <1>5. /\ a \in Attempts /\ a.provenance = Provenance(pending)
        /\ a.rests = pending.authority.version
    <2>1. Provenance(pending) \in Provenances
      BY <1>2 DEF Provenance, Provenances, Intents
    <2> QED
      BY <1>4, <2>1 DEF Attempt, Attempts
  <1>6. att' = Append(att, a)
    BY <1>3, <1>4
  <1> HIDE DEF a
  <1>7. /\ att \in Seq(Attempts) /\ att # <<>> /\ Len(att) \in Nat /\ DOMAIN att = 1..Len(att)
        /\ Len(receipts) = Len(att) /\ pending = receipts[Len(att)].intent
        /\ Covers(pending, att[Len(att)])
    BY <1>2, LastInSeq DEF TypeOK, PendingOK, Current
  <1>8. /\ att' \in Seq(Attempts) /\ att' # <<>> /\ Len(att') = Len(att) + 1
        /\ DOMAIN att' = 1..(Len(att) + 1) /\ att'[Len(att) + 1] = a
        /\ \A k \in 1..Len(att) : att'[k] = att[k]
    BY <1>5, <1>6, <1>7, Appended
  <1>9. PICK v \in Nat : v = run.version + 1
    BY DEF TypeOK
  <1>10. run' = [run EXCEPT !.state = "running", !.version = v]
    BY <1>1, <1>9 DEF Touch
  <1>11. /\ run' \in [state : {"running", "retry_queued", "assigned", "cancelled"}, version : Nat,
                    cancel : BOOLEAN]
         /\ run'.state = "running" /\ run'.version = v
    BY <1>10 DEF TypeOK
  <1>12. TypeOK'
    BY <1>1, <1>8, <1>11 DEF TypeOK, Quiet
  <1>13. PendingOK'
    <2>1. Len(receipts') = Len(att') - 1
      BY <1>1, <1>7, <1>8
    <2> QED
      BY <1>1, <1>11, <2>1 DEF PendingOK
  <1>14. ReceiptsInOrder'
    BY <1>1 DEF ReceiptsInOrder
  <1>15. StartedFromReceipts'
    <2> SUFFICES ASSUME NEW k \in 1..(Len(att) + 1), k > 1
                 PROVE  /\ att'[k].provenance = Provenance(receipts[k - 1].intent)
                        /\ att'[k].rests = receipts[k - 1].intent.authority.version
                        /\ Covers(receipts[k - 1].intent, att'[k - 1])
      BY <1>1, <1>8 DEF StartedFromReceipts, Provenance, Covers
    <2>1. k - 1 \in 1..Len(att) /\ att'[k - 1] = att[k - 1]
      BY <1>7, <1>8
    <2>2. CASE k = Len(att) + 1
      BY <1>5, <1>7, <1>8, <2>1, <2>2
    <2>3. CASE k # Len(att) + 1
      <3>1. k \in DOMAIN att /\ att'[k] = att[k]
        BY <1>7, <1>8, <2>3
      <3> QED
        BY <2>1, <3>1 DEF StartedFromReceipts
    <2> QED
      BY <2>2, <2>3
  <1>16. QueueRequests'
    BY <1>1, <1>9, <1>11, MovedOn
  <1>17. EscalatedIsLate'
    BY <1>1 DEF EscalatedIsLate, Quiet
  <1> QED
    BY <1>1, <1>12, <1>13, <1>14, <1>15, <1>16, <1>17, BudgetStays DEF IInv, QueueRequests, BudgetKept

-----------------------------------------------------------------------------
\* Every step keeps the invariant.
LEMMA Inductive == IInv /\ [Next]_vars => IInv'
  <1> SUFFICES ASSUME IInv, [Next]_vars PROVE IInv'
    OBVIOUS
  <1>1. CASE UNCHANGED vars
    <2>1. QueueRequests' /\ BudgetKept'
      BY <1>1, InvParts, StaysRight, BudgetStays DEF vars
    <2>2. TypeOK' /\ EscalatedIsLate'
      BY <1>1 DEF vars, IInv, TypeOK, EscalatedIsLate, Breached, Deadline, Current
    <2> QED
      BY <1>1, <2>1, <2>2, RunStays DEF vars, IInv, QueueRequests, BudgetKept
  <1>2. CASE Around
    BY <1>2, TickKeeps, RequestCancelKeeps, AssignKeeps, AttemptEndsKeeps, AdjudicateKeeps,
       SupersedeKeeps, StartReviewKeeps, EvaluateReviewKeeps DEF Around
  <1>3. ASSUME NEW c \in Callers, Command(c) PROVE IInv'
    <2>1. QueuePolicyRetry(c) \/ QueueAdjudicatedRetry(c) => IInv'
      BY PublishKeeps DEF QueuePolicyRetry, QueueAdjudicatedRetry
    <2> QED
      BY <1>3, <2>1, EvaluatePolicyKeeps, PickUpAdjudicationKeeps, ProposeStartKeeps,
         CommitRetryStartKeeps, DropKeeps DEF Command
  <1> QED
    BY <1>1, <1>2, <1>3 DEF Next

\* The receipts and the executions stay in step, and every decision a caller holds is
\* right or stale.
THEOREM Invariance == Spec => []IInv
  BY InitIInv, Inductive, PTL DEF Spec

\* evaluate_run_retry and the gateway's fence: however many evaluations run side by
\* side on the same usage, the retries never exceed the number and the seconds of
\* their policies.
THEOREM BudgetsHold == Spec => []BudgetRespected
  <1>1. IInv => BudgetRespected
    BY DEF IInv
  <1> QED
    BY <1>1, Invariance, PTL

\* The invariant implies the property: receipts of different executions have
\* different sources, so each execution has one.
LEMMA CoveredFromInv == IInv => RetriesAreCovered
  <1> SUFFICES ASSUME IInv, NEW k \in DOMAIN att, k > 1
               PROVE  LET p == att[k].provenance
                          f == p.authority.family
                      IN  /\ p.source = k - 1 /\ att[k].rests = p.authority.version
                          /\ Cardinality({q \in DOMAIN receipts :
                                            receipts[q].intent = p.intent}) = 1
                          /\ f \in Families => att[k - 1].state = Outcome[f] /\ att[k - 1].listed
                          /\ att[k - 1].state = "infra_failed" => att[k - 1].stop
                          /\ f = "unknown" =>
                                /\ p.authority.version = Len(att[k - 1].adj)
                                /\ Verdict(p.intent).decision \in PermitsRetry
    BY DEF RetriesAreCovered
  <1> USE InvParts
  <1>1. /\ DOMAIN att = 1..Len(att) /\ Len(att) \in Nat /\ receipts \in Seq(Receipts)
        /\ Len(receipts) >= Len(att) - 1 /\ DOMAIN receipts = 1..Len(receipts)
        /\ Len(receipts) \in Nat
    BY LastInSeq DEF TypeOK, PendingOK
  <1>2. k - 1 \in DOMAIN receipts
    BY <1>1
  <1>3. PICK n \in Intents : n = receipts[k - 1].intent
    <2>1. receipts[k - 1] \in Receipts
      BY <1>1, <1>2
    <2> QED
      BY <2>1 DEF Receipts
  <1>4. /\ att[k].provenance = Provenance(n) /\ att[k].rests = n.authority.version
        /\ Covers(n, att[k - 1]) /\ n.source = k - 1
    BY <1>2, <1>3 DEF StartedFromReceipts, ReceiptsInOrder
  <1>5. n.authority \in Authorities
    BY DEF Intents
  <1>6. Cardinality({q \in DOMAIN receipts : receipts[q].intent = n}) = 1
    <2>1. {q \in DOMAIN receipts : receipts[q].intent = n} = {k - 1}
      BY <1>2, <1>3, <1>4 DEF ReceiptsInOrder
    <2> QED
      BY <2>1, FS_Singleton
  <1>7. n.authority.family \in Families =>
            /\ att[k - 1].state = Outcome[n.authority.family] /\ att[k - 1].listed
            /\ att[k - 1].state = "infra_failed" => att[k - 1].stop
    BY <1>4 DEF Covers
  <1>8. n.authority.family = "unknown" =>
            /\ att[k - 1].state # "infra_failed" /\ n.authority.version = Len(att[k - 1].adj)
            /\ Verdict(n).decision \in PermitsRetry
    BY <1>4 DEF Covers, Verdict
  <1>9. n.authority.family \in Families \/ n.authority.family = "unknown"
    BY <1>5 DEF Authorities
  <1>10. /\ Provenance(n).source = n.source /\ Provenance(n).authority = n.authority
         /\ Provenance(n).intent = n
    BY DEF Provenance
  <1> QED
    BY <1>4, <1>6, <1>7, <1>8, <1>9, <1>10

\* An execution is repeated only under the authority that was current both when the
\* retry was queued (run_retry.py) and when it started (retry_commit_start.py), about
\* the execution right before it; each receipt starts one execution at most.
THEOREM RetriesHaveCover == Spec => []RetriesAreCovered
  BY Invariance, CoveredFromInv, PTL

\* evaluate_unknown_review: an escalated review stays escalated, and its recipients
\* notified, whenever it is evaluated again and whether or not a reviewer starts.
THEOREM EscalationsStand == Spec => EscalationStands
  <1>1. IInv /\ [Next]_vars =>
            [review.evaluation.status = "sla_breached" /\ Len(att') = Len(att) =>
                review'.evaluation = review.evaluation]_vars
    <2> SUFFICES ASSUME IInv, Next, review.evaluation.status = "sla_breached",
                        Len(att') = Len(att)
                 PROVE  review'.evaluation = review.evaluation
      OBVIOUS
    <2>1. CASE EvaluateReview
      <3>1. /\ Breached /\ review.evaluation.notified = Recipients
            /\ review.evaluation.audited = Audits
        BY DEF IInv, EscalatedIsLate
      <3>2. review' = [review EXCEPT !.evaluation = Evaluation]
        BY <2>1 DEF EvaluateReview
      <3>3. Evaluation = [status |-> "sla_breached", notified |-> Recipients, audited |-> Audits]
        BY <3>1 DEF Evaluation
      <3> QED
        BY <3>1, <3>2, <3>3 DEF IInv, TypeOK
    <2>2. CASE StartReview
      BY <2>2 DEF StartReview, IInv, TypeOK
    <2>3. ASSUME NEW c \in Callers, CommitRetryStart(c) PROVE FALSE
      <3>1. PICK a : att' = Append(att, a)
        BY <2>3 DEF CommitRetryStart
      <3>2. Len(att') = Len(att) + 1 /\ Len(att) \in Nat
        BY <3>1 DEF IInv, TypeOK
      <3> QED
        BY <3>2
    <2>4. CASE Around
      BY <2>1, <2>2, <2>4 DEF Around, Tick, RequestCancel, Assign, Unassign, AttemptEnds,
         Adjudicate, Supersede
    <2>5. ASSUME NEW c \in Callers, Command(c) PROVE review'.evaluation = review.evaluation
      BY <2>3, <2>5 DEF Command, EvaluatePolicy, PickUpAdjudication, QueuePolicyRetry,
         QueueAdjudicatedRetry, PublishRetry, ProposeStart, Propose, Drop
    <2> QED
      BY <2>4, <2>5 DEF Next
  <1> QED
    BY <1>1, Invariance, PTL DEF Spec, EscalationStands
=============================================================================
