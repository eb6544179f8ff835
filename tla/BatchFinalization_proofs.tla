----------------------- MODULE BatchFinalization_proofs -----------------------
(***************************************************************************)
(* Proofs about BatchFinalization, for any number of Runs, items, callers  *)
(* and retries: its four invariants from the inductive invariant IInv, and *)
(* the action property ClosedForGood.                                      *)
(***************************************************************************)
EXTENDS BatchFinalization, FiniteSetTheorems, TLAPS

----------------------------------------------------------------------------
(* The operators the candidates are made of. *)

\* The rank of an outcome, as RunItemResolutionSet.audit_outcome orders them.
LEMMA PrecedenceValues ==
    /\ Precedence["passed"] = 0 /\ Precedence["cancelled"] = 1
    /\ Precedence["test_failed"] = 2 /\ Precedence["infra_failed"] = 3
<1> DEFINE P(o, n) == o = <<"passed", "cancelled", "test_failed", "infra_failed">>[n + 1]
<1>1. /\ \A n \in 0..3 : P("passed", n) <=> n = 0
      /\ \A n \in 0..3 : P("cancelled", n) <=> n = 1
      /\ \A n \in 0..3 : P("test_failed", n) <=> n = 2
      /\ \A n \in 0..3 : P("infra_failed", n) <=> n = 3
  OBVIOUS
<1>2. \A o \in Outcomes : Precedence[o] = CHOOSE n \in 0..3 : P(o, n)
  BY DEF Precedence
<1> HIDE DEF P
<1> QED
  BY <1>1, <1>2 DEF Outcomes, Completed

\* The audit outcome of a Run is one of its items' outcomes.
LEMMA AuditOutcomeIsOne ==
    ASSUME NEW S, S \subseteq Outcomes, S # {}
    PROVE  AuditOutcome(S) \in S
<1>1. \E o \in S : \A p \in S : Precedence[p] <= Precedence[o]
  <2>1. CASE "infra_failed" \in S
    BY <2>1, PrecedenceValues DEF Outcomes, Completed
  <2>2. CASE "infra_failed" \notin S /\ "test_failed" \in S
    BY <2>2, PrecedenceValues DEF Outcomes, Completed
  <2>3. CASE "infra_failed" \notin S /\ "test_failed" \notin S /\ "cancelled" \in S
    BY <2>3, PrecedenceValues DEF Outcomes, Completed
  <2>4. CASE S = {"passed"}
    BY <2>4, PrecedenceValues
  <2> QED
    BY <2>1, <2>2, <2>3, <2>4 DEF Outcomes, Completed
<1> QED
  BY <1>1 DEF AuditOutcome

\* The last entry of a sequence is replaced.
LEMMA ReplaceLast ==
    ASSUME NEW S, NEW s \in Seq(S), s # <<>>, NEW e \in S
    PROVE  LET t == [s EXCEPT ![Len(s)] = e]
           IN  /\ t \in Seq(S) /\ Len(t) = Len(s) /\ t # <<>> /\ t[Len(t)] = e
               /\ \A k \in 1..Len(s) : k # Len(s) => t[k] = s[k]
OBVIOUS

LEMMA AppendType ==
    ASSUME NEW S, NEW s \in Seq(S), NEW e \in S
    PROVE  Append(s, e) \in Seq(S) /\ Append(s, e) # <<>>
<1>1. Append(s, e) \in Seq(S) /\ Len(Append(s, e)) = Len(s) + 1 /\ Len(s) \in Nat
  OBVIOUS
<1>2. Len(<<>>) = 0
  OBVIOUS
<1> QED
  BY <1>1, <1>2

LEMMA LastType ==
    ASSUME NEW S, NEW s \in Seq(S), s # <<>>
    PROVE  Len(s) \in 1..Len(s) /\ Len(s) \in Nat \ {0} /\ s[Len(s)] \in S
<1>1. Len(s) \in Nat /\ Len(s) # 0
  OBVIOUS
<1> QED
  BY <1>1

\* A step of a Run that is not closed: it disturbs neither the other Runs nor the
\* Batch, which is still running, nor, by assumption, what callers wrote of the Run.
LEMMA HistoryFrame ==
    ASSUME IInv, NEW r \in Runs, basis[r] = None,
           NEW s \in Seq(AttemptRows(r)), att' = [att EXCEPT ![r] = s],
           run' \in [Runs -> RunRows], \A q \in Runs : q # r => run'[q] = run[q],
           open' \subseteq Runs, \A q \in Runs : q # r => (q \in open' <=> q \in open),
           pending' \subseteq Runs, \A q \in Runs : q # r => (q \in pending' <=> q \in pending),
           PhaseOK(r)',
           UNCHANGED <<basis, closed, req, batchVars>>,
           \A b : RunRequestOK(b, r, run[r], att[r]) => RunRequestOK(b, r, run'[r], s)
    PROVE  IInv'
<1>1. att'[r] = s /\ \A q \in Runs : q # r => att'[q] = att[q]
  BY DEF IInv, TypeOK
<1>2. TypeOK'
  <2>1. att' = [q \in Runs |-> att'[q]]
    BY DEF IInv, TypeOK
  <2>2. \A q \in Runs : att'[q] \in Seq(AttemptRows(q))
    BY <1>1 DEF IInv, TypeOK
  <2> QED
    BY <2>1, <2>2 DEF IInv, TypeOK, batchVars
<1>3. ~AllClosed /\ ~AllClosed'
  BY DEF AllClosed
<1>4. bstate = "running" /\ UNCHANGED <<bstate, started, finished, readiness, bbasis>>
  BY <1>3 DEF IInv, BatchEndsOnItsRuns, batchVars
<1>5. ReadinessStands' /\ BatchEndsOnItsRuns' /\ bstate' \notin Terminal
  BY <1>3, <1>4 DEF IInv, ReadinessStands, BatchEndsOnItsRuns, Terminal
<1>6. \A q \in Runs : PhaseOK(q)'
  BY <1>1 DEF IInv, PhaseOK
<1>7. ASSUME NEW q \in Runs, basis'[q] # None PROVE ClosedOK(q)'
  BY <1>1, <1>7 DEF IInv, ClosedOK
<1>8. ClosedRestsOnLastAttempt'
  BY <1>1 DEF IInv, ClosedRestsOnLastAttempt, Latest
<1>9. ASSUME NEW c \in Callers, req'[c] # None PROVE RequestOK(req[c])'
  <2>1. RequestOK(req[c])
    BY <1>9 DEF IInv
  <2>2. ASSUME req[c].op = "run"
        PROVE  \E q \in Runs : RunRequestOK(req[c].cand, q, run'[q], att'[q])
    <3>1. PICK q \in Runs : RunRequestOK(req[c].cand, q, run[q], att[q])
      BY <2>1, <2>2 DEF RequestOK
    <3>2. CASE q = r
      BY <1>1, <3>1, <3>2
    <3>3. CASE q # r
      BY <1>1, <3>1, <3>3
    <3> QED
      BY <3>2, <3>3
  <2> QED
    BY <1>3, <2>1, <2>2 DEF RequestOK
<1> QED
  BY <1>2, <1>5, <1>6, <1>7, <1>8, <1>9 DEF IInv

\* Candidates of the version that a step left behind cannot be published any more.
LEMMA VersionMoves ==
    ASSUME NEW b, NEW r, NEW row, NEW s, NEW row2, NEW t,
           row.version \in Nat, row2.version = row.version + 1, RunRequestOK(b, r, row, s)
    PROVE  RunRequestOK(b, r, row2, t)
BY DEF RunRequestOK, WellFormed

----------------------------------------------------------------------------
(* The history of a Run. *)

\* A step that moves the Run's version.
LEMMA MovesKeep ==
    ASSUME IInv, NEW r \in Runs, run[r].phase # "closed",
           NEW s \in Seq(AttemptRows(r)), att' = [att EXCEPT ![r] = s],
           NEW row \in RunRows, run' = [run EXCEPT ![r] = row], row.version = run[r].version + 1,
           open' \subseteq Runs, \A q \in Runs : q # r => (q \in open' <=> q \in open),
           pending' \subseteq Runs, \A q \in Runs : q # r => (q \in pending' <=> q \in pending),
           PhaseOK(r)', UNCHANGED <<basis, closed, req, batchVars>>
    PROVE  IInv'
<1>1. basis[r] = None
  BY DEF IInv, ClosedRestsOnLastAttempt
<1>2. run[r].version \in Nat /\ run'[r] = row
  BY DEF IInv, TypeOK, RunRows
<1>3. \A b : RunRequestOK(b, r, run[r], att[r]) => RunRequestOK(b, r, run'[r], s)
  BY <1>2, VersionMoves
<1>4. run' \in [Runs -> RunRows] /\ \A q \in Runs : q # r => run'[q] = run[q]
  BY DEF IInv, TypeOK
<1> QED
  BY <1>1, <1>3, <1>4, HistoryFrame

\* What Moves does to the row.
LEMMA MovedRow ==
    ASSUME TypeOK, NEW r \in Runs, NEW phase \in Phases, Moves(r, phase)
    PROVE  \E row \in RunRows : /\ run' = [run EXCEPT ![r] = row] /\ row.version = run[r].version + 1
                                /\ row.phase = phase
<1> DEFINE row == [run[r] EXCEPT !.phase = phase, !.version = @ + 1]
<1>1. row \in RunRows /\ row.version = run[r].version + 1 /\ row.phase = phase
  <2>1. run[r] \in RunRows
    BY DEF TypeOK
  <2>2. PICK v \in Nat : v = run[r].version + 1
    BY <2>1 DEF RunRows
  <2>3. row = [run[r] EXCEPT !.phase = phase, !.version = v]
    BY <2>2
  <2> QED
    BY <2>1, <2>2, <2>3 DEF RunRows
<1>2. run' = [run EXCEPT ![r] = row]
  BY DEF TypeOK, RunRows, Moves
<1> QED
  BY <1>1, <1>2

LEMMA OfferKeeps == ASSUME IInv, NEW r \in Runs, Offer(r), UNCHANGED batchVars PROVE IInv'
<1>1. PICK row \in RunRows : /\ run' = [run EXCEPT ![r] = row] /\ row.version = run[r].version + 1
                             /\ row.phase = "assigned"
  BY MovedRow DEF IInv, Offer, Phases
<1>2. att[r] \in Seq(AttemptRows(r)) /\ att' = [att EXCEPT ![r] = att[r]]
  BY DEF IInv, TypeOK, Offer
<1>3. run'[r] = row /\ PhaseOK(r)'
  BY <1>1 DEF IInv, TypeOK, PhaseOK
<1> QED
  BY <1>1, <1>2, <1>3, MovesKeep DEF IInv, TypeOK, Offer

LEMMA NewAttemptType == ASSUME NEW r \in Runs PROVE NewAttempt(r) \in AttemptRows(r)
BY DEF NewAttempt, AttemptRows, Facts, Outcomes

LEMMA CommitStartKeeps ==
    ASSUME IInv, NEW r \in Runs, CommitStart(r), UNCHANGED batchVars PROVE IInv'
<1> DEFINE s == Append(att[r], NewAttempt(r))
<1>1. PICK row \in RunRows : /\ run' = [run EXCEPT ![r] = row] /\ row.version = run[r].version + 1
                             /\ row.phase = "running"
  BY MovedRow DEF IInv, CommitStart, Phases
<1>2. att[r] \in Seq(AttemptRows(r)) /\ att' = [att EXCEPT ![r] = s] /\ att'[r] = s
  BY DEF IInv, TypeOK, CommitStart
<1>3. s \in Seq(AttemptRows(r)) /\ s # <<>>
  BY <1>2, AppendType, NewAttemptType
<1> HIDE DEF s
<1>4. run'[r] = row /\ PhaseOK(r)'
  BY <1>1, <1>2, <1>3 DEF IInv, TypeOK, PhaseOK, CommitStart
<1> QED
  BY <1>1, <1>2, <1>3, <1>4, MovesKeep DEF IInv, TypeOK, CommitStart

LEMMA QueueRetryKeeps ==
    ASSUME IInv, NEW r \in Runs, QueueRetry(r), UNCHANGED batchVars PROVE IInv'
<1>1. PICK row \in RunRows : /\ run' = [run EXCEPT ![r] = row] /\ row.version = run[r].version + 1
                             /\ row.phase = "retry_queued"
  BY MovedRow DEF IInv, QueueRetry, Phases
<1>2. att[r] \in Seq(AttemptRows(r)) /\ att' = [att EXCEPT ![r] = att[r]]
  BY DEF IInv, TypeOK, QueueRetry
<1>3. run'[r] = row /\ PhaseOK(r)'
  BY <1>1 DEF IInv, TypeOK, PhaseOK, QueueRetry
<1> QED
  BY <1>1, <1>2, <1>3, MovesKeep DEF IInv, TypeOK, QueueRetry

LEMMA RequestCancelKeeps ==
    ASSUME IInv, NEW r \in Runs, RequestCancel(r), UNCHANGED batchVars PROVE IInv'
<1> DEFINE row == [run[r] EXCEPT !.cancel = TRUE, !.version = @ + 1,
                                 !.phase = IF @ = "running" THEN "running" ELSE "cancelled"]
<1>1. /\ row \in RunRows /\ row.version = run[r].version + 1
      /\ row.phase = IF run[r].phase = "running" THEN "running" ELSE "cancelled"
  <2>1. run[r] \in RunRows
    BY DEF IInv, TypeOK
  <2>2. (IF run[r].phase = "running" THEN "running" ELSE "cancelled") \in Phases
    BY DEF Phases
  <2>3. PICK p \in Phases, v \in Nat :
            /\ v = run[r].version + 1
            /\ p = IF run[r].phase = "running" THEN "running" ELSE "cancelled"
    BY <2>1, <2>2 DEF RunRows
  <2>4. row = [run[r] EXCEPT !.cancel = TRUE, !.version = v, !.phase = p]
    BY <2>3
  <2>5. row \in RunRows /\ row.version = v /\ row.phase = p
    BY <2>1, <2>4 DEF RunRows
  <2> QED
    BY <2>3, <2>5
<1>2. run' = [run EXCEPT ![r] = row] /\ run'[r] = row
  BY DEF IInv, TypeOK, RunRows, RequestCancel
<1> HIDE DEF row
<1>3. att[r] \in Seq(AttemptRows(r)) /\ att' = [att EXCEPT ![r] = att[r]]
  BY DEF IInv, TypeOK, RequestCancel
<1>4. PhaseOK(r)'
  BY <1>1, <1>2 DEF IInv, TypeOK, PhaseOK, RequestCancel
<1> QED
  BY <1>1, <1>2, <1>3, <1>4, MovesKeep DEF IInv, TypeOK, RequestCancel

\* The last execution of a running Run.
LEMMA LatestType ==
    ASSUME IInv, NEW r \in Runs, att[r] # <<>>
    PROVE  /\ att[r] \in Seq(AttemptRows(r)) /\ Len(att[r]) \in 1..Len(att[r])
           /\ Latest(r) = att[r][Len(att[r])] /\ Latest(r) \in AttemptRows(r)
<1>1. att[r] \in Seq(AttemptRows(r))
  BY DEF IInv, TypeOK
<1> QED
  BY <1>1, LastType DEF Latest

LEMMA MarkUnknownKeeps ==
    ASSUME IInv, NEW r \in Runs, MarkUnknown(r), UNCHANGED batchVars PROVE IInv'
<1> DEFINE a == [Latest(r) EXCEPT !.unknown = TRUE, !.version = @ + 1]
           s == [att[r] EXCEPT ![Len(att[r])] = a]
<1>1. PICK row \in RunRows : /\ run' = [run EXCEPT ![r] = row] /\ row.version = run[r].version + 1
                             /\ row.phase = "running"
  BY MovedRow DEF IInv, MarkUnknown, Phases
<1>2. run[r].phase = "running" /\ att[r] # <<>>
  BY DEF MarkUnknown, Executing, IInv, PhaseOK
<1>3. a \in AttemptRows(r)
  <2>1. Latest(r) \in AttemptRows(r)
    BY <1>2, LatestType
  <2>2. PICK v \in Nat : v = Latest(r).version + 1
    BY <2>1 DEF AttemptRows
  <2>3. a = [Latest(r) EXCEPT !.unknown = TRUE, !.version = v]
    BY <2>2
  <2> QED
    BY <2>1, <2>3 DEF AttemptRows
<1>4. att' = [att EXCEPT ![r] = s] /\ att'[r] = s
  <2>1. DOMAIN att = Runs /\ Len(att[r]) \in DOMAIN att[r]
    BY <1>2, LatestType DEF IInv, TypeOK
  <2>2. PICK v : v = att[r][Len(att[r])].version + 1
    OBVIOUS
  <2>3. att' = [att EXCEPT ![r][Len(att[r])].unknown = TRUE, ![r][Len(att[r])].version = v]
    BY <2>2 DEF MarkUnknown
  <2>4. att' = [att EXCEPT ![r] = [att[r] EXCEPT ![Len(att[r])] =
                    [att[r][Len(att[r])] EXCEPT !.unknown = TRUE, !.version = v]]]
    BY <2>1, <2>3
  <2>5. att' = [att EXCEPT ![r] = s]
    BY <2>2, <2>4 DEF Latest
  <2> QED
    BY <2>1, <2>5
<1>5. s \in Seq(AttemptRows(r)) /\ s # <<>>
  BY <1>2, <1>3, LatestType, ReplaceLast
<1> HIDE DEF s
<1>6. run'[r] = row /\ PhaseOK(r)'
  BY <1>1, <1>2, <1>4, <1>5 DEF IInv, TypeOK, PhaseOK, MarkUnknown
<1> QED
  BY <1>1, <1>2, <1>4, <1>5, <1>6, MovesKeep DEF IInv, TypeOK, MarkUnknown

LEMMA AdjudicateKeeps ==
    ASSUME IInv, NEW r \in Runs, NEW d \in Decisions, Adjudicate(r, d), UNCHANGED batchVars PROVE IInv'
<1> DEFINE a == [Latest(r) EXCEPT !.decision = d, !.version = @ + 1]
           s == [att[r] EXCEPT ![Len(att[r])] = a]
<1>1. PICK row \in RunRows : /\ run' = [run EXCEPT ![r] = row] /\ row.version = run[r].version + 1
                             /\ row.phase = "running"
  BY MovedRow DEF IInv, Adjudicate, Phases
<1>2. run[r].phase = "running" /\ att[r] # <<>>
  BY DEF Adjudicate, IInv, PhaseOK
<1>3. a \in AttemptRows(r)
  <2>1. Latest(r) \in AttemptRows(r)
    BY <1>2, LatestType
  <2>2. PICK v \in Nat : v = Latest(r).version + 1
    BY <2>1 DEF AttemptRows
  <2>3. a = [Latest(r) EXCEPT !.decision = d, !.version = v]
    BY <2>2
  <2> QED
    BY <2>1, <2>3 DEF AttemptRows
<1>4. att' = [att EXCEPT ![r] = s] /\ att'[r] = s
  <2>1. DOMAIN att = Runs /\ Len(att[r]) \in DOMAIN att[r]
    BY <1>2, LatestType DEF IInv, TypeOK
  <2>2. PICK v : v = att[r][Len(att[r])].version + 1
    OBVIOUS
  <2>3. att' = [att EXCEPT ![r][Len(att[r])].decision = d, ![r][Len(att[r])].version = v]
    BY <2>2 DEF Adjudicate
  <2>4. att' = [att EXCEPT ![r] = [att[r] EXCEPT ![Len(att[r])] =
                    [att[r][Len(att[r])] EXCEPT !.decision = d, !.version = v]]]
    BY <2>1, <2>3
  <2>5. att' = [att EXCEPT ![r] = s]
    BY <2>2, <2>4 DEF Latest
  <2> QED
    BY <2>1, <2>5
<1>5. s \in Seq(AttemptRows(r)) /\ s # <<>>
  BY <1>2, <1>3, LatestType, ReplaceLast
<1> HIDE DEF s
<1>6. run'[r] = row /\ PhaseOK(r)'
  BY <1>1, <1>2, <1>4, <1>5 DEF IInv, TypeOK, PhaseOK, Adjudicate
<1> QED
  BY <1>1, <1>2, <1>4, <1>5, <1>6, MovesKeep DEF IInv, TypeOK, Adjudicate

\* Evidence is written beside the version of the Run.
LEMMA EvidenceKeeps ==
    ASSUME IInv, NEW r \in Runs, run[r].phase = "running", NEW f \in [ItemsOf[r] -> Outcomes],
           att' = [att EXCEPT ![r][Len(att[r])].result = f, ![r][Len(att[r])].evidence = TRUE],
           UNCHANGED <<run, open, pending, basis, closed, req, batchVars>>,
           \/ ~Observed(Latest(r)) /\ ~Latest(r).unknown
           \/ Latest(r).unknown /\ ~Latest(r).evidence
    PROVE  IInv'
<1> DEFINE a == [Latest(r) EXCEPT !.result = f, !.evidence = TRUE]
           s == [att[r] EXCEPT ![Len(att[r])] = a]
<1>1. att[r] # <<>> /\ basis[r] = None
  BY DEF IInv, PhaseOK, ClosedRestsOnLastAttempt
<1>2. a \in AttemptRows(r) /\ a.unknown = Latest(r).unknown
  <2>1. Latest(r) \in AttemptRows(r)
    BY <1>1, LatestType
  <2> QED
    BY <2>1 DEF AttemptRows
<1>3. att' = [att EXCEPT ![r] = s]
  <2>1. DOMAIN att = Runs /\ Len(att[r]) \in DOMAIN att[r]
    BY <1>1, LatestType DEF IInv, TypeOK
  <2>2. att' = [att EXCEPT ![r] = [att[r] EXCEPT ![Len(att[r])] =
                    [att[r][Len(att[r])] EXCEPT !.result = f, !.evidence = TRUE]]]
    BY <2>1
  <2> QED
    BY <2>2 DEF Latest
<1>4. /\ s \in Seq(AttemptRows(r)) /\ s # <<>> /\ Len(s) = Len(att[r]) /\ s[Len(s)] = a
      /\ \A k \in 1..Len(s) : k # Len(s) => s[k] = att[r][k]
  BY <1>1, <1>2, LatestType, ReplaceLast
<1>5. Len(s) \in Nat \ {0} /\ Latest(r) = att[r][Len(s)]
  BY <1>4, <1>1, LatestType
<1> HIDE DEF s, a
<1>6. s[1].unknown = att[r][1].unknown
  <2>1. CASE Len(s) = 1
    BY <1>2, <1>4, <1>5, <2>1
  <2>2. CASE Len(s) # 1
    <3>1. 1 \in 1..Len(s) /\ 1 # Len(s)
      BY <1>5, <2>2
    <3>2. s[1] = att[r][1]
      BY <1>4, <3>1
    <3> QED
      BY <3>2
  <2> QED
    BY <2>1, <2>2
<1>7. ASSUME NEW b, RunRequestOK(b, r, run[r], att[r])
      PROVE  RunRequestOK(b, r, run'[r], s)
  <2>1. ASSUME Describes(b, r, run[r], att[r])
        PROVE  Describes(b, r, run[r], s)
    <3>1. b.state = AttemptState(Latest(r)) /\ Settled(b, r, Latest(r)) /\ ItemsAgree(b, r, att[r])
      BY <1>1, <1>4, <1>5, <2>1 DEF Describes
    <3>2. Latest(r).unknown /\ a.unknown /\ \A i \in ItemsOf[r] : b.items[i].effective.outcome = "infra_failed"
      BY <1>2, <3>1 DEF Settled
    <3>3. AttemptState(a) = AttemptState(Latest(r)) /\ Settled(b, r, a)
      BY <3>2 DEF AttemptState, Settled
    <3>4. ItemsAgree(b, r, s)
      BY <1>1, <1>6, <3>1, <3>2 DEF ItemsAgree, Completed
    <3> QED
      BY <1>4, <2>1, <3>1, <3>3, <3>4 DEF Describes
  <2> QED
    BY <1>7, <2>1 DEF RunRequestOK
<1>8. PhaseOK(r)'
  BY <1>1, <1>3, <1>4 DEF IInv, TypeOK, PhaseOK
<1>9. run' \in [Runs -> RunRows] /\ open' \subseteq Runs /\ pending' \subseteq Runs
  BY DEF IInv, TypeOK
<1> QED
  BY <1>1, <1>3, <1>4, <1>7, <1>8, <1>9, HistoryFrame

LEMMA HistoryKeeps == ASSUME IInv, NEW r \in Runs, History(r), UNCHANGED batchVars PROVE IInv'
<1>1. ASSUME NEW f \in ResultsOf(r), IndexEvidence(r, f) \/ IndexLateEvidence(r, f)
      PROVE  IInv'
  <2>1. f \in [ItemsOf[r] -> Outcomes]
    BY DEF ResultsOf, Outcomes
  <2> QED
    BY <1>1, <2>1, EvidenceKeeps DEF IndexEvidence, IndexLateEvidence, Executing
<1> QED
  BY <1>1, OfferKeeps, CommitStartKeeps, MarkUnknownKeeps, QueueRetryKeeps, RequestCancelKeeps,
     AdjudicateKeeps DEF History

----------------------------------------------------------------------------
(* Candidates. *)

\* What a candidate says of an item: the result of the last execution, unless there
\* was none or it was written off.
LEMMA EffectiveOutcome ==
    ASSUME IInv, NEW r \in Runs, NEW i \in ItemsOf[r], NEW kind \in Kinds, Describable(r, kind)
    PROVE  Effective(r, i, kind).outcome =
              IF att[r] = <<>> THEN "cancelled"
              ELSE IF kind = "unknown_adjudication" /\ Latest(r).decision = "mark_infra_failed_no_retry"
              THEN "infra_failed" ELSE Latest(r).result[i]
<1> DEFINE n == Len(att[r])
           C == {k \in 1..n : k > 1 /\ Observed(att[r][k]) /\ ~att[r][k].unknown}
<1>1. CASE kind = "unknown_adjudication"
  BY <1>1 DEF Effective, Describable
<1>2. CASE kind = "prestart_cancel"
  <2>1. att[r] = <<>> /\ n = 0
    BY <1>2 DEF Describable
  <2>2. LatestComplete(r) = 0
    BY <2>1 DEF LatestComplete
  <2>3. Original(r, i).fact = "cancelled"
    BY <2>1 DEF Original
  <2> QED
    BY <1>2, <2>1, <2>2, <2>3 DEF Effective
<1>3. CASE kind \notin {"unknown_adjudication", "prestart_cancel"}
  <2>1. att[r] # <<>> /\ Observed(Latest(r)) /\ ~Latest(r).unknown
    BY <1>3 DEF Describable
  <2>2. n \in Nat \ {0} /\ Latest(r) = att[r][n]
    BY <2>1, LatestType, LastType DEF IInv, TypeOK
  <2>3. CASE n = 1
    <3>1. C = {}
      BY <2>3
    <3>2. LatestComplete(r) = 0
      BY <3>1 DEF LatestComplete
    <3>3. Original(r, i).fact = Latest(r).result[i]
      BY <2>1, <2>2, <2>3 DEF Original, ItemFact
    <3> QED
      BY <1>3, <2>1, <3>2, <3>3 DEF Effective
  <2>4. CASE n > 1
    <3>1. n \in C /\ \A k \in C : n >= k
      BY <2>1, <2>2, <2>4
    <3>2. Max(C) = n
      <4>1. Max(C) \in C /\ \A k \in C : Max(C) >= k
        BY <3>1 DEF Max
      <4> QED
        BY <3>1, <4>1
    <3>3. LatestComplete(r) = n
      BY <3>1, <3>2 DEF LatestComplete
    <3> QED
      BY <1>3, <2>1, <2>2, <2>4, <3>3 DEF Effective
  <2>5. n = 1 \/ n > 1
    <3>1. \A m \in Nat \ {0} : m = 1 \/ m > 1
      OBVIOUS
    <3>2. n \in Nat \ {0}
      BY <2>2
    <3> HIDE DEF n
    <3> QED
      BY <3>1, <3>2
  <2> QED
    BY <2>3, <2>4, <2>5
<1> QED
  BY <1>1, <1>2, <1>3

\* A caller takes up a command or leaves one; nothing else changes.
LEMMA CallerKeeps ==
    ASSUME IInv, NEW c \in Callers, NEW q, req' = [req EXCEPT ![c] = q], q # None => RequestOK(q),
           UNCHANGED <<runVars, batchVars>>
    PROVE  IInv'
<1>1. /\ UNCHANGED <<run, att, open, pending, basis, closed>>
      /\ UNCHANGED <<bstate, readiness, bbasis, started, finished>>
  BY DEF runVars, histVars, batchVars
<1>2. TypeOK'
  BY <1>1 DEF IInv, TypeOK
<1>3. ASSUME NEW d \in Callers, req'[d] # None PROVE RequestOK(req[d])'
  <2>1. RequestOK(req'[d])
    BY <1>3 DEF IInv, TypeOK
  <2> QED
    BY <1>1, <2>1 DEF RequestOK, AllClosed
<1>4. \A r \in Runs : PhaseOK(r)' /\ (basis'[r] # None => ClosedOK(r)')
  BY <1>1 DEF IInv, PhaseOK, ClosedOK
<1>5. ClosedRestsOnLastAttempt'
  BY <1>1 DEF IInv, ClosedRestsOnLastAttempt, Latest
<1>6. ReadinessStands' /\ BatchEndsOnItsRuns'
  BY <1>1 DEF IInv, ReadinessStands, BatchEndsOnItsRuns, AllClosed
<1>7. (bstate \in Terminal => bstate = EvaluateBatchOutcome(Counts))'
  BY <1>1 DEF IInv, Counts, ItemClass
<1> QED
  BY <1>2, <1>3, <1>4, <1>5, <1>6, <1>7 DEF IInv

LEMMA ProposeRunKeeps ==
    ASSUME IInv, NEW c \in Callers, NEW r \in Runs, ProposeRun(c, r), UNCHANGED batchVars
    PROVE  IInv'
<1>1. PICK kind \in Kinds, lineage \in BOOLEAN :
          /\ Describable(r, kind) /\ CommandValid(Candidate(r, kind, lineage))
          /\ req' = [req EXCEPT ![c] = [op |-> "run", cand |-> Candidate(r, kind, lineage)]]
  BY DEF ProposeRun
<1> DEFINE b == Candidate(r, kind, lineage)
<1>2. /\ b.run = r /\ b.source = run[r].version /\ b.attempt = Len(att[r]) /\ b.cancel = run[r].cancel
      /\ b.state = IF Len(att[r]) = 0 THEN None ELSE AttemptState(Latest(r))
      /\ b.items = [i \in ItemsOf[r] |-> Resolution(r, i, kind, lineage)]
      /\ b.outcome = AuditOutcome({Effective(r, i, kind).outcome : i \in ItemsOf[r]})
  BY DEF Candidate, ResolutionSet
<1>3. CommandValid(b)
  BY <1>1
<1> HIDE DEF b
<1>4. \A i \in ItemsOf[r] : /\ b.items[i].original = Original(r, i)
                            /\ b.items[i].effective = Effective(r, i, kind)
  BY <1>2 DEF Resolution
<1>5. /\ run[r].version \in Nat /\ att[r] \in Seq(AttemptRows(r)) /\ Len(att[r]) \in Nat
      /\ Len(att[r]) = 0 <=> att[r] = <<>>
  BY DEF IInv, TypeOK, RunRows
<1>6. b.outcome \in Outcomes
  <2> DEFINE S == {Effective(r, i, kind).outcome : i \in ItemsOf[r]}
  <2>1. \A i \in ItemsOf[r] : Effective(r, i, kind).outcome \in Outcomes
    BY <1>2, <1>3, <1>4 DEF CommandValid, ResolutionValid, EffectiveValid
  <2>2. S \subseteq Outcomes /\ S # {}
    BY <2>1, ShardsAssumption
  <2> HIDE DEF S
  <2>3. AuditOutcome(S) \in Outcomes
    BY <2>2, AuditOutcomeIsOne
  <2> QED
    BY <1>2, <2>3 DEF S
<1>7. att[r] # <<>> => Observed(Latest(r)) \/ Latest(r).unknown
  BY <1>1 DEF Describable
<1>8. ASSUME att[r] # <<>> PROVE AttemptState(Latest(r)) \in Facts
  <2>1. CASE Latest(r).unknown
    BY <2>1 DEF AttemptState, Facts
  <2>2. CASE ~Latest(r).unknown
    <3>1. Latest(r).result \in [ItemsOf[r] -> Outcomes \cup {None}]
      BY <1>8, LatestType DEF AttemptRows
    <3>2. Results(Latest(r)) \subseteq Outcomes /\ Results(Latest(r)) # {}
      <4>1. PICK g \in [ItemsOf[r] -> Outcomes \cup {None}] : g = Latest(r).result
        BY <3>1
      <4>2. Results(Latest(r)) = {g[i] : i \in ItemsOf[r]} /\ None \notin Results(Latest(r))
        BY <1>7, <1>8, <2>2, <4>1 DEF Results, Observed
      <4>3. ItemsOf[r] # {}
        BY ShardsAssumption
      <4> QED
        BY <4>2, <4>3
    <3>3. AuditOutcome(Results(Latest(r))) \in Outcomes
      BY <3>2, AuditOutcomeIsOne
    <3> QED
      BY <2>2, <3>3 DEF AttemptState, Facts
  <2> QED
    BY <2>1, <2>2
<1>9. WellFormed(b, r)
  BY <1>2, <1>3, <1>5, <1>6, <1>8 DEF WellFormed
<1>10. ItemsAgree(b, r, att[r])
  <2> SUFFICES ASSUME NEW i \in ItemsOf[r]
               PROVE  /\ (att[r] # <<>> /\ att[r][1].unknown) => b.items[i].original.fact = "attempt_unknown"
                      /\ b.items[i].effective.outcome \in Completed =>
                            att[r] # <<>> /\ att[r][Len(att[r])].result[i] = b.items[i].effective.outcome
    BY DEF ItemsAgree
  <2>1. (att[r] # <<>> /\ att[r][1].unknown) => Original(r, i).fact = "attempt_unknown"
    BY DEF Original, ItemFact
  <2>2. Effective(r, i, kind).outcome \in Completed =>
            att[r] # <<>> /\ Latest(r).result[i] = Effective(r, i, kind).outcome
    BY <1>1, EffectiveOutcome DEF Completed
  <2> QED
    BY <1>4, <2>1, <2>2 DEF Latest
<1>11. att[r] # <<>> => Settled(b, r, Latest(r))
  <2>1. CASE kind = "unknown_adjudication" /\ Latest(r).decision = "mark_infra_failed_no_retry"
    <3>1. att[r] # <<>> => \A i \in ItemsOf[r] : b.items[i].effective.outcome = "infra_failed"
      BY <1>1, <1>4, <2>1, EffectiveOutcome
    <3> QED
      BY <1>7, <3>1 DEF Settled
  <2>2. CASE ~(kind = "unknown_adjudication" /\ Latest(r).decision = "mark_infra_failed_no_retry")
    BY <1>1, <1>7, <2>2 DEF Settled, Describable
  <2> QED
    BY <2>1, <2>2
<1>12. Describes(b, r, run[r], att[r])
  BY <1>2, <1>5, <1>10, <1>11 DEF Describes, ProposeRun, Latest
<1>13. RequestOK([op |-> "run", cand |-> b])
  BY <1>2, <1>5, <1>9, <1>12 DEF RequestOK, RunRequestOK
<1>14. req' = [req EXCEPT ![c] = [op |-> "run", cand |-> b]] /\ UNCHANGED runVars
  BY <1>1 DEF b, ProposeRun
<1> QED
  BY <1>13, <1>14, CallerKeeps

----------------------------------------------------------------------------
(* FinalizeRun. *)

\* _publish_attempt_terminal writes to the last attempt nothing a basis speaks of.
LEMMA AttemptTerminal ==
    ASSUME IInv, NEW r \in Runs, NEW b, b.run = r, b.attempt = Len(att[r]),
           b.attempt > 0 => b.state \in Facts, PublishAttemptTerminal(b)
    PROVE  \E s \in Seq(AttemptRows(r)) :
              /\ att' = [att EXCEPT ![r] = s] /\ Len(s) = Len(att[r])
              /\ s = <<>> <=> att[r] = <<>>
              /\ s # <<>> => /\ s[1].unknown = att[r][1].unknown
                             /\ s[Len(s)].result = Latest(r).result
                             /\ s[Len(s)].unknown = Latest(r).unknown
                             /\ s[Len(s)].evidence = Latest(r).evidence
                             /\ s[Len(s)].stored = b.state
<1>1. att[r] \in Seq(AttemptRows(r)) /\ att = [att EXCEPT ![r] = att[r]] /\ DOMAIN att = Runs
  BY DEF IInv, TypeOK
<1>2. CASE att[r] = <<>>
  <2>1. b.attempt = 0
    BY <1>2
  <2>2. att' = att
    BY <2>1 DEF PublishAttemptTerminal
  <2> QED
    BY <1>1, <1>2, <2>2
<1>3. CASE att[r] # <<>>
  <2> DEFINE a == [Latest(r) EXCEPT !.stored = b.state, !.version = @ + 1]
             s == [att[r] EXCEPT ![Len(att[r])] = a]
  <2>1. Latest(r) \in AttemptRows(r) /\ Len(att[r]) \in Nat \ {0} /\ Len(att[r]) \in DOMAIN att[r]
    BY <1>1, <1>3, LatestType, LastType
  <2>2. b.state \in Facts
    BY <2>1
  <2>3. /\ a \in AttemptRows(r) /\ a.unknown = Latest(r).unknown /\ a.result = Latest(r).result
        /\ a.evidence = Latest(r).evidence /\ a.stored = b.state
    <3>1. PICK v \in Nat : v = Latest(r).version + 1
      BY <2>1 DEF AttemptRows
    <3>2. PICK x \in Facts : x = b.state
      BY <2>2
    <3>3. a = [Latest(r) EXCEPT !.stored = x, !.version = v]
      BY <3>1, <3>2
    <3> QED
      BY <2>1, <3>2, <3>3 DEF AttemptRows
  <2>4. att' = [att EXCEPT ![r] = s]
    <3>1. PICK v : v = att[r][Len(att[r])].version + 1
      OBVIOUS
    <3>2. PICK x : x = b.state
      OBVIOUS
    <3>3. att' = [att EXCEPT ![r][Len(att[r])].stored = x, ![r][Len(att[r])].version = v]
      BY <2>1, <3>1, <3>2 DEF PublishAttemptTerminal
    <3>4. att' = [att EXCEPT ![r] = [att[r] EXCEPT ![Len(att[r])] =
                    [att[r][Len(att[r])] EXCEPT !.stored = x, !.version = v]]]
      <4>1. DOMAIN att = Runs /\ Len(att[r]) \in DOMAIN att[r]
        BY <1>1, <2>1
      <4> QED
        BY <3>3, <4>1
    <3> QED
      BY <3>1, <3>2, <3>4 DEF Latest
  <2>5. /\ s \in Seq(AttemptRows(r)) /\ Len(s) = Len(att[r]) /\ s # <<>> /\ s[Len(s)] = a
        /\ \A k \in 1..Len(s) : k # Len(s) => s[k] = att[r][k]
    BY <1>1, <1>3, <2>3, ReplaceLast
  <2> HIDE DEF s, a
  <2>6. s[1].unknown = att[r][1].unknown
    <3>1. CASE Len(s) = 1
      BY <2>3, <2>5, <3>1 DEF Latest
    <3>2. CASE Len(s) # 1
      <4>1. 1 \in 1..Len(s) /\ 1 # Len(s)
        BY <2>1, <2>5, <3>2
      <4>2. s[1] = att[r][1]
        BY <2>5, <4>1
      <4> QED
        BY <4>2
    <3> QED
      BY <3>1, <3>2
  <2> QED
    BY <1>3, <2>3, <2>4, <2>5, <2>6
<1> QED
  BY <1>2, <1>3

\* What BasisValid says about the outcome by the last execution.
LEMMA BasisOutcome ==
    ASSUME NEW b, BasisValid(b), b.attempt \in Nat
    PROVE  /\ b.attempt = 0 => b.cancel
           /\ b.attempt > 0 /\ b.state # "attempt_unknown" => b.outcome = b.state
BY DEF BasisValid, PrestartBasis, CancellationBasis, AdjudicationBasis, EvidenceBasis, CancelRule

\* What a publication finds: the Run is as its basis says.
LEMMA FinalizeFinds ==
    ASSUME IInv, NEW c \in Callers, FinalizeRun(c)
    PROVE  \E r \in Runs :
              /\ WellFormed(req[c].cand, r) /\ Describes(req[c].cand, r, run[r], att[r])
              /\ basis[r] = None /\ req[c].cand.source = run[r].version
              /\ req[c].cand.attempt = Len(att[r])
              /\ att[r] # <<>> => Latest(r).evidence
<1>1. req[c] # None /\ req[c].op = "run" /\ RequestOK(req[c])
  BY DEF FinalizeRun, IInv
<1>2. PICK b : b = req[c].cand
  OBVIOUS
<1>3. PICK r \in Runs : RunRequestOK(b, r, run[r], att[r])
  BY <1>1, <1>2 DEF RequestOK
<1>4. b.run = r /\ b.attempt \in Nat
  BY <1>3 DEF RunRequestOK, WellFormed
<1>5. NotStored(b) /\ PublicationBinds(b) /\ EvidenceBound(b)
  BY <1>2 DEF FinalizeRun
<1>6. basis[r] = None /\ b.source = run[r].version /\ b.attempt = Len(att[r])
  BY <1>4, <1>5 DEF NotStored, SourceVersion, PublicationBinds, MutationSnapshot
<1>7. att[r] # <<>> => Latest(r).evidence
  <2>1. att[r] # <<>> => Len(att[r]) \in Nat \ {0}
    BY LastType DEF IInv, TypeOK
  <2> QED
    BY <1>4, <1>5, <1>6, <2>1 DEF EvidenceBound
<1> QED
  BY <1>2, <1>3, <1>6, <1>7 DEF RunRequestOK

LEMMA FinalizeRunKeeps ==
    ASSUME IInv, NEW c \in Callers, FinalizeRun(c), UNCHANGED batchVars PROVE IInv'
<1>1. PICK b : b = req[c].cand
  OBVIOUS
<1>2. PICK r \in Runs :
          /\ WellFormed(b, r) /\ Describes(b, r, run[r], att[r])
          /\ basis[r] = None /\ b.source = run[r].version /\ b.attempt = Len(att[r])
          /\ att[r] # <<>> => Latest(r).evidence
  BY <1>1, FinalizeFinds
<1>3. /\ b.run = r /\ b.outcome \in Outcomes /\ b.source \in Nat /\ b.attempt \in Nat
      /\ b.attempt > 0 => b.state \in Facts
      /\ BasisValid(b)
  BY <1>2 DEF WellFormed, CommandValid
<1>4. /\ basis' = [basis EXCEPT ![r] = b] /\ run' = [run EXCEPT ![r] = ClosedState(b)]
      /\ PublishAttemptTerminal(b) /\ closed' = [closed EXCEPT ![r] = Append(@, Handoff(b))]
      /\ req' = [req EXCEPT ![c] = None] /\ open' = open /\ pending' = pending
  BY <1>1, <1>3 DEF FinalizeRun, PublishRun, InsertBasis, PublishRunProjection, InsertOutbox
<1>5. PICK s \in Seq(AttemptRows(r)) :
          /\ att' = [att EXCEPT ![r] = s] /\ Len(s) = Len(att[r])
          /\ s = <<>> <=> att[r] = <<>>
          /\ s # <<>> => /\ s[1].unknown = att[r][1].unknown
                         /\ s[Len(s)].result = Latest(r).result
                         /\ s[Len(s)].unknown = Latest(r).unknown
                         /\ s[Len(s)].evidence = Latest(r).evidence
                         /\ s[Len(s)].stored = b.state
  BY <1>2, <1>3, <1>4, AttemptTerminal
<1>6. /\ basis'[r] = b /\ att'[r] = s
      /\ run'[r] = [phase |-> "closed", outcome |-> b.outcome, version |-> b.source + 1,
                    cancel |-> run[r].cancel]
      /\ \A q \in Runs : q # r => basis'[q] = basis[q] /\ att'[q] = att[q] /\ run'[q] = run[q]
  BY <1>3, <1>4, <1>5 DEF IInv, TypeOK, ClosedState
<1>7. TypeOK'
  <2>1. run'[r] \in RunRows
    <3>1. run[r].cancel \in BOOLEAN
      BY DEF IInv, TypeOK, RunRows
    <3> QED
      BY <1>3, <1>6, <3>1 DEF RunRows, Phases
  <2>2. run' \in [Runs -> RunRows]
    BY <1>4, <1>6, <2>1 DEF IInv, TypeOK
  <2>3. att' = [q \in Runs |-> att'[q]] /\ \A q \in Runs : att'[q] \in Seq(AttemptRows(q))
    BY <1>5, <1>6 DEF IInv, TypeOK
  <2>4. /\ basis' = [q \in Runs |-> basis'[q]] /\ closed' = [q \in Runs |-> closed'[q]]
        /\ req' = [d \in Callers |-> req'[d]]
    BY <1>4 DEF IInv, TypeOK
  <2> QED
    BY <1>4, <2>2, <2>3, <2>4 DEF IInv, TypeOK, batchVars
<1>8. \A q \in Runs : PhaseOK(q)'
  BY <1>6 DEF IInv, PhaseOK
<1>9. ItemsAgree(b, r, s)
  <2>1. ItemsAgree(b, r, att[r])
    BY <1>2 DEF Describes
  <2> QED
    BY <1>5, <2>1 DEF ItemsAgree, Latest
<1>10. ASSUME NEW q \in Runs, basis'[q] # None PROVE ClosedOK(q)'
  <2>1. CASE q = r
    BY <1>2, <1>6, <1>9, <2>1 DEF ClosedOK
  <2>2. CASE q # r
    BY <1>6, <1>10, <2>2 DEF IInv, ClosedOK
  <2> QED
    BY <2>1, <2>2
<1>11. ClosedRestsOnLastAttempt'
  <2>1. /\ s # <<>> => /\ b.state = AttemptState(Latest(r)) /\ b.attempt > 0
                       /\ AttemptState(s[Len(s)]) = AttemptState(Latest(r))
        /\ s = <<>> => b.attempt = 0
        /\ b.cancel = run[r].cancel
    <3>1. s # <<>> => Len(s) \in Nat \ {0}
      BY LastType
    <3>2. s # <<>> => Results(s[Len(s)]) = Results(Latest(r))
      BY <1>5 DEF Results
    <3>3. s # <<>> => AttemptState(s[Len(s)]) = AttemptState(Latest(r))
      BY <1>5, <3>2 DEF AttemptState
    <3>4. b.cancel = run[r].cancel /\ (att[r] # <<>> => b.state = AttemptState(Latest(r)))
      BY <1>2 DEF Describes, Latest
    <3>5. Len(<<>>) = 0
      OBVIOUS
    <3> QED
      BY <1>2, <1>3, <1>5, <3>1, <3>3, <3>4, <3>5
  <2>2. ASSUME NEW q \in Runs, q # r, basis'[q] # None
        PROVE  /\ run'[q].phase = "closed" /\ run'[q].outcome = basis'[q].outcome
               /\ basis'[q].attempt = Len(att'[q])
               /\ att'[q] # <<>> => /\ Latest(q)'.evidence
                                    /\ Latest(q)'.stored = AttemptState(Latest(q)')
                                    /\ AttemptState(Latest(q)') # "attempt_unknown" =>
                                          run'[q].outcome = AttemptState(Latest(q)')
               /\ att'[q] = <<>> => run'[q].cancel
    BY <1>4, <1>6, <2>2 DEF IInv, ClosedRestsOnLastAttempt, Latest
  <2>3. /\ run'[r].phase = "closed" /\ run'[r].outcome = basis'[r].outcome
        /\ basis'[r].attempt = Len(att'[r])
        /\ att'[r] # <<>> => /\ Latest(r)'.evidence
                             /\ Latest(r)'.stored = AttemptState(Latest(r)')
                             /\ AttemptState(Latest(r)') # "attempt_unknown" =>
                                   run'[r].outcome = AttemptState(Latest(r)')
        /\ att'[r] = <<>> => run'[r].cancel
    BY <1>2, <1>3, <1>4, <1>5, <1>6, <2>1, BasisOutcome DEF Latest
  <2> QED
    BY <2>2, <2>3 DEF ClosedRestsOnLastAttempt
<1>12. ~AllClosed
  BY <1>2 DEF AllClosed
<1>13. bstate = "running" /\ UNCHANGED <<bstate, started, finished, readiness, bbasis>>
  BY <1>12 DEF IInv, BatchEndsOnItsRuns, batchVars
<1>14. ReadinessStands' /\ BatchEndsOnItsRuns' /\ bstate' \notin Terminal
  BY <1>12, <1>13 DEF IInv, ReadinessStands, BatchEndsOnItsRuns, Terminal
<1>15. ASSUME NEW d \in Callers, req'[d] # None PROVE RequestOK(req[d])'
  <2>1. d # c /\ req'[d] = req[d] /\ RequestOK(req[d])
    BY <1>4, <1>15 DEF IInv, TypeOK
  <2>2. ASSUME req[d].op = "run"
        PROVE  \E q \in Runs : RunRequestOK(req[d].cand, q, run'[q], att'[q])
    <3>1. PICK q \in Runs : RunRequestOK(req[d].cand, q, run[q], att[q])
      BY <2>1, <2>2 DEF RequestOK
    <3>2. CASE q = r
      <4>1. run[r].version \in Nat /\ run'[r].version = run[r].version + 1
        BY <1>2, <1>3, <1>6
      <4> QED
        BY <3>1, <3>2, <4>1, VersionMoves
    <3>3. CASE q # r
      BY <1>6, <3>1, <3>3
    <3> QED
      BY <3>2, <3>3
  <2> QED
    BY <1>12, <2>1, <2>2 DEF RequestOK
<1> QED
  BY <1>7, <1>8, <1>10, <1>11, <1>14, <1>15 DEF IInv

----------------------------------------------------------------------------
(* The commands on the Batch. *)

\* A step of a Batch command of caller c, which has no request afterwards.
LEMMA BatchCommandKeeps ==
    ASSUME IInv, NEW c \in Callers, req' = [req EXCEPT ![c] = None], UNCHANGED runVars,
           bstate' \in {"running", "finalizing"} \cup Terminal, BatchEndsOnItsRuns', ReadinessStands',
           bstate' \in Terminal => bstate' = EvaluateBatchOutcome(Counts)
    PROVE  IInv'
<1>1. UNCHANGED <<run, att, open, pending, basis, closed>>
  BY DEF runVars, histVars
<1>2. TypeOK'
  BY <1>1 DEF IInv, TypeOK
<1>3. ASSUME NEW d \in Callers, req'[d] # None PROVE RequestOK(req[d])'
  <2>1. req'[d] = req[d] /\ RequestOK(req[d])
    BY <1>3 DEF IInv, TypeOK
  <2> QED
    BY <1>1, <2>1 DEF RequestOK, AllClosed
<1>4. \A r \in Runs : PhaseOK(r)' /\ (basis'[r] # None => ClosedOK(r)')
  BY <1>1 DEF IInv, PhaseOK, ClosedOK
<1>5. ClosedRestsOnLastAttempt'
  BY <1>1 DEF IInv, ClosedRestsOnLastAttempt, Latest
<1>6. (bstate \in Terminal => bstate = EvaluateBatchOutcome(Counts))'
  BY <1>1 DEF Counts, ItemClass
<1> QED
  BY <1>2, <1>3, <1>4, <1>5, <1>6 DEF IInv

LEMMA ProposeReadinessKeeps ==
    ASSUME IInv, NEW c \in Callers, ProposeReadiness(c) PROVE IInv'
<1>1. RequestOK([op |-> "ready", cand |-> ReadinessSnapshot])
  BY DEF RequestOK, ProposeReadiness, ReadinessSnapshot
<1> QED
  BY <1>1, CallerKeeps DEF ProposeReadiness

LEMMA LockForReadinessKeeps ==
    ASSUME IInv, NEW c \in Callers, LockForReadiness(c) PROVE IInv'
<1>1. RequestOK(req[c]) /\ req[c].op = "ready"
  BY DEF IInv, LockForReadiness
<1>2. RequestOK([op |-> "locking", cand |-> req[c].cand, seen |-> readiness])
  BY <1>1 DEF RequestOK
<1> QED
  BY <1>2, CallerKeeps DEF LockForReadiness

LEMMA BeginReadinessKeeps ==
    ASSUME IInv, NEW c \in Callers, BeginReadiness(c) PROVE IInv'
<1>1. PICK s : s = req[c].cand
  OBVIOUS
<1>2. req' = [req EXCEPT ![c] = None] /\ UNCHANGED runVars
  BY DEF BeginReadiness
<1>3. CASE UNCHANGED batchVars
  BY <1>2, <1>3, CallerKeeps
<1>4. CASE /\ ReadinessAuthority(s, req[c].seen) /\ SourceMatches(s) /\ Ready(s) /\ ~ReadinessStored
           /\ PublishReadiness(s)
  <2>1. s.bases = basis
    BY <1>1 DEF BeginReadiness, IInv, RequestOK
  <2>2. AllClosed /\ open = {} /\ pending = {}
    BY <1>4 DEF SourceMatches, ClosureMatches, AllClosed, RetriesMatch, OpportunitiesMatch, Ready
  <2>3. /\ readiness = {} /\ readiness' = {s} /\ bstate' = "finalizing" /\ started' = started + 1
        /\ UNCHANGED <<bbasis, finished, open, pending, basis>>
    BY <1>2, <1>4 DEF ReadinessStored, PublishReadiness, InsertReadinessFact, PublishBatchProjection,
                      InsertStarted, runVars, histVars
  <2>4. Cardinality(readiness) = 0 /\ Cardinality(readiness') = 1
    BY <2>3, FS_EmptySet, FS_Singleton
  <2>5. BatchEndsOnItsRuns'
    BY <2>1, <2>2, <2>3, <2>4 DEF IInv, BatchEndsOnItsRuns, AllClosed, Terminal
  <2>6. ReadinessStands'
    BY <2>1, <2>2, <2>3 DEF ReadinessStands, AllClosed
  <2> QED
    BY <1>2, <2>3, <2>5, <2>6, BatchCommandKeeps DEF Terminal
<1> QED
  BY <1>1, <1>3, <1>4 DEF BeginReadiness

LEMMA ProposeBatchKeeps ==
    ASSUME IInv, NEW c \in Callers, ProposeBatch(c) PROVE IInv'
<1>1. RequestOK([op |-> "batch", cand |-> BatchBasis])
  BY DEF RequestOK, BatchBasis, SourceSnapshot
<1> QED
  BY <1>1, CallerKeeps DEF ProposeBatch

LEMMA FinalizeBatchKeeps ==
    ASSUME IInv, NEW c \in Callers, FinalizeBatch(c) PROVE IInv'
<1>1. PICK b : b = req[c].cand
  OBVIOUS
<1>2. /\ BatchAuthority(b.snapshot) /\ SourceRebuilt(b.snapshot) /\ PublishBatch(b)
      /\ req' = [req EXCEPT ![c] = None] /\ UNCHANGED runVars
      /\ b.outcome = EvaluateBatchOutcome(b.snapshot.counts)
  BY <1>1 DEF FinalizeBatch, IInv, RequestOK
<1>3. /\ bstate = "finalizing" /\ bbasis = {} /\ bbasis' = {b} /\ bstate' = b.outcome
      /\ finished' = finished + 1 /\ UNCHANGED <<readiness, started, open, pending, basis>>
  BY <1>2 DEF BatchAuthority, BatchMutation, PublishBatch, InsertBatchBasis, PublishBatchProjection,
              InsertFinalized, runVars, histVars
<1>4. b.outcome = EvaluateBatchOutcome(Counts)
  BY <1>2 DEF SourceRebuilt, ItemsRebuilt
<1>5. b.outcome \in Terminal
  BY <1>4 DEF EvaluateBatchOutcome, Terminal
<1>6. AllClosed /\ open = {} /\ pending = {} /\ \E s \in readiness : s.bases = basis
  BY <1>3 DEF IInv, BatchEndsOnItsRuns
<1>7. b.snapshot.bases = basis
  <2>1. \E s \in readiness : s.bases = b.snapshot.bases
    BY <1>1 DEF FinalizeBatch, ReadinessBinds
  <2> QED
    BY <2>1 DEF IInv, ReadinessStands
<1>8. Cardinality(bbasis) = 0 /\ Cardinality(bbasis') = 1
  BY <1>3, FS_EmptySet, FS_Singleton
<1>9. BatchEndsOnItsRuns'
  BY <1>3, <1>6, <1>7, <1>8 DEF IInv, BatchEndsOnItsRuns, AllClosed
<1>10. ReadinessStands'
  BY <1>3 DEF IInv, ReadinessStands, AllClosed
<1> QED
  BY <1>2, <1>3, <1>4, <1>5, <1>9, <1>10, BatchCommandKeeps

\* A step that writes no row the invariant speaks of.
LEMMA SameRowsKeep ==
    ASSUME IInv, UNCHANGED <<run, att, open, pending, basis, closed, req>>,
           UNCHANGED <<bstate, readiness, bbasis, started, finished>>
    PROVE  IInv'
<1>1. TypeOK'
  BY DEF IInv, TypeOK
<1>2. \A d \in Callers : req'[d] # None => RequestOK(req[d])'
  BY DEF IInv, RequestOK, AllClosed
<1>3. \A q \in Runs : PhaseOK(q)' /\ (basis'[q] # None => ClosedOK(q)')
  BY DEF IInv, PhaseOK, ClosedOK
<1>4. ClosedRestsOnLastAttempt'
  BY DEF IInv, ClosedRestsOnLastAttempt, Latest
<1>5. ReadinessStands' /\ BatchEndsOnItsRuns'
  BY DEF IInv, ReadinessStands, BatchEndsOnItsRuns, AllClosed
<1>6. (bstate \in Terminal => bstate = EvaluateBatchOutcome(Counts))'
  BY DEF IInv, Counts, ItemClass
<1> QED
  BY <1>1, <1>2, <1>3, <1>4, <1>5, <1>6 DEF IInv

----------------------------------------------------------------------------
(* The inductive invariant. *)

LEMMA InitIInv == Init => IInv
<1> SUFFICES ASSUME Init PROVE IInv
  OBVIOUS
<1>1. TypeOK
  <2>1. run \in [Runs -> RunRows]
    BY DEF Init, RunInit, RunRows, Phases
  <2>2. \A r \in Runs : att[r] \in Seq(AttemptRows(r))
    BY DEF Init, RunInit
  <2> QED
    BY <2>1, <2>2 DEF Init, RunInit, TypeOK
<1>2. /\ \A r \in Runs : PhaseOK(r) /\ basis[r] = None
      /\ \A c \in Callers : req[c] = None
  BY DEF Init, RunInit, PhaseOK
<1>3. ClosedRestsOnLastAttempt /\ ReadinessStands
  BY <1>2 DEF Init, ClosedRestsOnLastAttempt, ReadinessStands
<1>4. BatchEndsOnItsRuns /\ bstate \notin Terminal
  BY FS_EmptySet DEF Init, BatchEndsOnItsRuns, Terminal
<1> QED
  BY <1>1, <1>2, <1>3, <1>4 DEF IInv

LEMMA Inductive == IInv /\ [Next]_allVars => IInv'
<1> SUFFICES ASSUME IInv, [Next]_allVars PROVE IInv'
  OBVIOUS
<1>1. CASE RunNext /\ UNCHANGED batchVars
  BY <1>1, HistoryKeeps, FinalizeRunKeeps, ProposeRunKeeps DEF RunNext
<1>2. ASSUME NEW c \in Callers, Drop(c), UNCHANGED batchVars PROVE IInv'
  BY <1>2, CallerKeeps DEF Drop
<1>3. CASE BatchNext
  <2>1. ASSUME NEW r \in Runs, RecordFanout(r) PROVE IInv'
    BY <2>1, SameRowsKeep DEF RecordFanout, vars, runVars, histVars
  <2> QED
    BY <1>3, <2>1, ProposeReadinessKeeps, LockForReadinessKeeps, BeginReadinessKeeps,
       ProposeBatchKeeps, FinalizeBatchKeeps DEF BatchNext
<1>4. CASE UNCHANGED allVars
  BY <1>4, SameRowsKeep DEF allVars, vars, runVars, histVars, batchVars
<1> QED
  BY <1>1, <1>2, <1>3, <1>4 DEF Next

\* The inductive invariant holds in every state the commands reach.
THEOREM Invariance == Spec => []IInv
BY InitIInv, Inductive, PTL DEF Spec

\* Every closed Run rests on its last execution and the evidence indexed for it, or
\* on a request to cancel that came before any, whoever closed it.
THEOREM ClosedRunsRest == Spec => []ClosedRestsOnLastAttempt
<1>1. IInv => ClosedRestsOnLastAttempt
  BY DEF IInv
<1> QED
  BY <1>1, Invariance, PTL

\* A Batch ends on the bases that made it ready, when all its Runs are closed, in the
\* state its basis gives it, and each event is in the outbox once.
THEOREM BatchesEnd == Spec => []BatchEndsOnItsRuns
<1>1. IInv => BatchEndsOnItsRuns
  BY DEF IInv
<1> QED
  BY <1>1, Invariance, PTL

----------------------------------------------------------------------------
(* A closed Run. *)

\* The writers of a Run's history accept no closed Run and touch no other.
LEMMA HistoryLeaves ==
    ASSUME IInv, NEW q \in Runs, History(q)
    PROVE  /\ run[q].phase # "closed" /\ UNCHANGED <<basis, closed>>
           /\ \A r \in Runs : r # q => run'[r] = run[r] /\ att'[r] = att[r]
<1>1. DOMAIN run = Runs /\ DOMAIN att = Runs
  BY DEF IInv, TypeOK
<1>2. CASE Offer(q) \/ CommitStart(q) \/ QueueRetry(q) \/ RequestCancel(q)
  BY <1>1, <1>2 DEF Offer, CommitStart, QueueRetry, RequestCancel, Moves
<1>3. CASE MarkUnknown(q) \/ \E d \in Decisions : Adjudicate(q, d)
  BY <1>1, <1>3 DEF MarkUnknown, Adjudicate, Executing, Moves
<1>4. CASE \E f \in ResultsOf(q) : IndexEvidence(q, f) \/ IndexLateEvidence(q, f)
  BY <1>1, <1>4 DEF IndexEvidence, IndexLateEvidence, Executing
<1> QED
  BY <1>2, <1>3, <1>4 DEF History

\* The first basis of a Run stands and nothing of a closed Run changes, however late
\* a worker, a retry or another finalization comes.
THEOREM ClosedRunsStand == Spec => ClosedForGood
<1>1. ASSUME IInv, [Next]_allVars, NEW r \in Runs, basis[r] # None
      PROVE  basis'[r] = basis[r] /\ run'[r] = run[r] /\ att'[r] = att[r] /\ closed'[r] = closed[r]
  <2>1. run[r].phase = "closed"
    BY <1>1 DEF IInv, ClosedRestsOnLastAttempt
  <2>2. ASSUME NEW q \in Runs, History(q)
        PROVE  basis'[r] = basis[r] /\ run'[r] = run[r] /\ att'[r] = att[r] /\ closed'[r] = closed[r]
    BY <1>1, <2>1, <2>2, HistoryLeaves
  <2>3. ASSUME NEW c \in Callers, FinalizeRun(c)
        PROVE  basis'[r] = basis[r] /\ run'[r] = run[r] /\ att'[r] = att[r] /\ closed'[r] = closed[r]
    <3>1. PICK b : b = req[c].cand
      OBVIOUS
    <3>2. NotStored(b) /\ PublishRun(b)
      BY <2>3, <3>1 DEF FinalizeRun
    <3>3. r # b.run
      BY <1>1, <3>2 DEF NotStored
    <3> QED
      BY <1>1, <3>2, <3>3 DEF IInv, TypeOK, PublishRun, InsertBasis, PublishAttemptTerminal,
                              PublishRunProjection, InsertOutbox
  <2>4. CASE UNCHANGED runVars
    BY <2>4 DEF runVars, histVars
  <2>5. RunNext => (\/ \E q \in Runs : History(q)
                    \/ \E c \in Callers : FinalizeRun(c) \/ UNCHANGED runVars)
    BY DEF RunNext, ProposeRun
  <2>6. ~RunNext => UNCHANGED runVars
    BY <1>1 DEF Next, BatchNext, Drop, RecordFanout, ProposeReadiness, LockForReadiness, BeginReadiness,
                ProposeBatch, FinalizeBatch, allVars, vars
  <2> QED
    BY <2>2, <2>3, <2>4, <2>5, <2>6
<1>2. IInv /\ [Next]_allVars =>
        [\A r \in Runs : basis[r] # None =>
            basis'[r] = basis[r] /\ run'[r] = run[r] /\ att'[r] = att[r]
            /\ closed'[r] = closed[r]]_allVars
  BY <1>1
<1> QED
  BY <1>2, Invariance, PTL DEF Spec, ClosedForGood

----------------------------------------------------------------------------
(* The outcome of the Batch. *)

LEMMA ItemsFinite ==
    /\ IsFiniteSet(BatchItems) /\ Cardinality(BatchItems) \in Nat
    /\ \A S \in SUBSET BatchItems :
          /\ IsFiniteSet(S) /\ Cardinality(S) \in Nat
          /\ Cardinality(S) = 0 <=> S = {}
          /\ Cardinality(S) = Cardinality(BatchItems) => S = BatchItems
<1>1. BatchItems \subseteq Items
  BY ShardsAssumption DEF BatchItems
<1>2. IsFiniteSet(BatchItems)
  BY <1>1, ShardsAssumption, FS_Subset
<1> QED
  BY <1>2, FS_Subset, FS_CardinalityType, FS_EmptySet

LEMMA RunOfItem == ASSUME NEW r \in Runs, NEW i \in ItemsOf[r] PROVE RunOf(i) = r /\ i \in BatchItems
<1>1. \A q \in Runs : i \in ItemsOf[q] => q = r
  BY ShardsAssumption
<1> QED
  BY <1>1 DEF RunOf, BatchItems

\* The counts a Batch's outcome is computed from.
LEMMA CountsValue ==
    \A k \in Classes : /\ Counts[k] \in Nat
                       /\ Counts[k] = 0 <=> \A i \in BatchItems : ItemClass(i) # k
                       /\ Counts[k] = Cardinality(BatchItems) => \A i \in BatchItems : ItemClass(i) = k
<1> SUFFICES ASSUME NEW k \in Classes
             PROVE  /\ Counts[k] \in Nat
                    /\ Counts[k] = 0 <=> \A i \in BatchItems : ItemClass(i) # k
                    /\ Counts[k] = Cardinality(BatchItems) => \A i \in BatchItems : ItemClass(i) = k
  OBVIOUS
<1>1. PICK S \in SUBSET BatchItems : S = {i \in BatchItems : ItemClass(i) = k}
  OBVIOUS
<1>2. Counts[k] = Cardinality(S)
  BY <1>1 DEF Counts
<1> QED
  BY <1>1, <1>2, ItemsFinite

\* The resolution of an item of a closed Run.
LEMMA ClosedItem ==
    ASSUME IInv, NEW r \in Runs, basis[r] # None, NEW i \in ItemsOf[r]
    PROVE  LET x == basis[r].items[i]
           IN  /\ ItemClass(i) = x.class /\ x.effective.outcome \in Outcomes
               /\ x.class = IF x.lineage THEN "unknown_lineage" ELSE x.effective.outcome
               /\ (att[r] # <<>> /\ att[r][1].unknown) => x.lineage
               /\ x.effective.outcome \in Completed =>
                     att[r] # <<>> /\ Latest(r).result[i] = x.effective.outcome
<1>1. WellFormed(basis[r], r) /\ ItemsAgree(basis[r], r, att[r])
  BY DEF IInv, ClosedOK
<1>2. ResolutionValid(basis[r].items[i])
  BY <1>1 DEF WellFormed, CommandValid
<1> QED
  BY <1>1, <1>2, RunOfItem
     DEF ItemClass, ResolutionValid, EffectiveValid, LineageValid, ItemsAgree, Latest

\* A Batch with an item whose first execution was lost track of is partial.
THEOREM UnknownIsVisible == Spec => []UnknownStaysVisible
<1>1. ASSUME IInv, bstate \in Terminal, NEW r \in Runs, att[r] # <<>>, att[r][1].unknown
      PROVE  bstate = "partial"
  <2>1. basis[r] # None /\ bstate = EvaluateBatchOutcome(Counts)
    BY <1>1 DEF IInv, BatchEndsOnItsRuns, AllClosed, Terminal
  <2>2. PICK i \in ItemsOf[r] : TRUE
    BY ShardsAssumption
  <2>3. i \in BatchItems /\ ItemClass(i) = "unknown_lineage"
    BY <1>1, <2>1, ClosedItem, RunOfItem
  <2>4. /\ Counts["unknown_lineage"] \in Nat \ {0} /\ Counts["cancelled"] \in Nat
        /\ Counts["cancelled"] # Cardinality(BatchItems)
    BY <2>3, CountsValue DEF Classes, Outcomes
  <2> QED
    BY <2>1, <2>4 DEF EvaluateBatchOutcome
<1>2. IInv => UnknownStaysVisible
  BY <1>1 DEF UnknownStaysVisible
<1> QED
  BY <1>2, Invariance, PTL

\* A succeeded Batch was executed: every item by an execution with indexed evidence,
\* no more of them failed there than the policy allows.
THEOREM SuccessIsExecuted == Spec => []SuccessMeansExecuted
<1>1. ASSUME IInv, bstate = "succeeded"
      PROVE  /\ \A r \in Runs : /\ att[r] # <<>> /\ Latest(r).evidence
                                /\ Results(Latest(r)) \subseteq Completed
             /\ MaxTestFailed >= Cardinality({i \in BatchItems : \E r \in Runs :
                                   i \in ItemsOf[r] /\ Latest(r).result[i] = "test_failed"})
  <2>1. AllClosed /\ bstate = EvaluateBatchOutcome(Counts)
    BY <1>1 DEF IInv, BatchEndsOnItsRuns, Terminal
  <2>2. \A k \in {"cancelled", "unknown_lineage", "infra_failed", "test_failed"} : Counts[k] \in Nat
    BY CountsValue DEF Classes, Outcomes, Completed
  <2>3. /\ Counts["cancelled"] = 0 /\ Counts["unknown_lineage"] = 0 /\ Counts["infra_failed"] = 0
        /\ MaxTestFailed >= Counts["test_failed"]
    BY <1>1, <2>1, <2>2, PolicyAssumption DEF EvaluateBatchOutcome
  <2>4. \A i \in BatchItems : ItemClass(i) \notin {"cancelled", "unknown_lineage", "infra_failed"}
    BY <2>3, CountsValue DEF Classes, Outcomes, Completed
  <2>5. ASSUME NEW r \in Runs, NEW i \in ItemsOf[r]
        PROVE  att[r] # <<>> /\ Latest(r).result[i] = ItemClass(i) /\ ItemClass(i) \in Completed
    <3>1. basis[r] # None /\ i \in BatchItems
      BY <2>1, RunOfItem DEF AllClosed
    <3> QED
      BY <1>1, <2>4, <3>1, ClosedItem DEF Outcomes, Completed
  <2>6. ASSUME NEW r \in Runs
        PROVE  att[r] # <<>> /\ Latest(r).evidence /\ Results(Latest(r)) \subseteq Completed
    <3>1. att[r] # <<>>
      BY <2>5, ShardsAssumption
    <3>2. Latest(r).evidence
      BY <1>1, <2>1, <3>1 DEF IInv, ClosedRestsOnLastAttempt, AllClosed
    <3>3. DOMAIN Latest(r).result = ItemsOf[r]
      BY <1>1, <3>1, LatestType DEF AttemptRows
    <3> QED
      BY <2>5, <3>1, <3>2, <3>3 DEF Results
  <2>7. {i \in BatchItems : \E r \in Runs : i \in ItemsOf[r] /\ Latest(r).result[i] = "test_failed"}
           = {i \in BatchItems : ItemClass(i) = "test_failed"}
    BY <2>5 DEF BatchItems
  <2>8. Counts["test_failed"] = Cardinality({i \in BatchItems : ItemClass(i) = "test_failed"})
    BY DEF Counts, Classes, Outcomes, Completed
  <2> QED
    BY <2>3, <2>6, <2>7, <2>8
<1>2. IInv => SuccessMeansExecuted
  BY <1>1 DEF SuccessMeansExecuted
<1> QED
  BY <1>2, Invariance, PTL
=============================================================================
