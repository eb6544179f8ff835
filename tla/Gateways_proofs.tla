--------------------------- MODULE Gateways_proofs ---------------------------
(***************************************************************************)
(* Theorems about the two gateways to the rows of PostgreSQL: Outbox, for  *)
(* any number of rows, publishers and attempts, and AssignmentStore, for   *)
(* any number of sessions, workers and reservations.                       *)
(*                                                                         *)
(* Outbox.  What bounds the deliveries of an event are the failures that   *)
(* can still be counted: by the publishers that hold a claim of its row,   *)
(* each up to max_attempts from the count it claimed, and by later claims  *)
(* from the count of the row.  A step of a publisher moves its own count   *)
(* by as much as the failures or the row's count move; only a repair,      *)
(* which lets the row be claimed next to a claim still in hands, adds.     *)
(*                                                                         *)
(* AssignmentStore.  The lock keeps the committed rows as the transaction  *)
(* found them, so what is staged is what one command makes of them, and    *)
(* the commit is that command of ExecutionRun at the time of the lock.     *)
(***************************************************************************)
EXTENDS Outbox, AssignmentStore, FiniteSetTheorems, TLAPS

USE PublisherAssumption, OutboxBounds, EventsAssumption, FinitelyManyPublishers,
    StoreAssumption

-----------------------------------------------------------------------------
(* The outbox: counts. *)

\* The numbers one publisher has above a count.
LEMMA AboveOne ==
    ASSUME NEW p, NEW k \in 0 .. MaxAttempts
    PROVE  LET Mine == {t \in {p} \X (1 .. MaxAttempts) : t[2] > k}
           IN  IsFiniteSet(Mine) /\ Cardinality(Mine) = MaxAttempts - k
<1> DEFINE Mine == {t \in {p} \X (1 .. MaxAttempts) : t[2] > k}
           f == [n \in (k + 1) .. MaxAttempts |-> <<p, n>>]
<1>1. IsFiniteSet((k + 1) .. MaxAttempts) /\ Cardinality((k + 1) .. MaxAttempts) = MaxAttempts - k
    BY FS_Interval
<1>2. \A n \in (k + 1) .. MaxAttempts : n \in 1 .. MaxAttempts /\ n > k
    OBVIOUS
<1>3. f \in [(k + 1) .. MaxAttempts -> Mine]
    BY <1>2
<1>4. \A t \in Mine : t[2] \in (k + 1) .. MaxAttempts /\ f[t[2]] = t
    OBVIOUS
<1>5. \A m, n \in (k + 1) .. MaxAttempts : f[m] = f[n] => m = n
    OBVIOUS
<1> HIDE DEF f, Mine
<1>6. f \in Bijection((k + 1) .. MaxAttempts, Mine)
    BY <1>3, <1>4, <1>5 DEF Bijection, Injection, Surjection, IsInjective
<1>7. QED
    BY <1>1, <1>6, FS_Bijection DEF ExistsBijection, Mine

\* There are finitely many of them.
LEMMA AboveFinite ==
    ASSUME NEW u
    PROVE  IsFiniteSet(Above(u)) /\ Cardinality(Above(u)) \in Nat
<1>1. IsFiniteSet(1 .. MaxAttempts)
    BY FS_Interval
<1>2. IsFiniteSet(Publishers \X (1 .. MaxAttempts))
    BY <1>1, FS_Product
<1>3. Above(u) \in SUBSET (Publishers \X (1 .. MaxAttempts))
    BY DEF Above
<1>4. QED
    BY <1>2, <1>3, FS_Subset, FS_CardinalityType

\* A step of one publisher moves its count, and changes what all of them can
\* still count by as much.
LEMMA CountMoves ==
    ASSUME NEW u \in [Publishers -> 0 .. MaxAttempts],
           NEW p \in Publishers, NEW k \in 0 .. MaxAttempts
    PROVE  Cardinality(Above([u EXCEPT ![p] = k])) = Cardinality(Above(u)) + u[p] - k
<1> DEFINE v == [u EXCEPT ![p] = k]
           Rest == {t \in (Publishers \ {p}) \X (1 .. MaxAttempts) : t[2] > u[t[1]]}
           Mine(n) == {t \in {p} \X (1 .. MaxAttempts) : t[2] > n}
<1>0. IsFiniteSet(1 .. MaxAttempts)
    BY FS_Interval
<1>1. IsFiniteSet(Rest)
  <2>1. IsFiniteSet(Publishers \X (1 .. MaxAttempts))
    BY <1>0, FS_Product
  <2>2. Rest \in SUBSET (Publishers \X (1 .. MaxAttempts))
    OBVIOUS
  <2>3. QED
    BY <2>1, <2>2, FS_Subset
<1>2. /\ IsFiniteSet(Mine(u[p])) /\ Cardinality(Mine(u[p])) = MaxAttempts - u[p]
      /\ IsFiniteSet(Mine(k)) /\ Cardinality(Mine(k)) = MaxAttempts - k
    BY AboveOne
<1>3. Above(u) = Rest \cup Mine(u[p]) /\ Rest \cap Mine(u[p]) = {}
    BY DEF Above
<1>4. Above(v) = Rest \cup Mine(k) /\ Rest \cap Mine(k) = {}
    BY DEF Above
<1>5. Cardinality(Rest) \in Nat
    BY <1>1, FS_CardinalityType
<1> HIDE DEF v, Rest, Mine
<1>6. IsFiniteSet(Above(u)) /\ Cardinality(Above(u)) = Cardinality(Rest) + (MaxAttempts - u[p])
  <2>1. Cardinality(Rest \cap Mine(u[p])) = 0
    BY <1>3, FS_EmptySet
  <2>2. QED
    BY <1>1, <1>2, <1>3, <1>5, <2>1, FS_Union
<1>7. Cardinality(Above(v)) = Cardinality(Rest) + (MaxAttempts - k)
  <2>1. Cardinality(Rest \cap Mine(k)) = 0
    BY <1>4, FS_EmptySet
  <2>2. Cardinality(Rest \cup Mine(k)) = Cardinality(Rest) + Cardinality(Mine(k)) - 0
    BY <1>1, <1>2, <2>1, FS_Union
  <2>3. QED
    BY <1>2, <1>4, <1>5, <2>2
<1>8. u[p] \in 0 .. MaxAttempts
    OBVIOUS
<1>9. QED
    BY <1>5, <1>6, <1>7, <1>8 DEF v

\* The empty table, and publishers that hold nothing, satisfy the invariant.
LEMMA InitIInv == Init => IInv
<1> SUFFICES ASSUME Init PROVE IInv
    OBVIOUS
<1> USE DEF Init
<1>1. RowsRemembered /\ CountsEnd
    BY DEF RowsRemembered, TypeOK, PublisherMemory, PublishedWasDelivered,
           QuarantineIsEarned, CountsEnd, Statuses, Settled
<1>2. ASSUME NEW e \in Events
      PROVE  failed[e] + Cardinality(Above(Counted(e))) + ClaimsAhead(e)
                <= MaxAttempts * (repairs[e] + 1)
  <2>1. Above(Counted(e)) = {}
    BY DEF Above, Counted
  <2>2. Cardinality(Above(Counted(e))) = 0
    BY <2>1, FS_EmptySet
  <2>3. ClaimsAhead(e) = MaxAttempts /\ failed[e] = 0 /\ repairs[e] = 0
    BY DEF ClaimsAhead
  <2>4. QED
    BY <2>2, <2>3
<1>3. QED
    BY <1>1, <1>2 DEF IInv, FailuresBudgeted

\* Each step of a publisher, of the scan and of a unit of work keeps the rows
\* and what publishers remember of them.
LEMMA RowsStep == RowsRemembered /\ [Next]_vars => RowsRemembered'
<1> SUFFICES ASSUME RowsRemembered, [Next]_vars
             PROVE  RowsRemembered'
    OBVIOUS
<1> USE DEF RowsRemembered, TypeOK, PublisherMemory, PublishedWasDelivered, QuarantineIsEarned,
            Statuses, Settled
<1>1. ASSUME NEW e \in Events, InsertOutbox(e)
      PROVE  RowsRemembered'
    BY <1>1 DEF InsertOutbox, pubVars, logVars
<1>2. ASSUME NEW e \in Events, BecomesDue(e)
      PROVE  RowsRemembered'
    BY <1>2 DEF BecomesDue, pubVars, logVars
<1>3. ASSUME NEW e \in Events, LeaseGrowsOld(e)
      PROVE  RowsRemembered'
    BY <1>3 DEF LeaseGrowsOld, pubVars, logVars
<1>4. ASSUME NEW p \in Publishers, ClaimBatch(p)
      PROVE  RowsRemembered'
    BY <1>4 DEF ClaimBatch, logVars
<1>5. ASSUME NEW p \in Publishers, NEW e \in Events, DeliverySucceeds(p, e)
      PROVE  RowsRemembered'
    BY <1>5 DEF DeliverySucceeds, TakeNext, rowVars
<1>6. ASSUME NEW p \in Publishers, NEW e \in Events, DeliveryRaises(p, e)
      PROVE  RowsRemembered'
    BY <1>6 DEF DeliveryRaises, TakeNext, rowVars
<1>7. ASSUME NEW p \in Publishers, RecordSuccess(p)
      PROVE  RowsRemembered'
    BY <1>7 DEF RecordSuccess, StillLeased, logVars
<1>8. ASSUME NEW p \in Publishers, RecordFailure(p)
      PROVE  RowsRemembered'
  <2> DEFINE e == doing[p]
             n == snap[p][e] + 1
  <2> USE DEF RecordFailure, StillLeased, logVars
  <2>1. e \in Events /\ n \in Nat /\ n <= failed[e] /\ failed[e] \in Nat
    BY <1>8
  <2>2. CASE status[e] # "leased"
    BY <1>8, <2>2
  <2>3. CASE status[e] = "leased"
    <3>1. /\ status' = [status EXCEPT ![e] = StatusAfterFailure(n)]
          /\ attempts' = [attempts EXCEPT ![e] = n]
          /\ overdue' = overdue \ {e} /\ due' = due
          /\ doing' = [doing EXCEPT ![p] = NoEvent]
          /\ UNCHANGED <<held, snap, result, delivered, failed, repairs, stops, slow>>
      BY <1>8, <2>3
    <3>2. /\ StatusAfterFailure(n) \in {"pending", "quarantined"}
          /\ StatusAfterFailure(n) = "quarantined" => failed[e] >= MaxAttempts
      BY <2>1 DEF StatusAfterFailure, Exhausted
    <3> HIDE DEF e, n
    <3>3. TypeOK'
      BY <2>1, <2>3, <3>1, <3>2
    <3>4. (PublishedWasDelivered /\ QuarantineIsEarned)'
      BY <2>1, <2>3, <3>1, <3>2
    <3>5. \A q \in Publishers : PublisherMemory(q)'
      BY <3>1
    <3>6. QED
      BY <3>3, <3>4, <3>5
  <2>4. QED
    BY <2>2, <2>3
<1>9. ASSUME NEW p \in Publishers, Abandon(p)
      PROVE  RowsRemembered'
    BY <1>9 DEF Abandon, rowVars, logVars
<1>10. CASE RepairStuckLeases
    BY <1>10 DEF RepairStuckLeases, StuckLeases, pubVars
<1>11. CASE UNCHANGED vars
    BY <1>11 DEF vars, rowVars, pubVars, logVars
<1>12. QED
    BY <1>1, <1>2, <1>3, <1>4, <1>5, <1>6, <1>7, <1>8, <1>9, <1>10, <1>11 DEF Next, Publish

\* No step starts a count from one that has ended, nor goes on with it.
LEMMA CountsStep == RowsRemembered /\ CountsEnd /\ [Next]_vars => CountsEnd'
<1> SUFFICES ASSUME RowsRemembered, CountsEnd, [Next]_vars
             PROVE  CountsEnd'
    OBVIOUS
<1> USE DEF RowsRemembered, TypeOK, CountsEnd, Statuses, Settled
<1>1. ASSUME NEW e \in Events, InsertOutbox(e) \/ BecomesDue(e) \/ LeaseGrowsOld(e)
      PROVE  CountsEnd'
    BY <1>1 DEF InsertOutbox, BecomesDue, LeaseGrowsOld, pubVars
<1>2. ASSUME NEW p \in Publishers, ClaimBatch(p)
      PROVE  CountsEnd'
    BY <1>2 DEF ClaimBatch
<1>3. ASSUME NEW p \in Publishers, NEW e \in Events,
             DeliverySucceeds(p, e) \/ DeliveryRaises(p, e)
      PROVE  CountsEnd'
    BY <1>3 DEF DeliverySucceeds, DeliveryRaises, TakeNext, rowVars
<1>4. ASSUME NEW p \in Publishers, RecordSuccess(p) \/ Abandon(p)
      PROVE  CountsEnd'
    BY <1>4 DEF RecordSuccess, StillLeased, Abandon, rowVars
<1>5. ASSUME NEW p \in Publishers, RecordFailure(p)
      PROVE  CountsEnd'
  <2> DEFINE e == doing[p]
             n == snap[p][e] + 1
  <2>1. /\ e \in Events /\ n \in Nat
        /\ StatusAfterFailure(n) # "quarantined" => n < MaxAttempts
    BY <1>5 DEF RecordFailure, StatusAfterFailure, Exhausted
  <2>2. /\ doing' = [doing EXCEPT ![p] = NoEvent] /\ UNCHANGED <<held, snap>>
        /\ \/ UNCHANGED <<status, attempts>>
           \/ /\ status' = [status EXCEPT ![e] = StatusAfterFailure(n)]
              /\ attempts' = [attempts EXCEPT ![e] = n]
    BY <1>5 DEF RecordFailure, StillLeased
  <2> HIDE DEF e, n
  <2>3. QED
    BY <2>1, <2>2
<1>6. CASE RepairStuckLeases
    BY <1>6 DEF RepairStuckLeases, StuckLeases, pubVars
<1>7. CASE UNCHANGED vars
    BY <1>7 DEF vars, rowVars, pubVars
<1>8. QED
    BY <1>1, <1>2, <1>3, <1>4, <1>5, <1>6, <1>7 DEF Next, Publish

\* Counts run from 0 to max_attempts.
LEMMA CountedType ==
    ASSUME RowsRemembered, CountsEnd, NEW e \in Events
    PROVE  Counted(e) \in [Publishers -> 0 .. MaxAttempts]
BY DEF RowsRemembered, TypeOK, CountsEnd, Counted

\* The arithmetic of a step that moves the count of one publisher from u[p] to
\* k, the failures from f to g and what later claims can count from c to d.
LEMMA BudgetMoves ==
    ASSUME NEW u \in [Publishers -> 0 .. MaxAttempts],
           NEW p \in Publishers, NEW k \in 0 .. MaxAttempts,
           NEW f \in Nat, NEW g \in Nat, NEW c \in Nat, NEW d \in Nat, NEW b \in Nat,
           f + Cardinality(Above(u)) + c <= b,
           g + u[p] + d <= f + k + c
    PROVE  g + Cardinality(Above([u EXCEPT ![p] = k])) + d <= b
<1>1. /\ Cardinality(Above(u)) \in Nat
      /\ Cardinality(Above([u EXCEPT ![p] = k])) = Cardinality(Above(u)) + u[p] - k
    BY AboveFinite, CountMoves
<1>2. u[p] \in Nat /\ k \in Nat
    OBVIOUS
<1>3. QED
    BY <1>1, <1>2

\* No step but a repair adds to the failures that were and can follow, and a
\* repair of a row adds at most max_attempts to them.
LEMMA BudgetStep == IInv /\ [Next]_vars => FailuresBudgeted'
<1> SUFFICES ASSUME IInv, [Next]_vars, NEW e \in Events
             PROVE  (failed[e] + Cardinality(Above(Counted(e))) + ClaimsAhead(e)
                        <= MaxAttempts * (repairs[e] + 1))'
    BY DEF FailuresBudgeted
<1> DEFINE Goal == (failed[e] + Cardinality(Above(Counted(e))) + ClaimsAhead(e)
                        <= MaxAttempts * (repairs[e] + 1))'
           u == Counted(e)
           b == MaxAttempts * (repairs[e] + 1)
<1> USE DEF IInv, RowsRemembered, TypeOK, CountsEnd
<1>0. /\ u \in [Publishers -> 0 .. MaxAttempts]
      /\ failed[e] \in Nat /\ repairs[e] \in Nat /\ attempts[e] \in Nat /\ b \in Nat
      /\ ClaimsAhead(e) \in Nat
      /\ failed[e] + Cardinality(Above(u)) + ClaimsAhead(e) <= b
    BY CountedType DEF FailuresBudgeted, ClaimsAhead
<1>1. ASSUME NEW x \in Events, InsertOutbox(x) \/ BecomesDue(x) \/ LeaseGrowsOld(x)
      PROVE  Goal
  <2>1. Counted(e)' = u /\ ClaimsAhead(e)' = ClaimsAhead(e)
    BY <1>1 DEF InsertOutbox, BecomesDue, LeaseGrowsOld, pubVars, Counted, ClaimsAhead
  <2>2. failed' = failed /\ repairs' = repairs
    BY <1>1 DEF InsertOutbox, BecomesDue, LeaseGrowsOld, logVars
  <2>3. Above(Counted(e))' = Above(u)
    BY <2>1 DEF Above
  <2>4. QED
    BY <1>0, <2>1, <2>2, <2>3
<1>2. ASSUME NEW p \in Publishers, ClaimBatch(p)
      PROVE  Goal
  <2> USE DEF ClaimBatch
  <2>1. PICK S \in SUBSET due :
           /\ status' = [d \in Events |-> IF d \in S THEN "leased" ELSE status[d]]
           /\ held' = [held EXCEPT ![p] = S]
           /\ snap' = [snap EXCEPT ![p] = [d \in Events |-> IF d \in S THEN attempts[d] ELSE 0]]
    BY <1>2
  <2>2. /\ doing[p] = NoEvent /\ held[p] = {} /\ u[p] = MaxAttempts
        /\ UNCHANGED <<attempts, doing, result, failed, repairs>>
    BY <1>2 DEF logVars, Counted
  <2>3. CASE e \in S
    <3>1. Counted(e)' = [u EXCEPT ![p] = attempts[e]]
      BY <2>1, <2>2, <2>3 DEF Counted
    <3>2. attempts[e] < MaxAttempts /\ ClaimsAhead(e) = MaxAttempts - attempts[e]
      BY <2>3 DEF ClaimsAhead
    <3>3. ClaimsAhead(e)' = 0
      BY <2>1, <2>3 DEF ClaimsAhead
    <3> HIDE DEF u, b
    <3>4. failed[e] + Cardinality(Above([u EXCEPT ![p] = attempts[e]])) + 0 <= b
      <4>1. attempts[e] \in 0 .. MaxAttempts /\ 0 \in Nat
        BY <1>0, <3>2
      <4>2. failed[e] + u[p] + 0 <= failed[e] + attempts[e] + ClaimsAhead(e)
        BY <1>0, <2>2, <3>2
      <4>3. QED
        BY <1>0, <4>1, <4>2, BudgetMoves
    <3>5. QED
      BY <2>2, <3>1, <3>3, <3>4 DEF b, Above
  <2>4. CASE e \notin S
    <3>1. Counted(e)' = u /\ ClaimsAhead(e)' = ClaimsAhead(e)
      BY <2>1, <2>2, <2>4 DEF Counted, ClaimsAhead
    <3>2. QED
      BY <1>0, <2>2, <3>1 DEF Above
  <2>5. QED
    BY <2>3, <2>4
<1>3. ASSUME NEW p \in Publishers, NEW x \in Events, DeliverySucceeds(p, x)
      PROVE  Goal
  <2>1. /\ doing[p] = NoEvent /\ x \in held[p] /\ x # NoEvent
        /\ held' = [held EXCEPT ![p] = @ \ {x}]
        /\ doing' = [doing EXCEPT ![p] = x]
        /\ result' = [result EXCEPT ![p] = "ok"]
        /\ UNCHANGED <<status, attempts, snap, failed, repairs>>
    BY <1>3 DEF DeliverySucceeds, TakeNext, rowVars
  <2>2. ClaimsAhead(e)' = ClaimsAhead(e)
    BY <2>1 DEF ClaimsAhead
  <2>3. CASE e = x
    <3>1. Counted(e)' = [u EXCEPT ![p] = MaxAttempts]
      BY <2>1, <2>3 DEF Counted
    <3>2. u[p] \in 0 .. MaxAttempts
      BY <1>0
    <3> HIDE DEF u, b
    <3>3. failed[e] + Cardinality(Above([u EXCEPT ![p] = MaxAttempts])) + ClaimsAhead(e) <= b
      <4>1. /\ MaxAttempts \in 0 .. MaxAttempts
            /\ failed[e] + u[p] + ClaimsAhead(e) <= failed[e] + MaxAttempts + ClaimsAhead(e)
        BY <1>0, <3>2
      <4>2. QED
        BY <1>0, <4>1, BudgetMoves
    <3>4. QED
      BY <2>1, <2>2, <3>1, <3>3 DEF b, Above
  <2>4. CASE e # x
    <3>1. Counted(e)' = u
      BY <2>1, <2>4 DEF Counted
    <3>2. QED
      BY <1>0, <2>1, <2>2, <3>1 DEF Above
  <2>5. QED
    BY <2>3, <2>4
<1>4. ASSUME NEW p \in Publishers, NEW x \in Events, DeliveryRaises(p, x)
      PROVE  Goal
  <2>1. /\ doing[p] = NoEvent /\ x \in held[p] /\ x # NoEvent
        /\ held' = [held EXCEPT ![p] = @ \ {x}]
        /\ doing' = [doing EXCEPT ![p] = x]
        /\ result' = [result EXCEPT ![p] = "error"]
        /\ failed' = [failed EXCEPT ![x] = @ + 1]
        /\ UNCHANGED <<status, attempts, snap, repairs>>
    BY <1>4 DEF DeliveryRaises, TakeNext, rowVars
  <2>2. ClaimsAhead(e)' = ClaimsAhead(e)
    BY <2>1 DEF ClaimsAhead
  <2>3. CASE e = x
    <3>1. u[p] = snap[p][e] /\ snap[p][e] \in Nat /\ snap[p][e] < MaxAttempts
      BY <2>1, <2>3 DEF Counted
    <3>2. Counted(e)' = [u EXCEPT ![p] = snap[p][e] + 1]
      BY <2>1, <2>3 DEF Counted
    <3>3. failed'[e] = failed[e] + 1
      BY <2>1, <2>3
    <3>4. PICK k \in 0 .. MaxAttempts : k = snap[p][e] + 1
      BY <3>1
    <3> HIDE DEF u, b
    <3>5. (failed[e] + 1) + Cardinality(Above([u EXCEPT ![p] = k])) + ClaimsAhead(e) <= b
      <4>1. (failed[e] + 1) + u[p] + ClaimsAhead(e) <= failed[e] + k + ClaimsAhead(e)
        BY <1>0, <3>1, <3>4
      <4>2. failed[e] + 1 \in Nat
        BY <1>0
      <4>3. QED
        BY <1>0, <4>1, <4>2, BudgetMoves
    <3>6. QED
      BY <2>1, <2>2, <3>2, <3>3, <3>4, <3>5 DEF b, Above
  <2>4. CASE e # x
    <3>1. Counted(e)' = u /\ failed'[e] = failed[e]
      BY <2>1, <2>4 DEF Counted
    <3>2. QED
      BY <1>0, <2>1, <2>2, <3>1 DEF Above
  <2>5. QED
    BY <2>3, <2>4
<1>5. ASSUME NEW p \in Publishers, RecordSuccess(p)
      PROVE  Goal
  <2>1. /\ doing' = [doing EXCEPT ![p] = NoEvent] /\ doing[p] # NoEvent /\ result[p] = "ok"
        /\ UNCHANGED <<attempts, held, snap, result, failed, repairs>>
        /\ \/ status' = status
           \/ /\ status[doing[p]] = "leased"
              /\ status' = [status EXCEPT ![doing[p]] = "published"]
    BY <1>5 DEF RecordSuccess, StillLeased, logVars
  <2>2. Counted(e)' = u
    BY <2>1 DEF Counted
  <2>3. ClaimsAhead(e)' = ClaimsAhead(e)
    BY <2>1 DEF ClaimsAhead
  <2>4. QED
    BY <1>0, <2>1, <2>2, <2>3 DEF Above
<1>6. ASSUME NEW p \in Publishers, RecordFailure(p)
      PROVE  Goal
  <2> DEFINE x == doing[p]
             n == snap[p][x] + 1
  <2>1. /\ doing' = [doing EXCEPT ![p] = NoEvent] /\ x \in Events /\ result[p] = "error"
        /\ UNCHANGED <<held, snap, result, failed, repairs>>
        /\ \/ UNCHANGED <<status, attempts>>
           \/ /\ status[x] = "leased"
              /\ status' = [status EXCEPT ![x] = StatusAfterFailure(n)]
              /\ attempts' = [attempts EXCEPT ![x] = n]
    BY <1>6 DEF RecordFailure, StillLeased, logVars
  <2>2. CASE e = x
    <3>1. n \in Nat /\ n <= MaxAttempts /\ u[p] = n
      BY <2>1, <2>2 DEF Counted
    <3>2. Counted(e)' = [u EXCEPT ![p] = MaxAttempts]
      BY <2>1, <2>2 DEF Counted
    <3>3. PICK d \in Nat : d = ClaimsAhead(e)' /\ d + n <= MaxAttempts + ClaimsAhead(e)
      <4>1. CASE UNCHANGED <<status, attempts>>
        BY <1>0, <3>1, <4>1 DEF ClaimsAhead
      <4>2. CASE /\ status' = [status EXCEPT ![x] = StatusAfterFailure(n)]
                 /\ attempts' = [attempts EXCEPT ![x] = n]
        <5>1. status'[e] = StatusAfterFailure(n) /\ attempts'[e] = n
          BY <2>1, <2>2, <4>2
        <5>2. ClaimsAhead(e)' = IF status'[e] \in {"none", "pending"} THEN MaxAttempts - n ELSE 0
          BY <5>1 DEF ClaimsAhead
        <5> HIDE DEF n, u, b
        <5>3. QED
          BY <1>0, <3>1, <5>2
      <4>3. QED
        BY <2>1, <4>1, <4>2
    <3> HIDE DEF u, b, n
    <3>4. failed[e] + Cardinality(Above([u EXCEPT ![p] = MaxAttempts])) + d <= b
      <4>1. failed[e] + u[p] + d <= failed[e] + MaxAttempts + ClaimsAhead(e)
        BY <1>0, <3>1, <3>3
      <4>2. MaxAttempts \in 0 .. MaxAttempts
        OBVIOUS
      <4>3. QED
        BY <1>0, <4>1, <4>2, BudgetMoves
    <3>5. QED
      BY <2>1, <3>2, <3>3, <3>4 DEF b, Above
  <2>3. CASE e # x
    <3>1. Counted(e)' = u
      BY <2>1, <2>3 DEF Counted
    <3>2. ClaimsAhead(e)' = ClaimsAhead(e)
      BY <2>1, <2>3 DEF ClaimsAhead
    <3>3. QED
      BY <1>0, <2>1, <3>1, <3>2 DEF Above
  <2>4. QED
    BY <2>2, <2>3
<1>7. ASSUME NEW p \in Publishers, Abandon(p)
      PROVE  Goal
  <2>1. /\ held' = [held EXCEPT ![p] = {}] /\ doing' = [doing EXCEPT ![p] = NoEvent]
        /\ UNCHANGED <<status, attempts, snap, result, failed, repairs>>
    BY <1>7 DEF Abandon, rowVars, logVars
  <2>2. Counted(e)' = [u EXCEPT ![p] = MaxAttempts]
    BY <2>1 DEF Counted
  <2>3. ClaimsAhead(e)' = ClaimsAhead(e)
    BY <2>1 DEF ClaimsAhead
  <2>4. u[p] \in 0 .. MaxAttempts
    BY <1>0
  <2> HIDE DEF u, b
  <2>5. failed[e] + Cardinality(Above([u EXCEPT ![p] = MaxAttempts])) + ClaimsAhead(e) <= b
    <3>1. /\ MaxAttempts \in 0 .. MaxAttempts
          /\ failed[e] + u[p] + ClaimsAhead(e) <= failed[e] + MaxAttempts + ClaimsAhead(e)
      BY <1>0, <2>4
    <3>2. QED
      BY <1>0, <3>1, BudgetMoves
  <2>6. QED
    BY <2>1, <2>2, <2>3, <2>5 DEF b, Above
<1>8. CASE RepairStuckLeases
  <2>1. Counted(e)' = u /\ Above(Counted(e))' = Above(u) /\ failed' = failed
    BY <1>8 DEF RepairStuckLeases, pubVars, Counted, Above
  <2>2. CASE e \in StuckLeases
    <3>1. repairs'[e] = repairs[e] + 1 /\ ClaimsAhead(e) = 0
      BY <1>8, <2>2 DEF RepairStuckLeases, StuckLeases, ClaimsAhead
    <3>2. ClaimsAhead(e)' = MaxAttempts - attempts[e]
      BY <1>8, <2>2 DEF RepairStuckLeases, ClaimsAhead
    <3>3. MaxAttempts * (repairs'[e] + 1) = b + MaxAttempts
      BY <1>0, <3>1
    <3>4. Cardinality(Above(u)) \in Nat
      BY AboveFinite
    <3> HIDE DEF u, b
    <3>5. QED
      BY <1>0, <2>1, <3>1, <3>2, <3>3, <3>4
  <2>3. CASE e \notin StuckLeases
    <3>1. repairs'[e] = repairs[e] /\ ClaimsAhead(e)' = ClaimsAhead(e)
      BY <1>8, <2>3 DEF RepairStuckLeases, ClaimsAhead
    <3>2. QED
      BY <1>0, <2>1, <3>1
  <2>4. QED
    BY <2>2, <2>3
<1>9. CASE UNCHANGED vars
    BY <1>0, <1>9 DEF vars, rowVars, pubVars, logVars, Counted, ClaimsAhead, Above
<1>10. QED
    BY <1>1, <1>2, <1>3, <1>4, <1>5, <1>6, <1>7, <1>8, <1>9 DEF Next, Publish

\* Each step of a publisher, of the scan and of a unit of work keeps the
\* invariant.
LEMMA Inductive == IInv /\ [Next]_vars => IInv'
BY RowsStep, CountsStep, BudgetStep DEF IInv

\* The invariant holds throughout.
LEMMA Invariance == Spec => []IInv
BY InitIInv, Inductive, PTL DEF Spec

\* Rows and publishers stay in their domains; only pending rows are due and only
\* leased rows overdue.
THEOREM OutboxTypeCorrect == Spec => []TypeOK
<1>1. IInv => TypeOK
    BY DEF IInv, RowsRemembered
<1>2. QED
    BY <1>1, Invariance, PTL

\* _record_delivery_success marks no row the sink has not received.
THEOREM AtLeastOnce == Spec => []PublishedWasDelivered
<1>1. IInv => PublishedWasDelivered
    BY DEF IInv, RowsRemembered
<1>2. QED
    BY <1>1, Invariance, PTL

\* _record_delivery_failure quarantines only after max_attempts real failures.
THEOREM NoEarlyQuarantine == Spec => []QuarantineIsEarned
<1>1. IInv => QuarantineIsEarned
    BY DEF IInv, RowsRemembered
<1>2. QED
    BY <1>1, Invariance, PTL

\* A poison event fails at most max_attempts times, and as often again for each
\* repair of its lease.
THEOREM PoisonIsBounded == Spec => []DeliveriesBounded
<1>1. IInv => DeliveriesBounded
  <2> SUFFICES ASSUME IInv, NEW e \in Events
               PROVE  failed[e] <= MaxAttempts * (repairs[e] + 1)
    BY DEF DeliveriesBounded
  <2>1. failed[e] + Cardinality(Above(Counted(e))) + ClaimsAhead(e)
            <= MaxAttempts * (repairs[e] + 1)
    BY DEF IInv, FailuresBudgeted
  <2>2. /\ failed[e] \in Nat /\ repairs[e] \in Nat /\ ClaimsAhead(e) \in Nat
        /\ MaxAttempts * (repairs[e] + 1) \in Nat
    BY DEF IInv, RowsRemembered, TypeOK, CountsEnd, ClaimsAhead
  <2>3. Cardinality(Above(Counted(e))) \in Nat
    BY CountedType, AboveFinite DEF IInv
  <2>4. QED
    BY <2>1, <2>2, <2>3
<1>2. QED
    BY <1>1, Invariance, PTL

\* A row that is published or quarantined keeps its status and its count.
LEMMA SettledStep ==
    ASSUME IInv, [Next]_vars, NEW e \in Events, status[e] \in Settled
    PROVE  status'[e] = status[e] /\ attempts'[e] = attempts[e]
<1> USE DEF IInv, RowsRemembered, TypeOK, Statuses, Settled
<1>1. ASSUME NEW d \in Events, InsertOutbox(d) \/ BecomesDue(d) \/ LeaseGrowsOld(d)
      PROVE  status'[e] = status[e] /\ attempts'[e] = attempts[e]
    BY <1>1 DEF InsertOutbox, BecomesDue, LeaseGrowsOld
<1>2. ASSUME NEW p \in Publishers, ClaimBatch(p)
      PROVE  status'[e] = status[e] /\ attempts'[e] = attempts[e]
    BY <1>2 DEF ClaimBatch
<1>3. ASSUME NEW p \in Publishers, NEW d \in Events,
             DeliverySucceeds(p, d) \/ DeliveryRaises(p, d)
      PROVE  status'[e] = status[e] /\ attempts'[e] = attempts[e]
    BY <1>3 DEF DeliverySucceeds, DeliveryRaises, rowVars
<1>4. ASSUME NEW p \in Publishers, RecordSuccess(p) \/ RecordFailure(p) \/ Abandon(p)
      PROVE  status'[e] = status[e] /\ attempts'[e] = attempts[e]
    BY <1>4 DEF RecordSuccess, RecordFailure, Abandon, StillLeased, rowVars
<1>5. CASE RepairStuckLeases
    BY <1>5 DEF RepairStuckLeases, StuckLeases
<1>6. CASE UNCHANGED vars
    BY <1>6 DEF vars, rowVars
<1>7. QED
    BY <1>1, <1>2, <1>3, <1>4, <1>5, <1>6 DEF Next, Publish

\* No late result, repair or claim touches a settled row.
THEOREM SettledForGood == Spec => SettledIsFinal
<1>1. IInv /\ [Next]_vars =>
        [\A e \in Events : status[e] \in Settled =>
            status'[e] = status[e] /\ attempts'[e] = attempts[e]]_vars
    BY SettledStep
<1>2. QED
    BY <1>1, Invariance, PTL DEF Spec, SettledIsFinal

-----------------------------------------------------------------------------
(* The rows of the assignments, seen as reservations. *)

\* A sequence of rows maps to a sequence of reservations, row by row.
LEMMA ReservationsType ==
    ASSUME NEW s \in Seq(AssignmentRows)
    PROVE  /\ Reservations(s) \in Seq({Reservation(a) : a \in AssignmentRows})
           /\ Len(Reservations(s)) = Len(s) /\ DOMAIN Reservations(s) = 1..Len(s)
           /\ \A i \in 1..Len(s) : Reservations(s)[i] = Reservation(s[i])
BY DEF Reservations

\* _publish_offer inserts a row: the aggregate gains a reservation at the end.
LEMMA ReservationAppended ==
    ASSUME NEW s \in Seq(AssignmentRows), NEW a \in AssignmentRows
    PROVE  Reservations(Append(s, a)) = Append(Reservations(s), Reservation(a))
<1> DEFINE R == {Reservation(b) : b \in AssignmentRows}
           l == Reservations(Append(s, a))
           r == Append(Reservations(s), Reservation(a))
<1>1. /\ Append(s, a) \in Seq(AssignmentRows) /\ Len(Append(s, a)) = Len(s) + 1
      /\ Append(s, a)[Len(s) + 1] = a /\ \A i \in 1..Len(s) : Append(s, a)[i] = s[i]
    OBVIOUS
<1>2. /\ l \in Seq(R) /\ Len(l) = Len(s) + 1
      /\ \A i \in 1..(Len(s) + 1) : l[i] = Reservation(Append(s, a)[i])
    BY <1>1, ReservationsType
<1>3. Reservations(s) \in Seq(R) /\ Len(Reservations(s)) = Len(s)
      /\ \A i \in 1..Len(s) : Reservations(s)[i] = Reservation(s[i])
    BY ReservationsType
<1>4. Reservation(a) \in R
    OBVIOUS
<1> HIDE DEF R, l
<1>5. r \in Seq(R) /\ Len(r) = Len(s) + 1 /\ r[Len(s) + 1] = Reservation(a)
      /\ \A i \in 1..Len(s) : r[i] = Reservation(s[i])
    BY <1>3, <1>4
<1> HIDE DEF r
<1>6. \A i \in 1..(Len(s) + 1) : l[i] = r[i]
    BY <1>1, <1>2, <1>5
<1>7. QED
    BY <1>2, <1>5, <1>6 DEF l, r

\* An update of one row is a replacement of one reservation.
LEMMA ReservationReplaced ==
    ASSUME NEW s \in Seq(AssignmentRows), NEW i \in 1..Len(s), NEW a \in AssignmentRows
    PROVE  Reservations([s EXCEPT ![i] = a]) = [Reservations(s) EXCEPT ![i] = Reservation(a)]
<1> DEFINE t == [s EXCEPT ![i] = a]
<1>1. /\ t \in Seq(AssignmentRows) /\ Len(t) = Len(s) /\ t[i] = a
      /\ \A j \in 1..Len(s) : j # i => t[j] = s[j]
    OBVIOUS
<1> HIDE DEF t
<1>2. Reservations(t) = [j \in 1..Len(s) |-> Reservation(t[j])]
    BY <1>1 DEF Reservations
<1>3. \A j \in 1..Len(s) : Reservation(t[j]) = IF j = i THEN Reservation(a) ELSE Reservation(s[j])
    BY <1>1
<1>4. QED
    BY <1>2, <1>3 DEF t, Reservations

\* _publish_commit_start inserts the first attempt row: the first execution.
LEMMA FirstExecution ==
    ASSUME NEW a \in AttemptRows
    PROVE  /\ Executions(<<>>) = <<>>
           /\ Executions(Append(<<>>, a)) = Append(<<>>, Execution(a))
BY DEF Executions

\* The active reservation is the last row.
LEMMA ActiveIsLast ==
    ASSUME NEW v, RowsOK(v)
    PROVE  /\ v.run \in RunRows /\ v.asg \in Seq(AssignmentRows) /\ v.att \in Seq(AttemptRows)
           /\ Active(v) = IF v.run.phase = "assigned" THEN Len(v.asg) ELSE 0
           /\ Active(v) # 0 => /\ v.run.phase = "assigned" /\ v.att = <<>>
                               /\ Active(v) \in 1..Len(v.asg)
                               /\ v.asg[Active(v)] \in AssignmentRows
                               /\ v.asg[Active(v)].state \in Open
                               /\ \A i \in 1..Len(v.asg) : i # Active(v) => v.asg[i].state \notin Open
<1>1. v.run \in RunRows /\ v.asg \in Seq(AssignmentRows) /\ v.att \in Seq(AttemptRows)
    BY DEF RowsOK, Rows
<1>2. Len(v.asg) \in Nat /\ DOMAIN v.asg = 1..Len(v.asg)
    BY <1>1
<1>3. CASE v.run.phase # "assigned"
    BY <1>1, <1>3 DEF Active
<1>4. CASE v.run.phase = "assigned"
  <2>1. OpenRows(v) = {Len(v.asg)}
    BY <1>4 DEF RowsOK
  <2>2. Active(v) = Len(v.asg)
    BY <1>2, <1>4, <2>1 DEF Active
  <2>3. Len(v.asg) \in 1..Len(v.asg) /\ v.asg[Len(v.asg)].state \in Open
    BY <1>2, <2>1 DEF OpenRows
  <2>4. v.asg[Len(v.asg)] \in AssignmentRows
    BY <1>1, <2>3
  <2>5. \A i \in 1..Len(v.asg) : i # Len(v.asg) => v.asg[i].state \notin Open
    BY <1>2, <2>1 DEF OpenRows
  <2>6. v.att = <<>>
    BY <1>4 DEF RowsOK
  <2>7. QED
    BY <1>1, <1>4, <2>2, <2>3, <2>4, <2>5, <2>6
<1>5. QED
    BY <1>3, <1>4

\* The update of the active row, seen as rows and as reservations.
LEMMA ActiveUpdated ==
    ASSUME NEW v, RowsOK(v), Active(v) # 0, NEW a \in AssignmentRows
    PROVE  /\ Updated(v, a) \in Seq(AssignmentRows) /\ Len(Updated(v, a)) = Len(v.asg)
           /\ Updated(v, a)[Len(v.asg)] = a /\ Len(v.asg) \in 1..Len(v.asg)
           /\ \A i \in 1..Len(v.asg) : i # Len(v.asg) =>
                 Updated(v, a)[i] = v.asg[i] /\ v.asg[i].state \notin Open
           /\ Reservations(Updated(v, a)) =
                 [Reservations(v.asg) EXCEPT ![Len(v.asg)] = Reservation(a)]
<1>1. /\ v.asg \in Seq(AssignmentRows) /\ Active(v) = Len(v.asg) /\ Len(v.asg) \in 1..Len(v.asg)
      /\ \A i \in 1..Len(v.asg) : i # Len(v.asg) => v.asg[i].state \notin Open
    BY ActiveIsLast
<1>2. Updated(v, a) = [v.asg EXCEPT ![Len(v.asg)] = a]
    BY <1>1 DEF Updated
<1> DEFINE s == v.asg
<1>4. s \in Seq(AssignmentRows) /\ Len(s) \in 1..Len(s) /\ Updated(v, a) = [s EXCEPT ![Len(s)] = a]
    BY <1>1, <1>2
<1> HIDE DEF s
<1>3. Reservations([s EXCEPT ![Len(s)] = a]) = [Reservations(s) EXCEPT ![Len(s)] = Reservation(a)]
    BY <1>4, ReservationReplaced
<1>5. /\ Updated(v, a) \in Seq(AssignmentRows) /\ Len(Updated(v, a)) = Len(s)
      /\ Updated(v, a)[Len(s)] = a
      /\ \A i \in 1..Len(s) : i # Len(s) => Updated(v, a)[i] = s[i]
    BY <1>4
<1>6. QED
    BY <1>1, <1>3, <1>4, <1>5 DEF s

\* The next versions of a row, seen as reservations.
LEMMA NextVersions ==
    ASSUME NEW a \in AssignmentRows, NEW t \in Nat
    PROVE  /\ ClaimedRow(a, t) \in AssignmentRows /\ ClaimedRow(a, t).state = "claimed"
           /\ Reservation(ClaimedRow(a, t)) =
                 [Reservation(a) EXCEPT !.state = "claimed", !.claimed = t]
           /\ CommittedRow(a, t) \in AssignmentRows /\ CommittedRow(a, t).state = "committed"
           /\ Reservation(CommittedRow(a, t)) =
                 [Reservation(a) EXCEPT !.state = "committed", !.committed = t]
<1>1. PICK n \in Nat : n = a.version + 1
    BY DEF AssignmentRows
<1>2. /\ ClaimedRow(a, t) = [a EXCEPT !.state = "claimed", !.claimed = t, !.version = n]
      /\ CommittedRow(a, t) = [a EXCEPT !.state = "committed", !.committed = t, !.version = n]
    BY <1>1 DEF ClaimedRow, CommittedRow
<1>4. /\ ClaimedRow(a, t) \in AssignmentRows /\ ClaimedRow(a, t).state = "claimed"
      /\ CommittedRow(a, t) \in AssignmentRows /\ CommittedRow(a, t).state = "committed"
    BY <1>2 DEF AssignmentRows, AssignmentStates, Open
<1>5. Reservation(ClaimedRow(a, t)) = [Reservation(a) EXCEPT !.state = "claimed", !.claimed = t]
  <2>1. PICK b : b = ClaimedRow(a, t)
    OBVIOUS
  <2>2. /\ b.state = "claimed" /\ b.claimed = t
        /\ b.worker = a.worker /\ b.offered = a.offered /\ b.expires = a.expires
        /\ b.committed = a.committed /\ b.closed = a.closed
    BY <1>2, <2>1 DEF AssignmentRows
  <2>3. Reservation(b) = [Reservation(a) EXCEPT !.state = "claimed", !.claimed = t]
    <3>1. PICK r : r = [Reservation(a) EXCEPT !.state = "claimed"]
      OBVIOUS
    <3>2. r = [state |-> "claimed", worker |-> a.worker, retry |-> 0, offered |-> a.offered,
               expires |-> a.expires, claimed |-> a.claimed, committed |-> a.committed,
               closed |-> a.closed]
      BY <3>1 DEF Reservation
    <3>3. Reservation(b) = [r EXCEPT !.claimed = t]
      BY <2>2, <3>2 DEF Reservation
    <3>4. QED
      BY <3>1, <3>3
  <2>4. QED
    BY <2>1, <2>3
<1>6. Reservation(CommittedRow(a, t)) =
            [Reservation(a) EXCEPT !.state = "committed", !.committed = t]
  <2>1. PICK b : b = CommittedRow(a, t)
    OBVIOUS
  <2>2. /\ b.state = "committed" /\ b.committed = t
        /\ b.worker = a.worker /\ b.offered = a.offered /\ b.expires = a.expires
        /\ b.claimed = a.claimed /\ b.closed = a.closed
    BY <1>2, <2>1 DEF AssignmentRows
  <2>3. Reservation(b) = [Reservation(a) EXCEPT !.state = "committed", !.committed = t]
    <3>1. PICK r : r = [Reservation(a) EXCEPT !.state = "committed"]
      OBVIOUS
    <3>2. r = [state |-> "committed", worker |-> a.worker, retry |-> 0, offered |-> a.offered,
               expires |-> a.expires, claimed |-> a.claimed, committed |-> a.committed,
               closed |-> a.closed]
      BY <3>1 DEF Reservation
    <3>3. Reservation(b) = [r EXCEPT !.committed = t]
      BY <2>2, <3>2 DEF Reservation
    <3>4. QED
      BY <3>1, <3>3
  <2>4. QED
    BY <2>1, <2>3
<1>7. QED
    BY <1>4, <1>5, <1>6

\* _publish_close as the aggregate sees it: the state and the time of closing.
LEMMA ClosedSeen ==
    ASSUME NEW a \in AssignmentRows, NEW t \in Nat, NEW kind
    PROVE  Reservation(ClosedRow(a, t, kind)) = [Reservation(a) EXCEPT !.state = kind, !.closed = t]
<1>0. PICK n \in Nat : n = a.version + 1
    BY DEF AssignmentRows
<1>1. ClosedRow(a, t, kind) = [a EXCEPT !.state = kind, !.closed = t, !.version = n]
    BY <1>0 DEF ClosedRow
<1>2. PICK b : b = ClosedRow(a, t, kind)
    OBVIOUS
<1>3. /\ b.state = kind /\ b.closed = t
      /\ b.worker = a.worker /\ b.offered = a.offered /\ b.expires = a.expires
      /\ b.claimed = a.claimed /\ b.committed = a.committed
    BY <1>1, <1>2 DEF AssignmentRows
<1>4. PICK r : r = [Reservation(a) EXCEPT !.state = kind]
    OBVIOUS
<1>5. r = [state |-> kind, worker |-> a.worker, retry |-> 0, offered |-> a.offered,
           expires |-> a.expires, claimed |-> a.claimed, committed |-> a.committed,
           closed |-> a.closed]
    BY <1>4 DEF Reservation
<1>6. Reservation(b) = [r EXCEPT !.closed = t]
    BY <1>3, <1>5 DEF Reservation
<1>7. QED
    BY <1>2, <1>4, <1>6

\* A closed row is a row of the table, in the state it was closed with.
LEMMA ClosedVersion ==
    ASSUME NEW a \in AssignmentRows, NEW t \in Nat,
           NEW kind \in {"expired_prestart", "released_prestart"}
    PROVE  ClosedRow(a, t, kind) \in AssignmentRows /\ ClosedRow(a, t, kind).state = kind
<1>1. PICK n \in Nat : n = a.version + 1
    BY DEF AssignmentRows
<1>2. ClosedRow(a, t, kind) = [a EXCEPT !.state = kind, !.closed = t, !.version = n]
    BY <1>1 DEF ClosedRow
<1>3. QED
    BY <1>2 DEF AssignmentRows, AssignmentStates

\* A command that updates the active row closes it when the Run leaves "assigned".
LEMMA UpdatedRows ==
    ASSUME NEW v, RowsOK(v), Active(v) # 0, NEW a \in AssignmentRows, NEW r \in RunRows,
           NEW l \in Seq(AttemptRows), (r.phase = "assigned") <=> (a.state \in Open),
           r.phase # "running" => l = <<>>
    PROVE  RowsOK([run |-> r, asg |-> Updated(v, a), att |-> l])
<1> DEFINE d == [run |-> r, asg |-> Updated(v, a), att |-> l]
<1>1. d.run = r /\ d.asg = Updated(v, a) /\ d.att = l
    OBVIOUS
<1>2. /\ d.asg \in Seq(AssignmentRows) /\ Len(d.asg) = Len(v.asg) /\ d.asg[Len(v.asg)] = a
      /\ Len(v.asg) \in 1..Len(v.asg) /\ DOMAIN d.asg = 1..Len(v.asg)
      /\ \A i \in 1..Len(v.asg) : i # Len(v.asg) => d.asg[i].state \notin Open
    BY <1>1, ActiveUpdated
<1>3. d \in Rows
    BY <1>1, <1>2 DEF Rows
<1> HIDE DEF d
<1>4. OpenRows(d) = IF r.phase = "assigned" THEN {Len(v.asg)} ELSE {}
    BY <1>2 DEF OpenRows
<1>5. QED
    BY <1>1, <1>2, <1>3, <1>4 DEF RowsOK, d

\* The rows a command makes are rows with at most one open reservation.
LEMMA CommandRows ==
    ASSUME NEW v, RowsOK(v), NEW t \in Nat, NEW new, OneCommand(v, t, new)
    PROVE  RowsOK(Published(new))
<1> DEFINE d == Published(new)
<1>0. /\ v.run \in RunRows /\ v.asg \in Seq(AssignmentRows) /\ v.att \in Seq(AttemptRows)
      /\ Len(v.asg) \in Nat
    BY ActiveIsLast
<1>1. PICK n \in Nat : n = v.run.version + 1
    BY <1>0 DEF RunRows
<1>2. ASSUME NEW w \in Workers, NEW e \in 1..(MaxTime + 1), MayOffer(v, t, e),
             new = AfterOffer(v, t, w, e)
      PROVE  RowsOK(d)
  <2>1. OfferedRow(w, e, t) \in AssignmentRows /\ OfferedRow(w, e, t).state = "offered"
    BY DEF OfferedRow, AssignmentRows, AssignmentStates, Open
  <2>2. /\ d.run = [v.run EXCEPT !.phase = "assigned", !.version = n]
        /\ d.asg = Append(v.asg, OfferedRow(w, e, t)) /\ d.att = v.att
        /\ d = [run |-> d.run, asg |-> d.asg, att |-> d.att]
    BY <1>0, <1>1, <1>2 DEF Published, AfterOffer, RunRows
  <2>3. d.run \in RunRows /\ d.run.phase = "assigned"
    BY <1>0, <2>2 DEF RunRows, Loadable
  <2>4. /\ d.asg \in Seq(AssignmentRows) /\ Len(d.asg) = Len(v.asg) + 1
        /\ d.asg[Len(d.asg)].state = "offered" /\ DOMAIN d.asg = 1..Len(d.asg)
        /\ \A i \in 1..Len(v.asg) : d.asg[i] = v.asg[i]
    BY <1>0, <2>1, <2>2
  <2>5. v.att = <<>> /\ \A i \in 1..Len(v.asg) : v.asg[i].state \notin Open
    BY <1>0, <1>2 DEF MayOffer, RowsOK, OpenRows
  <2> HIDE DEF d
  <2>6. OpenRows(d) = {Len(d.asg)}
    BY <1>0, <2>4, <2>5 DEF OpenRows, Open
  <2>7. d \in Rows
    BY <1>0, <2>2, <2>3, <2>4 DEF Rows
  <2>8. QED
    BY <2>2, <2>3, <2>5, <2>6, <2>7 DEF RowsOK
<1>3. ASSUME Active(v) # 0
      PROVE  /\ v.asg[Active(v)] \in AssignmentRows /\ v.asg[Active(v)].state \in Open
             /\ v.att = <<>> /\ v.run.phase = "assigned"
    BY <1>3, ActiveIsLast
<1>4. ASSUME Active(v) # 0, new = AfterClaim(v, t)
      PROVE  RowsOK(d)
  <2> DEFINE a == ClaimedRow(v.asg[Active(v)], t)
             r == [v.run EXCEPT !.version = n]
  <2>1. a \in AssignmentRows /\ a.state \in Open
    BY <1>3, <1>4, NextVersions DEF Open
  <2>2. r \in RunRows /\ r.phase = "assigned"
    BY <1>0, <1>3, <1>4 DEF RunRows
  <2>3. d = [run |-> r, asg |-> Updated(v, a), att |-> v.att]
    BY <1>1, <1>4 DEF Published, AfterClaim
  <2> HIDE DEF a, r, d
  <2>4. QED
    BY <1>0, <1>3, <1>4, <2>1, <2>2, <2>3, UpdatedRows
<1>5. ASSUME NEW w \in Workers, Active(v) # 0, new = AfterCommitStart(v, t, w)
      PROVE  RowsOK(d)
  <2>0. PICK f \in Nat : f = v.run.fence + 1
    BY <1>0 DEF RunRows
  <2> DEFINE a == CommittedRow(v.asg[Active(v)], t)
             r == [v.run EXCEPT !.phase = "running", !.fence = f, !.version = n]
             x == AttemptRow(v, w)
             l == Append(v.att, x)
  <2>1. a \in AssignmentRows /\ a.state \notin Open
    BY <1>3, <1>5, NextVersions DEF Open
  <2>2. r \in RunRows /\ r.phase = "running"
    BY <1>0 DEF RunRows, Loadable
  <2>3. x \in AttemptRows
    BY <1>5, <2>0, ActiveIsLast DEF AttemptRow, AttemptRows
  <2>4. l \in Seq(AttemptRows)
    BY <1>0, <2>3
  <2>5. d = [run |-> r, asg |-> Updated(v, a), att |-> l]
    BY <1>0, <1>1, <1>5, <2>0 DEF Published, AfterCommitStart, RunRows
  <2> HIDE DEF a, r, d, l, x
  <2>6. QED
    BY <1>5, <2>1, <2>2, <2>4, <2>5, UpdatedRows
<1>6. ASSUME NEW kind \in {"expired_prestart", "released_prestart"}, Active(v) # 0,
             new = AfterClose(v, t, kind)
      PROVE  RowsOK(d)
  <2> DEFINE a == ClosedRow(v.asg[Active(v)], t, kind)
             r == [v.run EXCEPT !.phase = "queued", !.version = n]
  <2>1. a \in AssignmentRows /\ a.state \notin Open
    BY <1>3, <1>6, ClosedVersion DEF Open
  <2>2. r \in RunRows /\ r.phase = "queued"
    BY <1>0 DEF RunRows, Loadable
  <2>3. d = [run |-> r, asg |-> Updated(v, a), att |-> v.att]
    BY <1>0, <1>1, <1>6 DEF Published, AfterClose, RunRows
  <2> HIDE DEF a, r, d
  <2>4. QED
    BY <1>0, <1>3, <1>6, <2>1, <2>2, <2>3, UpdatedRows
<1>7. QED
    BY <1>2, <1>4, <1>5, <1>6
       DEF OneCommand, MayClaim, MayCommitStart, MayRelease, MayExpire

\* A published command is a command of the aggregate, at the time of the transaction.
LEMMA CommandImplements ==
    ASSUME RowsOK(db), NEW t \in Nat, NEW new, OneCommand(db, t, new),
           Clock = t, Clock' = t, db' = Published(new)
    PROVE  Aggregate!ReservationNext
<1>0. /\ db.run \in RunRows /\ db.asg \in Seq(AssignmentRows) /\ Len(db.asg) \in Nat
      /\ Len(Reservations(db.asg)) = Len(db.asg) /\ DOMAIN Reservations(db.asg) = 1..Len(db.asg)
  <2>1. db.run \in RunRows /\ db.asg \in Seq(AssignmentRows)
    BY ActiveIsLast
  <2>2. Len(db.asg) \in Nat
    BY <2>1
  <2>3. QED
    BY <2>1, <2>2, ReservationsType
<1>1. /\ db'.run = [new.run EXCEPT !.version = new.run.version + 1]
      /\ db'.asg = new.asg /\ db'.att = new.att
    BY DEF Published
<1>2. ASSUME NEW w \in Workers, NEW e \in 1..(MaxTime + 1), MayOffer(db, t, e),
             new = AfterOffer(db, t, w, e)
      PROVE  Aggregate!Offer(w, e)
  <2>1. /\ db'.run.phase = "assigned" /\ db'.run.fence = db.run.fence
        /\ db'.asg = Append(db.asg, OfferedRow(w, e, t)) /\ db'.att = db.att
    BY <1>0, <1>1, <1>2 DEF AfterOffer, RunRows
  <2>2. OfferedRow(w, e, t) \in AssignmentRows
    BY DEF OfferedRow, AssignmentRows, AssignmentStates, Open
  <2>3. Reservation(OfferedRow(w, e, t)) = Aggregate!Offered(w, e)
    BY DEF OfferedRow, Reservation, Aggregate!Offered
  <2>4. Reservations(db.asg)' = Append(Reservations(db.asg), Aggregate!Offered(w, e))
    BY <1>0, <2>1, <2>2, <2>3, ReservationAppended DEF Reservations
  <2>5. CurrentOf(db) = 0 /\ CurrentOf(db)' = Len(Reservations(db.asg)) + 1
    BY <1>0, <1>2, <2>1, <2>2 DEF CurrentOf, MayOffer
  <2>6. Executions(db.att)' = Executions(db.att)
    BY <2>1 DEF Executions
  <2>7. QED
    BY <1>0, <1>2, <2>1, <2>4, <2>5, <2>6 DEF MayOffer, Aggregate!Offer, Aggregate!WindowAccepted
<1> DEFINE i == Len(db.asg)
<1>3. ASSUME Active(db) # 0
      PROVE  /\ Active(db) = i /\ i \in 1..Len(db.asg) /\ db.asg[i] \in AssignmentRows
             /\ db.asg[i].state \in Open /\ db.run.phase = "assigned" /\ db.att = <<>>
             /\ CurrentOf(db) = i /\ i \in DOMAIN Reservations(db.asg)
             /\ Reservations(db.asg)[i] = Reservation(db.asg[i])
    BY <1>0, <1>3, ActiveIsLast, ReservationsType DEF CurrentOf
<1>4. ASSUME NEW a \in AssignmentRows, Active(db) # 0, new.asg = Updated(db, a)
      PROVE  /\ Reservations(db.asg)' = [Reservations(db.asg) EXCEPT ![i] = Reservation(a)]
             /\ Len(db'.asg) = i
  <2>1. /\ Len(Updated(db, a)) = Len(db.asg)
        /\ Reservations(Updated(db, a)) = [Reservations(db.asg) EXCEPT ![Len(db.asg)] = Reservation(a)]
    BY <1>4, ActiveUpdated
  <2>2. Reservations(db.asg)' = Reservations(db'.asg) /\ db'.asg = Updated(db, a)
    BY <1>1, <1>4 DEF Reservations
  <2>3. QED
    BY <2>1, <2>2
<1>5. ASSUME NEW w \in Workers, MayClaim(db, t, w), new = AfterClaim(db, t)
      PROVE  Aggregate!Claim(i, w)
  <2>0. Active(db) # 0
    BY <1>5 DEF MayClaim
  <2> DEFINE a == ClaimedRow(db.asg[i], t)
  <2>1. a \in AssignmentRows
        /\ Reservation(a) = [Reservation(db.asg[i]) EXCEPT !.state = "claimed", !.claimed = t]
    BY <1>3, <2>0, NextVersions
  <2>2. new.asg = Updated(db, a) /\ new.run = db.run /\ new.att = db.att
    BY <1>3, <1>5, <2>0 DEF AfterClaim
  <2> HIDE DEF a
  <2>3. Reservations(db.asg)' = [Reservations(db.asg) EXCEPT ![i] = Reservation(a)]
        /\ Len(db'.asg) = i
    BY <1>4, <2>0, <2>1, <2>2
  <2>4. Reservation(a) = Aggregate!Claimed(Reservations(db.asg)[i])
    BY <1>3, <2>0, <2>1 DEF Aggregate!Claimed
  <2>5. db'.run.phase = db.run.phase /\ db'.run.fence = db.run.fence
    BY <1>0, <1>1, <2>2 DEF RunRows
  <2>6. CurrentOf(db)' = CurrentOf(db) /\ Executions(db.att)' = Executions(db.att)
    BY <1>1, <2>2, <2>3, <2>5 DEF CurrentOf, Executions
  <2>7. /\ Reservation(db.asg[i]).worker = w /\ Reservation(db.asg[i]).state = "offered"
        /\ t < Reservation(db.asg[i]).expires
    BY <1>3, <1>5, <2>0 DEF MayClaim, Reservation
  <2>8. QED
    BY <1>3, <2>0, <2>3, <2>4, <2>5, <2>6, <2>7 DEF Aggregate!Claim, Aggregate!InWindow
<1>6. ASSUME NEW w \in Workers, MayCommitStart(db, t, w), new = AfterCommitStart(db, t, w)
      PROVE  Aggregate!CommitStart(i, w)
  <2>0. Active(db) # 0
    BY <1>6 DEF MayCommitStart
  <2> DEFINE a == CommittedRow(db.asg[i], t)
             x == AttemptRow(db, w)
  <2>1. a \in AssignmentRows
        /\ Reservation(a) = [Reservation(db.asg[i]) EXCEPT !.state = "committed", !.committed = t]
    BY <1>3, <2>0, NextVersions
  <2>2. new.asg = Updated(db, a) /\ new.att = Append(<<>>, x)
        /\ new.run = [db.run EXCEPT !.phase = "running", !.fence = db.run.fence + 1]
    BY <1>3, <1>6, <2>0 DEF AfterCommitStart
  <2>3. x \in AttemptRows /\ Execution(x) = Aggregate!NewAttempt(i, w)
    <3>1. db.run.fence \in Nat
      BY <1>0 DEF RunRows
    <3>2. x \in AttemptRows
      BY <1>3, <2>0, <3>1 DEF AttemptRow, AttemptRows
    <3>3. Execution(x) = Aggregate!NewAttempt(i, w)
      BY <1>3, <2>0 DEF AttemptRow, Execution, Aggregate!NewAttempt
    <3>4. QED
      BY <3>2, <3>3
  <2> HIDE DEF a, x
  <2>4. Reservations(db.asg)' = [Reservations(db.asg) EXCEPT ![i] = Reservation(a)]
        /\ Len(db'.asg) = i
    BY <1>4, <2>0, <2>1, <2>2
  <2>5. Reservation(a) = Aggregate!Committed(Reservations(db.asg)[i])
    BY <1>3, <2>0, <2>1 DEF Aggregate!Committed
  <2>6. db'.run.phase = "running" /\ db'.run.fence = db.run.fence + 1
    BY <1>0, <1>1, <2>2 DEF RunRows
  <2>7. CurrentOf(db)' = CurrentOf(db)
    BY <1>3, <2>0, <2>4, <2>6 DEF CurrentOf
  <2>8. Executions(db.att) = <<>> /\ Executions(db.att)' = Append(<<>>, Aggregate!NewAttempt(i, w))
    <3>1. Executions(db'.att) = Append(<<>>, Execution(x))
      BY <1>1, <2>2, <2>3, FirstExecution
    <3>2. Executions(db.att)' = Executions(db'.att)
      BY DEF Executions
    <3>3. Executions(db.att) = <<>>
      BY <1>3, <2>0, <2>3, FirstExecution
    <3>4. QED
      BY <2>3, <3>1, <3>2, <3>3
  <2>9. /\ Reservation(db.asg[i]).worker = w /\ Reservation(db.asg[i]).state = "claimed"
        /\ t < Reservation(db.asg[i]).expires /\ Reservation(db.asg[i]).retry = 0
    BY <1>3, <1>6, <2>0 DEF MayCommitStart, Reservation
  <2>10. Len(<<>>) < 1
    OBVIOUS
  <2>11. QED
    BY <1>3, <2>0, <2>4, <2>5, <2>6, <2>7, <2>8, <2>9, <2>10
       DEF Aggregate!CommitStart, Aggregate!InWindow, Aggregate!RetryAllowed
<1>7. ASSUME NEW kind \in {"expired_prestart", "released_prestart"}, Active(db) # 0,
             new = AfterClose(db, t, kind)
      PROVE  Aggregate!ClosePrecommit(i, kind)
  <2>0. PICK c \in AssignmentRows : c = db.asg[i]
    BY <1>3, <1>7
  <2> DEFINE a == ClosedRow(c, t, kind)
  <2>1. a \in AssignmentRows /\ Reservation(a) = [Reservation(c) EXCEPT !.state = kind, !.closed = t]
    <3>1. ClosedRow(c, t, kind) \in AssignmentRows
      BY ClosedVersion
    <3>2. Reservation(ClosedRow(c, t, kind)) = [Reservation(c) EXCEPT !.state = kind, !.closed = t]
      BY ClosedSeen
    <3>3. QED
      BY <3>1, <3>2
  <2>2. /\ new.asg = Updated(db, a) /\ new.att = db.att
        /\ new.run = [db.run EXCEPT !.phase = "queued"]
    BY <1>3, <1>7, <2>0 DEF AfterClose
  <2> HIDE DEF a
  <2>3. Reservations(db.asg)' = [Reservations(db.asg) EXCEPT ![i] = Reservation(a)]
    BY <1>4, <1>7, <2>1, <2>2
  <2>4. Reservation(a) = Aggregate!ClosedAs(Reservations(db.asg)[i], kind)
    BY <1>3, <1>7, <2>0, <2>1 DEF Aggregate!ClosedAs
  <2>5. db'.run.phase = "queued" /\ db'.run.fence = db.run.fence
    BY <1>0, <1>1, <2>2 DEF RunRows
  <2>6. CurrentOf(db)' = 0 /\ Executions(db.att)' = Executions(db.att)
    BY <1>1, <2>2, <2>5 DEF CurrentOf, Executions
  <2>7. Reservation(db.asg[i]).state \in Open /\ Reservation(db.asg[i]).retry = 0
    BY <1>3, <1>7 DEF Reservation
  <2>8. QED
    BY <1>3, <1>7, <2>3, <2>4, <2>5, <2>6, <2>7
       DEF Aggregate!ClosePrecommit, Aggregate!ResumeState, Aggregate!Open, Open
<1>8. ASSUME NEW w \in Workers, MayRelease(db, t, w),
             new = AfterClose(db, t, "released_prestart")
      PROVE  Aggregate!ReleasePrecommit(i, w)
  <2>1. Active(db) # 0 /\ Aggregate!ClosePrecommit(i, "released_prestart")
    BY <1>7, <1>8 DEF MayRelease
  <2>2. Reservations(db.asg)[i].worker = w /\ t < Reservations(db.asg)[i].expires
    BY <1>3, <1>8, <2>1 DEF MayRelease, Reservation
  <2>3. QED
    BY <2>1, <2>2 DEF Aggregate!ReleasePrecommit, Aggregate!InWindow
<1>9. ASSUME MayExpire(db, t), new = AfterClose(db, t, "expired_prestart")
      PROVE  Aggregate!ExpirePrecommit(i)
  <2>1. Active(db) # 0 /\ Aggregate!ClosePrecommit(i, "expired_prestart")
    BY <1>7, <1>9 DEF MayExpire
  <2>2. t >= Reservations(db.asg)[i].expires
    BY <1>3, <1>9, <2>1 DEF MayExpire, Reservation
  <2>3. QED
    BY <2>1, <2>2 DEF Aggregate!ExpirePrecommit
<1>10. ASSUME Active(db) # 0 PROVE i \in DOMAIN Reservations(db.asg)
    BY <1>3, <1>10
<1>11. QED
    BY <1>2, <1>5, <1>6, <1>8, <1>9, <1>10
       DEF OneCommand, Aggregate!ReservationNext, MayClaim, MayCommitStart, MayRelease, MayExpire

-----------------------------------------------------------------------------
(* The invariant. *)

\* A planned Run without rows satisfies the invariant.
LEMMA StoreInitInv == StoreInit => StoreInv
<1> SUFFICES ASSUME StoreInit PROVE StoreInv
    OBVIOUS
<1>1. db.run \in RunRows /\ db.run.phase = "planned" /\ db.asg = <<>> /\ db.att = <<>>
      /\ db = [run |-> db.run, asg |-> db.asg, att |-> db.att]
    BY DEF StoreInit, RunRows
<1>2. db \in Rows
  <2>1. <<>> \in Seq(AssignmentRows) /\ <<>> \in Seq(AttemptRows)
    OBVIOUS
  <2>2. QED
    BY <1>1, <2>1 DEF Rows
<1>3. OpenRows(db) = {}
    BY <1>1 DEF OpenRows
<1>4. RowsOK(db)
    BY <1>1, <1>2, <1>3 DEF RowsOK
<1>5. QED
    BY <1>4 DEF StoreInit, StoreInv

\* While the committed rows and the time stay, so does what is said of the open
\* transaction; another one takes its place.
LEMMA TransactionMoves ==
    ASSUME StoreInv, NEW s \in Sessions, tx[s] # None, NEW x, tx' = [tx EXCEPT ![s] = x],
           UNCHANGED <<db, lock, now>>, x.at = tx[s].at, TransactionOK(x)
    PROVE  StoreInv' /\ UNCHANGED Clock
<1>1. lock = s /\ s # None
    BY DEF StoreInv
<1>2. tx'[s] = x /\ \A r \in Sessions : r # s => tx'[r] = tx[r]
    BY DEF StoreInv
<1>3. tx' = [r \in Sessions |-> tx'[r]]
    BY DEF StoreInv
<1>4. TransactionOK(tx[lock])'
    BY <1>1, <1>2 DEF TransactionOK, OneCommand
<1>5. RowsOK(db)'
    BY DEF StoreInv, RowsOK, OpenRows
<1>6. QED
    BY <1>1, <1>2, <1>3, <1>4, <1>5 DEF StoreInv, Clock

\* What the aggregate sees of a step that leaves the rows and the clock: nothing.
LEMMA Unseen == UNCHANGED <<db, Clock>> => UNCHANGED Aggregate!vars
BY DEF Aggregate!vars, Reservations, Executions, CurrentOf

\* The rest of the invariant stays with the rows, the lock and the transactions.
LEMMA StoreStays ==
    ASSUME StoreInv, UNCHANGED <<db, lock, tx, now>>
    PROVE  StoreInv' /\ UNCHANGED Aggregate!vars
<1>1. UNCHANGED Clock
    BY DEF Clock
<1>2. RowsOK(db)'
    BY DEF StoreInv, RowsOK, OpenRows
<1>3. (lock # None => TransactionOK(tx[lock]))'
    BY DEF StoreInv, TransactionOK, OneCommand
<1>4. QED
    BY <1>1, <1>2, <1>3, Unseen DEF StoreInv

\* Time passes for the aggregate only between transactions.
LEMMA StoreTick ==
    ASSUME StoreInv, Tick
    PROVE  StoreInv' /\ [Aggregate!Next]_Aggregate!vars
<1>0. now \in Nat /\ now < MaxTime /\ now' = now + 1 /\ UNCHANGED <<db, lock, tx>>
    BY DEF StoreInv, Tick
<1>1. RowsOK(db)'
    BY <1>0 DEF StoreInv, RowsOK, OpenRows
<1>2. CASE lock = None
  <2>1. Clock = now /\ Clock' = now + 1
    BY <1>0, <1>2 DEF Clock
  <2>2. UNCHANGED <<db.run.phase, db.run.fence, Reservations(db.asg), CurrentOf(db),
                    Executions(db.att)>>
    BY <1>0 DEF Reservations, CurrentOf, Executions
  <2>3. Aggregate!Tick
    BY <1>0, <2>1, <2>2 DEF Aggregate!Tick
  <2>4. StoreInv'
    BY <1>0, <1>1, <1>2 DEF StoreInv
  <2>5. QED
    BY <2>3, <2>4 DEF Aggregate!Next
<1>3. CASE lock # None
  <2> DEFINE x == tx[lock]
  <2>1. TransactionOK(x) /\ now = x.at
    BY <1>3 DEF StoreInv, Tick
  <2>2. now' = x.at + 1 /\ x.at < MaxTime
    BY <1>0, <2>1
  <2>3. TransactionOK(tx[lock])'
    BY <1>0, <2>1, <2>2 DEF TransactionOK, OneCommand
  <2>4. StoreInv'
    BY <1>0, <1>1, <2>3 DEF StoreInv
  <2>5. UNCHANGED Clock
    BY <1>0, <1>3 DEF Clock
  <2>6. QED
    BY <1>0, <2>4, <2>5, Unseen
<1>4. QED
    BY <1>2, <1>3

\* The planner queues the Run.
LEMMA StoreEnqueue ==
    ASSUME StoreInv, Enqueue
    PROVE  StoreInv' /\ [Aggregate!Next]_Aggregate!vars
<1>0. /\ lock = None /\ db.run.phase = "planned" /\ UNCHANGED <<lock, tx, now>>
      /\ RowsOK(db) /\ db \in Rows /\ db.run \in RunRows
    BY DEF StoreInv, Enqueue, RowsOK, Rows
<1>1. PICK n \in Nat : n = db.run.version + 1
    BY <1>0 DEF RunRows
<1> DEFINE r == [db.run EXCEPT !.phase = "queued", !.version = n]
<1>2. r \in RunRows /\ r.phase = "queued" /\ r.fence = db.run.fence
    BY <1>0 DEF RunRows, Loadable
<1>3. db' = [db EXCEPT !.run = r]
    BY <1>1 DEF Enqueue
<1> HIDE DEF r
<1>4. db' \in Rows /\ db'.run = r /\ db'.asg = db.asg /\ db'.att = db.att
  <2>1. db' = [run |-> r, asg |-> db.asg, att |-> db.att]
    BY <1>0, <1>3 DEF Rows
  <2>2. db.asg \in Seq(AssignmentRows) /\ db.att \in Seq(AttemptRows)
    BY <1>0 DEF Rows
  <2>3. QED
    BY <1>2, <2>1, <2>2 DEF Rows
<1>5. RowsOK(db)'
    BY <1>0, <1>2, <1>4 DEF RowsOK, OpenRows
<1>6. StoreInv'
    BY <1>0, <1>5 DEF StoreInv
<1>7. Aggregate!Enqueue
    BY <1>0, <1>2, <1>4 DEF Aggregate!Enqueue, Reservations, Executions, CurrentOf, Clock
<1>8. QED
    BY <1>6, <1>7 DEF Aggregate!Next

\* A session loads the committed rows, at the time it has the lock.
LEMMA StoreLoad ==
    ASSUME StoreInv, NEW s \in Sessions, GetRunForUpdate(s)
    PROVE  StoreInv' /\ [Aggregate!Next]_Aggregate!vars
<1> DEFINE x == [step |-> "loaded", at |-> now, view |-> db, run |-> db.run, aborted |-> FALSE]
<1>0. /\ lock = None /\ lock' = s /\ s # None /\ tx' = [tx EXCEPT ![s] = x] /\ UNCHANGED <<db, now>>
      /\ now \in Nat
    BY DEF StoreInv, GetRunForUpdate
<1>1. TransactionOK(x) /\ x.at = now
    BY <1>0 DEF TransactionOK
<1> HIDE DEF x
<1>2. tx'[s] = x /\ tx' = [r \in Sessions |-> tx'[r]] /\ \A r \in Sessions : r # s => tx'[r] = None
    BY <1>0 DEF StoreInv
<1>3. TransactionOK(tx[lock])'
    BY <1>0, <1>1, <1>2 DEF TransactionOK, OneCommand
<1>4. RowsOK(db)'
    BY <1>0 DEF StoreInv, RowsOK, OpenRows
<1>5. StoreInv'
    BY <1>0, <1>2, <1>3, <1>4 DEF StoreInv
<1>6. UNCHANGED Clock
    BY <1>0, <1>1, <1>2 DEF Clock
<1>7. QED
    BY <1>0, <1>5, <1>6, Unseen

\* A publish stages what one command makes of the committed rows.
LEMMA StoreWrite ==
    ASSUME StoreInv, NEW s \in Sessions, tx[s] # None, NEW rows,
           OneCommand(tx[s].view, tx[s].at, rows), Write(s, rows),
           rows = [run |-> rows.run, asg |-> rows.asg, att |-> rows.att]
    PROVE  StoreInv' /\ [Aggregate!Next]_Aggregate!vars
<1> DEFINE x == [step |-> "written", at |-> tx[s].at,
                 view |-> [run |-> tx[s].view.run, asg |-> rows.asg, att |-> rows.att],
                 run |-> rows.run, aborted |-> tx[s].aborted]
<1>0. TransactionOK(tx[s]) /\ tx[s].step = "loaded" /\ tx' = [tx EXCEPT ![s] = x]
      /\ UNCHANGED <<db, lock, now>>
    BY DEF StoreInv, Write
<1>1. tx[s].view = db
    BY <1>0 DEF TransactionOK
<1>2. Staged(x) = rows /\ x.view.run = db.run /\ x.at = tx[s].at /\ x.step = "written"
    BY <1>1 DEF Staged
<1> HIDE DEF x
<1>3. TransactionOK(x)
    BY <1>0, <1>1, <1>2 DEF TransactionOK
<1>4. QED
    BY <1>0, <1>2, <1>3, TransactionMoves, Unseen

\* Each publish is one command.
LEMMA StorePublish ==
    ASSUME StoreInv, NEW s \in Sessions, PublishNext(s)
    PROVE  StoreInv' /\ [Aggregate!Next]_Aggregate!vars
<1> DEFINE v == tx[s].view
           t == tx[s].at
           Goal == StoreInv' /\ [Aggregate!Next]_Aggregate!vars
<1>0. tx[s] # None
    BY DEF PublishNext
<1>1. ASSUME NEW w \in Workers, NEW e \in 1..(MaxTime + 1), PublishOffer(s, w, e)
      PROVE  Goal
  <2>1. OneCommand(v, t, AfterOffer(v, t, w, e)) /\ Write(s, AfterOffer(v, t, w, e))
    BY <1>1 DEF PublishOffer, OneCommand
  <2>2. QED
    BY <1>0, <2>1, StoreWrite DEF AfterOffer
<1>2. ASSUME NEW w \in Workers, PublishClaim(s, w)
      PROVE  Goal
  <2>1. OneCommand(v, t, AfterClaim(v, t)) /\ Write(s, AfterClaim(v, t))
    BY <1>2 DEF PublishClaim, OneCommand
  <2>2. QED
    BY <1>0, <2>1, StoreWrite DEF AfterClaim
<1>3. ASSUME NEW w \in Workers, PublishCommitStart(s, w)
      PROVE  Goal
  <2>1. OneCommand(v, t, AfterCommitStart(v, t, w)) /\ Write(s, AfterCommitStart(v, t, w))
    BY <1>3 DEF PublishCommitStart, OneCommand
  <2>2. QED
    BY <1>0, <2>1, StoreWrite DEF AfterCommitStart
<1>4. ASSUME NEW w \in Workers, PublishRelease(s, w)
      PROVE  Goal
  <2>1. OneCommand(v, t, AfterClose(v, t, "released_prestart"))
        /\ Write(s, AfterClose(v, t, "released_prestart"))
    BY <1>4 DEF PublishRelease, OneCommand
  <2>2. QED
    BY <1>0, <2>1, StoreWrite DEF AfterClose
<1>5. ASSUME PublishExpire(s)
      PROVE  Goal
  <2>1. OneCommand(v, t, AfterClose(v, t, "expired_prestart"))
        /\ Write(s, AfterClose(v, t, "expired_prestart"))
    BY <1>5 DEF PublishExpire, OneCommand
  <2>2. QED
    BY <1>0, <2>1, StoreWrite DEF AfterClose
<1>6. QED
    BY <1>1, <1>2, <1>3, <1>4, <1>5 DEF PublishNext

\* The Run's row completes what is staged; a statement that fails marks the
\* transaction.
LEMMA StoreWriteRun ==
    ASSUME StoreInv, NEW s \in Sessions, WriteRun(s) \/ PublishFails(s)
    PROVE  StoreInv' /\ [Aggregate!Next]_Aggregate!vars
<1>0. /\ tx[s] # None /\ TransactionOK(tx[s]) /\ UNCHANGED <<db, lock, now>>
      /\ tx = [r \in Sessions |-> tx[r]]
    BY DEF StoreInv, WriteRun, PublishFails
<1>1. CASE WriteRun(s)
  <2> DEFINE x == [step |-> "published", at |-> tx[s].at, view |-> Published(Staged(tx[s])),
                   run |-> tx[s].run, aborted |-> tx[s].aborted]
  <2>1. tx' = [tx EXCEPT ![s] = x] /\ tx[s].step = "written"
    BY <1>1 DEF WriteRun
  <2>2. /\ x.step = "published" /\ x.at = tx[s].at /\ x.run = tx[s].run
        /\ x.view = Published(Staged(tx[s]))
    OBVIOUS
  <2> HIDE DEF x
  <2>3. Staged(x) = Staged(tx[s])
    BY <2>2 DEF Staged, Published
  <2>4. TransactionOK(x)
    BY <1>0, <2>1, <2>2, <2>3 DEF TransactionOK
  <2>5. QED
    BY <1>0, <2>1, <2>2, <2>4, TransactionMoves, Unseen
<1>2. CASE PublishFails(s)
  <2> DEFINE x == [tx[s] EXCEPT !.step = "published", !.aborted = TRUE]
  <2>1. tx' = [tx EXCEPT ![s] = x]
    BY <1>0, <1>2 DEF PublishFails
  <2>2. x.step = "published" /\ x.at = tx[s].at /\ x.aborted = TRUE
    OBVIOUS
  <2> HIDE DEF x
  <2>3. TransactionOK(x)
    BY <1>0, <2>2 DEF TransactionOK
  <2>4. QED
    BY <1>0, <2>1, <2>2, <2>3, TransactionMoves, Unseen
<1>3. QED
    BY <1>1, <1>2

\* The end of the block commits one command, or nothing.
LEMMA StoreExit ==
    ASSUME StoreInv, NEW s \in Sessions, Exit(s)
    PROVE  StoreInv' /\ [Aggregate!Next]_Aggregate!vars
<1> DEFINE y == tx[s]
           x == [y EXCEPT !.step = "ended"]
<1>0. /\ y # None /\ TransactionOK(y) /\ lock = s /\ s # None /\ UNCHANGED <<lock, now>>
      /\ RowsOK(db) /\ tx = [r \in Sessions |-> tx[r]] /\ y.at \in Nat
    BY DEF StoreInv, Exit, TransactionOK
<1>1. tx' = [tx EXCEPT ![s] = x]
    BY <1>0 DEF Exit
<1>2. x.step = "ended" /\ x.at = y.at
    OBVIOUS
<1>3. tx'[s] = x /\ tx' = [r \in Sessions |-> tx'[r]] /\ \A r \in Sessions : r # s => tx'[r] = tx[r]
    BY <1>0, <1>1
<1> HIDE DEF x, y
<1>4. (now = x.at \/ (now = x.at + 1 /\ x.at < MaxTime)) /\ x.at \in Nat
    BY <1>0, <1>2 DEF TransactionOK
<1>5. TransactionOK(tx[lock])'
    BY <1>0, <1>2, <1>3, <1>4 DEF TransactionOK
<1>6. ASSUME RowsOK(db') PROVE StoreInv'
  <2>1. RowsOK(db)'
    BY <1>6 DEF RowsOK, OpenRows
  <2>2. QED
    BY <1>0, <1>3, <1>5, <2>1 DEF StoreInv
<1>7. Clock = y.at /\ Clock' = y.at
    BY <1>0, <1>2, <1>3 DEF Clock, y
<1>8. CASE y.step = "published" /\ ~y.aborted
  <2>1. OneCommand(db, y.at, Staged(y)) /\ db' = Published(Staged(y))
    BY <1>0, <1>8 DEF Exit, Commits, TransactionOK, y
  <2>2. RowsOK(db')
    BY <1>0, <2>1, CommandRows
  <2>3. Aggregate!ReservationNext
    BY <1>0, <1>7, <2>1, CommandImplements
  <2>4. QED
    BY <1>6, <2>2, <2>3 DEF Aggregate!Next
<1>9. CASE ~(y.step = "published" /\ ~y.aborted)
  <2>1. db' = db
    BY <1>0, <1>9 DEF Exit, Commits, TransactionOK, y
  <2>2. QED
    BY <1>0, <1>6, <1>7, <2>1, Unseen
<1>10. QED
    BY <1>8, <1>9

\* The lock is given up; the aggregate catches up with the clock.
LEMMA StoreRelease ==
    ASSUME StoreInv, NEW s \in Sessions, Leave(s) \/ RollBack(s)
    PROVE  StoreInv' /\ [Aggregate!Next]_Aggregate!vars
<1>0. /\ tx[s] # None /\ lock = s /\ lock' = None /\ tx' = [tx EXCEPT ![s] = None]
      /\ TransactionOK(tx[s]) /\ s # None /\ UNCHANGED <<db, now>>
    BY DEF StoreInv, Leave, RollBack
<1>1. RowsOK(db)'
    BY <1>0 DEF StoreInv, RowsOK, OpenRows
<1>2. StoreInv'
    BY <1>0, <1>1 DEF StoreInv
<1>3. Clock = tx[s].at /\ Clock' = now
    BY <1>0 DEF Clock
<1>4. CASE now = tx[s].at
    BY <1>0, <1>2, <1>3, <1>4, Unseen
<1>5. CASE now = tx[s].at + 1 /\ tx[s].at < MaxTime
  <2>1. UNCHANGED <<db.run.phase, db.run.fence, Reservations(db.asg), CurrentOf(db),
                    Executions(db.att)>>
    BY <1>0 DEF Reservations, CurrentOf, Executions
  <2>2. Aggregate!Tick
    BY <1>3, <1>5, <2>1 DEF Aggregate!Tick
  <2>3. QED
    BY <1>2, <2>2 DEF Aggregate!Next
<1>6. QED
    BY <1>0, <1>4, <1>5 DEF TransactionOK

\* Every step keeps the invariant and is a step of the aggregate, or none.
LEMMA StoreStep ==
    StoreInv /\ [StoreNext]_storeVars => StoreInv' /\ [Aggregate!Next]_Aggregate!vars
<1>1. ASSUME StoreInv, UNCHANGED storeVars
      PROVE  StoreInv' /\ [Aggregate!Next]_Aggregate!vars
    BY <1>1, StoreStays DEF storeVars
<1>2. QED
    BY <1>1, StoreTick, StoreEnqueue, StoreLoad, StorePublish, StoreWriteRun, StoreExit,
       StoreRelease DEF StoreNext

\* The rows of a planned Run are a planned Run.
LEMMA StoreInitImplements == StoreInit => Aggregate!Init
BY DEF StoreInit, Aggregate!Init, Reservations, Executions, CurrentOf, Clock

\* postgres_assignment.py: each transaction, whether it is committed, fails between
\* two statements or is rolled back, is one command on the Run of run.py or nothing.
THEOREM StoreImplementsRun == StoreSpec => Refines
<1>1. StoreInit => StoreInv /\ Aggregate!Init
    BY StoreInitInv, StoreInitImplements
<1>2. QED
    BY <1>1, StoreStep, PTL DEF StoreSpec, Refines, Aggregate!Spec
==============================================================================
