------------------------ MODULE ExecutionRun_proofs ------------------------
(***************************************************************************)
(* Theorems about ExecutionRun, for any workers and any bounds.            *)
(***************************************************************************)
EXTENDS ExecutionRun, TLAPS

USE WorkersAssumption, BoundsAssumption

----------------------------------------------------------------------------
(* Sequences *)

\* An element of a history is replaced.
LEMMA SeqReplace ==
    ASSUME NEW S, NEW q \in Seq(S), NEW i \in DOMAIN q, NEW x \in S
    PROVE  /\ [q EXCEPT ![i] = x] \in Seq(S) /\ Len([q EXCEPT ![i] = x]) = Len(q)
           /\ DOMAIN [q EXCEPT ![i] = x] = DOMAIN q
           /\ [q EXCEPT ![i] = x][i] = x
           /\ \A j \in DOMAIN q : j # i => [q EXCEPT ![i] = x][j] = q[j]
OBVIOUS

\* A history is extended.
LEMMA SeqExtend ==
    ASSUME NEW S, NEW q \in Seq(S), NEW x \in S
    PROVE  /\ Append(q, x) \in Seq(S) /\ Len(Append(q, x)) = Len(q) + 1
           /\ DOMAIN Append(q, x) = DOMAIN q \cup {Len(q) + 1} /\ Len(q) + 1 \notin DOMAIN q
           /\ Append(q, x)[Len(q) + 1] = x
           /\ \A j \in DOMAIN q : Append(q, x)[j] = q[j]
OBVIOUS

\* The positions of a history.
LEMMA SeqPositions ==
    ASSUME NEW S, NEW q \in Seq(S)
    PROVE  /\ DOMAIN q = 1..Len(q) /\ Len(q) \in Nat
           /\ q = <<>> <=> Len(q) = 0
           /\ \A j \in DOMAIN q : q[j] \in S
OBVIOUS

----------------------------------------------------------------------------
(* The aggregate *)

\* The three histories and their positions.
LEMMA Histories ==
    ASSUME TypeOK
    PROVE  /\ DOMAIN asg = 1..Len(asg) /\ Len(asg) \in Nat
           /\ \A i \in DOMAIN asg : asg[i] \in Assignments
           /\ DOMAIN att = 1..Len(att) /\ Len(att) \in Nat /\ (att = <<>> <=> Len(att) = 0)
           /\ \A k \in DOMAIN att : att[k] \in Attempts
           /\ DOMAIN intents = 1..Len(intents) /\ Len(intents) \in Nat
           /\ \A n \in DOMAIN intents : intents[n] \in Intents
BY SeqPositions DEF TypeOK

\* The n-th retry intent is for the n-th attempt, and the pending one for the latest.
LEMMA IntentsInOrder ==
    ASSUME IInv
    PROVE  /\ \A n \in DOMAIN intents : intents[n].source = n /\ n \in DOMAIN att
           /\ pending = 0 => \A n \in DOMAIN intents : n < Len(att)
           /\ pending # 0 => /\ att # <<>> /\ pending = Len(att) /\ pending = Len(intents)
                             /\ pending \in DOMAIN intents
           /\ pending \in 0..MaxAttempts
           /\ att = <<>> => pending = 0
<1>1. TypeOK /\ IntentHistory /\ AttemptHistory /\ RetryConsumption /\ Len(att) <= MaxAttempts
    BY DEF IInv, AggregateValid
<1>2. att = <<>> => intents = <<>> /\ pending = 0
  <2>1. SUFFICES ASSUME att = <<>> PROVE intents = <<>> /\ pending = 0
    OBVIOUS
  <2>2. DOMAIN intents = {}
    <3>1. DOMAIN att = {}
      BY <1>1, <2>1, Histories
    <3>2. QED
      BY <1>1, <3>1 DEF IntentHistory
  <2>3. Len(intents) = 0
    BY <1>1, <2>2, Histories
  <2>4. QED
    BY <1>1, <2>1, <2>3, SeqPositions DEF IntentHistory, TypeOK
<1>3. att # <<>> => Len(intents) = Len(att) - 1 + (IF pending = 0 THEN 0 ELSE 1)
    BY <1>1 DEF RetryConsumption
<1>4. pending # 0 => pending = Len(intents) /\ intents[pending].source = Len(att)
    BY <1>1 DEF IntentHistory
<1>5. ASSUME NEW n \in DOMAIN intents, n < Len(att)
      PROVE  intents[n].source = n
  <2>1. PICK k \in DOMAIN att : k = n + 1 /\ k > 1 /\ k - 1 = n
    BY <1>1, <1>5, Histories
  <2>2. att[k].retry = k - 1
    BY <1>1 DEF RetryConsumption
  <2>3. intents[att[k].retry].source = k - 1
    BY <1>1, <2>1 DEF AttemptHistory
  <2>4. QED
    BY <2>1, <2>2, <2>3
<1>6. QED
    BY <1>1, <1>2, <1>3, <1>4, <1>5, Histories

\* The reservation a Run in "assigned" waits for is the last one.
LEMMA OpenReservation ==
    ASSUME IInv, state = "assigned"
    PROVE  /\ current \in DOMAIN asg /\ current = Len(asg) /\ asg[current].state \in Open
           /\ cancelAt = 0 /\ asg[current].retry = pending /\ stopAt = 0
           /\ asg[current] \in Assignments /\ AssignmentValid(asg[current])
           /\ \A k \in DOMAIN att : att[k].asg # current
           /\ \A k \in DOMAIN att : att[k].state \notin Executing
<1>1. TypeOK /\ StatePointers /\ AssignmentHistory /\ AttemptHistory /\ OneLiveAttempt
    BY DEF IInv, AggregateValid
<1>2. current # 0 /\ current = Len(asg) /\ asg[current].state \in Open /\ cancelAt = 0 /\ stopAt = 0
    BY <1>1 DEF StatePointers, AssignmentHistory
<1>3. current \in DOMAIN asg
    BY <1>1, <1>2, Histories
<1>4. asg[current].retry = pending
  <2>1. CASE att # <<>>
    BY <1>1, <2>1 DEF StatePointers
  <2>2. CASE att = <<>>
    <3>1. asg[current].retry \notin DOMAIN intents /\ pending = 0
      BY <1>1, <2>2, IntentsInOrder, Histories
    <3>2. QED
      BY <1>1, <1>3, <3>1 DEF AssignmentHistory
  <2>3. QED
    BY <2>1, <2>2
<1>5. \A k \in DOMAIN att : att[k].asg # current
    BY <1>1, <1>2 DEF AttemptHistory, Open
<1>6. \A k \in DOMAIN att : att[k].state \notin Executing
    BY <1>1 DEF OneLiveAttempt
<1>7. QED
    BY <1>1, <1>2, <1>3, <1>4, <1>5, <1>6, Histories DEF IInv, AggregateValid

\* What depends on the attempts and intents alone.
LEMMA AttemptsAlone ==
    ASSUME IInv, UNCHANGED <<att, intents, pending>>
    PROVE  /\ (\A k \in DOMAIN att : AttemptValid(k))'
           /\ IntentHistory' /\ RetryConsumption' /\ Len(att') <= MaxAttempts
BY DEF IInv, AggregateValid, AttemptValid, IntentHistory, RetryConsumption, Authoritative

\* What depends on the reservations besides.
LEMMA ReservationsAlone ==
    ASSUME IInv, UNCHANGED <<att, intents, asg, fence>>
    PROVE  /\ (\A i \in DOMAIN asg : AssignmentValid(asg[i]))'
           /\ AttemptHistory' /\ EpochTails'
BY DEF IInv, AggregateValid, AssignmentValid, AttemptHistory, EpochTails

\* A planned Run satisfies the invariant.
LEMMA InitIInv == Init => IInv
<1> SUFFICES ASSUME Init PROVE IInv
    OBVIOUS
<1>1. TypeOK
    BY DEF Init, TypeOK, RunStates, Times
<1>2. DOMAIN asg = {} /\ DOMAIN att = {} /\ DOMAIN intents = {} /\ Len(asg) = 0 /\ Len(att) = 0
      /\ Len(intents) = 0
    BY DEF Init
<1>3. AttemptHistory /\ IntentHistory /\ AssignmentHistory /\ CancellationHistory /\ EpochTails
    BY <1>2 DEF Init, AttemptHistory, IntentHistory, AssignmentHistory, CancellationHistory,
                EpochTails
<1>4. StatePointers /\ RetryConsumption
    BY <1>2 DEF Init, StatePointers, RetryConsumption, LatestIs
<1>5. QED
    BY <1>1, <1>2, <1>3, <1>4 DEF Init, IInv, AggregateValid, OneLiveAttempt, RecordedByNow

LEMMA TickKeeps == ASSUME IInv, Tick PROVE IInv'
<1>1. /\ UNCHANGED <<state, fence, asg, current, att, intents, pending, cancelAt, stopAt>>
      /\ now' = now + 1 /\ now' \in Times /\ now \in Nat /\ TypeOK
    BY DEF Tick, IInv, AggregateValid, TypeOK, Times
<1>2. TypeOK'
    BY <1>1 DEF TypeOK
<1>3. AssignmentHistory' /\ CancellationHistory' /\ StatePointers'
    BY <1>1 DEF IInv, AggregateValid, AssignmentHistory, CancellationHistory, StatePointers,
                LatestIs, EndedAt
<1>4. RecordedByNow'
  <2>1. \A x \in Times : x <= now => x <= now'
    BY <1>1 DEF Times
  <2>2. ASSUME NEW i \in DOMAIN asg
        PROVE  asg[i].offered \in Times /\ asg[i].claimed \in Times /\ asg[i].committed \in Times
               /\ asg[i].closed \in Times
    BY <1>1, <2>2, Histories DEF Assignments
  <2>3. ASSUME NEW k \in DOMAIN att
        PROVE  att[k].unknownAt \in Times /\ \A j \in DOMAIN att[k].adj : att[k].adj[j].at \in Times
    <3>1. att[k].unknownAt \in Times /\ att[k].adj \in Seq([decision : Decisions, at : Times])
      BY <1>1, <2>3, Histories DEF Attempts
    <3>2. \A j \in DOMAIN att[k].adj : att[k].adj[j] \in [decision : Decisions, at : Times]
      BY <3>1, SeqPositions
    <3>3. QED
      BY <3>1, <3>2
  <2>4. \A n \in DOMAIN intents : intents[n].created \in Times
    BY <1>1, Histories DEF Intents
  <2>5. now' >= 1 /\ cancelAt \in Times
    BY <1>1 DEF IInv, RecordedByNow, TypeOK, Times
  <2>6. QED
    BY <1>1, <2>1, <2>2, <2>3, <2>4, <2>5 DEF IInv, RecordedByNow
<1>5. OneLiveAttempt'
    BY <1>1 DEF IInv, OneLiveAttempt
<1>6. QED
    BY <1>1, <1>2, <1>3, <1>4, <1>5, AttemptsAlone, ReservationsAlone DEF IInv, AggregateValid

LEMMA EnqueueKeeps == ASSUME IInv, Enqueue PROVE IInv'
<1>1. /\ UNCHANGED <<fence, asg, current, att, intents, pending, cancelAt, stopAt, now>>
      /\ state = "planned" /\ state' = "queued" /\ TypeOK
    BY DEF Enqueue, IInv, AggregateValid
<1>2. /\ asg = <<>> /\ att = <<>> /\ intents = <<>> /\ cancelAt = 0 /\ stopAt = 0 /\ current = 0
      /\ pending = 0
    BY <1>1, IntentsInOrder DEF IInv, AggregateValid, StatePointers, AssignmentHistory
<1>3. TypeOK'
    BY <1>1 DEF TypeOK, RunStates
<1>4. AssignmentHistory' /\ CancellationHistory' /\ StatePointers'
    BY <1>1, <1>2 DEF IInv, AggregateValid, AssignmentHistory, CancellationHistory,
                      StatePointers, LatestIs
<1>5. RecordedByNow' /\ OneLiveAttempt'
    BY <1>1, <1>2 DEF IInv, RecordedByNow, OneLiveAttempt
<1>6. QED
    BY <1>1, <1>3, <1>4, <1>5, AttemptsAlone, ReservationsAlone DEF IInv, AggregateValid

----------------------------------------------------------------------------
(* Reservations *)

\* The open reservation is claimed or closed: the histories stay in order.
LEMMA ReservationMoves ==
    ASSUME IInv, state = "assigned", NEW b \in Assignments,
           asg' = [asg EXCEPT ![current] = b], UNCHANGED <<fence, att, intents, pending, now>>,
           b.state \in Closed \cup {"claimed"}, AssignmentValid(b),
           b.retry = asg[current].retry, b.offered = asg[current].offered,
           b.claimed <= now, b.closed <= now,
           current' = IF b.state \in Closed THEN 0 ELSE current
    PROVE  /\ asg' \in Seq(Assignments) /\ Len(asg') = Len(asg) /\ DOMAIN asg' = DOMAIN asg
           /\ asg'[current] = b /\ \A j \in DOMAIN asg : j # current => asg'[j] = asg[j]
           /\ (\A i \in DOMAIN asg : AssignmentValid(asg[i]))'
           /\ AttemptHistory' /\ AssignmentHistory' /\ EpochTails'
           /\ cancelAt' <= now' => RecordedByNow'
           /\ \A i \in DOMAIN asg : EndedAt(asg'[i]) <= now
<1>1. TypeOK /\ AttemptHistory /\ AssignmentHistory /\ EpochTails /\ RecordedByNow
    BY DEF IInv, AggregateValid
<1>2. /\ current \in DOMAIN asg /\ current = Len(asg) /\ asg[current].state \in Open /\ current # 0
      /\ \A k \in DOMAIN att : att[k].asg # current
    BY <1>1, OpenReservation, Histories
<1>3. /\ asg' \in Seq(Assignments) /\ Len(asg') = Len(asg) /\ DOMAIN asg' = DOMAIN asg
      /\ asg'[current] = b /\ \A j \in DOMAIN asg : j # current => asg'[j] = asg[j]
    BY <1>1, <1>2, SeqReplace DEF TypeOK
<1>4. b.state \notin Open \ {"claimed"} /\ b.state # "committed" /\ b.committed = 0
    BY DEF Closed, Open, AssignmentValid
<1>5. (\A i \in DOMAIN asg : AssignmentValid(asg[i]))'
    BY <1>3 DEF IInv, AggregateValid, AssignmentValid
<1>6. AttemptHistory'
    BY <1>1, <1>2, <1>3 DEF AttemptHistory
<1>7. EpochTails'
    BY <1>1, <1>2, <1>3 DEF EpochTails
<1>8. ASSUME NEW i \in DOMAIN asg
      PROVE  EndedAt(asg'[i]) <= now
    BY <1>1, <1>2, <1>3, <1>4, <1>8 DEF RecordedByNow, EndedAt
<1>9. AssignmentHistory'
  <2>1. (current # 0 => current = Len(asg))'
    BY <1>2, <1>3
  <2>2. ASSUME NEW i \in DOMAIN asg
        PROVE  /\ asg'[i].retry # 0 => /\ asg'[i].retry \in DOMAIN intents
                                       /\ asg'[i].offered >= intents[asg'[i].retry].created
               /\ asg'[i].state = "committed" => \E k \in DOMAIN att : att[k].asg = i
    BY <1>1, <1>2, <1>3, <1>4, <2>2 DEF AssignmentHistory
  <2>3. ASSUME NEW i \in DOMAIN asg
        PROVE  /\ asg'[i].state \in Closed => i # current'
               /\ asg'[i].state \in Open => i = current'
    BY <1>1, <1>2, <1>3, <1>4, <2>3 DEF AssignmentHistory, Open, Closed
  <2>4. ASSUME NEW i \in DOMAIN asg, i > 1
        PROVE  /\ asg'[i - 1].retry <= asg'[i].retry
               /\ asg'[i].offered >= EndedAt(asg'[i - 1])
    <3>1. i - 1 \in DOMAIN asg /\ i - 1 # current
      BY <1>1, <1>2, <2>4, Histories
    <3>2. asg'[i - 1] = asg[i - 1] /\ asg'[i].retry = asg[i].retry /\ asg'[i].offered = asg[i].offered
      BY <1>3, <2>4, <3>1
    <3>3. asg[i - 1].retry <= asg[i].retry /\ asg[i].offered >= EndedAt(asg[i - 1])
      BY <1>1, <2>4 DEF AssignmentHistory
    <3>4. QED
      BY <3>2, <3>3 DEF EndedAt
  <2>5. QED
    BY <1>3, <2>1, <2>2, <2>3, <2>4 DEF AssignmentHistory, EndedAt
<1>10. cancelAt' <= now' => RecordedByNow'
  <2>1. ASSUME NEW i \in DOMAIN asg
        PROVE  /\ asg'[i].offered <= now /\ asg'[i].claimed <= now
               /\ asg'[i].committed <= now /\ asg'[i].closed <= now
    <3>1. 0 <= now
      BY <1>1 DEF TypeOK, Times
    <3>2. QED
      BY <1>1, <1>2, <1>3, <1>4, <2>1, <3>1 DEF RecordedByNow
  <2>2. QED
    BY <1>1, <1>3, <2>1 DEF RecordedByNow
<1>11. QED
    BY <1>3, <1>5, <1>6, <1>7, <1>8, <1>9, <1>10

\* A claim comes in the window of its reservation.
LEMMA ClaimKeeps == ASSUME IInv, NEW i \in DOMAIN asg, NEW w \in Workers, Claim(i, w) PROVE IInv'
<1> DEFINE b == Claimed(asg[i])
<1>1. /\ state = "assigned" /\ current = i /\ asg[i].state = "offered" /\ now < asg[i].expires
      /\ asg' = [asg EXCEPT ![current] = b]
      /\ UNCHANGED <<state, fence, current, att, intents, pending, cancelAt, stopAt, now>>
    BY DEF Claim, InWindow
<1>2. TypeOK /\ asg[i] \in Assignments /\ AssignmentValid(asg[i]) /\ asg[i].offered <= now /\ now >= 1
      /\ now \in Times
    BY Histories DEF IInv, AggregateValid, RecordedByNow, TypeOK
<1>3. /\ b \in Assignments /\ b.state = "claimed" /\ b.claimed = now /\ b.retry = asg[i].retry
      /\ b.offered = asg[i].offered /\ b.expires = asg[i].expires /\ b.committed = asg[i].committed
      /\ b.closed = asg[i].closed
    BY <1>2 DEF Claimed, Assignments, AssignmentStates, Open
<1> HIDE DEF b
<1>4. AssignmentValid(b) /\ b.closed = 0
    BY <1>1, <1>2, <1>3 DEF AssignmentValid, Closed, Assignments, Times
<1>5. /\ b.state \in Closed \cup {"claimed"} /\ b.claimed <= now /\ b.closed <= now
      /\ b.state \notin Closed /\ b.state \in Open
    BY <1>2, <1>3, <1>4 DEF Closed, Open, Times
<1>6. /\ asg' \in Seq(Assignments) /\ Len(asg') = Len(asg) /\ DOMAIN asg' = DOMAIN asg
      /\ asg'[current] = b
      /\ (\A j \in DOMAIN asg : AssignmentValid(asg[j]))'
      /\ AttemptHistory' /\ AssignmentHistory' /\ EpochTails' /\ RecordedByNow'
      /\ \A j \in DOMAIN asg : j # current => asg'[j] = asg[j]
    BY <1>1, <1>3, <1>4, <1>5, ReservationMoves DEF IInv, RecordedByNow
<1>7. TypeOK'
    BY <1>1, <1>2, <1>6 DEF TypeOK
<1>8. CancellationHistory'
    BY <1>1, <1>3, <1>6, OpenReservation DEF IInv, AggregateValid, CancellationHistory
<1>9. StatePointers'
    BY <1>1, <1>3, <1>5, <1>6 DEF IInv, AggregateValid, StatePointers, LatestIs
<1>10. OneLiveAttempt'
    BY <1>1 DEF IInv, OneLiveAttempt
<1>11. QED
    BY <1>1, <1>6, <1>7, <1>8, <1>9, <1>10, AttemptsAlone DEF IInv, AggregateValid

\* A reservation that ends, at its expiry, by release or under a cancel request, frees
\* the Run for another or for the end.
LEMMA ReservationCloses ==
    ASSUME IInv, state = "assigned", NEW kind \in Closed,
           asg' = [asg EXCEPT ![current] = ClosedAs(@, kind)], current' = 0,
           UNCHANGED <<fence, att, intents, pending, now>>,
           kind = "expired_prestart" => now >= asg[current].expires,
           kind # "expired_prestart" => InWindow(current),
           cancelAt' \in Times, cancelAt' <= now
    PROVE  /\ asg' \in Seq(Assignments) /\ Len(asg') = Len(asg) /\ DOMAIN asg' = DOMAIN asg
           /\ asg'[current].state = kind /\ asg'[current].closed = now
           /\ \A j \in DOMAIN asg : j # current => asg'[j] = asg[j]
           /\ (\A j \in DOMAIN asg : AssignmentValid(asg[j]))'
           /\ AttemptHistory' /\ AssignmentHistory' /\ EpochTails' /\ RecordedByNow'
           /\ \A j \in DOMAIN asg : EndedAt(asg'[j]) <= now
<1> DEFINE a == asg[current]
           b == ClosedAs(a, kind)
<1>1. /\ current \in DOMAIN asg /\ a.state \in Open /\ a \in Assignments /\ AssignmentValid(a)
    BY OpenReservation
<1>2. /\ a.offered <= now /\ a.claimed <= now /\ now >= 1 /\ now \in Times
      /\ asg' = [asg EXCEPT ![current] = b]
    BY <1>1 DEF IInv, AggregateValid, RecordedByNow, TypeOK
<1>3. /\ b \in Assignments /\ b.state = kind /\ b.claimed = a.claimed /\ b.retry = a.retry
      /\ b.offered = a.offered /\ b.expires = a.expires /\ b.committed = a.committed
      /\ b.closed = now
    BY <1>1, <1>2 DEF ClosedAs, Assignments, AssignmentStates
<1> HIDE DEF b
<1>4. AssignmentValid(b)
    BY <1>1, <1>2, <1>3 DEF AssignmentValid, Closed, Open, Assignments, Times, InWindow
<1>5. b.closed <= now /\ b.claimed <= now
    BY <1>2, <1>3 DEF Times
<1>6. QED
    BY <1>2, <1>3, <1>4, <1>5, ReservationMoves

LEMMA ClosePrecommitKeeps ==
    ASSUME IInv, NEW i \in DOMAIN asg, NEW kind \in {"expired_prestart", "released_prestart"},
           ClosePrecommit(i, kind),
           kind = "expired_prestart" => now >= asg[i].expires,
           kind # "expired_prestart" => InWindow(i)
    PROVE  IInv'
<1>1. /\ state = "assigned" /\ current = i /\ asg[i].state \in Open
      /\ asg' = [asg EXCEPT ![current] = ClosedAs(@, kind)] /\ current' = 0
      /\ state' = ResumeState(i) /\ kind \in Closed
      /\ UNCHANGED <<fence, att, intents, pending, cancelAt, stopAt, now>>
    BY DEF ClosePrecommit, Closed
<1>2. /\ cancelAt = 0 /\ stopAt = 0 /\ asg[i].retry = pending /\ TypeOK /\ cancelAt \in Times
      /\ cancelAt <= now /\ \A k \in DOMAIN att : att[k].state \notin Executing
    BY <1>1, OpenReservation DEF IInv, AggregateValid, TypeOK, RecordedByNow
<1>3. /\ asg' \in Seq(Assignments) /\ Len(asg') = Len(asg) /\ DOMAIN asg' = DOMAIN asg
      /\ asg'[current].state = kind
      /\ \A j \in DOMAIN asg : j # current => asg'[j] = asg[j]
      /\ (\A j \in DOMAIN asg : AssignmentValid(asg[j]))'
      /\ AttemptHistory' /\ AssignmentHistory' /\ EpochTails' /\ RecordedByNow'
    BY <1>1, <1>2, ReservationCloses
<1>4. /\ state' = IF pending # 0 THEN "retry_queued" ELSE "queued"
    BY <1>1, <1>2 DEF ResumeState
<1>5. TypeOK'
    BY <1>1, <1>2, <1>3, <1>4 DEF TypeOK, RunStates
<1>6. CancellationHistory'
  <2>1. \A j \in DOMAIN asg : asg[j].state # "cancelled_prestart"
    BY <1>2 DEF IInv, AggregateValid, CancellationHistory
  <2>2. \A j \in DOMAIN asg : asg'[j].state # "cancelled_prestart"
    BY <1>1, <1>3, <2>1
  <2>3. QED
    BY <1>1, <1>2, <1>3, <2>2 DEF CancellationHistory
<1>7. att # <<>> => pending # 0
    BY <1>1 DEF IInv, AggregateValid, StatePointers
<1>8. pending = 0 => intents = <<>>
    BY <1>2, <1>7, IntentsInOrder, Histories, SeqPositions DEF TypeOK
<1>9. StatePointers'
    BY <1>1, <1>2, <1>4, <1>7, <1>8 DEF IInv, AggregateValid, StatePointers, LatestIs
<1>10. OneLiveAttempt'
    BY <1>1, <1>2 DEF OneLiveAttempt
<1>11. QED
    BY <1>1, <1>3, <1>5, <1>6, <1>9, <1>10, AttemptsAlone DEF IInv, AggregateValid

\* An offer opens the next reservation, for the retry that is pending if there is one.
LEMMA OfferKeeps ==
    ASSUME IInv, NEW w \in Workers, NEW e \in 1..(MaxTime + 1), Offer(w, e) PROVE IInv'
<1> DEFINE b == Offered(w, e)
           n == Len(asg) + 1
<1>1. /\ state \in {"queued", "retry_queued"} /\ current = 0 /\ (state = "queued" <=> pending = 0)
      /\ asg' = Append(asg, b) /\ current' = n /\ state' = "assigned"
      /\ UNCHANGED <<fence, att, intents, pending, cancelAt, stopAt, now>>
    BY DEF Offer
<1>2. /\ TypeOK /\ AttemptHistory /\ AssignmentHistory /\ EpochTails /\ RecordedByNow
      /\ StatePointers /\ RetryConsumption /\ now \in Times /\ now >= 1 /\ cancelAt = 0
      /\ CancellationHistory
    BY <1>1 DEF IInv, AggregateValid, TypeOK, RecordedByNow, StatePointers
<1>3. /\ b \in Assignments /\ b.state = "offered" /\ b.retry = pending /\ b.offered = now
      /\ b.expires = e /\ b.claimed = 0 /\ b.committed = 0 /\ b.closed = 0
    BY <1>2, IntentsInOrder DEF Offered, Assignments, AssignmentStates, Open, Times
<1> HIDE DEF b
<1>4. /\ asg' \in Seq(Assignments) /\ Len(asg') = n /\ DOMAIN asg' = DOMAIN asg \cup {n}
      /\ n \notin DOMAIN asg /\ asg'[n] = b /\ \A j \in DOMAIN asg : asg'[j] = asg[j]
    BY <1>1, <1>2, <1>3, SeqExtend DEF TypeOK
<1>5. DOMAIN asg = 1..Len(asg) /\ Len(asg) \in Nat /\ n # 0
    BY <1>2, Histories
<1>6. AssignmentValid(b)
    BY <1>1, <1>2, <1>3 DEF AssignmentValid, Closed, Times
<1>7. (\A i \in DOMAIN asg : AssignmentValid(asg[i]))'
    BY <1>4, <1>6 DEF IInv, AggregateValid, AssignmentValid
<1>8. AttemptHistory'
    BY <1>1, <1>2, <1>4 DEF AttemptHistory
<1>9. EpochTails'
  <2>1. ASSUME NEW k \in DOMAIN att
        PROVE  pending # att[k].retry /\ att[k].asg \in DOMAIN asg
    <3>1. att[k].retry = k - 1 /\ pending = Len(att) /\ k \in 1..Len(att)
      BY <1>1, <1>2, <2>1, IntentsInOrder, Histories DEF RetryConsumption, StatePointers
    <3>2. QED
      BY <1>2, <3>1, Histories DEF AttemptHistory
  <2>2. QED
    BY <1>1, <1>2, <1>3, <1>4, <1>5, <2>1 DEF EpochTails
<1>10. AssignmentHistory'
  <2>1. ASSUME NEW i \in DOMAIN asg'
        PROVE  /\ asg'[i].retry # 0 => /\ asg'[i].retry \in DOMAIN intents
                                       /\ asg'[i].offered >= intents[asg'[i].retry].created
               /\ asg'[i].state = "committed" => \E k \in DOMAIN att : att[k].asg = i
    <3>1. CASE i \in DOMAIN asg
      BY <1>2, <1>4, <3>1 DEF AssignmentHistory
    <3>2. CASE i = n
      BY <1>2, <1>3, <1>4, <3>2, IntentsInOrder DEF RecordedByNow
    <3>3. QED
      BY <1>4, <2>1, <3>1, <3>2
  <2>2. ASSUME NEW i \in DOMAIN asg'
        PROVE  /\ asg'[i].state \in Closed => i # current'
               /\ asg'[i].state \in Open => i = current'
    <3>1. CASE i \in DOMAIN asg
      BY <1>1, <1>2, <1>4, <1>5, <3>1 DEF AssignmentHistory
    <3>2. CASE i = n
      BY <1>1, <1>3, <1>4, <3>2 DEF Closed
    <3>3. QED
      BY <1>4, <2>2, <3>1, <3>2
  <2>3. ASSUME NEW i \in DOMAIN asg', i > 1
        PROVE  /\ asg'[i - 1].retry <= asg'[i].retry
               /\ asg'[i].offered >= EndedAt(asg'[i - 1])
    <3>1. i - 1 \in DOMAIN asg /\ asg'[i - 1] = asg[i - 1]
      BY <1>4, <1>5, <2>3
    <3>2. CASE i \in DOMAIN asg
      BY <1>2, <1>4, <2>3, <3>1, <3>2 DEF AssignmentHistory
    <3>3. CASE i = n
      <4>1. asg[i - 1].retry <= pending
        <5>1. asg[i - 1].retry = 0 \/ asg[i - 1].retry \in DOMAIN intents
          BY <1>2, <3>1 DEF AssignmentHistory
        <5>2. pending # 0 => pending = Len(intents)
          BY IntentsInOrder
        <5>3. pending = 0 => DOMAIN intents = {}
          BY <1>1, <1>2 DEF StatePointers
        <5>4. QED
          BY <1>2, <5>1, <5>2, <5>3, Histories DEF TypeOK
      <4>2. EndedAt(asg[i - 1]) <= now
        BY <1>2, <3>1 DEF RecordedByNow, EndedAt
      <4>3. QED
        BY <1>3, <1>4, <3>1, <3>3, <4>1, <4>2, Histories, <1>2 DEF Assignments, Times, EndedAt
    <3>4. QED
      BY <1>4, <2>3, <3>2, <3>3
  <2>4. QED
    BY <1>1, <1>4, <2>1, <2>2, <2>3 DEF AssignmentHistory, EndedAt
<1>11. RecordedByNow'
    BY <1>1, <1>2, <1>3, <1>4 DEF RecordedByNow, Times
<1>12. TypeOK'
    BY <1>1, <1>2, <1>4, <1>5 DEF TypeOK, RunStates
<1>13. CancellationHistory'
    BY <1>1, <1>2, <1>3, <1>4 DEF CancellationHistory
<1>14. StatePointers'
    BY <1>1, <1>2, <1>3, <1>4, <1>5 DEF StatePointers, LatestIs, Open
<1>15. OneLiveAttempt'
    BY <1>1 DEF IInv, OneLiveAttempt
<1>16. QED
    BY <1>1, <1>7, <1>8, <1>9, <1>10, <1>11, <1>12, <1>13, <1>14, <1>15, AttemptsAlone
    DEF IInv, AggregateValid

----------------------------------------------------------------------------
(* Executions *)

\* A running Run has an attempt, nothing pending and no reservation open.
LEMMA RunningRun ==
    ASSUME IInv, state = "running"
    PROVE  /\ pending = 0 /\ stopAt = 0 /\ current # 0 /\ current \in DOMAIN asg
           /\ asg[current].state = "committed"
           /\ \A i \in DOMAIN asg : asg[i].state \notin Open
           /\ \A i \in DOMAIN asg : asg[i].state # "cancelled_prestart"
           /\ \A n \in DOMAIN intents : intents[n].source < Len(att)
<1>1. TypeOK /\ StatePointers /\ AssignmentHistory /\ CancellationHistory
    BY DEF IInv, AggregateValid
<1>2. pending = 0 /\ stopAt = 0 /\ current # 0 /\ asg[current].state = "committed"
    BY <1>1 DEF StatePointers
<1>3. current \in DOMAIN asg
    BY <1>1, <1>2, Histories DEF AssignmentHistory
<1>4. \A i \in DOMAIN asg : asg[i].state \notin Open
    BY <1>1, <1>2 DEF AssignmentHistory, Open
<1>5. \A i \in DOMAIN asg : asg[i].state # "cancelled_prestart"
    BY <1>1 DEF CancellationHistory
<1>6. QED
    BY <1>2, <1>3, <1>4, <1>5, IntentsInOrder

\* An execution under way is the latest one of a running Run.
LEMMA LiveAttempt ==
    ASSUME IInv, NEW k \in DOMAIN att, att[k].state \in Executing
    PROVE  /\ k = Len(att) /\ state = "running" /\ att[k].asg = current
           /\ att[k].unknownAt = 0
BY DEF IInv, AggregateValid, OneLiveAttempt, AttemptValid, Executing

\* The latest attempt of a running Run moves on: the histories stay in order.
LEMMA AttemptMoves ==
    ASSUME IInv, state = "running", NEW k \in DOMAIN att, k = Len(att), NEW c \in Attempts,
           att' = [att EXCEPT ![k] = c], UNCHANGED <<fence, asg, intents, pending, cancelAt, now>>,
           c.fence = att[k].fence, c.asg = att[k].asg, c.worker = att[k].worker,
           c.retry = att[k].retry,
           c.state = "attempt_unknown" <=> c.unknownAt # 0,
           c.unknownAt # 0 => c.unknownAt >= asg[c.asg].committed,
           c.unknownAt <= now,
           \A j \in DOMAIN c.adj : c.adj[j].at <= now,
           current' \in {current, 0}
    PROVE  /\ att' \in Seq(Attempts) /\ Len(att') = Len(att) /\ DOMAIN att' = DOMAIN att
           /\ att'[k] = c /\ \A m \in DOMAIN att : m # k => att'[m] = att[m]
           /\ (\A m \in DOMAIN att : AttemptValid(m))' /\ AttemptHistory' /\ IntentHistory'
           /\ AssignmentHistory' /\ RetryConsumption' /\ EpochTails' /\ RecordedByNow'
           /\ Len(att') <= MaxAttempts /\ (att # <<>>)'
<1>1. /\ TypeOK /\ AttemptHistory /\ IntentHistory /\ AssignmentHistory /\ RetryConsumption
      /\ EpochTails /\ RecordedByNow /\ Len(att) <= MaxAttempts
      /\ \A m \in DOMAIN att : AttemptValid(m)
    BY DEF IInv, AggregateValid
<1>2. /\ att' \in Seq(Attempts) /\ Len(att') = Len(att) /\ DOMAIN att' = DOMAIN att
      /\ att'[k] = c /\ \A m \in DOMAIN att : m # k => att'[m] = att[m]
    BY <1>1, SeqReplace DEF TypeOK
<1>3. \A m \in DOMAIN att : /\ att'[m].fence = att[m].fence /\ att'[m].asg = att[m].asg
                            /\ att'[m].worker = att[m].worker /\ att'[m].retry = att[m].retry
    BY <1>2
<1>4. att # <<>> /\ att' # <<>>
    BY <1>1, <1>2, Histories, SeqPositions
<1>5. (\A m \in DOMAIN att : AttemptValid(m))'
  <2>1. ASSUME NEW m \in DOMAIN att PROVE AttemptValid(m)'
    <3>1. CASE m = k
      BY <1>1, <1>2, <1>3, <3>1 DEF AttemptValid
    <3>2. CASE m # k
      BY <1>1, <1>2, <3>2 DEF AttemptValid
    <3>3. QED
      BY <3>1, <3>2
  <2>2. QED
    BY <1>2, <2>1
<1>6. AttemptHistory'
  <2>1. ASSUME NEW m \in DOMAIN att, m > 1
        PROVE  m - 1 \in DOMAIN att
    BY <1>1, <2>1, Histories
  <2>2. ASSUME NEW m \in DOMAIN att
        PROVE  att'[m].unknownAt # 0 => att'[m].unknownAt >= asg[att'[m].asg].committed
    BY <1>1, <1>2, <2>2 DEF AttemptHistory
  <2>3. QED
    BY <1>1, <1>2, <1>3, <2>1, <2>2 DEF AttemptHistory
<1>7. \A n \in DOMAIN intents : intents[n].source \in DOMAIN att /\ intents[n].source # k
    BY <1>1, RunningRun, Histories DEF IntentHistory
<1>8. IntentHistory'
  <2>1. ASSUME NEW n \in DOMAIN intents
        PROVE  /\ Authoritative(intents[n], intents[n].source)'
               /\ intents[n].outcome = "unknown" =>
                    intents[n].created >= att'[intents[n].source].adj[intents[n].adj].at
    <3>1. att'[intents[n].source] = att[intents[n].source]
      BY <1>2, <1>7, <2>1
    <3>2. QED
      BY <1>1, <2>1, <3>1 DEF IntentHistory, Authoritative
  <2>2. QED
    BY <1>1, <1>2, <2>1 DEF IntentHistory
<1>9. AssignmentHistory'
  <2>1. ASSUME NEW i \in DOMAIN asg, asg[i].state = "committed"
        PROVE  \E m \in DOMAIN att : att'[m].asg = i
    BY <1>1, <1>3, <2>1 DEF AssignmentHistory
  <2>2. \A i \in DOMAIN asg : asg[i].state \notin Open /\ i # 0
    BY <1>1, RunningRun, Histories
  <2>3. QED
    BY <1>1, <1>2, <2>1, <2>2 DEF AssignmentHistory, EndedAt
<1>10. RetryConsumption' /\ EpochTails'
    BY <1>1, <1>2, <1>3, <1>4 DEF RetryConsumption, EpochTails
<1>11. RecordedByNow'
    BY <1>1, <1>2 DEF RecordedByNow
<1>12. QED
    BY <1>1, <1>2, <1>4, <1>5, <1>6, <1>8, <1>9, <1>10, <1>11

\* It moves on without an end of the Run.
LEMMA AttemptStep ==
    ASSUME IInv, state = "running", NEW k \in DOMAIN att, k = Len(att), NEW c \in Attempts,
           att' = [att EXCEPT ![k] = c],
           UNCHANGED <<state, fence, asg, current, intents, pending, cancelAt, stopAt, now>>,
           c.fence = att[k].fence, c.asg = att[k].asg, c.worker = att[k].worker,
           c.retry = att[k].retry,
           c.state = "attempt_unknown" <=> c.unknownAt # 0,
           c.unknownAt # 0 => c.unknownAt >= asg[c.asg].committed,
           c.unknownAt <= now,
           \A j \in DOMAIN c.adj : c.adj[j].at <= now,
           c.state # "cancelled", c.state \in Executing => att[k].state \in Executing
    PROVE  IInv'
<1>1. /\ att' \in Seq(Attempts) /\ Len(att') = Len(att) /\ DOMAIN att' = DOMAIN att
      /\ att'[k] = c /\ \A m \in DOMAIN att : m # k => att'[m] = att[m]
      /\ (\A m \in DOMAIN att : AttemptValid(m))' /\ AttemptHistory' /\ IntentHistory'
      /\ AssignmentHistory' /\ RetryConsumption' /\ EpochTails' /\ RecordedByNow'
      /\ Len(att') <= MaxAttempts /\ (att # <<>>)'
    BY AttemptMoves
<1>2. TypeOK'
    BY <1>1 DEF IInv, AggregateValid, TypeOK
<1>3. (\A i \in DOMAIN asg : AssignmentValid(asg[i]))' /\ CancellationHistory'
    BY DEF IInv, AggregateValid, AssignmentValid, CancellationHistory, EndedAt
<1>4. StatePointers'
    BY <1>1, RunningRun DEF IInv, AggregateValid, StatePointers, LatestIs
<1>5. OneLiveAttempt'
    BY <1>1, LiveAttempt DEF IInv, OneLiveAttempt
<1>6. QED
    BY <1>1, <1>2, <1>3, <1>4, <1>5 DEF IInv, AggregateValid

\* A step of an execution under way.
LEMMA LiveStep ==
    ASSUME IInv, NEW k \in DOMAIN att, att[k].state \in Executing, NEW c \in Attempts,
           att' = [att EXCEPT ![k] = c],
           UNCHANGED <<state, fence, asg, current, intents, pending, cancelAt, stopAt, now>>,
           c.fence = att[k].fence, c.asg = att[k].asg, c.worker = att[k].worker,
           c.retry = att[k].retry, c.adj = att[k].adj, c.state # "cancelled",
           IF c.state = "attempt_unknown" THEN c.unknownAt = now
           ELSE c.unknownAt = att[k].unknownAt
    PROVE  IInv'
<1>1. k = Len(att) /\ state = "running" /\ att[k].unknownAt = 0
    BY LiveAttempt
<1>2. TypeOK /\ now >= 1 /\ now \in Times
    BY DEF IInv, AggregateValid, RecordedByNow, TypeOK
<1>3. now >= asg[c.asg].committed
    BY DEF IInv, AggregateValid, RecordedByNow, AttemptHistory
<1>4. /\ c.state = "attempt_unknown" <=> c.unknownAt # 0
      /\ c.unknownAt # 0 => c.unknownAt >= asg[c.asg].committed
      /\ c.unknownAt <= now
    BY <1>1, <1>2, <1>3 DEF Times
<1>5. \A j \in DOMAIN c.adj : c.adj[j].at <= now
    BY DEF IInv, RecordedByNow
<1>6. QED
    BY <1>1, <1>4, <1>5, AttemptStep

LEMMA TransitionAttemptKeeps ==
    ASSUME IInv, NEW k \in DOMAIN att, NEW to \in Executing, TransitionAttempt(k, to) PROVE IInv'
<1> DEFINE c == [att[k] EXCEPT !.state = to]
<1>1. att[k].state \in Executing
    BY DEF TransitionAttempt, MayMoveTo, AllowedTransitions, Executing
<1>2. att[k] \in Attempts
    BY Histories DEF IInv, AggregateValid
<1>3. /\ c \in Attempts /\ c.state = to /\ c.fence = att[k].fence /\ c.asg = att[k].asg
      /\ c.worker = att[k].worker /\ c.retry = att[k].retry /\ c.adj = att[k].adj
      /\ c.unknownAt = att[k].unknownAt
    BY <1>2 DEF Attempts
<1>4. /\ att' = [att EXCEPT ![k] = c] /\ to # "attempt_unknown" /\ to # "cancelled"
      /\ UNCHANGED <<state, fence, asg, current, intents, pending, cancelAt, stopAt, now>>
    BY DEF TransitionAttempt, Executing
<1> HIDE DEF c
<1>5. QED
    BY <1>1, <1>3, <1>4, LiveStep

LEMMA RecordEventKeeps ==
    ASSUME IInv, NEW k \in DOMAIN att, NEW w, NEW n, NEW seq \in 1..MaxEvents,
           RecordEvent(k, w, n, seq)
    PROVE  IInv'
<1> DEFINE c == [att[k] EXCEPT !.events = seq]
<1>1. att[k].state \in Executing
    BY DEF RecordEvent, AcceptsEvent
<1>2. att[k] \in Attempts
    BY Histories DEF IInv, AggregateValid
<1>3. /\ c \in Attempts /\ c.state = att[k].state /\ c.fence = att[k].fence /\ c.asg = att[k].asg
      /\ c.worker = att[k].worker /\ c.retry = att[k].retry /\ c.adj = att[k].adj
      /\ c.unknownAt = att[k].unknownAt
    BY <1>2 DEF Attempts
<1>4. /\ att' = [att EXCEPT ![k] = c] /\ c.state # "attempt_unknown" /\ c.state # "cancelled"
      /\ UNCHANGED <<state, fence, asg, current, intents, pending, cancelAt, stopAt, now>>
    BY <1>1, <1>3 DEF RecordEvent, Executing
<1> HIDE DEF c
<1>5. QED
    BY <1>1, <1>3, <1>4, LiveStep

LEMMA MarkUnknownKeeps == ASSUME IInv, NEW k \in DOMAIN att, MarkUnknown(k) PROVE IInv'
<1> DEFINE c == [att[k] EXCEPT !.state = "attempt_unknown", !.unknownAt = now]
<1>1. att[k].state \in Executing
    BY DEF MarkUnknown, UnknownEligible
<1>2. att[k] \in Attempts /\ now \in Times
    BY Histories DEF IInv, AggregateValid, TypeOK
<1>3. /\ c \in Attempts /\ c.state = "attempt_unknown" /\ c.fence = att[k].fence
      /\ c.asg = att[k].asg /\ c.worker = att[k].worker /\ c.retry = att[k].retry
      /\ c.adj = att[k].adj /\ c.unknownAt = now
    BY <1>2 DEF Attempts, TerminalAttempt
<1>4. /\ att' = [att EXCEPT ![k] = c]
      /\ UNCHANGED <<state, fence, asg, current, intents, pending, cancelAt, stopAt, now>>
    BY <1>2 DEF MarkUnknown
<1> HIDE DEF c
<1>5. QED
    BY <1>1, <1>3, <1>4, LiveStep

LEMMA FinalizeEvidenceKeeps ==
    ASSUME IInv, NEW k \in DOMAIN att, NEW w, NEW n, NEW outcome \in Failed \cup {"passed"},
           FinalizeEvidence(k, w, n, outcome)
    PROVE  IInv'
<1> DEFINE c == [att[k] EXCEPT !.state = outcome]
<1>1. att[k].state \in Executing
    BY DEF FinalizeEvidence, Finalize, Executing
<1>2. att[k] \in Attempts /\ outcome \in TerminalAttempt
    BY Histories DEF IInv, AggregateValid, TerminalAttempt
<1>3. /\ c \in Attempts /\ c.state = outcome /\ c.fence = att[k].fence /\ c.asg = att[k].asg
      /\ c.worker = att[k].worker /\ c.retry = att[k].retry /\ c.adj = att[k].adj
      /\ c.unknownAt = att[k].unknownAt
    BY <1>2 DEF Attempts
<1>4. /\ att' = [att EXCEPT ![k] = c] /\ outcome # "attempt_unknown" /\ outcome # "cancelled"
      /\ UNCHANGED <<state, fence, asg, current, intents, pending, cancelAt, stopAt, now>>
    BY DEF FinalizeEvidence, Finalize, Failed
<1> HIDE DEF c
<1>5. QED
    BY <1>1, <1>3, <1>4, LiveStep

\* A decision on an unknown attempt is the last word until the next one.
LEMMA AdjudicationKeeps ==
    ASSUME IInv, NEW k \in DOMAIN att, NEW d \in Decisions, AppendAdjudication(k, d) PROVE IInv'
<1> DEFINE R == [decision : Decisions, at : Times]
           x == [decision |-> d, at |-> now]
           old == att[k].adj
           new == Append(old, x)
           c == Adjudicated(att[k], d)
<1>1. /\ k = Len(att) /\ state = "running"
      /\ att' = [att EXCEPT ![k] = c]
      /\ UNCHANGED <<state, fence, asg, current, intents, pending, cancelAt, stopAt, now>>
    BY DEF AppendAdjudication, IsCurrentAttempt
<1>2. /\ TypeOK /\ att[k] \in Attempts /\ now \in Times /\ AttemptValid(k)
      /\ att[k].unknownAt <= now /\ \A j \in DOMAIN old : old[j].at <= now
    BY Histories DEF IInv, AggregateValid, TypeOK, RecordedByNow
<1>3. old \in Seq(R) /\ x \in R
    BY <1>2 DEF Attempts
<1> HIDE DEF R
<1>4. /\ new \in Seq(R) /\ DOMAIN new = DOMAIN old \cup {Len(old) + 1}
      /\ new[Len(old) + 1] = x /\ \A j \in DOMAIN old : new[j] = old[j]
      /\ DOMAIN old = 1..Len(old) /\ Len(old) \in Nat
    BY <1>3, SeqExtend, SeqPositions
<1> HIDE DEF new
<1>5. c = [att[k] EXCEPT !.adj = new]
    BY DEF Adjudicated, new
<1>6. /\ c \in Attempts /\ c.state = att[k].state /\ c.fence = att[k].fence /\ c.asg = att[k].asg
      /\ c.worker = att[k].worker /\ c.retry = att[k].retry /\ c.adj = new
      /\ c.unknownAt = att[k].unknownAt
    BY <1>2, <1>4, <1>5 DEF Attempts, R
<1> HIDE DEF c
<1>7. ASSUME NEW j \in DOMAIN new
      PROVE  new[j].at <= now
  <2>1. CASE j \in DOMAIN old
    BY <1>2, <1>4, <2>1
  <2>2. CASE j = Len(old) + 1
    BY <1>2, <1>4, <2>2 DEF Times
  <2>3. QED
    BY <1>4, <1>7, <2>1, <2>2
<1>8. /\ att[k].state = "attempt_unknown" <=> att[k].unknownAt # 0
      /\ att[k].unknownAt # 0 => att[k].unknownAt >= asg[att[k].asg].committed
    BY <1>2 DEF AttemptValid, IInv, AggregateValid, AttemptHistory
<1>9. att[k].state # "cancelled"
    BY <1>1, <1>2, Histories DEF IInv, AggregateValid, StatePointers, LatestIs
<1>10. QED
    BY <1>1, <1>2, <1>6, <1>7, <1>8, <1>9, AttemptStep

\* A start commit consumes the pending intent and begins the next attempt at the next fence.
LEMMA CommitStartKeeps ==
    ASSUME IInv, NEW i \in DOMAIN asg, NEW w \in Workers, CommitStart(i, w) PROVE IInv'
<1> DEFINE b == Committed(asg[i])
           c == NewAttempt(i, w)
           k == Len(att) + 1
<1>1. /\ state = "assigned" /\ current = i /\ asg[i].worker = w /\ asg[i].state = "claimed"
      /\ now < asg[i].expires /\ Len(att) < MaxAttempts
      /\ fence' = fence + 1 /\ att' = Append(att, c) /\ asg' = [asg EXCEPT ![i] = b]
      /\ state' = "running" /\ pending' = 0
      /\ UNCHANGED <<current, intents, cancelAt, stopAt, now>>
    BY DEF CommitStart, InWindow
<1>2. /\ TypeOK /\ AttemptHistory /\ IntentHistory /\ AssignmentHistory /\ RetryConsumption
      /\ EpochTails /\ RecordedByNow /\ StatePointers /\ CancellationHistory /\ OneLiveAttempt
      /\ \A m \in DOMAIN att : AttemptValid(m)
      /\ \A j \in DOMAIN asg : AssignmentValid(asg[j])
    BY DEF IInv, AggregateValid
<1>3. /\ i = Len(asg) /\ cancelAt = 0 /\ stopAt = 0 /\ asg[i].retry = pending
      /\ asg[i] \in Assignments /\ i # 0
      /\ \A m \in DOMAIN att : att[m].asg # i /\ att[m].state \notin Executing
    BY <1>1, <1>2, OpenReservation, Histories
<1>4. /\ DOMAIN asg = 1..Len(asg) /\ Len(asg) \in Nat /\ DOMAIN att = 1..Len(att)
      /\ Len(att) \in Nat /\ DOMAIN intents = 1..Len(intents) /\ (att = <<>> <=> Len(att) = 0)
      /\ now \in Times /\ now >= 1 /\ fence = Len(att) /\ pending \in 0..MaxAttempts
    BY <1>2, Histories, IntentsInOrder DEF TypeOK, RecordedByNow, AttemptHistory
<1>5. /\ b \in Assignments /\ b.state = "committed" /\ b.committed = now
      /\ b.worker = asg[i].worker /\ b.retry = asg[i].retry /\ b.offered = asg[i].offered
      /\ b.expires = asg[i].expires /\ b.claimed = asg[i].claimed /\ b.closed = asg[i].closed
    BY <1>3, <1>4 DEF Committed, Assignments, AssignmentStates
<1>6. /\ c \in Attempts /\ c.state = "start_committed" /\ c.fence = k /\ c.asg = i /\ c.worker = w
      /\ c.retry = pending /\ c.unknownAt = 0 /\ c.adj = <<>>
  <2>1. <<>> \in Seq([decision : Decisions, at : Times])
    OBVIOUS
  <2>2. QED
    BY <1>4, <2>1 DEF NewAttempt, Attempts, Executing, Times
<1> HIDE DEF b, c
<1>7. /\ asg' \in Seq(Assignments) /\ Len(asg') = Len(asg) /\ DOMAIN asg' = DOMAIN asg
      /\ asg'[i] = b /\ \A j \in DOMAIN asg : j # i => asg'[j] = asg[j]
    BY <1>1, <1>2, <1>5, SeqReplace DEF TypeOK
<1>8. /\ att' \in Seq(Attempts) /\ Len(att') = k /\ DOMAIN att' = DOMAIN att \cup {k}
      /\ k \notin DOMAIN att /\ att'[k] = c /\ \A m \in DOMAIN att : att'[m] = att[m]
    BY <1>1, <1>2, <1>6, SeqExtend DEF TypeOK
<1>9. att' # <<>> /\ k >= 1 /\ k <= MaxAttempts
    BY <1>1, <1>4, <1>8
<1>10. pending # 0 <=> att # <<>>
    BY <1>1, <1>2, IntentsInOrder DEF StatePointers
<1>11. (\A j \in DOMAIN asg : AssignmentValid(asg[j]))'
  <2>1. AssignmentValid(b)
    <3>1. /\ asg[i].claimed # 0 /\ asg[i].closed = 0
          /\ asg[i].offered <= asg[i].claimed /\ asg[i].claimed < asg[i].expires
      BY <1>1, <1>2 DEF AssignmentValid, Closed
    <3>2. asg[i].claimed <= now /\ now # 0
      BY <1>2, <1>4 DEF RecordedByNow
    <3>3. QED
      BY <1>1, <1>5, <3>1, <3>2 DEF AssignmentValid, Closed
  <2>2. QED
    BY <1>2, <1>7, <2>1 DEF AssignmentValid
<1>12. (\A m \in DOMAIN att : AttemptValid(m))'
  <2>1. ASSUME NEW m \in DOMAIN att' PROVE AttemptValid(m)'
    <3>1. CASE m \in DOMAIN att
      BY <1>2, <1>8, <3>1 DEF AttemptValid
    <3>2. CASE m = k
      <4>1. k > 1 <=> pending # 0
        BY <1>4, <1>10
      <4>2. QED
        BY <1>6, <1>8, <3>2, <4>1 DEF AttemptValid
    <3>3. QED
      BY <1>8, <3>1, <3>2
  <2>2. QED
    BY <2>1
<1>13. AttemptHistory'
  <2>1. ASSUME NEW m \in DOMAIN att
        PROVE  /\ att'[m].asg \in DOMAIN asg /\ asg'[att'[m].asg] = asg[att[m].asg]
               /\ att[m].asg # i
    BY <1>2, <1>3, <1>7, <1>8, <2>1 DEF AttemptHistory
  <2>2. ASSUME NEW m \in DOMAIN att'
        PROVE  /\ att'[m].fence = m
               /\ att'[m].asg \in DOMAIN asg'
               /\ asg'[att'[m].asg].state = "committed"
               /\ asg'[att'[m].asg].worker = att'[m].worker
               /\ att'[m].unknownAt # 0 => att'[m].unknownAt >= asg'[att'[m].asg].committed
               /\ asg'[att'[m].asg].retry = att'[m].retry
    <3>1. CASE m \in DOMAIN att
      BY <1>2, <1>7, <1>8, <2>1, <3>1 DEF AttemptHistory
    <3>2. CASE m = k
      BY <1>1, <1>3, <1>5, <1>6, <1>7, <1>8, <3>2
    <3>3. QED
      BY <1>8, <2>2, <3>1, <3>2
  <2>3. ASSUME NEW m \in DOMAIN att', m > 1
        PROVE  /\ att'[m].retry \in DOMAIN intents
               /\ intents[att'[m].retry].source = m - 1
               /\ att'[m - 1].asg < att'[m].asg
    <3>1. CASE m \in DOMAIN att
      <4>1. m - 1 \in DOMAIN att
        BY <1>4, <2>3, <3>1
      <4>2. QED
        BY <1>2, <1>8, <2>3, <3>1, <4>1 DEF AttemptHistory
    <3>2. CASE m = k
      <4>1. pending \in DOMAIN intents /\ intents[pending].source = Len(att) /\ m - 1 = Len(att)
        BY <1>2, <1>4, <1>10, <2>3, <3>2, IntentsInOrder DEF IntentHistory
      <4>2. Len(att) \in DOMAIN att
        BY <1>4, <2>3, <3>2
      <4>3. att[Len(att)].asg \in 1..Len(asg) /\ att[Len(att)].asg # Len(asg)
        BY <1>2, <1>3, <1>4, <4>2 DEF AttemptHistory
      <4>4. QED
        BY <1>3, <1>4, <1>6, <1>8, <3>2, <4>1, <4>2, <4>3
    <3>3. QED
      BY <1>8, <2>3, <3>1, <3>2
  <2>4. fence' = Len(att')
    BY <1>1, <1>4, <1>8
  <2>5. QED
    BY <1>1, <2>2, <2>3, <2>4 DEF AttemptHistory
<1>14. IntentHistory'
  <2>1. ASSUME NEW n \in DOMAIN intents
        PROVE  /\ intents[n].source \in DOMAIN att /\ intents[n].source \in DOMAIN att'
               /\ Authoritative(intents[n], intents[n].source)'
               /\ intents[n].outcome = "unknown" =>
                    intents[n].created >= att'[intents[n].source].adj[intents[n].adj].at
    BY <1>1, <1>2, <1>8, <2>1 DEF IntentHistory, Authoritative
  <2>2. QED
    BY <1>1, <1>2, <2>1 DEF IntentHistory
<1>15. AssignmentHistory'
  <2>1. ASSUME NEW j \in DOMAIN asg
        PROVE  /\ asg'[j].retry # 0 => /\ asg'[j].retry \in DOMAIN intents
                                       /\ asg'[j].offered >= intents[asg'[j].retry].created
               /\ asg'[j].state = "committed" => \E m \in DOMAIN att' : att'[m].asg = j
    <3>1. CASE j = i
      BY <1>2, <1>5, <1>6, <1>7, <1>8, <3>1 DEF AssignmentHistory
    <3>2. CASE j # i
      BY <1>2, <1>7, <1>8, <2>1, <3>2 DEF AssignmentHistory
    <3>3. QED
      BY <3>1, <3>2
  <2>2. ASSUME NEW j \in DOMAIN asg
        PROVE  /\ asg'[j].state \in Closed => j # current
               /\ asg'[j].state \in Open => j = current
    BY <1>1, <1>2, <1>5, <1>7, <2>2 DEF AssignmentHistory, Open, Closed
  <2>3. ASSUME NEW j \in DOMAIN asg, j > 1
        PROVE  /\ asg'[j - 1].retry <= asg'[j].retry
               /\ asg'[j].offered >= EndedAt(asg'[j - 1])
    <3>1. j - 1 \in DOMAIN asg /\ j - 1 # i
      BY <1>3, <1>4, <2>3
    <3>2. asg'[j - 1] = asg[j - 1] /\ asg'[j].retry = asg[j].retry /\ asg'[j].offered = asg[j].offered
      BY <1>5, <1>7, <2>3, <3>1
    <3>3. asg[j - 1].retry <= asg[j].retry /\ asg[j].offered >= EndedAt(asg[j - 1])
      BY <1>2, <2>3 DEF AssignmentHistory
    <3>4. QED
      BY <3>2, <3>3 DEF EndedAt
  <2>4. QED
    BY <1>1, <1>2, <1>7, <2>1, <2>2, <2>3 DEF AssignmentHistory, EndedAt
<1>16. RetryConsumption'
  <2>1. ASSUME NEW m \in DOMAIN att' PROVE att'[m].retry = m - 1
    <3>1. pending = Len(att)
      BY <1>4, <1>10, IntentsInOrder
    <3>2. k - 1 = Len(att)
      BY <1>4
    <3>3. QED
      BY <1>2, <1>6, <1>8, <2>1, <3>1, <3>2 DEF RetryConsumption
  <2>2. Len(intents) = Len(att)
    <3>1. CASE pending # 0
      BY <3>1, IntentsInOrder
    <3>2. CASE pending = 0
      BY <1>2, <1>4, <1>10, <3>2 DEF RetryConsumption
    <3>3. QED
      BY <3>1, <3>2
  <2>3. QED
    BY <1>1, <1>4, <1>8, <1>9, <2>1, <2>2 DEF RetryConsumption
<1>17. EpochTails'
  <2>1. ASSUME NEW m \in DOMAIN att', NEW j \in DOMAIN asg, j > att'[m].asg
        PROVE  asg'[j].retry # att'[m].retry
    <3>1. CASE m \in DOMAIN att
      BY <1>2, <1>5, <1>7, <1>8, <2>1, <3>1 DEF EpochTails
    <3>2. CASE m = k
      BY <1>3, <1>4, <1>6, <1>8, <2>1, <3>2
    <3>3. QED
      BY <1>8, <3>1, <3>2
  <2>2. QED
    BY <1>7, <2>1 DEF EpochTails
<1>18. RecordedByNow'
  <2>1. ASSUME NEW j \in DOMAIN asg
        PROVE  /\ asg'[j].offered <= now /\ asg'[j].claimed <= now
               /\ asg'[j].committed <= now /\ asg'[j].closed <= now
    <3>1. now <= now
      BY <1>4 DEF Times
    <3>2. QED
      BY <1>2, <1>5, <1>7, <2>1, <3>1 DEF RecordedByNow
  <2>2. ASSUME NEW m \in DOMAIN att'
        PROVE  /\ att'[m].unknownAt <= now
               /\ \A j \in DOMAIN att'[m].adj : att'[m].adj[j].at <= now
    <3>1. 0 <= now /\ DOMAIN c.adj = {}
      BY <1>4, <1>6 DEF Times
    <3>2. QED
      BY <1>2, <1>6, <1>8, <2>2, <3>1 DEF RecordedByNow
  <2>3. QED
    BY <1>1, <1>2, <1>7, <2>1, <2>2 DEF RecordedByNow
<1>19. TypeOK'
    BY <1>1, <1>2, <1>4, <1>7, <1>8 DEF TypeOK, RunStates
<1>20. CancellationHistory'
    BY <1>1, <1>2, <1>3, <1>5, <1>7 DEF CancellationHistory
<1>21. StatePointers'
    BY <1>1, <1>3, <1>5, <1>6, <1>7, <1>8 DEF StatePointers, LatestIs
<1>22. OneLiveAttempt'
    BY <1>1, <1>3, <1>4, <1>6, <1>8 DEF OneLiveAttempt
<1>23. QED
    BY <1>8, <1>9, <1>11, <1>12, <1>13, <1>14, <1>15, <1>16, <1>17, <1>18, <1>19, <1>20, <1>21, <1>22
    DEF IInv, AggregateValid

----------------------------------------------------------------------------
(* Retries and cancellation *)

\* A retry that is queued rests on the last word about the latest attempt.
LEMMA QueueRetryKeeps ==
    ASSUME IInv, NEW k \in DOMAIN att, k = Len(att), NEW n \in Intents, n.source = k, n.created = now,
           Authoritative(n, k), QueueRetry(n)
    PROVE  IInv'
<1> DEFINE x == Len(intents) + 1
<1>1. /\ cancelAt = 0 /\ state = "running" /\ pending = 0 /\ state' = "retry_queued"
      /\ current' = 0 /\ intents' = Append(intents, n) /\ pending' = x
      /\ UNCHANGED <<fence, asg, att, cancelAt, stopAt, now>>
    BY DEF QueueRetry
<1>2. /\ TypeOK /\ AttemptHistory /\ IntentHistory /\ AssignmentHistory /\ RetryConsumption
      /\ EpochTails /\ RecordedByNow /\ StatePointers /\ CancellationHistory /\ OneLiveAttempt
      /\ \A m \in DOMAIN att : AttemptValid(m)
      /\ \A j \in DOMAIN asg : AssignmentValid(asg[j])
    BY DEF IInv, AggregateValid
<1>3. /\ intents' \in Seq(Intents) /\ Len(intents') = x /\ DOMAIN intents' = DOMAIN intents \cup {x}
      /\ x \notin DOMAIN intents /\ intents'[x] = n
      /\ \A m \in DOMAIN intents : intents'[m] = intents[m]
    BY <1>1, <1>2, SeqExtend DEF TypeOK
<1>4. /\ stopAt = 0 /\ \A i \in DOMAIN asg : asg[i].state \notin Open
      /\ \A m \in DOMAIN intents : intents[m].source < Len(att)
      /\ Len(intents) \in Nat /\ now \in Times /\ Len(att) \in Nat /\ DOMAIN asg = 1..Len(asg)
    BY <1>1, <1>2, RunningRun, Histories DEF TypeOK
<1>5. att[k].state \in TerminalAttempt /\ att[k].state # "cancelled"
    BY DEF Authoritative, TerminalAttempt, Failed
<1>6. /\ (\A m \in DOMAIN att : AttemptValid(m))'
      /\ (\A j \in DOMAIN asg : AssignmentValid(asg[j]))'
      /\ EpochTails'
    BY <1>1, <1>2 DEF AttemptValid, AssignmentValid, EpochTails
<1>7. AttemptHistory'
    BY <1>1, <1>2, <1>3 DEF AttemptHistory
<1>8. IntentHistory'
  <2>1. ASSUME NEW m \in DOMAIN intents'
        PROVE  /\ intents'[m].source \in DOMAIN att
               /\ Authoritative(intents[m], intents[m].source)'
               /\ intents'[m].outcome = "unknown" =>
                    intents'[m].created >= att[intents'[m].source].adj[intents'[m].adj].at
    <3>1. CASE m \in DOMAIN intents
      BY <1>1, <1>2, <1>3, <3>1 DEF IntentHistory, Authoritative
    <3>2. CASE m = x
      <4>1. Authoritative(n, k)'
        BY <1>1 DEF Authoritative
      <4>2. intents'[m] = n
        BY <1>3, <3>2
      <4>3. ASSUME n.outcome = "unknown"
            PROVE  now >= att[k].adj[n.adj].at
        <5>1. n.adj = Len(att[k].adj) /\ att[k].adj # <<>>
          BY <4>3 DEF Authoritative, Failed
        <5>2. att[k].adj \in Seq([decision : Decisions, at : Times])
          BY <1>2, Histories DEF Attempts
        <5>3. n.adj \in DOMAIN att[k].adj
          BY <5>1, <5>2, SeqPositions
        <5>4. QED
          BY <1>2, <5>3 DEF RecordedByNow
      <4>4. QED
        BY <4>1, <4>2, <4>3
    <3>3. QED
      BY <1>3, <2>1, <3>1, <3>2
  <2>2. ASSUME NEW m \in DOMAIN intents', NEW l \in DOMAIN intents', l # m
        PROVE  \/ intents'[l].source # intents'[m].source
               \/ intents'[l].adj # intents'[m].adj
               \/ intents'[l].outcome # intents'[m].outcome
    <3>1. CASE l \in DOMAIN intents /\ m \in DOMAIN intents
      BY <1>2, <1>3, <2>2, <3>1 DEF IntentHistory
    <3>2. CASE l = x /\ m \in DOMAIN intents
      BY <1>3, <1>4, <3>2
    <3>3. CASE m = x /\ l \in DOMAIN intents
      BY <1>3, <1>4, <3>3
    <3>4. QED
      BY <1>3, <2>2, <3>1, <3>2, <3>3
  <2>3. pending' = Len(intents') /\ intents'[pending'].source = Len(att)
    BY <1>1, <1>3
  <2>4. QED
    BY <1>1, <2>1, <2>2, <2>3 DEF IntentHistory
<1>9. AssignmentHistory'
    BY <1>1, <1>2, <1>3, <1>4 DEF AssignmentHistory, EndedAt
<1>10. RetryConsumption'
  <2>1. att # <<>>
    BY <1>2, Histories
  <2>2. QED
    BY <1>1, <1>2, <1>3, <1>4, <2>1 DEF RetryConsumption
<1>11. RecordedByNow'
  <2>1. now <= now
    BY <1>4 DEF Times
  <2>2. QED
    BY <1>1, <1>2, <1>3, <2>1 DEF RecordedByNow
<1>12. TypeOK'
    BY <1>1, <1>2, <1>3, <1>4 DEF TypeOK, RunStates
<1>13. CancellationHistory'
    BY <1>1, <1>2 DEF CancellationHistory, EndedAt
<1>14. StatePointers'
    BY <1>1, <1>4, <1>5 DEF StatePointers, LatestIs
<1>15. OneLiveAttempt'
  <2>1. att[k].state \notin Executing
    BY <1>5 DEF TerminalAttempt, Failed, Executing
  <2>2. QED
    BY <1>1, <1>2, <2>1 DEF OneLiveAttempt
<1>16. QED
    BY <1>1, <1>6, <1>7, <1>8, <1>9, <1>10, <1>11, <1>12, <1>13, <1>14, <1>15 DEF IInv, AggregateValid

LEMMA RetryKeeps ==
    ASSUME IInv, NEW k \in DOMAIN att,
           \/ \E j \in 1..MaxAdjudications : QueueAdjudicatedRetry(k, j)
           \/ \E outcome \in Failed : QueuePolicyRetry(k, outcome)
    PROVE  IInv'
<1>1. k = Len(att) /\ now \in Times /\ k \in Nat
    BY Histories
    DEF QueueAdjudicatedRetry, QueuePolicyRetry, IsCurrentAttempt, IInv, AggregateValid, TypeOK
<1>2. ASSUME NEW j \in 1..MaxAdjudications, QueueAdjudicatedRetry(k, j)
      PROVE  IInv'
  <2> DEFINE n == [source |-> k, adj |-> j, outcome |-> "unknown", created |-> now]
  <2>1. n \in Intents /\ n.source = k /\ n.created = now /\ Authoritative(n, k) /\ QueueRetry(n)
    BY <1>1, <1>2 DEF QueueAdjudicatedRetry, Intents
  <2> HIDE DEF n
  <2>2. QED
    BY <1>1, <2>1, QueueRetryKeeps
<1>3. ASSUME NEW outcome \in Failed, QueuePolicyRetry(k, outcome)
      PROVE  IInv'
  <2> DEFINE n == [source |-> k, adj |-> 0, outcome |-> outcome, created |-> now]
  <2>1. n \in Intents /\ n.source = k /\ n.created = now /\ Authoritative(n, k) /\ QueueRetry(n)
    BY <1>1, <1>3 DEF QueuePolicyRetry, Intents
  <2> HIDE DEF n
  <2>2. QED
    BY <1>1, <2>1, QueueRetryKeeps
<1>4. QED
    BY <1>2, <1>3

\* A cancel request closes what is not running yet and waits for what is.
LEMMA RequestCancelKeeps == ASSUME IInv, RequestCancel PROVE IInv'
<1>1. /\ cancelAt = 0 /\ state \in {"queued", "assigned", "running", "retry_queued"}
      /\ cancelAt' = now /\ state' = IF state = "running" THEN "running" ELSE "cancelled"
      /\ UNCHANGED <<fence, att, intents, pending, stopAt, now>>
    BY DEF RequestCancel, StateAfterCancel
<1>2. /\ TypeOK /\ RecordedByNow /\ StatePointers /\ CancellationHistory /\ OneLiveAttempt
      /\ AssignmentHistory /\ now \in Times /\ now >= 1 /\ now <= now /\ stopAt = 0 /\ now # 0
    BY <1>1 DEF IInv, AggregateValid, TypeOK, RecordedByNow, Times, StatePointers
<1>3. OneLiveAttempt' \/ state = "assigned" \/ current' # current
    BY <1>1, <1>2 DEF OneLiveAttempt
<1>4. pending # 0 => intents[pending].created <= now
    BY <1>2, IntentsInOrder DEF RecordedByNow
<1>5. \A i \in DOMAIN asg : asg[i].state # "cancelled_prestart"
    BY <1>1, <1>2 DEF CancellationHistory
<1>6. CASE state = "assigned"
  <2> DEFINE kind == CancelledClosure(current)
  <2>1. /\ asg' = [asg EXCEPT ![current] = ClosedAs(@, kind)] /\ current' = 0
        /\ state' = "cancelled"
    BY <1>1, <1>6 DEF RequestCancel
  <2>2. /\ current = Len(asg) /\ current \in DOMAIN asg /\ asg[current] \in Assignments
        /\ \A k \in DOMAIN att : att[k].state \notin Executing
    BY <1>6, OpenReservation
  <2>3. /\ kind \in Closed /\ (kind = "expired_prestart" => now >= asg[current].expires)
        /\ kind # "expired_prestart" => InWindow(current)
    BY <1>2, <2>2 DEF CancelledClosure, Closed, InWindow, Assignments, Times
  <2> HIDE DEF kind
  <2>4. /\ asg' \in Seq(Assignments) /\ Len(asg') = Len(asg) /\ DOMAIN asg' = DOMAIN asg
        /\ asg'[current].state = kind /\ asg'[current].closed = now
        /\ \A j \in DOMAIN asg : j # current => asg'[j] = asg[j]
        /\ (\A j \in DOMAIN asg : AssignmentValid(asg[j]))'
        /\ AttemptHistory' /\ AssignmentHistory' /\ EpochTails' /\ RecordedByNow'
        /\ \A j \in DOMAIN asg : EndedAt(asg'[j]) <= now
    BY <1>1, <1>2, <1>6, <2>1, <2>3, ReservationCloses
  <2>5. TypeOK'
    BY <1>1, <1>2, <2>1, <2>4 DEF TypeOK, RunStates
  <2>6. CancellationHistory'
    BY <1>1, <1>2, <1>4, <1>5, <2>1, <2>2, <2>4 DEF CancellationHistory, EndedAt
  <2>7. StatePointers'
    BY <1>1, <1>2, <1>6, <2>1 DEF StatePointers, LatestIs
  <2>8. OneLiveAttempt'
    BY <1>1, <2>2 DEF OneLiveAttempt
  <2>9. QED
    BY <1>1, <2>4, <2>5, <2>6, <2>7, <2>8, AttemptsAlone DEF IInv, AggregateValid
<1>7. CASE state # "assigned"
  <2>1. UNCHANGED <<asg, current>>
    BY <1>7 DEF RequestCancel
  <2>2. TypeOK' /\ RecordedByNow' /\ AssignmentHistory'
    BY <1>1, <1>2, <2>1 DEF TypeOK, RunStates, RecordedByNow, AssignmentHistory, EndedAt
  <2>3. CancellationHistory'
    <3>1. \A i \in DOMAIN asg : EndedAt(asg[i]) <= now
      BY <1>2 DEF RecordedByNow, EndedAt
    <3>2. QED
      BY <1>1, <1>4, <1>5, <2>1, <3>1 DEF CancellationHistory, EndedAt
  <2>4. StatePointers'
    BY <1>1, <1>2, <1>7, <2>1 DEF StatePointers, LatestIs
  <2>5. OneLiveAttempt'
    BY <1>1, <1>2, <2>1 DEF OneLiveAttempt
  <2>6. QED
    BY <1>1, <2>1, <2>2, <2>3, <2>4, <2>5, AttemptsAlone, ReservationsAlone DEF IInv, AggregateValid
<1>8. QED
    BY <1>6, <1>7

\* A stop proof ends the execution and the Run.
LEMMA FinalizeCancelledKeeps ==
    ASSUME IInv, NEW k \in DOMAIN att, NEW w, NEW n, NEW s \in TrustedStops,
           FinalizeCancelled(k, w, n, s)
    PROVE  IInv'
<1> DEFINE c == [att[k] EXCEPT !.state = "cancelled"]
<1>1. /\ cancelAt # 0 /\ s >= cancelAt /\ state = "running" /\ att[k].state = "uploading"
      /\ att' = [att EXCEPT ![k] = c] /\ state' = "cancelled" /\ current' = 0 /\ stopAt' = s
      /\ UNCHANGED <<fence, asg, intents, pending, cancelAt, now>>
    BY DEF FinalizeCancelled, StopProves, Finalize
<1>2. /\ k = Len(att) /\ att[k].unknownAt = 0
    BY <1>1, LiveAttempt DEF Executing
<1>3. att[k] \in Attempts /\ TypeOK /\ now \in Times
    BY Histories DEF IInv, AggregateValid, TypeOK
<1>4. /\ c \in Attempts /\ c.state = "cancelled" /\ c.fence = att[k].fence /\ c.asg = att[k].asg
      /\ c.worker = att[k].worker /\ c.retry = att[k].retry /\ c.adj = att[k].adj
      /\ c.unknownAt = 0
    BY <1>2, <1>3 DEF Attempts, TerminalAttempt
<1> HIDE DEF c
<1>5. 0 <= now /\ s \in Times /\ s # 0 /\ \A j \in DOMAIN c.adj : c.adj[j].at <= now
    BY <1>3, <1>4 DEF Times, TrustedStops, IInv, RecordedByNow
<1>6. /\ att' \in Seq(Attempts) /\ Len(att') = Len(att) /\ DOMAIN att' = DOMAIN att
      /\ att'[k] = c /\ \A m \in DOMAIN att : m # k => att'[m] = att[m]
      /\ (\A m \in DOMAIN att : AttemptValid(m))' /\ AttemptHistory' /\ IntentHistory'
      /\ AssignmentHistory' /\ RetryConsumption' /\ EpochTails' /\ RecordedByNow'
      /\ Len(att') <= MaxAttempts /\ (att # <<>>)'
    BY <1>1, <1>2, <1>4, <1>5, AttemptMoves
<1>7. TypeOK'
    BY <1>1, <1>3, <1>5, <1>6 DEF TypeOK, RunStates
<1>8. pending = 0 /\ \A i \in DOMAIN asg : asg[i].state # "cancelled_prestart"
    BY <1>1, RunningRun
<1>9. (\A i \in DOMAIN asg : AssignmentValid(asg[i]))' /\ CancellationHistory'
    BY <1>1, <1>8 DEF IInv, AggregateValid, AssignmentValid, CancellationHistory, EndedAt
<1>10. StatePointers'
    BY <1>1, <1>2, <1>4, <1>5, <1>6, <1>8 DEF StatePointers, LatestIs
<1>11. OneLiveAttempt'
  <2>1. ASSUME NEW m \in DOMAIN att PROVE att'[m].state \notin Executing
    BY <1>2, <1>4, <1>6, <2>1, LiveAttempt DEF Executing
  <2>2. QED
    BY <1>6, <2>1 DEF OneLiveAttempt
<1>12. QED
    BY <1>6, <1>7, <1>9, <1>10, <1>11 DEF IInv, AggregateValid

----------------------------------------------------------------------------
(* Theorems *)

\* No accepted command breaks the invariant.
LEMMA Inductive == IInv /\ [Next]_vars => IInv'
<1> SUFFICES ASSUME IInv, [Next]_vars PROVE IInv'
    OBVIOUS
<1>1. CASE UNCHANGED vars
  <2>1. UNCHANGED <<state, fence, asg, current, att, intents, pending, cancelAt, stopAt, now>>
    BY <1>1 DEF vars
  <2>2. TypeOK' /\ AssignmentHistory' /\ CancellationHistory' /\ StatePointers'
    BY <2>1 DEF IInv, AggregateValid, TypeOK, AssignmentHistory, CancellationHistory,
                StatePointers, LatestIs, EndedAt
  <2>3. RecordedByNow' /\ OneLiveAttempt'
    BY <2>1 DEF IInv, RecordedByNow, OneLiveAttempt
  <2>4. QED
    BY <2>1, <2>2, <2>3, AttemptsAlone, ReservationsAlone DEF IInv, AggregateValid
<1>2. ASSUME NEW i \in DOMAIN asg, ExpirePrecommit(i)
      PROVE  IInv'
    BY <1>2, ClosePrecommitKeeps DEF ExpirePrecommit
<1>3. ASSUME NEW i \in DOMAIN asg, NEW w \in Workers, ReleasePrecommit(i, w)
      PROVE  IInv'
    BY <1>3, ClosePrecommitKeeps DEF ReleasePrecommit
<1>4. CASE ReservationNext
    BY <1>2, <1>3, <1>4, OfferKeeps, ClaimKeeps, CommitStartKeeps DEF ReservationNext
<1>5. ASSUME NEW k \in DOMAIN att, AttemptNext(k)
      PROVE  IInv'
  <2>1. ASSUME NEW w \in Workers, NEW n \in 1..fence,
               \/ \E seq \in 1..MaxEvents : RecordEvent(k, w, n, seq)
               \/ \E outcome \in Failed \cup {"passed"} : FinalizeEvidence(k, w, n, outcome)
               \/ \E s \in TrustedStops : FinalizeCancelled(k, w, n, s)
        PROVE  IInv'
    BY <2>1, RecordEventKeeps, FinalizeEvidenceKeeps, FinalizeCancelledKeeps
  <2>2. QED
    BY <1>5, <2>1, TransitionAttemptKeeps, MarkUnknownKeeps, AdjudicationKeeps, RetryKeeps
    DEF AttemptNext, MarkCancelStopUnproven
<1>6. QED
    BY <1>1, <1>4, <1>5, TickKeeps, EnqueueKeeps, RequestCancelKeeps DEF Next

LEMMA Invariance == Spec => []IInv
BY InitIInv, Inductive, PTL DEF Spec

\* Whatever sequence of commands passes its own guards, the constructors (__post_init__ of
\* Run, Assignment and Attempt) find nothing wrong with the aggregate, the window of a new
\* reservation and the decisions of an attempt apart.  The proof does not open
\* WindowAccepted and AdjudicationAccepted: it does not rest on what the constructors refuse.
THEOREM AggregatesAreValid == Spec => []AggregateValid
<1>1. IInv => AggregateValid
    BY DEF IInv
<1>2. QED
    BY <1>1, Invariance, PTL

\* At most one execution is under way, the latest, at the Run's fence.
THEOREM OneAttemptLives == Spec => []OneLiveAttempt
<1>1. IInv => OneLiveAttempt
    BY DEF IInv
<1>2. QED
    BY <1>1, Invariance, PTL

\* Nothing runs again unless it failed or the last word on its unknown outcome allows it.
THEOREM RetriesHaveAuthority == Spec => []RetriesAreAuthorized
<1>1. ASSUME IInv, NEW k \in DOMAIN att, k > 1
      PROVE  \/ att[k - 1].state \in Failed
             \/ /\ att[k - 1].state = "attempt_unknown"
                /\ att[k - 1].adj # <<>>
                /\ att[k - 1].adj[Len(att[k - 1].adj)].decision \in PermitsRetry
  <2>1. PICK n \in DOMAIN intents : intents[n].source = k - 1
    BY <1>1 DEF IInv, AggregateValid, AttemptHistory
  <2>2. Authoritative(intents[n], k - 1)
    BY <1>1, <2>1 DEF IInv, AggregateValid, IntentHistory
  <2>3. QED
    BY <2>2 DEF Authoritative
<1>2. IInv => RetriesAreAuthorized
    BY <1>1 DEF RetriesAreAuthorized
<1>3. QED
    BY <1>2, Invariance, PTL

\* What a command does to the attempts: it adds one to a Run that was assigned, or moves
\* the latest one of a Run that is running, which is under way or is unknown and is given
\* one more decision.
LEMMA AttemptEffects ==
    ASSUME IInv, [Next]_vars
    PROVE  \/ att' = att
           \/ /\ state = "assigned" /\ Len(att') = Len(att) + 1
              /\ \A k \in DOMAIN att : att'[k] = att[k]
           \/ /\ state = "running" /\ pending = 0 /\ Len(att') = Len(att)
              /\ \A k \in DOMAIN att :
                    \/ att'[k] = att[k]
                    \/ k = Len(att) /\ att[k].state \in Executing
                    \/ /\ k = Len(att) /\ att[k].state = "attempt_unknown"
                       /\ att'[k].state = att[k].state /\ att'[k].events = att[k].events
<1> DEFINE Moves ==
             /\ state = "running" /\ pending = 0 /\ Len(att') = Len(att)
             /\ \A k \in DOMAIN att :
                   \/ att'[k] = att[k]
                   \/ k = Len(att) /\ att[k].state \in Executing
                   \/ /\ k = Len(att) /\ att[k].state = "attempt_unknown"
                      /\ att'[k].state = att[k].state /\ att'[k].events = att[k].events
<1>1. att \in Seq(Attempts) /\ \A k \in DOMAIN att : att[k] \in Attempts
    BY Histories DEF IInv, AggregateValid, TypeOK
<1>2. ASSUME NEW i \in DOMAIN asg, NEW w \in Workers, CommitStart(i, w)
      PROVE  /\ state = "assigned" /\ Len(att') = Len(att) + 1
             /\ \A k \in DOMAIN att : att'[k] = att[k]
    BY <1>1, <1>2 DEF CommitStart
<1>3. ASSUME NEW k \in DOMAIN att, att[k].state \in Executing, NEW c, att' = [att EXCEPT ![k] = c]
      PROVE  Moves
  <2>1. k = Len(att) /\ state = "running" /\ pending = 0
    BY <1>3, LiveAttempt, RunningRun
  <2>2. Len(att') = Len(att) /\ \A m \in DOMAIN att : m # k => att'[m] = att[m]
    BY <1>1, <1>3
  <2>3. QED
    BY <1>3, <2>1, <2>2
<1>4. ASSUME NEW k \in DOMAIN att, NEW d \in Decisions, AppendAdjudication(k, d)
      PROVE  Moves
  <2> DEFINE c == Adjudicated(att[k], d)
  <2>1. /\ k = Len(att) /\ state = "running" /\ pending = 0 /\ att[k].state = "attempt_unknown"
        /\ att' = [att EXCEPT ![k] = c]
    BY <1>4 DEF AppendAdjudication, AdjudicationAccepted, IsCurrentAttempt
  <2>2. c.state = att[k].state /\ c.events = att[k].events
    BY <1>1 DEF Adjudicated, Attempts
  <2> HIDE DEF c
  <2>3. /\ Len(att') = Len(att) /\ att'[k] = c
        /\ \A m \in DOMAIN att : m # k => att'[m] = att[m]
    BY <1>1, <2>1
  <2>4. QED
    BY <2>1, <2>2, <2>3
<1> HIDE DEF Moves
<1>5. ASSUME NEW k \in DOMAIN att, AttemptNext(k)
      PROVE  att' = att \/ Moves
  <2>1. ASSUME NEW to \in Executing, TransitionAttempt(k, to)
        PROVE  Moves
    <3>1. att[k].state \in Executing
      BY <2>1 DEF TransitionAttempt, MayMoveTo, AllowedTransitions, Executing
    <3>2. QED
      BY <1>3, <2>1, <3>1 DEF TransitionAttempt
  <2>2. ASSUME MarkUnknown(k)
        PROVE  Moves
    <3>1. att[k].state \in Executing
      BY <2>2 DEF MarkUnknown, UnknownEligible
    <3>2. att' = [att EXCEPT ![k] = [att[k] EXCEPT !.state = "attempt_unknown", !.unknownAt = now]]
      BY <1>1, <2>2 DEF MarkUnknown
    <3>3. QED
      BY <1>3, <3>1, <3>2
  <2>3. ASSUME NEW w \in Workers, NEW n \in 1..fence, NEW seq \in 1..MaxEvents,
               RecordEvent(k, w, n, seq)
        PROVE  Moves
    BY <1>3, <2>3 DEF RecordEvent, AcceptsEvent
  <2>4. ASSUME NEW w \in Workers, NEW n \in 1..fence, NEW outcome, Finalize(k, w, n, outcome)
        PROVE  Moves
    BY <1>3, <2>4 DEF Finalize, Executing
  <2>5. ASSUME \/ \E j \in 1..MaxAdjudications : QueueAdjudicatedRetry(k, j)
               \/ \E outcome \in Failed : QueuePolicyRetry(k, outcome)
        PROVE  att' = att
    BY <2>5 DEF QueueAdjudicatedRetry, QueuePolicyRetry, QueueRetry
  <2>6. ASSUME NEW w \in Workers, NEW n \in 1..fence,
               \/ \E seq \in 1..MaxEvents : RecordEvent(k, w, n, seq)
               \/ \E outcome \in Failed \cup {"passed"} : FinalizeEvidence(k, w, n, outcome)
               \/ \E s \in TrustedStops : FinalizeCancelled(k, w, n, s)
        PROVE  Moves
    BY <2>3, <2>4, <2>6 DEF FinalizeEvidence, FinalizeCancelled
  <2>7. QED
    BY <1>4, <1>5, <2>1, <2>2, <2>5, <2>6 DEF AttemptNext, MarkCancelStopUnproven
<1>6. CASE ReservationNext
    BY <1>2, <1>6
    DEF ReservationNext, Offer, Claim, ReleasePrecommit, ExpirePrecommit, ClosePrecommit
<1>7. att' = att \/ Moves \/ ReservationNext
    BY <1>5 DEF Next, vars, Tick, Enqueue, RequestCancel
<1>8. QED
    BY <1>6, <1>7 DEF Moves

\* Once a cancel request is accepted no further execution is started.
THEOREM CancelStopsExecutions == Spec => NoExecutionAfterCancel
<1>1. ASSUME IInv, [Next]_vars, cancelAt # 0
      PROVE  Len(att') = Len(att)
  <2>1. state # "assigned"
    BY <1>1, OpenReservation
  <2>2. QED
    BY <1>1, <2>1, AttemptEffects
<1>2. IInv /\ [Next]_vars => [cancelAt # 0 => Len(att') = Len(att)]_vars
    BY <1>1
<1>3. QED
    BY <1>2, Invariance, PTL DEF Spec, NoExecutionAfterCancel

\* Nothing the worker of a superseded execution still sends changes it.
THEOREM SupersededStaysFrozen == Spec => SupersededIsFrozen
<1>1. ASSUME IInv, [Next]_vars, NEW k \in DOMAIN att,
             k < Len(att) \/ pending # 0 \/ state = "cancelled"
      PROVE  att'[k] = att[k]
  <2>1. Len(att) \in Nat /\ k \in Nat
    BY <1>1, Histories DEF IInv, AggregateValid
  <2>2. QED
    BY <1>1, <2>1, AttemptEffects
<1>2. IInv /\ [Next]_vars =>
        [\A k \in DOMAIN att : (k < Len(att) \/ pending # 0 \/ state = "cancelled")
            => att'[k] = att[k]]_vars
    BY <1>1
<1>3. QED
    BY <1>2, Invariance, PTL DEF Spec, SupersededIsFrozen

\* The first terminal fact about an execution is final; an unknown one collects decisions.
THEOREM FirstFactsStand == Spec => FirstFactStands
<1>1. ASSUME IInv, [Next]_vars, NEW k \in DOMAIN att, att[k].state \in TerminalAttempt
      PROVE  /\ att'[k].state = att[k].state
             /\ att'[k].events = att[k].events
             /\ att'[k].adj # att[k].adj => att[k].state = "attempt_unknown"
  <2>1. att[k].state \notin Executing
    BY <1>1 DEF TerminalAttempt, Failed, Executing
  <2>2. QED
    BY <1>1, <2>1, AttemptEffects
<1>2. IInv /\ [Next]_vars =>
        [\A k \in DOMAIN att : att[k].state \in TerminalAttempt =>
            /\ att'[k].state = att[k].state
            /\ att'[k].events = att[k].events
            /\ att'[k].adj # att[k].adj => att[k].state = "attempt_unknown"]_vars
    BY <1>1
<1>3. QED
    BY <1>2, Invariance, PTL DEF Spec, FirstFactStands
=============================================================================
