------------------------- MODULE SuiteCatalog_proofs -------------------------
(***************************************************************************)
(* Theorems about SuiteCatalog, for any sets of Suites, revisions, Batches *)
(* and callers.                                                            *)
(***************************************************************************)
EXTENDS SuiteCatalog, TLAPS

USE CatalogAssumption

\* The empty tables satisfy the invariant.
LEMMA InitIInv == Init => IInv
BY DEF Init, IInv, TypeOK, AnswersStand

LEMMA ToSetAppend ==
    ASSUME NEW S, NEW q \in Seq(S), NEW v \in S
    PROVE  ToSet(Append(q, v)) = ToSet(q) \cup {v}
<1> DEFINE a == Append(q, v)
<1>1. /\ DOMAIN a = 1..(Len(q) + 1) /\ DOMAIN q = 1..Len(q) /\ Len(q) \in Nat
      /\ a[Len(q) + 1] = v /\ \A i \in 1..Len(q) : a[i] = q[i]
    OBVIOUS
<1> HIDE DEF a
<1>2. ASSUME NEW x \in ToSet(a)
      PROVE  x \in ToSet(q) \cup {v}
  <2>1. PICK i \in 1..(Len(q) + 1) : x = a[i]
    BY <1>1, <1>2 DEF ToSet
  <2>2. i \in 1..Len(q) \/ i = Len(q) + 1
    BY <1>1
  <2>3. QED
    BY <1>1, <2>1, <2>2 DEF ToSet
<1>3. ASSUME NEW x \in ToSet(q)
      PROVE  x \in ToSet(a)
  <2>1. PICK i \in 1..Len(q) : x = q[i]
    BY <1>1, <1>3 DEF ToSet
  <2>2. i \in DOMAIN a /\ a[i] = x
    BY <1>1, <2>1
  <2>3. QED
    BY <2>2 DEF ToSet
<1>4. v \in ToSet(a)
  <2>1. Len(q) + 1 \in DOMAIN a
    BY <1>1
  <2>2. QED
    BY <1>1, <2>1 DEF ToSet
<1>5. QED
    BY <1>2, <1>3, <1>4 DEF a

\* publish_revision appends an approved revision to an active Suite.
LEMMA RevisedRow ==
    ASSUME NEW row \in SuiteRows, NEW v \in Revisions, NEW n, Revised(row, v, n) # None
    PROVE  /\ Revised(row, v, n) = [row EXCEPT !.revs = Append(@, v), !.version = @ + 1]
           /\ Revised(row, v, n) \in SuiteRows
           /\ row.status = "active"
           /\ ToSet(Revised(row, v, n).revs) = ToSet(row.revs) \cup {v}
<1> DEFINE new == Revised(row, v, n)
<1>1. new = [row EXCEPT !.revs = Append(@, v), !.version = @ + 1] /\ row.status = "active"
    BY DEF Revised
<1>2. row.revs \in Seq(Revisions) /\ row.version + 1 \in Nat
    BY DEF SuiteRows
<1>3. Append(row.revs, v) \in Seq(Revisions)
    BY <1>2
<1>4. new \in SuiteRows /\ new.revs = Append(row.revs, v)
    BY <1>1, <1>2, <1>3 DEF SuiteRows
<1>5. ToSet(Append(row.revs, v)) = ToSet(row.revs) \cup {v}
    BY <1>2, ToSetAppend
<1>6. QED
    BY <1>1, <1>4, <1>5

\* retire leaves the revisions alone.
LEMMA RetiredRow ==
    ASSUME NEW row \in SuiteRows, NEW n, Retired(row, n) # None
    PROVE  /\ Retired(row, n) = [row EXCEPT !.status = "retired", !.version = @ + 1]
           /\ Retired(row, n) \in SuiteRows
           /\ row.status = "active" /\ Retired(row, n).revs = row.revs
<1>1. /\ Retired(row, n) = [row EXCEPT !.status = "retired", !.version = @ + 1]
      /\ row.status = "active"
    BY DEF Retired
<1>2. row.version + 1 \in Nat
    BY DEF SuiteRows
<1>3. QED
    BY <1>1, <1>2 DEF SuiteRows

\* A statement that changes nothing but its own transaction keeps the invariant if
\* what it makes of the transaction collides with nobody and is ready as far as it got.
LEMMA OneTransaction ==
    ASSUME IInv, NEW p \in Callers, NEW t, tx' = [tx EXCEPT ![p] = t],
           UNCHANGED <<suites, batches, answers>>,
           t # None => /\ t \in Commands /\ HasArguments(t) /\ Exclusive(p, t)
                       /\ RegisterReady(t) /\ ChangeReady(t) /\ CreateReady(t)
    PROVE  IInv'
<1>1. tx \in [Callers -> Commands \cup {None}]
    BY DEF IInv, TypeOK
<1>2. TypeOK' /\ AnswersStand'
    BY <1>1 DEF IInv, TypeOK, AnswersStand, HasArguments
<1>3. ASSUME NEW q \in Callers, tx'[q] # None
      PROVE  (RegisterReady(tx[q]) /\ ChangeReady(tx[q]) /\ CreateReady(tx[q]))'
  <2>1. RegisterReady(tx'[q]) /\ ChangeReady(tx'[q]) /\ CreateReady(tx'[q])
    BY <1>1, <1>3 DEF IInv
  <2>2. QED
    BY <2>1 DEF RegisterReady, ChangeReady, CreateReady, Registered
<1>4. ASSUME NEW q \in Callers, tx'[q] # None
      PROVE  Exclusive(q, tx[q])'
  <2>1. CASE q = p
    <3>1. tx'[p] = t /\ Exclusive(p, t)
      BY <1>1, <1>4, <2>1
    <3>2. Others(p)' = Others(p) /\ \A x \in Others(p) : tx'[x] = tx[x]
      BY <1>1 DEF Others
    <3>3. QED
      BY <2>1, <3>1, <3>2 DEF Exclusive, RowFree, SuiteStaged, RevStaged, BatchStaged,
                              BatchTaken, Unused, Registered
  <2>2. CASE q # p
    <3>1. tx'[q] = tx[q] /\ Exclusive(q, tx[q])
      BY <1>1, <1>4, <2>2 DEF IInv
    <3>2. p \in Others(q)' => tx'[p] = t /\ t # None
      BY <1>1 DEF Others
    <3>3. q \in Others(p)
      BY <1>4, <2>2, <3>1 DEF Others
    <3>4. \A x \in Others(q)' : x = p \/ (x \in Others(q) /\ tx'[x] = tx[x])
      BY <1>1 DEF Others
    <3>5. ASSUME tx[q].locked # None
          PROVE  RowFree(q, tx[q].locked)'
      BY <3>1, <3>2, <3>3, <3>4, <3>5 DEF Exclusive, RowFree
    <3>6. ASSUME tx[q].op = "register", tx[q].row # None
          PROVE  suites'[tx[q].suite] = None /\ ~SuiteStaged(q, tx[q].suite)'
      BY <3>1, <3>2, <3>3, <3>4, <3>6 DEF Exclusive, SuiteStaged
    <3>7. ASSUME tx[q].inserted
          PROVE  Unused(tx[q].rev)' /\ ~RevStaged(q, tx[q].rev)'
      BY <3>1, <3>2, <3>3, <3>4, <3>7 DEF Exclusive, RevStaged, Unused, Registered
    <3>8. ASSUME tx[q].op = "create", tx[q].row # None
          PROVE  /\ ~BatchTaken(tx[q].key, tx[q].batch)'
                 /\ ~BatchStaged(q, tx[q].key, tx[q].batch)'
      BY <3>1, <3>2, <3>3, <3>4, <3>8 DEF Exclusive, BatchStaged, BatchTaken
    <3>9. QED
      BY <3>1, <3>5, <3>6, <3>7, <3>8 DEF Exclusive
  <2>3. QED
    BY <2>1, <2>2
<1>5. QED
    BY <1>2, <1>3, <1>4 DEF IInv

\* A transaction as it is, when the invariant holds.
LEMMA OpenTransaction ==
    ASSUME IInv, NEW p \in Callers, tx[p] # None
    PROVE  /\ tx[p] \in Commands /\ HasArguments(tx[p]) /\ Exclusive(p, tx[p])
           /\ RegisterReady(tx[p]) /\ ChangeReady(tx[p]) /\ CreateReady(tx[p])
BY DEF IInv, TypeOK

\* A transaction that is marked promises nothing any more but its locks and keys.
LEMMA RaisesReady ==
    ASSUME NEW p \in Callers, NEW t \in Commands, HasArguments(t), Exclusive(p, t),
           t.op \in {"revise", "retire"} => suites[t.suite] # None
    PROVE  /\ Raises(t) \in Commands /\ HasArguments(Raises(t)) /\ Exclusive(p, Raises(t))
           /\ RegisterReady(Raises(t)) /\ ChangeReady(Raises(t)) /\ CreateReady(Raises(t))
<1>1. Raises(t) \in Commands
    BY DEF Raises, Commands
<1>2. /\ Raises(t).aborted
      /\ Raises(t).op = t.op /\ Raises(t).suite = t.suite /\ Raises(t).row = t.row
      /\ Raises(t).inserted = t.inserted /\ Raises(t).rev = t.rev /\ Raises(t).key = t.key
      /\ Raises(t).digest = t.digest /\ Raises(t).batch = t.batch /\ Raises(t).locked = t.locked
      /\ Raises(t).answer = t.answer /\ Raises(t).project = t.project
    BY DEF Raises, Commands
<1>3. Raises(t).at = "exit" /\ "exit" \in StepsOf[t.op]
    BY DEF Raises, Commands, StepsOf
<1>4. QED
    BY <1>1, <1>2, <1>3 DEF HasArguments, Exclusive, RegisterReady, ChangeReady, CreateReady

LEMMA EnterKeeps == ASSUME IInv, NEW p \in Callers, EnterAny(p) PROVE IInv'
<1> USE DEF IInv, TypeOK, Commands, HasArguments, Exclusive, RegisterReady, ChangeReady, CreateReady
<1>1. ASSUME NEW s \in Suites, EnterRetire(p, s)
      PROVE  IInv'
  <2> DEFINE t == [Begun("retire", "lock") EXCEPT !.suite = s, !.expected = suites[s].version]
  <2>1. suites[s] # None /\ suites[s].version \in Nat
    BY <1>1 DEF EnterRetire, SuiteRows
  <2>2. /\ t \in Commands /\ HasArguments(t) /\ Exclusive(p, t)
        /\ RegisterReady(t) /\ ChangeReady(t) /\ CreateReady(t)
    BY <2>1 DEF Begun, StepsOf
  <2>3. QED
    BY <1>1, <2>2, OneTransaction DEF EnterRetire, Enter
<1>2. ASSUME NEW s \in Suites, NEW v \in Revisions, EnterRevision(p, s, v)
      PROVE  IInv'
  <2> DEFINE t == [Begun("revise", "lock") EXCEPT
                     !.suite = s, !.rev = v, !.expected = suites[s].version]
  <2>1. suites[s] # None /\ suites[s].version \in Nat
    BY <1>2 DEF EnterRevision, SuiteRows
  <2>2. /\ t \in Commands /\ HasArguments(t) /\ Exclusive(p, t)
        /\ RegisterReady(t) /\ ChangeReady(t) /\ CreateReady(t)
    BY <2>1 DEF Begun, StepsOf
  <2>3. QED
    BY <1>2, <2>2, OneTransaction DEF EnterRevision, Enter
<1>3. ASSUME NEW s \in Suites, NEW v \in Revisions, NEW j \in Projects, EnterRegister(p, s, j, v)
      PROVE  IInv'
  <2> DEFINE t == [Begun("register", "select") EXCEPT !.suite = s, !.project = j, !.rev = v]
  <2>1. /\ t \in Commands /\ HasArguments(t) /\ Exclusive(p, t)
        /\ RegisterReady(t) /\ ChangeReady(t) /\ CreateReady(t)
    BY DEF Begun, StepsOf
  <2>2. QED
    BY <1>3, <2>1, OneTransaction DEF EnterRegister, Enter
<1>4. ASSUME NEW k \in Keys, NEW d \in Digests, NEW b \in Batches, NEW j \in Projects,
             NEW v \in Revisions, EnterCreate(p, k, d, b, j, v)
      PROVE  IInv'
  <2> DEFINE t == [Begun("create", "lock") EXCEPT
                     !.key = k, !.digest = d, !.batch = b, !.project = j, !.rev = v]
  <2>1. /\ t \in Commands /\ HasArguments(t) /\ Exclusive(p, t)
        /\ RegisterReady(t) /\ ChangeReady(t) /\ CreateReady(t)
    BY DEF Begun, StepsOf
  <2>2. QED
    BY <1>4, <2>1, OneTransaction DEF EnterCreate, Enter
<1>5. QED
    BY <1>1, <1>2, <1>3, <1>4 DEF EnterAny

\* A statement that marks its transaction and raises.
LEMMA RaiseKeeps ==
    ASSUME IInv, NEW p \in Callers, tx[p] # None, Step(p, Raises(tx[p])) PROVE IInv'
<1>1. /\ tx[p] \in Commands /\ HasArguments(tx[p]) /\ Exclusive(p, tx[p])
      /\ tx[p].op \in {"revise", "retire"} => suites[tx[p].suite] # None
    BY OpenTransaction DEF ChangeReady
<1>2. QED
    BY <1>1, RaisesReady, OneTransaction DEF Step

LEMMA SelectExistingKeeps == ASSUME IInv, NEW p \in Callers, SelectExisting(p) PROVE IInv'
<1> DEFINE t == tx[p]
           n == [t EXCEPT !.at = IF suites[t.suite] # None THEN "lock" ELSE "insert_suite"]
<1>1. /\ t # None /\ t.at = "select" /\ t \in Commands /\ HasArguments(t) /\ Exclusive(p, t)
      /\ RegisterReady(t)
    BY OpenTransaction DEF SelectExisting, In
<1>2. t.op = "register" /\ ~t.aborted /\ t.row = None
    BY <1>1 DEF Commands, HasArguments, StepsOf, RegisterReady
<1>3. n \in Commands /\ HasArguments(n)
    BY <1>1, <1>2 DEF Commands, HasArguments, StepsOf
<1>4. Exclusive(p, n)
    BY <1>1, <1>2 DEF Exclusive, Commands
<1>5. RegisterReady(n) /\ ChangeReady(n) /\ CreateReady(n)
    BY <1>1, <1>2 DEF RegisterReady, ChangeReady, CreateReady, Commands
<1>6. QED
    BY <1>3, <1>4, <1>5, OneTransaction DEF SelectExisting, Step

LEMMA InsertSuiteKeeps == ASSUME IInv, NEW p \in Callers, InsertSuite(p) PROVE IInv'
<1> DEFINE t == tx[p]
           n == [t EXCEPT !.at = "insert_revision", !.row = NewSuite(t.project, t.rev)]
<1>1. /\ t # None /\ t.at = "insert_suite" /\ t \in Commands /\ HasArguments(t)
      /\ Exclusive(p, t) /\ RegisterReady(t)
    BY OpenTransaction DEF InsertSuite, In
<1>2. t.op = "register" /\ ~t.aborted /\ t.row = None
    BY <1>1 DEF Commands, HasArguments, StepsOf, RegisterReady
<1>3. CASE suites[t.suite] # None
    BY <1>1, <1>3, RaiseKeeps DEF InsertSuite
<1>4. CASE suites[t.suite] = None
  <2>1. NewSuite(t.project, t.rev) \in SuiteRows
    BY <1>1, <1>2 DEF NewSuite, SuiteRows, HasArguments
  <2>2. n \in Commands
    BY <1>1, <2>1 DEF Commands
  <2>3. HasArguments(n)
    BY <1>1, <1>2, <2>1 DEF Commands, HasArguments, StepsOf
  <2>4. Exclusive(p, n)
    BY <1>1, <1>2, <1>4 DEF Exclusive, Commands, InsertSuite
  <2>5. RegisterReady(n) /\ ChangeReady(n) /\ CreateReady(n)
    BY <1>1, <1>2 DEF RegisterReady, ChangeReady, CreateReady, Commands
  <2>6. Step(p, n)
    BY <1>4 DEF InsertSuite
  <2>7. QED
    BY <2>2, <2>3, <2>4, <2>5, <2>6, OneTransaction DEF Step
<1>5. QED
    BY <1>3, <1>4

\* SuiteOf finds the Suite of a revision that is used.
LEMMA SuiteOfFinds ==
    ASSUME NEW v
    PROVE  /\ SuiteOf(v) = None => Unused(v)
           /\ SuiteOf(v) # None => SuiteOf(v) \in Registered /\ v \in ToSet(suites[SuiteOf(v)].revs)
BY DEF SuiteOf, Unused, Registered

LEMMA InsertRevisionKeeps == ASSUME IInv, NEW p \in Callers, InsertRevision(p) PROVE IInv'
<1> DEFINE t == tx[p]
           n == [t EXCEPT !.at = "exit", !.inserted = TRUE]
<1>1. /\ t # None /\ t.at = "insert_revision" /\ t \in Commands /\ HasArguments(t)
      /\ Exclusive(p, t) /\ RegisterReady(t) /\ ChangeReady(t)
    BY OpenTransaction DEF InsertRevision, In
<1>2. t.op \in {"register", "revise"} /\ ~t.aborted
    BY <1>1 DEF Commands, HasArguments, StepsOf
<1>3. CASE SuiteOf(t.rev) # None
    BY <1>1, <1>3, RaiseKeeps DEF InsertRevision
<1>4. CASE SuiteOf(t.rev) = None
  <2>1. /\ n.at = "exit" /\ n.inserted
        /\ n.op = t.op /\ n.suite = t.suite /\ n.row = t.row /\ n.rev = t.rev
        /\ n.locked = t.locked /\ n.answer = t.answer /\ n.project = t.project
        /\ n.expected = t.expected /\ n.aborted = t.aborted
    BY <1>1 DEF Commands
  <2>2. n \in Commands
    BY <1>1 DEF Commands
  <2>3. HasArguments(n)
    BY <1>1, <1>2, <2>1 DEF HasArguments, StepsOf
  <2>4. Exclusive(p, n)
    BY <1>1, <1>2, <1>4, <2>1, SuiteOfFinds DEF Exclusive, InsertRevision
  <2>5. RegisterReady(n) /\ ChangeReady(n) /\ CreateReady(n)
    BY <1>1, <1>2, <2>1 DEF RegisterReady, ChangeReady, CreateReady
  <2>6. Step(p, n)
    BY <1>4 DEF InsertRevision
  <2>7. QED
    BY <2>2, <2>3, <2>4, <2>5, <2>6, OneTransaction DEF Step
<1>5. QED
    BY <1>3, <1>4

LEMMA InsertBatchKeeps == ASSUME IInv, NEW p \in Callers, InsertBatch(p) PROVE IInv'
<1> DEFINE t == tx[p]
           w == [t EXCEPT !.at = "winner"]
           n == [t EXCEPT !.at = "exit", !.row = OpenForSuite(t), !.answer = OpenForSuite(t)]
<1>1. /\ t # None /\ t.at = "insert_batch" /\ t \in Commands /\ HasArguments(t)
      /\ Exclusive(p, t) /\ CreateReady(t)
    BY OpenTransaction DEF InsertBatch, In
<1>2. t.op = "create" /\ ~t.aborted /\ t.row = None /\ t.answer = None
    BY <1>1 DEF Commands, HasArguments, StepsOf, CreateReady
<1>3. CASE BatchTaken(t.key, t.batch)
  <2>1. w \in Commands /\ HasArguments(w)
    BY <1>1, <1>2 DEF Commands, HasArguments, StepsOf
  <2>2. Exclusive(p, w)
    BY <1>1, <1>2 DEF Exclusive, Commands
  <2>3. RegisterReady(w) /\ ChangeReady(w) /\ CreateReady(w)
    BY <1>1, <1>2 DEF RegisterReady, ChangeReady, CreateReady, Commands
  <2>4. Step(p, w)
    BY <1>3 DEF InsertBatch
  <2>5. QED
    BY <2>1, <2>2, <2>3, <2>4, OneTransaction DEF Step
<1>4. CASE ~BatchTaken(t.key, t.batch)
  <2>1. OpenForSuite(t) \in BatchRows
    BY <1>1, <1>2 DEF OpenForSuite, BatchRows, HasArguments
  <2>2. n \in Commands
    BY <1>1, <2>1 DEF Commands
  <2>3. /\ n.at = "exit" /\ n.row = OpenForSuite(t) /\ n.answer = OpenForSuite(t)
        /\ n.op = t.op /\ n.key = t.key /\ n.digest = t.digest /\ n.batch = t.batch
        /\ n.rev = t.rev /\ n.project = t.project /\ n.inserted = t.inserted
        /\ n.locked = t.locked /\ n.aborted = t.aborted
    BY <1>1 DEF Commands
  <2> HIDE DEF n
  <2>4. HasArguments(n)
    BY <1>1, <1>2, <2>1, <2>3 DEF HasArguments, StepsOf
  <2>5. Exclusive(p, n)
    BY <1>1, <1>2, <1>4, <2>3 DEF Exclusive, InsertBatch
  <2>6. RegisterReady(n) /\ ChangeReady(n) /\ CreateReady(n)
    BY <1>1, <1>2, <2>3 DEF RegisterReady, ChangeReady, CreateReady, OpenForSuite
  <2>7. Step(p, n)
    BY <1>4 DEF InsertBatch, n
  <2>8. QED
    BY <2>2, <2>4, <2>5, <2>6, <2>7, OneTransaction DEF Step
<1>5. QED
    BY <1>3, <1>4

LEMMA SelectWinnerKeeps == ASSUME IInv, NEW p \in Callers, SelectWinner(p) PROVE IInv'
<1> DEFINE t == tx[p]
           row == batches[t.key]
           n == [t EXCEPT !.at = "exit", !.answer = row]
<1>1. /\ t # None /\ t.at = "winner" /\ t \in Commands /\ HasArguments(t)
      /\ Exclusive(p, t) /\ CreateReady(t)
    BY OpenTransaction DEF SelectWinner, In
<1>2. t.op = "create" /\ ~t.aborted /\ t.row = None /\ t.answer = None /\ t.key \in Keys
    BY <1>1 DEF Commands, HasArguments, StepsOf, CreateReady
<1>3. CASE row # None /\ SameRequest(p, row)
  <2>1. row \in BatchRows
    BY <1>2, <1>3 DEF IInv, TypeOK
  <2>2. n \in Commands
    BY <1>1, <2>1 DEF Commands
  <2>3. HasArguments(n)
    BY <1>1, <1>2 DEF Commands, HasArguments, StepsOf
  <2>4. Exclusive(p, n)
    BY <1>1, <1>2 DEF Exclusive, Commands
  <2>5. RegisterReady(n) /\ ChangeReady(n) /\ CreateReady(n)
    BY <1>1, <1>2, <1>3 DEF RegisterReady, ChangeReady, CreateReady, SameRequest, Commands
  <2>6. Step(p, n)
    BY <1>3 DEF SelectWinner
  <2>7. QED
    BY <2>2, <2>3, <2>4, <2>5, <2>6, OneTransaction DEF Step
<1>4. CASE ~(row # None /\ SameRequest(p, row))
    BY <1>1, <1>4, RaiseKeeps DEF SelectWinner
<1>5. QED
    BY <1>3, <1>4

\* What the three kinds of command make of the row they have locked.
LEMMA LockSuiteKeeps == ASSUME IInv, NEW p \in Callers, LockSuite(p) PROVE IInv'
<1> DEFINE t == tx[p]
           s == Target(p)
           row == suites[s]
           l == LocksRow(p)
<1>1. /\ t # None /\ t.at = "lock" /\ t \in Commands /\ HasArguments(t) /\ Exclusive(p, t)
      /\ RegisterReady(t) /\ ChangeReady(t) /\ CreateReady(t)
    BY OpenTransaction DEF LockSuite, In
<1>2. ~t.aborted /\ t.row = None /\ t.answer = None
    BY <1>1 DEF Commands, HasArguments, StepsOf, RegisterReady, ChangeReady, CreateReady
<1>3. CASE s = None
    BY <1>1, <1>3, RaiseKeeps DEF LockSuite
<1>4. CASE s # None
  <2>1. RowFree(p, s) /\ Step(p, Decides(p, row))
    BY <1>4 DEF LockSuite
  <2>2. s \in Suites
    BY <1>1, <1>4, SuiteOfFinds DEF Target, HasArguments, Registered
  <2>3. /\ l.locked = s /\ l.at = t.at
        /\ l.op = t.op /\ l.suite = t.suite /\ l.row = t.row /\ l.inserted = t.inserted
        /\ l.rev = t.rev /\ l.key = t.key /\ l.digest = t.digest /\ l.batch = t.batch
        /\ l.answer = t.answer /\ l.project = t.project /\ l.expected = t.expected
        /\ l.aborted = t.aborted
    BY <1>1 DEF LocksRow, Commands
  <2>4. l \in Commands
    BY <1>1, <2>2 DEF LocksRow, Commands
  <2> HIDE DEF l
  <2>5. HasArguments(l)
    BY <1>1, <2>3 DEF HasArguments
  <2>6. Exclusive(p, l)
    BY <1>1, <1>2, <2>1, <2>3 DEF Exclusive
  <2>7. t.op \in {"revise", "retire"} => suites[l.suite] # None
    BY <1>1, <2>3 DEF ChangeReady
  <2>8. ASSUME Step(p, Raises(l))
        PROVE  IInv'
    BY <2>3, <2>4, <2>5, <2>6, <2>7, <2>8, RaisesReady, OneTransaction DEF Step
  <2>9. CASE t.op = "register"
    <3> DEFINE n == [l EXCEPT !.at = "exit"]
    <3>1. CASE SameRegistration(p, row)
      <4>1. Step(p, n)
        BY <2>1, <2>3, <2>9, <3>1 DEF Decides, l
      <4>2. n \in Commands /\ HasArguments(n)
        BY <2>3, <2>4, <2>5, <2>9 DEF Commands, HasArguments, StepsOf
      <4>3. Exclusive(p, n)
        BY <2>4, <2>6 DEF Exclusive, Commands
      <4>4. RegisterReady(n) /\ ChangeReady(n) /\ CreateReady(n)
        BY <1>2, <2>3, <2>4, <2>9 DEF RegisterReady, ChangeReady, CreateReady, Commands
      <4>5. QED
        BY <4>1, <4>2, <4>3, <4>4, OneTransaction DEF Step
    <3>2. CASE ~SameRegistration(p, row)
      BY <2>1, <2>3, <2>8, <2>9, <3>2 DEF Decides, l
    <3>3. QED
      BY <3>1, <3>2
  <2>10. CASE t.op = "create"
    <3> DEFINE n == [l EXCEPT !.at = "insert_batch"]
    <3>1. CASE SuiteAccepts(p, row)
      <4>1. Step(p, n)
        BY <2>1, <2>3, <2>10, <3>1 DEF Decides, l
      <4>2. n \in Commands /\ HasArguments(n)
        <5>1. n \in Commands
          BY <2>4 DEF Commands
        <5>2. HasArguments(n)
          BY <1>2, <2>3, <2>4, <2>5, <2>10 DEF Commands, HasArguments, StepsOf
        <5>3. QED
          BY <5>1, <5>2
      <4>3. Exclusive(p, n)
        BY <2>4, <2>6 DEF Exclusive, Commands
      <4>4. s \in Registered /\ t.rev \in ToSet(suites[s].revs)
        BY <1>4, <2>10, SuiteOfFinds DEF Target
      <4>5. RegisterReady(n) /\ ChangeReady(n) /\ CreateReady(n)
        BY <1>2, <2>3, <2>4, <2>10, <3>1, <4>4
           DEF RegisterReady, ChangeReady, CreateReady, SuiteAccepts, Commands
      <4>6. QED
        BY <4>1, <4>2, <4>3, <4>5, OneTransaction DEF Step
    <3>2. CASE ~SuiteAccepts(p, row)
      BY <2>1, <2>3, <2>8, <2>10, <3>2 DEF Decides, l
    <3>3. QED
      BY <3>1, <3>2
  <2>11. ASSUME t.op \in {"revise", "retire"},
                NEW staged, staged = IF t.op = "revise" THEN Revised(row, l.rev, l.expected)
                                                        ELSE Retired(row, l.expected),
                NEW step, step = IF t.op = "revise" THEN "insert_revision" ELSE "exit",
                Step(p, Publishes(l, staged, step))
         PROVE  IInv'
    <3> DEFINE n == [l EXCEPT !.row = staged, !.at = step]
    <3>1. CASE staged = None
      BY <2>8, <2>11, <3>1 DEF Publishes
    <3>2. CASE staged # None
      <4>1. Step(p, n)
        BY <2>11, <3>2 DEF Publishes
      <4>2. s = t.suite /\ row \in SuiteRows
        BY <2>2, <2>7, <2>3, <2>11 DEF Target, IInv, TypeOK
      <4>3. l.rev \in Revisions \/ t.op = "retire"
        BY <2>3, <2>5, <2>11 DEF HasArguments
      <4>4. staged \in SuiteRows
        BY <2>11, <3>2, <4>2, <4>3, RevisedRow, RetiredRow
      <4>5. n \in Commands
        <5>1. step \in {"insert_revision", "exit"}
          BY <2>11
        <5>2. QED
          BY <2>4, <4>4, <5>1 DEF Commands
      <4>6. /\ n.row = staged /\ n.at = step
            /\ n.op = t.op /\ n.suite = t.suite /\ n.inserted = l.inserted /\ n.rev = l.rev
            /\ n.locked = s /\ n.answer = l.answer /\ n.expected = l.expected
            /\ n.aborted = l.aborted /\ n.project = l.project
        BY <2>3, <2>4 DEF Commands
      <4> HIDE DEF n
      <4>7. HasArguments(n)
        BY <1>2, <2>3, <2>5, <2>11, <4>4, <4>6 DEF HasArguments, StepsOf
      <4>8. Exclusive(p, n)
        BY <2>3, <2>6, <2>11, <4>6 DEF Exclusive
      <4>9. RegisterReady(n) /\ ChangeReady(n) /\ CreateReady(n)
        BY <1>2, <2>3, <2>7, <2>11, <3>2, <4>2, <4>6
           DEF RegisterReady, ChangeReady, CreateReady
      <4>10. QED
        BY <4>1, <4>5, <4>7, <4>8, <4>9, OneTransaction DEF Step
    <3>3. QED
      BY <3>1, <3>2
  <2>12. CASE t.op = "revise"
    BY <2>1, <2>3, <2>11, <2>12 DEF Decides, l
  <2>13. CASE t.op = "retire"
    BY <2>1, <2>3, <2>11, <2>13 DEF Decides, l
  <2>14. QED
    BY <1>1, <2>9, <2>10, <2>12, <2>13 DEF Commands
<1>5. QED
    BY <1>3, <1>4

----------------------------------------------------------------------------
(* Commits *)

\* What a transaction that is about to change a Suite has: a row that is new or made
\* from the stored one, and a revision nobody has used.
LEMMA SuiteChange ==
    ASSUME IInv, NEW p \in Callers, In(p, "exit"), ~tx[p].aborted, tx[p].op # "create",
           tx[p].row # None
    PROVE  /\ tx[p].suite \in Suites /\ tx[p].row \in SuiteRows
           /\ tx[p].op = "register" =>
                 /\ suites[tx[p].suite] = None
                 /\ tx[p].row = NewSuite(tx[p].project, tx[p].rev)
                 /\ ToSet(tx[p].row.revs) = {tx[p].rev} /\ tx[p].inserted
                 /\ tx[p].project \in Projects
           /\ tx[p].op # "register" =>
                 /\ suites[tx[p].suite] \in SuiteRows /\ suites[tx[p].suite] # None
                 /\ suites[tx[p].suite].status = "active" /\ tx[p].locked = tx[p].suite
           /\ tx[p].op = "revise" =>
                 /\ tx[p].row = [suites[tx[p].suite] EXCEPT !.revs = Append(@, tx[p].rev),
                                                           !.version = @ + 1]
                 /\ ToSet(tx[p].row.revs) = ToSet(suites[tx[p].suite].revs) \cup {tx[p].rev}
                 /\ tx[p].inserted
           /\ tx[p].op = "retire" =>
                 /\ tx[p].row = [suites[tx[p].suite] EXCEPT !.status = "retired", !.version = @ + 1]
                 /\ tx[p].row.revs = suites[tx[p].suite].revs
           /\ tx[p].inserted => tx[p].rev \in Revisions /\ Unused(tx[p].rev)
           /\ tx[p].op \in {"register", "revise", "retire"}
<1> DEFINE t == tx[p]
<1>1. /\ t # None /\ t.at = "exit" /\ t \in Commands /\ HasArguments(t) /\ Exclusive(p, t)
      /\ RegisterReady(t) /\ ChangeReady(t)
    BY OpenTransaction DEF In
<1>2. /\ t.suite \in Suites /\ t.row \in SuiteRows /\ t.op \in {"register", "revise", "retire"}
      /\ t.op # "retire" => t.rev \in Revisions
      /\ t.op = "retire" => ~t.inserted
      /\ t.op = "register" => t.project \in Projects
      /\ suites[t.suite] # None => suites[t.suite] \in SuiteRows
    BY <1>1 DEF HasArguments, Commands, IInv, TypeOK
<1>3. CASE t.op = "register"
  <2>1. suites[t.suite] = None /\ t.row = NewSuite(t.project, t.rev) /\ t.inserted
    BY <1>1, <1>3 DEF Exclusive, RegisterReady
  <2>2. t.row.revs = <<t.rev>>
    BY <2>1 DEF NewSuite
  <2>3. ToSet(<<t.rev>>) = {t.rev}
    BY DEF ToSet
  <2>4. QED
    BY <1>1, <1>2, <1>3, <2>1, <2>2, <2>3 DEF Exclusive
<1>4. CASE t.op = "revise"
  <2>1. /\ suites[t.suite] # None /\ t.locked = t.suite /\ t.inserted
        /\ t.row = Revised(suites[t.suite], t.rev, t.expected)
    BY <1>1, <1>4 DEF ChangeReady
  <2>2. PICK row \in SuiteRows, v \in Revisions, n \in {t.expected} :
               row = suites[t.suite] /\ v = t.rev /\ n = t.expected
    BY <1>2, <1>4, <2>1
  <2>3. /\ suites[t.suite].status = "active"
        /\ t.row = [suites[t.suite] EXCEPT !.revs = Append(@, t.rev), !.version = @ + 1]
        /\ ToSet(t.row.revs) = ToSet(suites[t.suite].revs) \cup {t.rev}
    <3>1. Revised(row, v, n) # None
      BY <1>2, <2>1, <2>2
    <3>2. /\ row.status = "active"
          /\ Revised(row, v, n) = [row EXCEPT !.revs = Append(@, v), !.version = @ + 1]
          /\ ToSet(Revised(row, v, n).revs) = ToSet(row.revs) \cup {v}
      BY <3>1, RevisedRow
    <3>3. QED
      BY <2>1, <2>2, <3>2
  <2>4. Unused(t.rev)
    BY <1>1, <2>1 DEF Exclusive
  <2>5. QED
    BY <1>2, <1>4, <2>1, <2>2, <2>3, <2>4
<1>5. CASE t.op = "retire"
  <2>1. /\ suites[t.suite] # None /\ t.locked = t.suite
        /\ t.row = Retired(suites[t.suite], t.expected)
    BY <1>1, <1>5 DEF ChangeReady
  <2>2. PICK row \in SuiteRows, n \in {t.expected} : row = suites[t.suite] /\ n = t.expected
    BY <1>2, <2>1
  <2>3. /\ suites[t.suite].status = "active"
        /\ t.row = [suites[t.suite] EXCEPT !.status = "retired", !.version = @ + 1]
        /\ t.row.revs = suites[t.suite].revs
    <3>1. Retired(row, n) # None
      BY <1>2, <2>1, <2>2
    <3>2. /\ row.status = "active"
          /\ Retired(row, n) = [row EXCEPT !.status = "retired", !.version = @ + 1]
          /\ Retired(row, n).revs = row.revs
      BY <3>1, RetiredRow
    <3>3. QED
      BY <2>1, <2>2, <3>2
  <2>4. QED
    BY <1>2, <1>5, <2>1, <2>2, <2>3
<1>6. QED
    BY <1>2, <1>3, <1>4, <1>5

LEMMA CommitSuiteKeeps ==
    ASSUME IInv, NEW p \in Callers, Exit(p), ~tx[p].aborted, tx[p].op # "create", tx[p].row # None
    PROVE  IInv'
<1> DEFINE t == tx[p]
           s == tx[p].suite
<1>1. /\ t # None /\ t.at = "exit" /\ HasArguments(t) /\ Exclusive(p, t)
    BY OpenTransaction DEF Exit, In
<1>2. /\ suites' = [suites EXCEPT ![s] = t.row] /\ batches' = batches /\ answers' = answers
      /\ tx' = [tx EXCEPT ![p] = None]
    BY <1>1 DEF Exit, Commit, HasArguments
<1>3. /\ tx \in [Callers -> Commands \cup {None}] /\ suites \in [Suites -> SuiteRows \cup {None}]
      /\ s \in Suites /\ t.row \in SuiteRows
    BY SuiteChange DEF Exit, IInv, TypeOK
<1>4. TypeOK' /\ AnswersStand'
    BY <1>2, <1>3 DEF IInv, TypeOK, AnswersStand
<1>5. ASSUME NEW q \in Callers, tx'[q] # None
      PROVE  /\ Exclusive(q, tx[q])'
             /\ (RegisterReady(tx[q]) /\ ChangeReady(tx[q]) /\ CreateReady(tx[q]))'
  <2> DEFINE u == tx[q]
  <2>1. q # p /\ tx'[q] = u /\ u # None /\ p \in Others(q) /\ Others(q)' \subseteq Others(q)
        /\ \A x \in Others(q)' : tx'[x] = tx[x]
    BY <1>1, <1>2, <1>3, <1>5 DEF Others
  <2>2. /\ Exclusive(q, u) /\ RegisterReady(u) /\ ChangeReady(u) /\ CreateReady(u)
        /\ HasArguments(u) /\ u \in Commands
    BY <2>1, OpenTransaction
  <2>3. t.locked = None \/ u.locked # t.locked
    BY <1>1, <2>1 DEF Exclusive, RowFree, Others
  <2>4. u.locked \in Suites /\ suites[u.locked] # None => suites'[u.locked] = suites[u.locked]
    BY <1>2, <1>3, <2>3, SuiteChange DEF Exit
  <2>5. \A x \in Suites : suites[x] # None => suites'[x] # None
    BY <1>2, <1>3
  <2>6. u.op = "register" /\ u.row # None => suites'[u.suite] = None /\ u.suite \in Suites
    <3> SUFFICES ASSUME u.op = "register", u.row # None
                 PROVE  suites'[u.suite] = None /\ u.suite \in Suites
      OBVIOUS
    <3>1. u.suite \in Suites /\ suites[u.suite] = None /\ ~SuiteStaged(q, u.suite)
      BY <2>2 DEF Exclusive, HasArguments
    <3>2. u.suite # s
      BY <2>1, <3>1, SuiteChange DEF SuiteStaged, Exit
    <3>3. QED
      BY <1>2, <1>3, <3>1, <3>2
  <2>7. u.inserted => Unused(u.rev)'
    <3> SUFFICES ASSUME u.inserted, NEW x \in Registered'
                 PROVE  u.rev \notin ToSet(suites'[x].revs)
      BY <2>1 DEF Unused
    <3>1. Unused(u.rev) /\ (t.inserted => u.rev # t.rev)
      BY <2>1, <2>2 DEF Exclusive, RevStaged
    <3>2. CASE x # s
      BY <1>2, <1>3, <3>1, <3>2 DEF Unused, Registered
    <3>3. CASE x = s
      <4>1. suites'[x] = t.row
        BY <1>2, <1>3, <3>3
      <4>2. t.op # "register" => s \in Registered
        BY SuiteChange DEF Exit, Registered
      <4>3. /\ t.op = "register" => ToSet(t.row.revs) = {t.rev} /\ t.inserted
            /\ t.op = "revise" => ToSet(t.row.revs) = ToSet(suites[s].revs) \cup {t.rev} /\ t.inserted
            /\ t.op = "retire" => t.row.revs = suites[s].revs
            /\ t.op \in {"register", "revise", "retire"}
        BY SuiteChange DEF Exit
      <4>4. s \in Registered => u.rev \notin ToSet(suites[s].revs)
        BY <3>1 DEF Unused
      <4>5. QED
        BY <3>1, <4>1, <4>2, <4>3, <4>4
    <3>4. QED
      BY <3>2, <3>3
  <2>8. Exclusive(q, u)'
    <3>1. u.locked # None => RowFree(q, u.locked)'
      BY <2>1, <2>2 DEF Exclusive, RowFree
    <3>2. u.op = "register" /\ u.row # None => ~SuiteStaged(q, u.suite)'
      BY <2>1, <2>2 DEF Exclusive, SuiteStaged
    <3>3. u.inserted => ~RevStaged(q, u.rev)'
      BY <2>1, <2>2 DEF Exclusive, RevStaged
    <3>4. u.op = "create" /\ u.row # None =>
             ~BatchTaken(u.key, u.batch)' /\ ~BatchStaged(q, u.key, u.batch)'
      BY <1>2, <2>1, <2>2 DEF Exclusive, BatchStaged, BatchTaken
    <3>5. QED
      BY <2>1, <2>6, <2>7, <3>1, <3>2, <3>3, <3>4 DEF Exclusive
  <2>9. RegisterReady(u)'
    BY <2>1, <2>2 DEF RegisterReady
  <2>10. ChangeReady(u)'
    <3>1. u.op \in {"revise", "retire"} => suites[u.suite] # None /\ u.suite \in Suites
      BY <2>2 DEF ChangeReady, HasArguments
    <3>2. QED
      BY <2>1, <2>2, <2>4, <2>5, <3>1 DEF ChangeReady
  <2>11. CreateReady(u)'
    BY <1>2, <2>1, <2>2, <2>4, <2>5 DEF CreateReady, Registered
  <2>12. QED
    BY <2>8, <2>9, <2>10, <2>11
<1>6. QED
    BY <1>4, <1>5 DEF IInv

LEMMA CommitBatchKeeps ==
    ASSUME IInv, NEW p \in Callers, Exit(p), ~tx[p].aborted, tx[p].op = "create"
    PROVE  IInv'
<1> DEFINE t == tx[p]
<1>1. /\ t # None /\ t.at = "exit" /\ HasArguments(t) /\ Exclusive(p, t) /\ CreateReady(t)
      /\ t \in Commands
    BY OpenTransaction DEF Exit, In
<1>2. /\ suites' = suites /\ tx' = [tx EXCEPT ![p] = None]
      /\ batches' = IF t.row # None THEN [batches EXCEPT ![t.key] = t.row] ELSE batches
      /\ answers' = IF t.answer = None THEN answers
                     ELSE answers \cup {[key |-> t.key, digest |-> t.digest, batch |-> t.answer.id]}
    BY DEF Exit, Commit
<1>3. /\ tx \in [Callers -> Commands \cup {None}] /\ batches \in [Keys -> BatchRows \cup {None}]
      /\ t.key \in Keys /\ t.row \in BatchRows \cup {None} /\ t.answer \in BatchRows \cup {None}
      /\ t.digest \in Digests
    BY <1>1 DEF HasArguments, IInv, TypeOK, Commands
<1>4. t.row # None => /\ batches[t.key] = None /\ t.row.id = t.batch /\ t.row.digest = t.digest
                      /\ t.answer = t.row
    BY <1>1 DEF Exclusive, BatchTaken, CreateReady, OpenForSuite
<1>5. \A k \in Keys : batches[k] # None => batches'[k] = batches[k]
    BY <1>2, <1>3, <1>4
<1>6. TypeOK'
  <2>1. answers' \subseteq [key : Keys, digest : Digests, batch : Batches]
    BY <1>2, <1>3 DEF IInv, TypeOK, BatchRows
  <2>2. batches' \in [Keys -> BatchRows \cup {None}]
    BY <1>2, <1>3
  <2>3. QED
    BY <1>2, <1>3, <2>1, <2>2 DEF IInv, TypeOK
<1>7. AnswersStand'
  <2>1. ASSUME NEW a \in answers
        PROVE  batches'[a.key] # None /\ batches'[a.key].id = a.batch
               /\ batches'[a.key].digest = a.digest
    BY <1>5, <2>1 DEF IInv, TypeOK, AnswersStand
  <2>2. t.answer # None => batches'[t.key] = t.answer /\ t.answer.digest = t.digest
    BY <1>1, <1>2, <1>3, <1>4 DEF CreateReady
  <2>3. QED
    BY <1>2, <2>1, <2>2 DEF AnswersStand
<1>8. ASSUME NEW q \in Callers, tx'[q] # None
      PROVE  /\ Exclusive(q, tx[q])'
             /\ (RegisterReady(tx[q]) /\ ChangeReady(tx[q]) /\ CreateReady(tx[q]))'
  <2> DEFINE u == tx[q]
  <2>1. q # p /\ tx'[q] = u /\ u # None /\ p \in Others(q) /\ Others(q)' \subseteq Others(q)
        /\ \A x \in Others(q)' : tx'[x] = tx[x]
    BY <1>1, <1>2, <1>3, <1>8 DEF Others
  <2>2. /\ Exclusive(q, u) /\ RegisterReady(u) /\ ChangeReady(u) /\ CreateReady(u)
        /\ HasArguments(u) /\ u \in Commands
    BY <2>1, OpenTransaction
  <2>3. u.op = "create" /\ u.row # None => ~BatchTaken(u.key, u.batch)'
    <3> SUFFICES ASSUME u.op = "create", u.row # None
                 PROVE  ~BatchTaken(u.key, u.batch)'
      OBVIOUS
    <3>1. ~BatchTaken(u.key, u.batch) /\ (t.row # None => u.key # t.key /\ u.batch # t.batch)
      BY <2>1, <2>2 DEF Exclusive, BatchStaged
    <3>2. u.key \in Keys
      BY <2>2 DEF HasArguments
    <3>3. batches'[u.key] = None
      BY <1>2, <1>3, <3>1, <3>2 DEF BatchTaken
    <3>4. ASSUME NEW l \in Keys, batches'[l] # None
          PROVE  batches'[l].id # u.batch
      BY <1>2, <1>3, <1>4, <3>1, <3>4 DEF BatchTaken
    <3>5. QED
      BY <2>1, <3>3, <3>4 DEF BatchTaken
  <2>4. Exclusive(q, u)'
    <3>1. u.locked # None => RowFree(q, u.locked)'
      BY <2>1, <2>2 DEF Exclusive, RowFree
    <3>2. u.op = "register" /\ u.row # None => suites'[u.suite] = None /\ ~SuiteStaged(q, u.suite)'
      BY <1>2, <2>1, <2>2 DEF Exclusive, SuiteStaged
    <3>3. u.inserted => Unused(u.rev)' /\ ~RevStaged(q, u.rev)'
      BY <1>2, <2>1, <2>2 DEF Exclusive, RevStaged, Unused, Registered
    <3>4. u.op = "create" /\ u.row # None => ~BatchStaged(q, u.key, u.batch)'
      BY <2>1, <2>2 DEF Exclusive, BatchStaged
    <3>5. QED
      BY <2>1, <2>3, <3>1, <3>2, <3>3, <3>4 DEF Exclusive
  <2>5. (RegisterReady(u) /\ ChangeReady(u))'
    BY <1>2, <2>1, <2>2 DEF RegisterReady, ChangeReady
  <2>6. CreateReady(u)'
    BY <1>2, <1>5, <2>1, <2>2 DEF CreateReady, Registered, HasArguments
  <2>7. QED
    BY <2>4, <2>5, <2>6
<1>9. QED
    BY <1>6, <1>7, <1>8 DEF IInv

\* A transaction that ends and leaves the tables as they were.
LEMMA EndKeeps ==
    ASSUME IInv, NEW p \in Callers, tx' = [tx EXCEPT ![p] = None],
           UNCHANGED <<suites, batches, answers>>
    PROVE  IInv'
BY OneTransaction

LEMMA ExitKeeps == ASSUME IInv, NEW p \in Callers, Exit(p) PROVE IInv'
<1>1. tx[p] # None /\ HasArguments(tx[p])
    BY OpenTransaction DEF Exit, In
<1>2. CASE tx[p].aborted
    BY <1>2, EndKeeps DEF Exit
<1>3. CASE ~tx[p].aborted /\ tx[p].op = "create"
    BY <1>3, CommitBatchKeeps
<1>4. CASE ~tx[p].aborted /\ tx[p].op # "create" /\ tx[p].row # None
    BY <1>4, CommitSuiteKeeps
<1>5. CASE ~tx[p].aborted /\ tx[p].op # "create" /\ tx[p].row = None
    BY <1>1, <1>5, EndKeeps DEF Exit, Commit, HasArguments
<1>6. QED
    BY <1>2, <1>3, <1>4, <1>5

----------------------------------------------------------------------------
(* Theorems *)

LEMMA Inductive == IInv /\ [Next]_vars => IInv'
<1> SUFFICES ASSUME IInv, [Next]_vars PROVE IInv'
    OBVIOUS
<1>1. CASE UNCHANGED vars
  <2>1. UNCHANGED <<suites, batches, tx, answers>>
    BY <1>1 DEF vars
  <2>2. QED
    BY <2>1 DEF IInv, TypeOK, AnswersStand, HasArguments, Exclusive, RegisterReady, ChangeReady,
                CreateReady, RowFree, SuiteStaged, RevStaged, BatchStaged, BatchTaken, Unused,
                Registered, Others
<1>2. ASSUME NEW p \in Callers, StatementFails(p)
      PROVE  IInv'
    BY <1>2, RaiseKeeps DEF StatementFails
<1>3. ASSUME NEW p \in Callers, Abandon(p)
      PROVE  IInv'
    BY <1>3, EndKeeps DEF Abandon
<1>4. QED
    BY <1>1, <1>2, <1>3, EnterKeeps, SelectExistingKeeps, InsertSuiteKeeps, InsertRevisionKeeps,
       LockSuiteKeeps, InsertBatchKeeps, SelectWinnerKeeps, ExitKeeps DEF Next

LEMMA Invariance == Spec => []IInv
BY InitIInv, Inductive, PTL DEF Spec

\* Whoever was answered with a Batch finds that Batch under its key, made from the request
\* that was sent, for any number of racing creations (postgres_batch.py, create).
THEOREM AnswersHold == Spec => []AnswersStand
<1>1. IInv => AnswersStand
    BY DEF IInv
<1>2. QED
    BY <1>1, Invariance, PTL

\* The contract's own copy of SequencesExt agrees with the one extended here.
LEMMA SameToSet == ASSUME NEW q PROVE Contract!ToSet(q) = ToSet(q)
BY DEF ToSet, Contract!ToSet

\* A revision that is unused is no revision of the contract's either.
LEMMA UnusedInContract == ASSUME NEW v, Unused(v) PROVE v \notin Contract!Used
<1>1. \A s \in Registered : v \notin ToSet(suites[s].revs)
    BY DEF Unused
<1>2. \A s : Contract!ToSet(suites[s].revs) = ToSet(suites[s].revs)
    BY SameToSet
<1>3. QED
    BY <1>1, <1>2 DEF Registered, Contract!Used, Contract!Registered

\* A commit that changes a Suite is that change in the contract.
LEMMA SuiteCommit ==
    ASSUME IInv, NEW p \in Callers, Exit(p), ~tx[p].aborted, tx[p].op # "create", tx[p].row # None
    PROVE  Contract!Next
<1> DEFINE t == tx[p]
           s == tx[p].suite
<1>1. suites' = [suites EXCEPT ![s] = t.row] /\ batches' = batches
    BY DEF Exit, Commit
<1>2. s \in Suites /\ t.op \in {"register", "revise", "retire"} /\ suites \in [Suites -> SuiteRows \cup {None}]
    BY SuiteChange DEF Exit, IInv, TypeOK
<1>3. CASE t.op = "register"
  <2>1. /\ suites[s] = None /\ t.row = NewSuite(t.project, t.rev) /\ t.project \in Projects
        /\ t.rev \in Revisions /\ Unused(t.rev)
    BY <1>3, SuiteChange DEF Exit
  <2>2. Contract!Register(s, t.project, t.rev)
    BY <1>1, <2>1, UnusedInContract DEF Contract!Register, NewSuite
  <2>3. QED
    BY <1>2, <2>1, <2>2 DEF Contract!Next
<1>4. CASE t.op = "revise"
  <2>1. /\ suites[s] # None /\ suites[s].status = "active" /\ suites[s] \in SuiteRows
        /\ t.row = [suites[s] EXCEPT !.revs = Append(@, t.rev), !.version = @ + 1]
        /\ t.rev \in Revisions /\ Unused(t.rev)
    BY <1>4, SuiteChange DEF Exit
  <2>2. suites' = [suites EXCEPT ![s].revs = Append(@, t.rev), ![s].version = @ + 1]
    BY <1>1, <1>2, <2>1 DEF SuiteRows
  <2>3. Contract!PublishRevision(s, t.rev)
    BY <1>1, <2>1, <2>2, UnusedInContract DEF Contract!PublishRevision
  <2>4. QED
    BY <1>2, <2>1, <2>3 DEF Contract!Next
<1>5. CASE t.op = "retire"
  <2>1. /\ suites[s] # None /\ suites[s].status = "active" /\ suites[s] \in SuiteRows
        /\ t.row = [suites[s] EXCEPT !.status = "retired", !.version = @ + 1]
    BY <1>5, SuiteChange DEF Exit
  <2>2. suites' = [suites EXCEPT ![s].status = "retired", ![s].version = @ + 1]
    BY <1>1, <1>2, <2>1 DEF SuiteRows
  <2>3. Contract!Retire(s)
    BY <1>1, <2>1, <2>2 DEF Contract!Retire
  <2>4. QED
    BY <1>2, <2>3 DEF Contract!Next
<1>6. QED
    BY <1>2, <1>3, <1>4, <1>5

\* A commit that stores a Batch opens it in the contract, for the Suite whose row the
\* transaction has locked.
LEMMA BatchCommit ==
    ASSUME IInv, NEW p \in Callers, Exit(p), ~tx[p].aborted, tx[p].op = "create", tx[p].row # None
    PROVE  Contract!Next
<1> DEFINE t == tx[p]
<1>1. /\ t # None /\ t.at = "exit" /\ HasArguments(t) /\ Exclusive(p, t) /\ CreateReady(t)
    BY OpenTransaction DEF Exit, In
<1>2. /\ suites' = suites /\ batches' = [batches EXCEPT ![t.key] = t.row]
      /\ t.row = [id |-> t.batch, digest |-> t.digest, rev |-> t.rev, project |-> t.project]
    BY <1>1 DEF Exit, Commit, CreateReady, OpenForSuite
<1>3. PICK s \in Registered : s = t.locked
    BY <1>1 DEF CreateReady
<1>4. /\ s \in Suites /\ suites[s] # None /\ suites[s].status = "active"
      /\ suites[s].project = t.project /\ t.rev \in ToSet(suites[s].revs)
    BY <1>1, <1>3 DEF CreateReady, Registered
<1>5. batches[t.key] = None /\ \A l \in Keys : batches[l] # None => batches[l].id # t.batch
    BY <1>1 DEF Exclusive, BatchTaken
<1>6. Contract!Create(t.key, t.digest, t.batch, s)
  <2>1. batches' = [batches EXCEPT ![t.key] =
                      [id |-> t.batch, digest |-> t.digest, rev |-> t.rev,
                       project |-> suites[s].project]]
    BY <1>2, <1>4
  <2>2. \A l \in Contract!Created : batches[l].id # t.batch
    BY <1>5 DEF Contract!Created
  <2>3. QED
    BY <1>2, <1>4, <1>5, <2>1, <2>2, SameToSet, Zenon DEF Contract!Create
<1>7. t.key \in Keys /\ t.digest \in Digests /\ t.batch \in Batches
    BY <1>1 DEF HasArguments
<1>8. QED
    BY <1>4, <1>6, <1>7 DEF Contract!Next

\* Every step of a transaction is one command of the contract or changes no table.
LEMMA ContractStep == IInv /\ [Next]_vars => [Contract!Next]_(Contract!vars)
<1> SUFFICES ASSUME IInv, [Next]_vars
             PROVE  Contract!Next \/ UNCHANGED <<suites, batches>>
    BY DEF Contract!vars
<1>1. ASSUME NEW p \in Callers, Exit(p)
      PROVE  Contract!Next \/ UNCHANGED <<suites, batches>>
    BY <1>1, SuiteCommit, BatchCommit DEF Exit, Commit
<1>2. ASSUME NEW p \in Callers, EnterAny(p)
      PROVE  UNCHANGED <<suites, batches>>
    BY <1>2 DEF EnterAny, EnterRetire, EnterRevision, EnterRegister, EnterCreate, Enter
<1>3. ASSUME NEW p \in Callers, LockSuite(p)
      PROVE  UNCHANGED <<suites, batches>>
    BY <1>3 DEF LockSuite, Step
<1>4. QED
    BY <1>1, <1>2, <1>3
    DEF Next, vars, SelectExisting, InsertSuite, InsertRevision, InsertBatch, SelectWinner,
        StatementFails, Abandon, Step

\* The gateways keep what SuiteContract promises, for any number of callers whose
\* statements interleave: each transaction takes effect at its commit as one command on the
\* Suites and Batches, or not at all.
THEOREM CatalogRefined == Spec => RefinesCatalog
<1>1. Init => Contract!Init
    BY DEF Init, Contract!Init
<1>2. QED
    BY <1>1, ContractStep, Invariance, PTL DEF Spec, RefinesCatalog, Contract!Spec
=============================================================================
