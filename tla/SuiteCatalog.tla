---------------------------- MODULE SuiteCatalog ----------------------------
(***************************************************************************)
(* Suites (domain/suite.py, adapters/postgres_suite.py) and the creation   *)
(* of Batches for them (Batch.open_for_suite, adapters/postgres_batch.py). *)
(*                                                                         *)
(* Each command is a transaction of several statements at READ COMMITTED.  *)
(* SELECT ... FOR UPDATE waits for the row lock of a Suite and then reads  *)
(* the row as it is; an INSERT waits while another transaction has an      *)
(* uncommitted row with the same unique key.  What the caller knows of the *)
(* Suite may be old, or may never have been stored.                        *)
(*                                                                         *)
(* Names of Suites are taken to differ, so that UNIQUE (project_id, name)  *)
(* never strikes; a first revision stands for its digests.                 *)
(***************************************************************************)
EXTENDS Naturals, Sequences, SequencesExt

CONSTANTS
    Suites, Revisions, Projects,  \* ids
    Keys, Digests, Batches,       \* idempotency keys (with scope), requests, Batch ids
    Callers,                      \* gateways, each for one transaction at a time
    None

ASSUME CatalogAssumption == None \notin Suites \cup Callers

VARIABLES
    suites,   \* qep_suites with their qep_suite_revisions, committed
    batches,  \* qep_batches by idempotency key, committed
    tx,       \* the open transaction of each caller
    answers   \* create commands answered with a Batch, created or replayed

vars == <<suites, batches, tx, answers>>

\* Suite.register: version 0 and one approved revision.
NewSuite(j, v) == [project |-> j, status |-> "active", version |-> 0, revs |-> <<v>>]

\* Suite.publish_revision; None when it raises.
Revised(row, v, expected) ==
    IF row.version = expected /\ row.status = "active" /\ v \notin ToSet(row.revs)
    THEN [row EXCEPT !.revs = Append(@, v), !.version = @ + 1]
    ELSE None

\* Suite.retire; None when it raises.
Retired(row, expected) ==
    IF row.version = expected /\ row.status = "active"
    THEN [row EXCEPT !.status = "retired", !.version = @ + 1]
    ELSE None

\* Batch.open_for_suite: what the new row will hold.
OpenForSuite(c) == [id |-> c.batch, digest |-> c.digest, rev |-> c.rev, project |-> c.project]

Init ==
    /\ suites = [s \in Suites |-> None]
    /\ batches = [k \in Keys |-> None]
    /\ tx = [p \in Callers |-> None]
    /\ answers = {}

----------------------------------------------------------------------------
(* The tables, as a statement sees them. *)

Registered == {s \in Suites : suites[s] # None}

\* The Suite of a committed revision.
SuiteOf(v) ==
    LET owners == {s \in Registered : v \in ToSet(suites[s].revs)}
    IN  IF owners = {} THEN None ELSE CHOOSE s \in owners : TRUE

Others(p) == {q \in Callers \ {p} : tx[q] # None}

\* Rows written and not yet committed by the others.
SuiteStaged(p, s) == \E q \in Others(p) : tx[q].op = "register" /\ tx[q].suite = s /\ tx[q].row # None
RevStaged(p, v)   == \E q \in Others(p) : tx[q].inserted /\ tx[q].rev = v
BatchStaged(p, k, b) ==
    \E q \in Others(p) : /\ tx[q].op = "create" /\ tx[q].row # None
                         /\ tx[q].key = k \/ tx[q].batch = b

\* The unique indexes of qep_batches.
BatchTaken(k, b) == batches[k] # None \/ \E l \in Keys : batches[l] # None /\ batches[l].id = b

RowFree(p, s) == \A q \in Others(p) : tx[q].locked # s

----------------------------------------------------------------------------
(* Transactions. *)

\* A transaction that has begun: row is what it has written, inserted whether a
\* revision row is among it.
Begun(op, at) ==
    [op |-> op, at |-> at, suite |-> None, project |-> None, rev |-> None, expected |-> 0,
     key |-> None, digest |-> None, batch |-> None,
     row |-> None, inserted |-> FALSE, locked |-> None, aborted |-> FALSE, answer |-> None]

\* __aenter__ with the command of the caller.
Enter(p, c) ==
    /\ tx[p] = None
    /\ tx' = [tx EXCEPT ![p] = c]
    /\ UNCHANGED <<suites, batches, answers>>

EnterRegister(p, s, j, v) ==
    Enter(p, [Begun("register", "select") EXCEPT !.suite = s, !.project = j, !.rev = v])

\* The version the caller expects is one it read before.
EnterRevision(p, s, v) ==
    suites[s] # None /\ Enter(p, [Begun("revise", "lock") EXCEPT
                                    !.suite = s, !.rev = v, !.expected = suites[s].version])

EnterRetire(p, s) ==
    suites[s] # None /\ Enter(p, [Begun("retire", "lock") EXCEPT
                                    !.suite = s, !.expected = suites[s].version])

\* The Batch was opened for a Suite value of any age or origin.
EnterCreate(p, k, d, b, j, v) ==
    Enter(p, [Begun("create", "lock") EXCEPT
                 !.key = k, !.digest = d, !.batch = b, !.project = j, !.rev = v])

In(p, step) == tx[p] # None /\ tx[p].at = step

Step(p, t) == tx' = [tx EXCEPT ![p] = t] /\ UNCHANGED <<suites, batches, answers>>

\* A publish that raises marks the transaction first.
Raises(t) == [t EXCEPT !.at = "exit", !.aborted = TRUE]

\* _register: SELECT ... WHERE id.
SelectExisting(p) ==
    /\ In(p, "select")
    /\ Step(p, [tx[p] EXCEPT !.at = IF suites[tx[p].suite] # None THEN "lock" ELSE "insert_suite"])

\* INSERT INTO qep_suites; a row that came in between is a violation of the key.
InsertSuite(p) ==
    /\ In(p, "insert_suite") /\ ~SuiteStaged(p, tx[p].suite)
    /\ Step(p, IF suites[tx[p].suite] # None THEN Raises(tx[p])
               ELSE [tx[p] EXCEPT !.at = "insert_revision",
                                  !.row = NewSuite(tx[p].project, tx[p].rev)])

\* INSERT INTO qep_suite_revisions, and the update of the Suite's row that follows
\* a new revision: under the lock its compare-and-set cannot fail.
InsertRevision(p) ==
    /\ In(p, "insert_revision") /\ ~RevStaged(p, tx[p].rev)
    /\ Step(p, IF SuiteOf(tx[p].rev) # None THEN Raises(tx[p])
               ELSE [tx[p] EXCEPT !.at = "exit", !.inserted = TRUE])

\* The Suite whose row a command locks: that of its revision, for a Batch.
Target(p) == IF tx[p].op = "create" THEN SuiteOf(tx[p].rev) ELSE tx[p].suite

\* Fault: SELECT without FOR UPDATE.
ReadsRow(p) == tx[p]

\* SELECT ... FOR UPDATE OF suite.
LocksRow(p) == [tx[p] EXCEPT !.locked = Target(p)]

\* _register of a Suite that exists: the same registration, with no revision since.
SameRegistration(p, row) == row.project = tx[p].project /\ Last(row.revs) = tx[p].rev

\* _require_suite_accepts
SuiteAccepts(p, row) == row.project = tx[p].project /\ row.status = "active"

\* What the command does with the row it has locked; staged is its new row.
Publishes(t, staged, step) ==
    IF staged = None THEN Raises(t) ELSE [t EXCEPT !.row = staged, !.at = step]

Decides(p, row) ==
    LET t == LocksRow(p)
    IN  CASE t.op = "register" ->
               IF SameRegistration(p, row) THEN [t EXCEPT !.at = "exit"] ELSE Raises(t)
          [] t.op = "revise" -> Publishes(t, Revised(row, t.rev, t.expected), "insert_revision")
          [] t.op = "retire" -> Publishes(t, Retired(row, t.expected), "exit")
          [] OTHER ->
               IF SuiteAccepts(p, row) THEN [t EXCEPT !.at = "insert_batch"] ELSE Raises(t)

\* get_suite_for_update, or the query of _require_suite_accepts.
LockSuite(p) ==
    /\ In(p, "lock")
    /\ IF Target(p) = None THEN Step(p, Raises(tx[p]))
       ELSE RowFree(p, Target(p)) /\ Step(p, Decides(p, suites[Target(p)]))

\* INSERT INTO qep_batches inside its savepoint.
InsertBatch(p) ==
    /\ In(p, "insert_batch") /\ ~BatchStaged(p, tx[p].key, tx[p].batch)
    /\ Step(p, IF BatchTaken(tx[p].key, tx[p].batch)
               THEN [tx[p] EXCEPT !.at = "winner"]
               ELSE [tx[p] EXCEPT !.at = "exit", !.row = OpenForSuite(tx[p]),
                                  !.answer = OpenForSuite(tx[p])])

\* Fault: whatever the key has stored is the answer.
SameKey(p, row) == TRUE

SameRequest(p, row) == row.digest = tx[p].digest

\* After ROLLBACK TO SAVEPOINT: the row with the key is the answer, unless the
\* request differs; without one it was the id that is taken.
SelectWinner(p) ==
    /\ In(p, "winner")
    /\ LET row == batches[tx[p].key]
       IN  Step(p, IF row # None /\ SameRequest(p, row)
                   THEN [tx[p] EXCEPT !.at = "exit", !.answer = row]
                   ELSE Raises(tx[p]))

\* A statement fails: the method marks the transaction and raises.
StatementFails(p) ==
    /\ tx[p] # None /\ tx[p].at # "exit"
    /\ Step(p, Raises(tx[p]))

\* What a commit makes visible.
Commit(p) ==
    /\ suites' = IF tx[p].op # "create" /\ tx[p].row # None
                 THEN [suites EXCEPT ![tx[p].suite] = tx[p].row] ELSE suites
    /\ batches' = IF tx[p].op = "create" /\ tx[p].row # None
                  THEN [batches EXCEPT ![tx[p].key] = tx[p].row] ELSE batches
    /\ answers' = IF tx[p].answer = None THEN answers
                  ELSE answers \cup {[key |-> tx[p].key, digest |-> tx[p].digest,
                                      batch |-> tx[p].answer.id]}

\* __aexit__ without an exception: a marked transaction is rolled back all the same.
Exit(p) ==
    /\ In(p, "exit")
    /\ IF tx[p].aborted THEN UNCHANGED <<suites, batches, answers>> ELSE Commit(p)
    /\ tx' = [tx EXCEPT ![p] = None]

\* __aexit__ with an exception, at any point, or the end of the process.
Abandon(p) ==
    /\ tx[p] # None
    /\ tx' = [tx EXCEPT ![p] = None]
    /\ UNCHANGED <<suites, batches, answers>>

----------------------------------------------------------------------------
EnterAny(p) ==
    \/ \E s \in Suites :
          \/ EnterRetire(p, s)
          \/ \E v \in Revisions : \/ EnterRevision(p, s, v)
                                  \/ \E j \in Projects : EnterRegister(p, s, j, v)
    \/ \E k \in Keys, d \in Digests, b \in Batches, j \in Projects, v \in Revisions :
          EnterCreate(p, k, d, b, j, v)

Next ==
    \E p \in Callers :
        \/ EnterAny(p)
        \/ SelectExisting(p) \/ InsertSuite(p) \/ InsertRevision(p) \/ LockSuite(p)
        \/ InsertBatch(p) \/ SelectWinner(p)
        \/ StatementFails(p) \/ Exit(p) \/ Abandon(p)

Spec == Init /\ [][Next]_vars

----------------------------------------------------------------------------
(* Properties *)

Contract == INSTANCE SuiteContract WITH suites <- suites, batches <- batches

\* Each transaction, however its statements interleave with those of others, takes
\* effect at its commit as one command of the contract or not at all: no Batch is
\* bound to a Suite that is retired by then, no revision is lost or used twice.
RefinesCatalog == Contract!Spec

\* Whoever was answered with a Batch finds that Batch under its key, made from the
\* request that was sent, whichever of several racing creations won.
AnswersStand ==
    \A a \in answers : /\ batches[a.key] # None
                       /\ batches[a.key].id = a.batch /\ batches[a.key].digest = a.digest

----------------------------------------------------------------------------
(* What the proofs need to know of the transactions under way. *)

SuiteRows == [project : Projects, status : {"active", "retired"}, version : Nat, revs : Seq(Revisions)]
BatchRows == [id : Batches, digest : Digests, rev : Revisions, project : Projects]
Commands  == [op : {"register", "revise", "retire", "create"},
              at : {"select", "insert_suite", "insert_revision", "lock", "insert_batch", "winner",
                    "exit"},
              suite : Suites \cup {None}, project : Projects \cup {None},
              rev : Revisions \cup {None}, expected : Nat,
              key : Keys \cup {None}, digest : Digests \cup {None}, batch : Batches \cup {None},
              row : SuiteRows \cup BatchRows \cup {None}, inserted : BOOLEAN,
              locked : Suites \cup {None}, aborted : BOOLEAN, answer : BatchRows \cup {None}]

\* The statements of each command.
StepsOf == [register |-> {"select", "insert_suite", "insert_revision", "lock", "exit"},
            revise   |-> {"lock", "insert_revision", "exit"},
            retire   |-> {"lock", "exit"},
            create   |-> {"lock", "insert_batch", "winner", "exit"}]

\* Each command is at a statement of its own and carries its own arguments.
HasArguments(t) ==
    /\ t.at \in StepsOf[t.op] /\ (t.aborted => t.at = "exit")
    /\ IF t.op = "create"
       THEN /\ t.key \in Keys /\ t.digest \in Digests /\ t.batch \in Batches
            /\ t.project \in Projects /\ t.rev \in Revisions
            /\ ~t.inserted /\ t.row \in BatchRows \cup {None}
       ELSE /\ t.suite \in Suites /\ t.answer = None /\ t.row \in SuiteRows \cup {None}
            /\ t.op # "retire" => t.rev \in Revisions
            /\ t.op = "retire" => ~t.inserted
            /\ t.op = "register" => t.project \in Projects

\* The tables and the open transactions have their shapes.
TypeOK ==
    /\ suites \in [Suites -> SuiteRows \cup {None}]
    /\ batches \in [Keys -> BatchRows \cup {None}]
    /\ tx \in [Callers -> Commands \cup {None}]
    /\ \A p \in Callers : tx[p] # None => HasArguments(tx[p])
    /\ answers \subseteq [key : Keys, digest : Digests, batch : Batches]

Unused(v) == \A s \in Registered : v \notin ToSet(suites[s].revs)

\* The row locks exclude each other, and the unique keys hold over committed and
\* staged rows alike.
Exclusive(p, t) ==
    /\ t.locked # None => RowFree(p, t.locked)
    /\ t.op = "register" /\ t.row # None => suites[t.suite] = None /\ ~SuiteStaged(p, t.suite)
    /\ t.inserted => Unused(t.rev) /\ ~RevStaged(p, t.rev)
    /\ t.op = "create" /\ t.row # None =>
          ~BatchTaken(t.key, t.batch) /\ ~BatchStaged(p, t.key, t.batch)

\* A registration stages the first row of its Suite, then its revision.
RegisterReady(t) ==
    t.op = "register" /\ ~t.aborted =>
        /\ t.at \in {"select", "lock", "insert_suite"} => t.row = None
        /\ t.row # None => /\ t.row = NewSuite(t.project, t.rev)
                           /\ t.at = "exit" => t.inserted

\* A change of a Suite was made from the row that is stored, and the row is locked.
ChangeReady(t) ==
    t.op \in {"revise", "retire"} =>
        /\ suites[t.suite] # None
        /\ ~t.aborted =>
              IF t.at = "lock" THEN t.row = None
              ELSE /\ t.locked = t.suite /\ t.row # None
                   /\ t.op = "revise" => t.row = Revised(suites[t.suite], t.rev, t.expected)
                   /\ t.op = "retire" => t.row = Retired(suites[t.suite], t.expected)
                   /\ t.op = "revise" /\ t.at = "exit" => t.inserted

\* A creation has found its Suite active and holds its row; its answer is the row
\* it staged, or the one that is stored for the same request.
CreateReady(t) ==
    t.op = "create" /\ ~t.aborted =>
        /\ t.at # "exit" => t.row = None /\ t.answer = None
        /\ t.at # "lock" =>
              /\ t.locked \in Registered
              /\ suites[t.locked].status = "active" /\ suites[t.locked].project = t.project
              /\ t.rev \in ToSet(suites[t.locked].revs)
        /\ t.row # None => t.row = OpenForSuite(t) /\ t.answer = t.row
        /\ t.answer # None /\ t.row = None =>
              t.answer = batches[t.key] /\ t.answer.digest = t.digest

IInv ==
    /\ TypeOK /\ AnswersStand
    /\ \A p \in Callers : tx[p] # None =>
          /\ Exclusive(p, tx[p])
          /\ RegisterReady(tx[p]) /\ ChangeReady(tx[p]) /\ CreateReady(tx[p])
=============================================================================
