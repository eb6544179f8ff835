--------------------------- MODULE AssignmentStore ---------------------------
(***************************************************************************)
(* The rows of a Run's first execution (adapters/postgres_assignment.py):  *)
(* qep_runs, qep_assignments and qep_attempts, written statement by        *)
(* statement in a transaction that holds the row lock of the Run, by       *)
(* sessions that may fail between two statements, swallow the failure, or  *)
(* die.  The domain decides on the aggregate rebuilt from the rows, at the *)
(* time the session reads after it has the lock.                           *)
(*                                                                         *)
(* ExecutionRun is what the rows have to look like from outside: Refines   *)
(* maps the committed rows to the aggregate.                               *)
(***************************************************************************)
EXTENDS Naturals, Sequences

CONSTANTS
    Workers,         \* worker generations (WorkerRef)
    Sessions,        \* gateway instances, each for one transaction at a time
    MaxTime,         \* bound: clock
    MaxAssignments,  \* bound: reservations of the Run
    None

ASSUME StoreAssumption == MaxTime \in Nat /\ MaxAssignments \in Nat /\ None \notin Sessions

VARIABLES
    db,    \* the committed rows: run, assignments by offer, attempts
    lock,  \* the session with the row lock of the Run
    tx,    \* the open transaction of each session and what it has written
    now    \* the clock

storeVars == <<db, lock, tx, now>>

Open == {"offered", "claimed"}

StoreInit ==
    /\ db = [run |-> [phase |-> "planned", version |-> 0, fence |-> 0], asg |-> <<>>, att |-> <<>>]
    /\ lock = None
    /\ tx = [s \in Sessions |-> None]
    /\ now = 1

\* Bound: one tick at most while a transaction is open.
Tick ==
    /\ now < MaxTime
    /\ lock # None => now = tx[lock].at
    /\ now' = now + 1
    /\ UNCHANGED <<db, lock, tx>>

\* The planner's write, which is not in this gateway.
Enqueue ==
    /\ lock = None /\ db.run.phase = "planned"
    /\ db' = [db EXCEPT !.run = [db.run EXCEPT !.phase = "queued", !.version = db.run.version + 1]]
    /\ UNCHANGED <<lock, tx, now>>

----------------------------------------------------------------------------
(***************************************************************************)
(* A transaction: get_run_for_update, a publish of two parts (the rows of  *)
(* the assignment and the attempt, then the row of the Run), __aexit__.    *)
(***************************************************************************)

\* The phases the gateway rebuilds an aggregate for; any other is a conflict.
Loadable == {"queued", "assigned", "running"}

\* __aenter__ and get_run_for_update.
GetRunForUpdate(s) ==
    /\ tx[s] = None /\ lock = None
    /\ db.run.phase \in Loadable
    /\ lock' = s
    /\ tx' = [tx EXCEPT ![s] = [step |-> "loaded", at |-> now, view |-> db, run |-> db.run,
                                aborted |-> FALSE]]
    /\ UNCHANGED <<db, now>>

(***************************************************************************)
(* What a command makes of the rows v it was given, at time t: the rows of *)
(* assignments and attempts, and the update of the Run's row that is to    *)
(* follow.                                                                 *)
(***************************************************************************)

\* The active reservation of the rebuilt aggregate: the last open row.
OpenRows(v) == {i \in DOMAIN v.asg : v.asg[i].state \in Open}
Active(v) ==
    IF v.run.phase = "assigned" /\ OpenRows(v) # {}
    THEN CHOOSE i \in OpenRows(v) : \A j \in OpenRows(v) : j <= i ELSE 0

\* Run.offer_assignment
MayOffer(v, t, e) == v.run.phase = "queued" /\ Len(v.asg) < MaxAssignments /\ e > t

OfferedRow(w, e, t) ==
    [state |-> "offered", worker |-> w, offered |-> t, expires |-> e, claimed |-> 0,
     committed |-> 0, closed |-> 0, version |-> 0]

AfterOffer(v, t, w, e) ==
    [run |-> [v.run EXCEPT !.phase = "assigned"],
     asg |-> Append(v.asg, OfferedRow(w, e, t)), att |-> v.att]

\* A row is replaced by its next version.
Updated(v, row) == [v.asg EXCEPT ![Active(v)] = row]

\* Run.claim_assignment, and WHERE state = offered, version = 0.
MayClaim(v, t, w) ==
    /\ Active(v) # 0
    /\ LET a == v.asg[Active(v)]
       IN  a.worker = w /\ a.state = "offered" /\ a.version = 0 /\ t < a.expires

ClaimedRow(a, t) == [a EXCEPT !.state = "claimed", !.claimed = t, !.version = a.version + 1]

AfterClaim(v, t) ==
    [run |-> v.run, asg |-> Updated(v, ClaimedRow(v.asg[Active(v)], t)), att |-> v.att]

\* Run.commit_start, and WHERE state = claimed, version = 1; the attempt takes the
\* next fence.
MayCommitStart(v, t, w) ==
    /\ Active(v) # 0
    /\ LET a == v.asg[Active(v)]
       IN  a.worker = w /\ a.state = "claimed" /\ a.version = 1 /\ t < a.expires

CommittedRow(a, t) == [a EXCEPT !.state = "committed", !.committed = t, !.version = a.version + 1]

AttemptRow(v, w) ==
    [state |-> "start_committed", fence |-> v.run.fence + 1, asg |-> Active(v), worker |-> w]

AfterCommitStart(v, t, w) ==
    [run |-> [v.run EXCEPT !.phase = "running", !.fence = v.run.fence + 1],
     asg |-> Updated(v, CommittedRow(v.asg[Active(v)], t)),
     att |-> Append(v.att, AttemptRow(v, w))]

\* Run.expire_precommit_assignment, Run.release_precommit_assignment; the row is
\* closed whatever its version.
MayExpire(v, t)     == Active(v) # 0 /\ t >= v.asg[Active(v)].expires
MayRelease(v, t, w) ==
    /\ Active(v) # 0
    /\ v.asg[Active(v)].worker = w /\ t < v.asg[Active(v)].expires

ClosedRow(a, t, kind) == [a EXCEPT !.state = kind, !.closed = t, !.version = a.version + 1]

AfterClose(v, t, kind) ==
    [run |-> [v.run EXCEPT !.phase = "queued"],
     asg |-> Updated(v, ClosedRow(v.asg[Active(v)], t, kind)), att |-> v.att]

----------------------------------------------------------------------------
\* The first part of a publish: the rows of assignments and attempts.
Write(s, rows) ==
    /\ tx[s].step = "loaded"
    /\ tx' = [tx EXCEPT ![s] =
                [step |-> "written", at |-> tx[s].at,
                 view |-> [run |-> tx[s].view.run, asg |-> rows.asg, att |-> rows.att],
                 run |-> rows.run, aborted |-> tx[s].aborted]]
    /\ UNCHANGED <<db, lock, now>>

PublishOffer(s, w, e) ==
    /\ MayOffer(tx[s].view, tx[s].at, e)
    /\ Write(s, AfterOffer(tx[s].view, tx[s].at, w, e))

PublishClaim(s, w) ==
    /\ MayClaim(tx[s].view, tx[s].at, w)
    /\ Write(s, AfterClaim(tx[s].view, tx[s].at))

PublishCommitStart(s, w) ==
    /\ MayCommitStart(tx[s].view, tx[s].at, w)
    /\ Write(s, AfterCommitStart(tx[s].view, tx[s].at, w))

\* _publish_close
PublishExpire(s) ==
    /\ MayExpire(tx[s].view, tx[s].at)
    /\ Write(s, AfterClose(tx[s].view, tx[s].at, "expired_prestart"))

PublishRelease(s, w) ==
    /\ MayRelease(tx[s].view, tx[s].at, w)
    /\ Write(s, AfterClose(tx[s].view, tx[s].at, "released_prestart"))

\* The rows a transaction has staged, with the update of the Run's row, which moves
\* its version when it is written.
Staged(x) == [run |-> x.run, asg |-> x.view.asg, att |-> x.view.att]
Published(rows) ==
    [run |-> [rows.run EXCEPT !.version = rows.run.version + 1],
     asg |-> rows.asg, att |-> rows.att]

\* The second part: the Run's row, under compare-and-set on its version.
WriteRun(s) ==
    /\ tx[s] # None /\ tx[s].step = "written"
    /\ tx[s].view.run.version = db.run.version
    /\ tx' = [tx EXCEPT ![s] =
                [step |-> "published", at |-> tx[s].at,
                 view |-> Published(Staged(tx[s])), run |-> tx[s].run, aborted |-> tx[s].aborted]]
    /\ UNCHANGED <<db, lock, now>>

\* A statement fails; publish_* marks the transaction before it raises, so that a
\* caller who catches the exception and leaves the block normally commits nothing.
PublishFails(s) ==
    /\ tx[s] # None /\ tx[s].step \in {"loaded", "written"}
    /\ tx' = [tx EXCEPT ![s].step = "published", ![s].aborted = TRUE]
    /\ UNCHANGED <<db, lock, now>>

\* Fault: the block's exit looks only for an exception that leaves the block.
CommitsUnlessRaised(s) == TRUE

Commits(s) == ~tx[s].aborted

\* __aexit__ without an exception; a replayed or refused command wrote nothing.
Exit(s) ==
    /\ tx[s] # None /\ tx[s].step \in {"loaded", "published"}
    /\ db' = IF Commits(s) THEN tx[s].view ELSE db
    /\ tx' = [tx EXCEPT ![s].step = "ended"]
    /\ UNCHANGED <<lock, now>>

\* The connection goes back to the pool.
Leave(s) ==
    /\ tx[s] # None /\ tx[s].step = "ended"
    /\ tx' = [tx EXCEPT ![s] = None] /\ lock' = None
    /\ UNCHANGED <<db, now>>

\* __aexit__ with an exception, or the process dies: the server rolls back.
RollBack(s) ==
    /\ tx[s] # None /\ tx[s].step # "ended"
    /\ tx' = [tx EXCEPT ![s] = None] /\ lock' = None
    /\ UNCHANGED <<db, now>>

----------------------------------------------------------------------------
PublishNext(s) ==
    /\ tx[s] # None
    /\ \/ \E w \in Workers : \/ \E e \in 1..(MaxTime + 1) : PublishOffer(s, w, e)
                             \/ PublishClaim(s, w) \/ PublishCommitStart(s, w)
                             \/ PublishRelease(s, w)
       \/ PublishExpire(s)

StoreNext ==
    \/ Tick \/ Enqueue
    \/ \E s \in Sessions : \/ GetRunForUpdate(s) \/ PublishNext(s) \/ WriteRun(s)
                           \/ PublishFails(s) \/ Exit(s) \/ Leave(s) \/ RollBack(s)

StoreSpec == StoreInit /\ [][StoreNext]_storeVars

----------------------------------------------------------------------------
(* Properties *)

\* The committed rows as the aggregate: nothing of the retry path, and the time
\* of the transaction while one is open.
Reservation(a) ==
    [state |-> a.state, worker |-> a.worker, retry |-> 0, offered |-> a.offered,
     expires |-> a.expires, claimed |-> a.claimed, committed |-> a.committed,
     closed |-> a.closed]

Execution(a) ==
    [state |-> a.state, fence |-> a.fence, asg |-> a.asg, worker |-> a.worker, retry |-> 0,
     unknownAt |-> 0, adj |-> <<>>, events |-> 0]

Reservations(asg) == [i \in 1..Len(asg) |-> Reservation(asg[i])]
Executions(att)   == [k \in 1..Len(att) |-> Execution(att[k])]
CurrentOf(v)      == IF v.run.phase \in {"assigned", "running"} THEN Len(v.asg) ELSE 0
Clock             == IF lock = None THEN now ELSE tx[lock].at

Aggregate == INSTANCE ExecutionRun WITH
    state    <- db.run.phase,
    fence    <- db.run.fence,
    asg      <- Reservations(db.asg),
    current  <- CurrentOf(db),
    att      <- Executions(db.att),
    intents  <- <<>>, pending <- 0, cancelAt <- 0, stopAt <- 0,
    now      <- Clock,
    MaxAttempts <- 1, MaxAdjudications <- 0, MaxEvents <- 0

\* Every transaction, committed, failed half-way or abandoned, is one command of
\* the aggregate or nothing at all.
Refines == Aggregate!Spec

----------------------------------------------------------------------------
(***************************************************************************)
(* The inductive invariant behind Refines.  One session at a time has a    *)
(* transaction, the one with the lock; as the rows do not move under it,   *)
(* what it has staged is what one command makes of the committed rows.     *)
(***************************************************************************)
AssignmentStates == Open \cup {"committed", "expired_prestart", "released_prestart"}
RunRows == [phase : {"planned"} \cup Loadable, version : Nat, fence : Nat]
AssignmentRows ==
    [state : AssignmentStates, worker : Workers, offered : Nat, expires : Nat, claimed : Nat,
     committed : Nat, closed : Nat, version : Nat]
AttemptRows == [state : {"start_committed"}, fence : Nat, asg : Nat, worker : Workers]
Rows == [run : RunRows, asg : Seq(AssignmentRows), att : Seq(AttemptRows)]

\* A Run that is assigned has one open row, its last, and no other Run has any;
\* only a running one has an attempt.
RowsOK(v) ==
    /\ v \in Rows
    /\ OpenRows(v) = IF v.run.phase = "assigned" THEN {Len(v.asg)} ELSE {}
    /\ v.run.phase # "running" => v.att = <<>>

\* One command takes the rows v to the rows new.
OneCommand(v, t, new) ==
    \/ \E w \in Workers :
          \/ \E e \in 1..(MaxTime + 1) : MayOffer(v, t, e) /\ new = AfterOffer(v, t, w, e)
          \/ MayClaim(v, t, w) /\ new = AfterClaim(v, t)
          \/ MayCommitStart(v, t, w) /\ new = AfterCommitStart(v, t, w)
          \/ MayRelease(v, t, w) /\ new = AfterClose(v, t, "released_prestart")
    \/ MayExpire(v, t) /\ new = AfterClose(v, t, "expired_prestart")

TransactionOK(x) ==
    /\ x.at \in Nat
    /\ now = x.at \/ (now = x.at + 1 /\ x.at < MaxTime)
    /\ x.step \in {"loaded", "written", "published", "ended"}
    /\ x.step = "loaded" => x.view = db /\ ~x.aborted
    /\ x.step = "written" => x.view.run = db.run /\ OneCommand(db, x.at, Staged(x))
    /\ x.step = "published" /\ ~x.aborted =>
          OneCommand(db, x.at, Staged(x)) /\ x.view = Published(Staged(x))

StoreInv ==
    /\ RowsOK(db) /\ now \in Nat
    /\ lock \in Sessions \cup {None}
    /\ tx = [s \in Sessions |-> tx[s]]
    /\ \A s \in Sessions : tx[s] # None => lock = s
    /\ lock # None => TransactionOK(tx[lock])
=============================================================================
