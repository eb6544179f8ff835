------------------------------ MODULE Console ------------------------------
(***************************************************************************)
(* The console's own tables beside the runs' lifecycle: accounts, cron     *)
(* schedules with the APScheduler jobs of every replica, profiles, and the *)
(* retention of finished runs (api/routes.py, core/schedule_service.py,    *)
(* adapters/apscheduler_schedule.py, adapters/sqlite_store.py and its      *)
(* Postgres twin).                                                         *)
(*                                                                         *)
(* Every SQL statement commits alone, so a handler is a sequence of steps, *)
(* one per await that touches shared state; tasks interleave between them. *)
(* One profile, one schedule of it and one finished run, all of the user   *)
(* Owner, stand for the tables.  Ids are uuids: a deleted one is never     *)
(* issued again, so only an upsert can bring a row back.                   *)
(***************************************************************************)
EXTENDS Naturals, Sequences, FiniteSets, SequencesExt

CONSTANTS
    Users, Owner, \* accounts; the one that owns the profile, the schedule and the run
    Replicas,     \* control-plane processes, each with its own in-process cron scheduler
    Tasks,        \* handlers that can be under way at the same time
    MaxTime,      \* bound: clock
    MaxRequests,  \* bound: requests of users and restarts (not the fires of schedules)
    MaxRestarts,  \* bound: restarts of the deployment, each counted as a request too
    None

ASSUME ConsoleAssumption ==
    /\ Owner \in Users /\ None \notin Users
    /\ IsFiniteSet(Users) /\ Users # {Owner}  \* the bootstrapped administrator is not the owner
    /\ MaxTime \in Nat /\ MaxRequests \in Nat /\ MaxRestarts \in Nat

VARIABLES
    users,    \* role of each account, "none" without one
    prof,     \* whether the profile row exists
    sched,    \* the schedule row: enabled, expression, last_run_at; or None
    inserted, \* how often a schedule row was inserted under this id
    jobs,     \* per replica: the expression of the registered job, or None
    due,      \* replicas whose job elapsed and has not started yet
    fired,    \* scheduled runs in order: the tick claimed and the row it was claimed on
    run,      \* the row of the finished run, or None
    art,      \* whether its artifact directory exists
    task,     \* what each handler is doing
    now, reqs, restarts

vars == <<users, prof, sched, inserted, jobs, due, fired, run, art, task, now, reqs, restarts>>

Crons == {"every", "second"}

\* cron.previous_run: the last tick of the expression that is not after t.
PreviousRun(c, t) == IF c = "every" THEN t ELSE t - (t % 2)
Elapses(c, t)     == PreviousRun(c, t) = t

Idle == [op |-> "idle"]

Init ==
    /\ \E role \in {"user", "admin"} :
          users = [u \in Users |-> IF u = Owner THEN role ELSE "admin"]
    /\ prof = TRUE
    /\ \/ sched = None /\ inserted = 0 /\ jobs = [r \in Replicas |-> None]
       \/ /\ sched = [on |-> TRUE, cron |-> "every", last |-> 0] /\ inserted = 1
          /\ jobs = [r \in Replicas |-> "every"]
    /\ due = {} /\ fired = <<>>
    /\ run = [locked |-> FALSE, claimed |-> FALSE, report |-> TRUE] /\ art = TRUE
    /\ task = [t \in Tasks |-> Idle]
    /\ now = 1 /\ reqs = 0 /\ restarts = 0

Admins == {u \in Users : users[u] = "admin"}

----------------------------------------------------------------------------
(* A task: a request takes a free one, its handler goes from step to step. *)

Begin(t, k) == task[t] = Idle /\ reqs < MaxRequests
               /\ reqs' = reqs + 1 /\ task' = [task EXCEPT ![t] = k]
               /\ UNCHANGED <<now, restarts>>
Goto(t, k)  == task' = [task EXCEPT ![t] = k] /\ UNCHANGED <<now, reqs, restarts>>
End(t)      == Goto(t, Idle)
At(t, op)   == task[t].op = op

accounts  == <<users>>
schedules == <<prof, sched, inserted, jobs, due, fired>>
retention == <<run, art>>

----------------------------------------------------------------------------
(* Accounts. *)

\* Fault: the demotion relies on the check of the handler.
DemoteOther(t) ==
    /\ At(t, "demote") /\ End(t)
    /\ users' = IF users[task[t].who] = "admin"
                THEN [users EXCEPT ![task[t].who] = task[t].role] ELSE users
    /\ UNCHANGED <<schedules, retention>>

\* Fault: an upsert of the whole row.
SavedInFull(row) == row

\* Fault: the cleanup trusts the list it read.
ClaimableAsListed == run # None

\* create_user: the name is looked up, the password hashed, the row inserted.
CreateUser(t, u, role) ==
    /\ Begin(t, [op |-> "create_user", who |-> u, role |-> role])
    /\ Admins # {} /\ users[u] = "none"
    /\ UNCHANGED <<accounts, schedules, retention>>

InsertUser(t) ==
    /\ At(t, "create_user") /\ End(t)
    /\ users' = IF users[task[t].who] = "none"       \* otherwise the INSERT fails
                THEN [users EXCEPT ![task[t].who] = task[t].role] ELSE users
    /\ UNCHANGED <<schedules, retention>>

\* update_user looks at the role it read, the statements at the role that is stored.
UpdateUser(t, a, u, role) ==
    /\ users[a] = "admin" /\ users[u] # "none"
    /\ ~(users[u] = "admin" /\ role # "admin" /\ a = u)
    /\ Begin(t, [op |-> IF users[u] = "admin" /\ role # "admin" THEN "demote" ELSE "update_role",
                 who |-> u, role |-> role])
    /\ UNCHANGED <<accounts, schedules, retention>>

DemoteIfNotLastAdmin(t) ==
    /\ At(t, "demote") /\ End(t)
    /\ users' = IF users[task[t].who] = "admin" /\ Cardinality(Admins) > 1
                THEN [users EXCEPT ![task[t].who] = task[t].role] ELSE users
    /\ UNCHANGED <<schedules, retention>>

UpdateRole(t) ==
    /\ At(t, "update_role") /\ End(t)
    /\ LET u == task[t].who IN
       users' = IF users[u] # "none" /\ (users[u] # "admin" \/ task[t].role = "admin"
                                          \/ Cardinality(Admins) > 1)
                THEN [users EXCEPT ![u] = task[t].role] ELSE users
    /\ UNCHANGED <<schedules, retention>>

\* delete_user removes what the account owns, table by table, and then the account.
DeleteUser(t, a, u) ==
    /\ users[a] = "admin" /\ a # u /\ users[u] # "none"
    /\ Begin(t, [op |-> "delete_runs", who |-> u])
    /\ UNCHANGED <<accounts, schedules, retention>>

DeleteUserRuns(t) ==
    /\ At(t, "delete_runs") /\ Goto(t, [task[t] EXCEPT !.op = "delete_profiles"])
    /\ run' = IF task[t].who = Owner THEN None ELSE run
    /\ UNCHANGED <<accounts, schedules, art>>

\* The foreign key takes the profile's schedule along.
DeleteUserProfiles(t) ==
    /\ At(t, "delete_profiles") /\ Goto(t, [task[t] EXCEPT !.op = "delete_schedules"])
    /\ IF task[t].who = Owner THEN prof' = FALSE /\ sched' = None ELSE UNCHANGED <<prof, sched>>
    /\ UNCHANGED <<accounts, inserted, jobs, due, fired, retention>>

DeleteUserSchedules(t) ==
    /\ At(t, "delete_schedules") /\ Goto(t, [task[t] EXCEPT !.op = "delete_account"])
    /\ sched' = IF task[t].who = Owner THEN None ELSE sched
    /\ UNCHANGED <<accounts, prof, inserted, jobs, due, fired, retention>>

DeleteAccount(t) ==
    /\ At(t, "delete_account") /\ End(t)
    /\ LET u == task[t].who IN
       users' = IF users[u] # "admin" \/ Cardinality(Admins) > 1
                THEN [users EXCEPT ![u] = "none"] ELSE users
    /\ UNCHANGED <<schedules, retention>>

----------------------------------------------------------------------------
(* Profiles and schedules.  Their requests come from the owner or an admin. *)

Entitled == Admins # {} \/ users[Owner] # "none"

\* ProfileService.update reads the profile and saves it in full.
UpdateProfile(t) ==
    /\ Entitled /\ prof
    /\ Begin(t, [op |-> "save_profile"])
    /\ UNCHANGED <<accounts, schedules, retention>>
SaveProfile(t) ==
    /\ At(t, "save_profile") /\ End(t)
    /\ prof' = TRUE
    /\ UNCHANGED <<accounts, sched, inserted, jobs, due, fired, retention>>

DeleteProfile(t) ==
    /\ Entitled /\ prof
    /\ Begin(t, Idle)
    /\ prof' = FALSE /\ sched' = None
    /\ UNCHANGED <<accounts, inserted, jobs, due, fired, retention>>

\* ScheduleService.create and update: validated against what is stored, saved later.
CreateSchedule(t, r, on, c) ==
    /\ Entitled /\ prof /\ inserted = 0
    /\ Begin(t, [op |-> "save", rep |-> r, row |-> [on |-> on, cron |-> c, last |-> 0]])
    /\ UNCHANGED <<accounts, schedules, retention>>
UpdateSchedule(t, r, on, c) ==
    /\ Entitled /\ prof /\ sched # None
    /\ Begin(t, [op |-> "save", rep |-> r, row |-> [on |-> on, cron |-> c, last |-> sched.last]])
    /\ UNCHANGED <<accounts, schedules, retention>>

\* save_schedule: an upsert that leaves last_run_at of a stored row alone.
Saved(row) == IF sched = None THEN row ELSE [row EXCEPT !.last = sched.last]

SaveSchedule(t) ==
    /\ At(t, "save")
    /\ IF prof
       THEN /\ sched' = Saved(task[t].row)
            /\ inserted' = IF sched = None THEN inserted + 1 ELSE inserted
            /\ Goto(t, [task[t] EXCEPT !.op = "register"])
       ELSE End(t) /\ UNCHANGED <<sched, inserted>>  \* the foreign key refuses the row
    /\ UNCHANGED <<accounts, prof, jobs, due, fired, retention>>

\* upsert or remove on the scheduler of the replica that served the request.
Register(t) ==
    /\ At(t, "register") /\ End(t)
    /\ jobs' = [jobs EXCEPT ![task[t].rep] = IF task[t].row.on THEN task[t].row.cron ELSE None]
    /\ UNCHANGED <<accounts, prof, sched, inserted, due, fired, retention>>

DeleteSchedule(t, r) ==
    /\ Entitled /\ sched # None
    /\ Begin(t, [op |-> "unregister", rep |-> r])
    /\ sched' = None
    /\ UNCHANGED <<accounts, prof, inserted, jobs, due, fired, retention>>
Unregister(t) ==
    /\ At(t, "unregister") /\ End(t)
    /\ jobs' = [jobs EXCEPT ![task[t].rep] = None]
    /\ UNCHANGED <<accounts, prof, sched, inserted, due, fired, retention>>

----------------------------------------------------------------------------
(* The cron ticks: every replica's job fires by itself. *)

Tick ==
    /\ now < MaxTime
    /\ now' = now + 1
    /\ due' = due \cup {r \in Replicas : jobs[r] # None /\ Elapses(jobs[r], now + 1)}
    /\ UNCHANGED <<accounts, prof, sched, inserted, jobs, fired, retention, task, reqs, restarts>>

\* _trigger reads the schedule and its profile; nothing enabled there, nothing to do.
Trigger(t, r) ==
    /\ task[t] = Idle /\ r \in due
    /\ due' = due \ {r}
    /\ IF sched # None /\ prof /\ sched.on
       THEN Goto(t, [op |-> "fire", cron |-> sched.cron])
       ELSE End(t)
    /\ UNCHANGED <<accounts, prof, sched, inserted, jobs, fired, retention>>

\* The tick it stands for is computed from the expression it read and the clock; when
\* that fails, the clock itself stands for it.
Fire(t) ==
    /\ At(t, "fire")
    /\ \E fire_time \in {PreviousRun(task[t].cron, now), now} :
          Goto(t, [op |-> "claim", tick |-> fire_time])
    /\ UNCHANGED <<accounts, schedules, retention>>

\* claim_schedule_run: the first claim of the tick creates the run.
ClaimScheduleRun(t) ==
    /\ At(t, "claim") /\ End(t)
    /\ IF sched # None /\ sched.last < task[t].tick
       THEN /\ sched' = [sched EXCEPT !.last = task[t].tick]
            /\ fired' = Append(fired, <<inserted, task[t].tick>>)
       ELSE UNCHANGED <<sched, fired>>
    /\ UNCHANGED <<accounts, prof, inserted, jobs, due, retention>>

----------------------------------------------------------------------------
(* Retention. *)

\* lock_run is refused while a cleanup holds the row.
LockRun(t, locked) ==
    /\ Entitled /\ run # None
    /\ Begin(t, Idle)
    /\ run' = IF run.claimed THEN run ELSE [run EXCEPT !.locked = locked]
    /\ UNCHANGED <<accounts, schedules, art>>

\* delete_run looks at the lock once, removes the directory and then the row.
DeleteRun(t) ==
    /\ Entitled /\ run # None /\ ~run.locked
    /\ Begin(t, [op |-> "remove_dir"])
    /\ UNCHANGED <<accounts, schedules, retention>>
RemoveDir(t) ==
    /\ At(t, "remove_dir") /\ Goto(t, [op |-> "delete_row"])
    /\ art' \in {FALSE, art}  \* errors are ignored
    /\ UNCHANGED <<accounts, schedules, run>>
DeleteRow(t) ==
    /\ At(t, "delete_row") /\ End(t)
    /\ run' = None
    /\ UNCHANGED <<accounts, schedules, art>>

\* cleanup_runs: list, claim, remove the directory, finish.
CleanupRuns(t) ==
    /\ Admins # {} /\ run # None /\ ~run.locked /\ ~run.claimed
    /\ Begin(t, [op |-> "claim_cleanup"])
    /\ UNCHANGED <<accounts, schedules, retention>>

Claimable == run # None /\ ~run.claimed /\ ~run.locked

ClaimRunCleanup(t) ==
    /\ At(t, "claim_cleanup")
    /\ IF art /\ Claimable
       THEN run' = [run EXCEPT !.claimed = TRUE] /\ Goto(t, [op |-> "clean"])
       ELSE End(t) /\ UNCHANGED run
    /\ UNCHANGED <<accounts, schedules, art>>

Clean(t, removed) ==
    /\ At(t, "clean")
    /\ removed => art                                \* rmtree fails without a directory
    /\ Goto(t, [op |-> "finish", cleaned |-> removed])
    /\ art' = (art /\ ~removed)
    /\ UNCHANGED <<accounts, schedules, run>>

FinishRunCleanup(t) ==
    /\ At(t, "finish") /\ End(t)
    /\ run' = IF run = None \/ ~run.claimed THEN run
              ELSE [run EXCEPT !.claimed = FALSE, !.report = @ /\ ~task[t].cleaned]
    /\ UNCHANGED <<accounts, schedules, art>>

----------------------------------------------------------------------------
\* The deployment stops and starts: handlers are gone, initialize gives the cleanup
\* claims back, and every replica registers the stored schedule.
Restart ==
    /\ restarts < MaxRestarts /\ restarts' = restarts + 1
    /\ reqs < MaxRequests /\ reqs' = reqs + 1
    /\ task' = [t \in Tasks |-> Idle] /\ due' = {}
    /\ run' = IF run = None THEN None ELSE [run EXCEPT !.claimed = FALSE]
    /\ jobs' = [r \in Replicas |-> IF sched # None /\ sched.on THEN sched.cron ELSE None]
    /\ UNCHANGED <<accounts, prof, sched, inserted, fired, art, now>>

AccountNext(t) ==
    \/ \E u \in Users, role \in {"user", "admin"} :
          CreateUser(t, u, role) \/ \E a \in Users : UpdateUser(t, a, u, role)
    \/ \E a, u \in Users : DeleteUser(t, a, u)
    \/ InsertUser(t) \/ DemoteIfNotLastAdmin(t) \/ UpdateRole(t)
    \/ DeleteUserRuns(t) \/ DeleteUserProfiles(t) \/ DeleteUserSchedules(t) \/ DeleteAccount(t)

ScheduleNext(t) ==
    \/ UpdateProfile(t) \/ SaveProfile(t) \/ DeleteProfile(t)
    \/ \E r \in Replicas, on \in BOOLEAN, c \in Crons :
          CreateSchedule(t, r, on, c) \/ UpdateSchedule(t, r, on, c)
    \/ SaveSchedule(t) \/ Register(t) \/ Unregister(t)
    \/ \E r \in Replicas : DeleteSchedule(t, r) \/ Trigger(t, r)
    \/ Fire(t) \/ ClaimScheduleRun(t)

RetentionNext(t) ==
    \/ \E b \in BOOLEAN : LockRun(t, b) \/ Clean(t, b)
    \/ DeleteRun(t) \/ RemoveDir(t) \/ DeleteRow(t)
    \/ CleanupRuns(t) \/ ClaimRunCleanup(t) \/ FinishRunCleanup(t)

Next == Tick \/ Restart
        \/ \E t \in Tasks : AccountNext(t) \/ ScheduleNext(t) \/ RetentionNext(t)

Spec == Init /\ [][Next]_vars

----------------------------------------------------------------------------
(* Properties. *)

\* Whatever promotions, demotions and deletions run into each other, an account that
\* can administer the platform remains ("the platform would lock itself out of every
\* admin-only operation", update_user; the guards are in the UPDATE and DELETE).
AdminRemains == Admins # {}

\* A cron tick that fires on every replica creates one run, also while the schedule is
\* edited, disabled, restarted or its expression differs between job and row: as long
\* as the row is not deleted, claim_schedule_run takes every fire time once and in
\* order.  (A fire whose tick could not be computed goes by the clock, and two such
\* fires of one tick are one run only if their clocks agree.)
OneRunPerTick == \A i, j \in 1..Len(fired) :
                    i < j /\ fired[i][1] = fired[j][1] => fired[i][2] < fired[j][2]

\* Artifacts of a locked run are not cleaned away: a lock set after the cleanup listed
\* the run is honoured, one set during the removal is refused.  Only a delete_run that
\* saw the run unlocked can still remove them.
LockKeepsArtifacts ==
    [][art /\ ~art' /\ run # None /\ run.locked => \E t \in Tasks : At(t, "remove_dir")]_vars
----------------------------------------------------------------------------
(* What the proofs need to know of the states between the steps. *)

Roles == {"user", "admin"}
Rows  == [on : BOOLEAN, cron : Crons, last : Nat]

\* What a handler carries from step to step.
Handlers ==
    {Idle} \cup [op : {"save_profile", "remove_dir", "delete_row", "claim_cleanup", "clean"}]
    \cup [op : {"create_user", "demote", "update_role"}, who : Users, role : Roles]
    \cup [op : {"delete_runs", "delete_profiles", "delete_schedules", "delete_account"}, who : Users]
    \cup [op : {"save", "register"}, rep : Replicas, row : Rows]
    \cup [op : {"unregister"}, rep : Replicas]
    \cup [op : {"fire"}, cron : Crons] \cup [op : {"claim"}, tick : Nat]
    \cup [op : {"finish"}, cleaned : BOOLEAN]

\* The rows and the handlers under way have their shapes.
TypeOK ==
    /\ users \in [Users -> Roles \cup {"none"}]
    /\ prof \in BOOLEAN /\ art \in BOOLEAN
    /\ sched = None \/ sched \in Rows
    /\ run = None \/ run \in [locked : BOOLEAN, claimed : BOOLEAN, report : BOOLEAN]
    /\ jobs \in [Replicas -> Crons \cup {None}] /\ due \subseteq Replicas
    /\ fired \in Seq(Nat \X Nat)
    /\ task \in [Tasks -> Handlers]
    /\ inserted \in Nat /\ now \in Nat /\ reqs \in Nat /\ restarts \in Nat

\* last_run_at of the stored row covers every tick claimed on it, and nothing was
\* claimed on a row that is yet to be inserted.
LastRunCovers ==
    \A i \in 1..Len(fired) :
        /\ fired[i][1] <= inserted
        /\ sched # None /\ fired[i][1] = inserted => fired[i][2] <= sched.last

\* One cleanup at a time holds the run, which is unlocked and claimed until it is
\* finished.
Cleaning(t) == task[t].op \in {"clean", "finish"}
CleanerHoldsClaim ==
    /\ \A t \in Tasks : Cleaning(t) => run = None \/ run.claimed
    /\ \A t, u \in Tasks : Cleaning(t) /\ Cleaning(u) => t = u
    /\ run = None \/ ~run.claimed \/ ~run.locked

IInv == TypeOK /\ AdminRemains /\ LastRunCovers /\ OneRunPerTick /\ CleanerHoldsClaim
=============================================================================
