--------------------------- MODULE Console_proofs ---------------------------
(***************************************************************************)
(* Theorems about Console, for any number of accounts, replicas and        *)
(* handlers and any bounds.                                                *)
(***************************************************************************)
EXTENDS Console, TLAPS, FiniteSetTheorems

USE ConsoleAssumption

\* What a handler carries is determined by the step it is at.
LEMMA HandlerShapes ==
    ASSUME NEW k \in Handlers
    PROVE  /\ k.op \in {"create_user", "demote", "update_role"} =>
                 k \in [op : {"create_user", "demote", "update_role"}, who : Users, role : Roles]
           /\ k.op \in {"delete_runs", "delete_profiles", "delete_schedules", "delete_account"} =>
                 k \in [op : {"delete_runs", "delete_profiles", "delete_schedules",
                              "delete_account"}, who : Users]
           /\ k.op \in {"save", "register"} =>
                 k \in [op : {"save", "register"}, rep : Replicas, row : Rows]
           /\ k.op = "unregister" => k \in [op : {"unregister"}, rep : Replicas]
           /\ k.op = "fire" => k \in [op : {"fire"}, cron : Crons]
           /\ k.op = "claim" => k \in [op : {"claim"}, tick : Nat]
           /\ k.op = "finish" => k \in [op : {"finish"}, cleaned : BOOLEAN]
BY DEF Handlers, Idle

LEMMA InitTypeOK == Init => TypeOK
<1> SUFFICES ASSUME Init
             PROVE  TypeOK
    OBVIOUS
<1>1. users \in [Users -> Roles \cup {"none"}]
    BY DEF Init, Roles
<1>2. prof \in BOOLEAN /\ art \in BOOLEAN /\ due \subseteq Replicas
    BY Zenon DEF Init
<1>3. run \in [locked : BOOLEAN, claimed : BOOLEAN, report : BOOLEAN]
    BY DEF Init
<1>4. /\ sched = None \/ sched \in Rows
      /\ jobs \in [Replicas -> Crons \cup {None}]
      /\ inserted \in Nat /\ now \in Nat /\ reqs \in Nat /\ restarts \in Nat
  <2>1. CASE sched = None /\ inserted = 0 /\ jobs = [r \in Replicas |-> None]
    BY <2>1 DEF Init
  <2>2. CASE /\ sched = [on |-> TRUE, cron |-> "every", last |-> 0] /\ inserted = 1
             /\ jobs = [r \in Replicas |-> "every"]
    BY <2>2 DEF Init, Rows, Crons
  <2>3. QED
    BY <2>1, <2>2 DEF Init
<1>5. fired \in Seq(Nat \X Nat)
    BY DEF Init
<1>6. task \in [Tasks -> Handlers]
    BY DEF Init, Handlers
<1>7. QED
    BY <1>1, <1>2, <1>3, <1>4, <1>5, <1>6 DEF TypeOK

LEMMA AppendType == ASSUME NEW S, NEW s \in Seq(S), NEW e \in S
                    PROVE  Append(s, e) \in Seq(S)
OBVIOUS

LEMMA PreviousRunType == \A c \in Crons, t \in Nat : PreviousRun(c, t) \in Nat
BY DEF PreviousRun, Crons

\* The deletion of an account keeps its shape from step to step.
LEMMA NextDeletion ==
    ASSUME NEW k \in Handlers,
           k.op \in {"delete_runs", "delete_profiles", "delete_schedules", "delete_account"},
           NEW o \in {"delete_runs", "delete_profiles", "delete_schedules", "delete_account"}
    PROVE  [k EXCEPT !.op = o] \in Handlers
<1>1. k \in [op : {"delete_runs", "delete_profiles", "delete_schedules", "delete_account"},
             who : Users]
    BY HandlerShapes
<1>2. [k EXCEPT !.op = o] \in
          [op : {"delete_runs", "delete_profiles", "delete_schedules", "delete_account"},
           who : Users]
    BY <1>1
<1>3. QED
    BY <1>2, Zenon DEF Handlers

\* A handler that goes to a step stays a handler, and the others are as they were.
LEMMA HandlerMoves == ASSUME TypeOK, NEW t \in Tasks, NEW k \in Handlers,
                             task' = [task EXCEPT ![t] = k]
                      PROVE  task' \in [Tasks -> Handlers]
BY DEF TypeOK

LEMMA TypeStep == TypeOK /\ [Next]_vars => TypeOK'
<1> SUFFICES ASSUME TypeOK, [Next]_vars
             PROVE  TypeOK'
    OBVIOUS
<1> USE DEF TypeOK, accounts, schedules, retention
<1>1. ASSUME NEW t \in Tasks, AccountNext(t)
      PROVE  TypeOK'
  <2> USE HandlerShapes DEF Begin, Goto, End, At
  <2>1. ASSUME NEW u \in Users, NEW role \in Roles, CreateUser(t, u, role)
        PROVE  TypeOK'
    BY <2>1 DEF CreateUser, Handlers
  <2>2. ASSUME NEW u \in Users, NEW role \in Roles, NEW a \in Users, UpdateUser(t, a, u, role)
        PROVE  TypeOK'
    BY <2>2 DEF UpdateUser, Handlers
  <2>3. ASSUME NEW a \in Users, NEW u \in Users, DeleteUser(t, a, u)
        PROVE  TypeOK'
    BY <2>3 DEF DeleteUser, Handlers
  <2>4. CASE InsertUser(t)
    BY <2>4 DEF InsertUser, Handlers
  <2>5. CASE DemoteIfNotLastAdmin(t)
    BY <2>5 DEF DemoteIfNotLastAdmin, Handlers
  <2>6. CASE UpdateRole(t)
    BY <2>6 DEF UpdateRole, Handlers
  <2>7. CASE DeleteUserRuns(t)
    <3>1. [task[t] EXCEPT !.op = "delete_profiles"] \in Handlers
      <4>1. task[t] \in Handlers /\ task[t].op = "delete_runs"
        BY <2>7, Zenon DEF DeleteUserRuns
      <4>2. QED
        BY <4>1, NextDeletion
    <3>2. task' \in [Tasks -> Handlers]
      BY <2>7, <3>1, HandlerMoves DEF DeleteUserRuns
    <3>3. run' = None \/ run' = run
      BY <2>7, Zenon DEF DeleteUserRuns
    <3>4. QED
      BY <2>7, <3>2, <3>3 DEF DeleteUserRuns
  <2>8. CASE DeleteUserProfiles(t)
    <3>1. [task[t] EXCEPT !.op = "delete_schedules"] \in Handlers
      <4>1. task[t] \in Handlers /\ task[t].op = "delete_profiles"
        BY <2>8, Zenon DEF DeleteUserProfiles
      <4>2. QED
        BY <4>1, NextDeletion
    <3>2. task' \in [Tasks -> Handlers]
      BY <2>8, <3>1, HandlerMoves DEF DeleteUserProfiles
    <3>3. prof' \in BOOLEAN /\ (sched' = None \/ sched' = sched)
      BY <2>8, Zenon DEF DeleteUserProfiles
    <3>4. QED
      BY <2>8, <3>2, <3>3 DEF DeleteUserProfiles
  <2>9. CASE DeleteUserSchedules(t)
    <3>1. [task[t] EXCEPT !.op = "delete_account"] \in Handlers
      <4>1. task[t] \in Handlers /\ task[t].op = "delete_schedules"
        BY <2>9, Zenon DEF DeleteUserSchedules
      <4>2. QED
        BY <4>1, NextDeletion
    <3>2. task' \in [Tasks -> Handlers]
      BY <2>9, <3>1, HandlerMoves DEF DeleteUserSchedules
    <3>3. sched' = None \/ sched' = sched
      BY <2>9, Zenon DEF DeleteUserSchedules
    <3>4. QED
      BY <2>9, <3>2, <3>3 DEF DeleteUserSchedules
  <2>10. CASE DeleteAccount(t)
    BY <2>10 DEF DeleteAccount, Handlers
  <2>11. QED
    BY <1>1, <2>1, <2>2, <2>3, <2>4, <2>5, <2>6, <2>7, <2>8, <2>9, <2>10
       DEF AccountNext, Roles
<1>2. ASSUME NEW t \in Tasks, ScheduleNext(t)
      PROVE  TypeOK'
  <2> USE HandlerShapes DEF Begin, Goto, End, At
  <2>1. CASE UpdateProfile(t)
    BY <2>1 DEF UpdateProfile, Handlers
  <2>2. CASE SaveProfile(t)
    BY <2>2 DEF SaveProfile, Handlers
  <2>3. CASE DeleteProfile(t)
    <3>1. prof' \in BOOLEAN /\ sched' = None
      BY <2>3, Zenon DEF DeleteProfile
    <3>2. task' \in [Tasks -> Handlers]
      BY <2>3 DEF DeleteProfile, Handlers
    <3>3. QED
      BY <2>3, <3>1, <3>2 DEF DeleteProfile
  <2>4. ASSUME NEW r \in Replicas, NEW on \in BOOLEAN, NEW c \in Crons, CreateSchedule(t, r, on, c)
        PROVE  TypeOK'
    BY <2>4 DEF CreateSchedule, Handlers, Rows
  <2>5. ASSUME NEW r \in Replicas, NEW on \in BOOLEAN, NEW c \in Crons, UpdateSchedule(t, r, on, c)
        PROVE  TypeOK'
    BY <2>5 DEF UpdateSchedule, Handlers, Rows
  <2>6. CASE SaveSchedule(t)
    <3>1. task[t].row \in Rows /\ task' \in [Tasks -> Handlers]
      <4>1. /\ task[t] \in [op : {"save", "register"}, rep : Replicas, row : Rows]
            /\ \/ task' = [task EXCEPT ![t] = [task[t] EXCEPT !.op = "register"]]
               \/ task' = [task EXCEPT ![t] = Idle]
        BY <2>6 DEF SaveSchedule
      <4>2. [task[t] EXCEPT !.op = "register"] \in Handlers /\ Idle \in Handlers
        BY <4>1 DEF Handlers
      <4>3. QED
        BY <4>1, <4>2, HandlerMoves
    <3>2. (sched' \in Rows \/ sched' = sched) /\ inserted' \in Nat
      BY <2>6, <3>1 DEF SaveSchedule, Saved, Rows
    <3>3. QED
      BY <2>6, <3>1, <3>2 DEF SaveSchedule
  <2>7. CASE Register(t)
    BY <2>7 DEF Register, Handlers, Rows
  <2>8. CASE Unregister(t)
    BY <2>8 DEF Unregister, Handlers
  <2>9. ASSUME NEW r \in Replicas, DeleteSchedule(t, r)
        PROVE  TypeOK'
    BY <2>9 DEF DeleteSchedule, Handlers
  <2>10. ASSUME NEW r \in Replicas, Trigger(t, r)
        PROVE  TypeOK'
    BY <2>10 DEF Trigger, Handlers, Rows
  <2>11. CASE Fire(t)
    <3>1. task[t].cron \in Crons
      BY <2>11 DEF Fire
    <3>2. PICK fire_time \in {PreviousRun(task[t].cron, now), now} :
                 task' = [task EXCEPT ![t] = [op |-> "claim", tick |-> fire_time]]
      BY <2>11, Zenon DEF Fire
    <3>3. fire_time \in Nat
      BY <3>1, <3>2, PreviousRunType
    <3>4. [op |-> "claim", tick |-> fire_time] \in Handlers
      BY <3>3 DEF Handlers
    <3>5. task' \in [Tasks -> Handlers]
      BY <3>2, <3>4, HandlerMoves
    <3>6. UNCHANGED <<users, prof, sched, inserted, jobs, due, fired, run, art, now, reqs, restarts>>
      BY <2>11, Zenon DEF Fire
    <3>7. QED
      BY <3>5, <3>6
  <2>12. CASE ClaimScheduleRun(t)
    <3>1. task[t].tick \in Nat /\ task' \in [Tasks -> Handlers]
      BY <2>12 DEF ClaimScheduleRun, Handlers
    <3>2. sched' \in Rows \/ sched' = sched
      BY <2>12, <3>1 DEF ClaimScheduleRun, Rows
    <3>3. fired' \in Seq(Nat \X Nat)
      <4> DEFINE S == Nat \X Nat
                 e == <<inserted, task[t].tick>>
      <4>1. e \in S /\ fired \in Seq(S)
        BY <3>1
      <4>2. fired' = fired \/ fired' = Append(fired, e)
        BY <2>12, Zenon DEF ClaimScheduleRun
      <4>3. fired' \in Seq(S)
        <5> HIDE DEF S, e, TypeOK
        <5>1. QED
          BY <4>1, <4>2, AppendType
      <4>4. QED
        BY <4>3
    <3>4. QED
      BY <2>12, <3>1, <3>2, <3>3 DEF ClaimScheduleRun
  <2>13. QED
    BY <1>2, <2>1, <2>2, <2>3, <2>4, <2>5, <2>6, <2>7, <2>8, <2>9, <2>10, <2>11, <2>12
       DEF ScheduleNext
<1>3. ASSUME NEW t \in Tasks, RetentionNext(t)
      PROVE  TypeOK'
  <2> USE HandlerShapes DEF Begin, Goto, End, At
  <2>1. ASSUME NEW b \in BOOLEAN, LockRun(t, b)
        PROVE  TypeOK'
    <3>1. run' \in [locked : BOOLEAN, claimed : BOOLEAN, report : BOOLEAN]
      BY <2>1 DEF LockRun
    <3>2. task' \in [Tasks -> Handlers]
      BY <2>1 DEF LockRun, Handlers
    <3>3. QED
      BY <2>1, <3>1, <3>2 DEF LockRun
  <2>2. ASSUME NEW b \in BOOLEAN, Clean(t, b)
        PROVE  TypeOK'
    BY <2>2 DEF Clean, Handlers
  <2>3. CASE DeleteRun(t)
    BY <2>3 DEF DeleteRun, Handlers
  <2>4. CASE RemoveDir(t)
    BY <2>4 DEF RemoveDir, Handlers
  <2>5. CASE DeleteRow(t)
    BY <2>5 DEF DeleteRow, Handlers
  <2>6. CASE CleanupRuns(t)
    BY <2>6 DEF CleanupRuns, Handlers
  <2>7. CASE ClaimRunCleanup(t)
    <3>1. run' = run \/ run' \in [locked : BOOLEAN, claimed : BOOLEAN, report : BOOLEAN]
      BY <2>7 DEF ClaimRunCleanup, Claimable
    <3>2. task' \in [Tasks -> Handlers]
      <4>1. [op |-> "clean"] \in Handlers /\ Idle \in Handlers
        BY DEF Handlers
      <4>2. QED
        BY <2>7, <4>1, HandlerMoves DEF ClaimRunCleanup
    <3>3. QED
      BY <2>7, <3>1, <3>2 DEF ClaimRunCleanup
  <2>8. CASE FinishRunCleanup(t)
    BY <2>8 DEF FinishRunCleanup, Handlers
  <2>9. QED
    BY <1>3, <2>1, <2>2, <2>3, <2>4, <2>5, <2>6, <2>7, <2>8 DEF RetentionNext
<1>4. CASE Tick
    BY <1>4 DEF Tick
<1>5. CASE Restart
  <2>1. run' = None \/ run' \in [locked : BOOLEAN, claimed : BOOLEAN, report : BOOLEAN]
    BY <1>5 DEF Restart
  <2>2. jobs' \in [Replicas -> Crons \cup {None}]
    BY <1>5 DEF Restart, Rows
  <2>3. QED
    BY <1>5, <2>1, <2>2 DEF Restart, Handlers
<1>6. CASE UNCHANGED vars
    BY <1>6 DEF vars
<1>7. QED
    BY <1>1, <1>2, <1>3, <1>4, <1>5, <1>6 DEF Next

----------------------------------------------------------------------------
(* Accounts *)

\* Four statements write the accounts.
LEMMA AccountFrame ==
    [Next]_vars => \/ users' = users
                   \/ \E t \in Tasks : \/ InsertUser(t) \/ DemoteIfNotLastAdmin(t)
                                       \/ UpdateRole(t) \/ DeleteAccount(t)
<1> SUFFICES ASSUME [Next]_vars, users' # users
             PROVE  \E t \in Tasks : \/ InsertUser(t) \/ DemoteIfNotLastAdmin(t)
                                     \/ UpdateRole(t) \/ DeleteAccount(t)
    OBVIOUS
<1> USE DEF accounts
<1>1. ASSUME NEW t \in Tasks, ScheduleNext(t)
      PROVE  users' = users
    BY <1>1 DEF ScheduleNext, UpdateProfile, SaveProfile, DeleteProfile, CreateSchedule,
                UpdateSchedule, SaveSchedule, Register, Unregister, DeleteSchedule, Trigger,
                Fire, ClaimScheduleRun
<1>2. ASSUME NEW t \in Tasks, RetentionNext(t)
      PROVE  users' = users
    BY <1>2 DEF RetentionNext, LockRun, Clean, DeleteRun, RemoveDir, DeleteRow, CleanupRuns,
                ClaimRunCleanup, FinishRunCleanup
<1>3. ASSUME NEW t \in Tasks, AccountNext(t)
      PROVE  \/ users' = users
             \/ InsertUser(t) \/ DemoteIfNotLastAdmin(t) \/ UpdateRole(t) \/ DeleteAccount(t)
    BY <1>3 DEF AccountNext, CreateUser, UpdateUser, DeleteUser, DeleteUserRuns,
                DeleteUserProfiles, DeleteUserSchedules
<1>4. QED
    BY <1>1, <1>2, <1>3 DEF Next, Tick, Restart, vars

\* More than one admin means another one, whoever is looked at.
LEMMA AnotherAdmin ==
    ASSUME TypeOK, Cardinality(Admins) > 1, NEW u
    PROVE  \E a \in Users : users[a] = "admin" /\ a # u
<1> SUFFICES ASSUME \A a \in Users : users[a] = "admin" => a = u
             PROVE  FALSE
    OBVIOUS
<1>1. Admins \subseteq {u}
    BY DEF Admins
<1>2. IsFiniteSet({u}) /\ Cardinality({u}) = 1
    BY FS_Singleton
<1>3. Cardinality(Admins) <= 1 /\ Cardinality(Admins) \in Nat
    BY <1>1, <1>2, FS_Subset, FS_CardinalityType
<1>4. QED
    BY <1>3

LEMMA AdminStep == TypeOK /\ AdminRemains /\ [Next]_vars => AdminRemains'
<1> SUFFICES ASSUME TypeOK, AdminRemains, [Next]_vars
             PROVE  \E a \in Users : users'[a] = "admin"
    BY DEF AdminRemains, Admins
<1>1. PICK a \in Users : users[a] = "admin"
    BY DEF AdminRemains, Admins
<1>2. CASE users' = users
    BY <1>1, <1>2
<1>3. ASSUME NEW t \in Tasks, InsertUser(t)
      PROVE  users'[a] = "admin"
    BY <1>1, <1>3 DEF InsertUser, TypeOK
<1>4. ASSUME NEW t \in Tasks, DemoteIfNotLastAdmin(t) \/ UpdateRole(t) \/ DeleteAccount(t)
      PROVE  \E b \in Users : users'[b] = "admin"
  <2> DEFINE u == task[t].who
  <2>1. CASE Cardinality(Admins) > 1
    <3>1. PICK b \in Users : users[b] = "admin" /\ b # u
      BY <2>1, AnotherAdmin
    <3>2. users'[b] = users[b]
      BY <1>4, <3>1 DEF DemoteIfNotLastAdmin, UpdateRole, DeleteAccount, TypeOK
    <3>3. QED
      BY <3>1, <3>2
  <2>2. CASE ~(Cardinality(Admins) > 1)
    <3>1. users'[a] = "admin"
      BY <1>1, <1>4, <2>2 DEF DemoteIfNotLastAdmin, UpdateRole, DeleteAccount, TypeOK
    <3>2. QED
      BY <3>1
  <2>3. QED
    BY <2>1, <2>2
<1>5. QED
    BY <1>2, <1>3, <1>4, AccountFrame

----------------------------------------------------------------------------
(* Schedules *)

\* Two statements write the schedule's row or the runs it created, others delete it.
LEMMA ScheduleFrame ==
    [Next]_vars => \/ sched' \in {sched, None} /\ inserted' = inserted /\ fired' = fired
                   \/ \E t \in Tasks : SaveSchedule(t) \/ ClaimScheduleRun(t)
<1> SUFFICES ASSUME [Next]_vars,
                    ~(sched' \in {sched, None} /\ inserted' = inserted /\ fired' = fired)
             PROVE  \E t \in Tasks : SaveSchedule(t) \/ ClaimScheduleRun(t)
    OBVIOUS
<1> USE DEF schedules
<1>1. ASSUME NEW t \in Tasks, AccountNext(t)
      PROVE  sched' \in {sched, None} /\ inserted' = inserted /\ fired' = fired
    BY <1>1 DEF AccountNext, CreateUser, UpdateUser, DeleteUser, InsertUser,
                DemoteIfNotLastAdmin, UpdateRole, DeleteUserRuns,
                DeleteUserProfiles, DeleteUserSchedules, DeleteAccount
<1>2. ASSUME NEW t \in Tasks, RetentionNext(t)
      PROVE  sched' \in {sched, None} /\ inserted' = inserted /\ fired' = fired
    BY <1>2 DEF RetentionNext, LockRun, Clean, DeleteRun, RemoveDir, DeleteRow, CleanupRuns,
                ClaimRunCleanup, FinishRunCleanup
<1>3. ASSUME NEW t \in Tasks, ScheduleNext(t)
      PROVE  \/ sched' \in {sched, None} /\ inserted' = inserted /\ fired' = fired
             \/ SaveSchedule(t) \/ ClaimScheduleRun(t)
    BY <1>3 DEF ScheduleNext, UpdateProfile, SaveProfile, DeleteProfile, CreateSchedule,
                UpdateSchedule, Register, Unregister, DeleteSchedule, Trigger, Fire
<1>4. QED
    BY <1>1, <1>2, <1>3 DEF Next, Tick, Restart, vars

LEMMA TickStep ==
    TypeOK /\ LastRunCovers /\ OneRunPerTick /\ [Next]_vars => (LastRunCovers /\ OneRunPerTick)'
<1> SUFFICES ASSUME TypeOK, LastRunCovers, OneRunPerTick, [Next]_vars
             PROVE  (LastRunCovers /\ OneRunPerTick)'
    OBVIOUS
<1>1. CASE sched' \in {sched, None} /\ inserted' = inserted /\ fired' = fired
    BY <1>1 DEF LastRunCovers, OneRunPerTick
<1>2. ASSUME NEW t \in Tasks, SaveSchedule(t)
      PROVE  (LastRunCovers /\ OneRunPerTick)'
  <2>1. fired' = fired
    BY <1>2 DEF SaveSchedule
  <2>2. \A i \in 1..Len(fired) : fired[i][1] \in Nat /\ fired[i][2] \in Nat
    BY DEF TypeOK
  <2>3. task[t].row \in Rows
    BY <1>2, HandlerShapes DEF SaveSchedule, At, TypeOK
  <2>4. CASE prof /\ sched = None
    BY <1>2, <2>1, <2>2, <2>4 DEF SaveSchedule, LastRunCovers, OneRunPerTick, TypeOK
  <2>5. CASE prof /\ sched # None
    <3>1. sched'.last = sched.last /\ inserted' = inserted
      BY <1>2, <2>3, <2>5 DEF SaveSchedule, Saved, Rows
    <3>2. QED
      BY <2>1, <2>2, <2>5, <3>1 DEF LastRunCovers, OneRunPerTick
  <2>6. CASE ~prof
    BY <1>2, <2>1, <2>6 DEF SaveSchedule, LastRunCovers, OneRunPerTick
  <2>7. QED
    BY <2>4, <2>5, <2>6
<1>3. ASSUME NEW t \in Tasks, ClaimScheduleRun(t)
      PROVE  (LastRunCovers /\ OneRunPerTick)'
  <2>1. CASE ~(sched # None /\ sched.last < task[t].tick)
    BY <1>3, <2>1 DEF ClaimScheduleRun, LastRunCovers, OneRunPerTick
  <2>2. CASE sched # None /\ sched.last < task[t].tick
    <3> DEFINE tick == task[t].tick
               n == Len(fired)
    <3>1. tick \in Nat /\ sched \in Rows /\ n \in Nat /\ inserted \in Nat
      BY <1>3, <2>2, HandlerShapes DEF ClaimScheduleRun, At, TypeOK
    <3>2. \A i \in 1..n : fired[i][1] \in Nat /\ fired[i][2] \in Nat
      BY DEF TypeOK
    <3>3. /\ sched' = [sched EXCEPT !.last = tick] /\ inserted' = inserted
          /\ fired' = Append(fired, <<inserted, tick>>)
      BY <1>3, <2>2 DEF ClaimScheduleRun
    <3>4. sched'.last = tick /\ sched.last \in Nat /\ sched.last < tick
      BY <2>2, <3>1, <3>3 DEF Rows
    <3>5. /\ Len(fired') = n + 1
          /\ \A i \in 1..n : fired'[i] = fired[i]
          /\ fired'[n + 1][1] = inserted /\ fired'[n + 1][2] = tick
      BY <3>3 DEF TypeOK
    <3> HIDE DEF tick, n
    <3>6. \A i \in 1..n : fired[i][1] = inserted => fired[i][2] < tick
      BY <2>2, <3>1, <3>2, <3>4 DEF LastRunCovers, n
    <3>7. LastRunCovers'
      BY <3>1, <3>2, <3>3, <3>4, <3>5, <3>6 DEF LastRunCovers, n
    <3>8. OneRunPerTick'
      <4> SUFFICES ASSUME NEW i \in 1..(n + 1), NEW j \in 1..(n + 1),
                          i < j, fired'[i][1] = fired'[j][1]
                   PROVE  fired'[i][2] < fired'[j][2]
        BY <3>5 DEF OneRunPerTick
      <4>1. i \in 1..n /\ fired'[i] = fired[i]
        BY <3>1, <3>5
      <4>2. CASE j = n + 1
        BY <3>5, <3>6, <4>1, <4>2
      <4>3. CASE j \in 1..n
        BY <3>5, <4>1, <4>3 DEF OneRunPerTick, n
      <4>4. QED
        BY <3>1, <4>2, <4>3
    <3>9. QED
      BY <3>7, <3>8
  <2>3. QED
    BY <2>1, <2>2
<1>4. QED
    BY <1>1, <1>2, <1>3, ScheduleFrame

----------------------------------------------------------------------------
(* Retention *)

\* Apart from these steps no handler starts or ends a cleanup, and the run's row
\* stays as it is or goes.
LEMMA RetentionFrame ==
    [Next]_vars /\ TypeOK =>
        \/ /\ run' \in {run, None}
           /\ \A u \in Tasks : Cleaning(u)' => Cleaning(u)
        \/ \E t \in Tasks, b \in BOOLEAN : LockRun(t, b) \/ Clean(t, b)
        \/ \E t \in Tasks : ClaimRunCleanup(t) \/ FinishRunCleanup(t)
        \/ Restart
<1> DEFINE Quiet == /\ run' \in {run, None}
                    /\ \A u \in Tasks : Cleaning(u)' => Cleaning(u)
<1> SUFFICES ASSUME [Next]_vars, TypeOK,
                    ~\E t \in Tasks, b \in BOOLEAN : LockRun(t, b) \/ Clean(t, b),
                    ~\E t \in Tasks : ClaimRunCleanup(t) \/ FinishRunCleanup(t),
                    ~Restart
             PROVE  Quiet
    OBVIOUS
<1>1. ASSUME NEW t \in Tasks, NEW k, k.op \notin {"clean", "finish"},
             task' = [task EXCEPT ![t] = k]
      PROVE  \A u \in Tasks : Cleaning(u)' => Cleaning(u)
    BY <1>1 DEF Cleaning, TypeOK
<1>2. ASSUME NEW t \in Tasks, AccountNext(t)
      PROVE  Quiet
  <2>1. run' \in {run, None}
    BY <1>2 DEF AccountNext, CreateUser, UpdateUser, DeleteUser, InsertUser,
                DemoteIfNotLastAdmin, UpdateRole, DeleteUserRuns,
                DeleteUserProfiles, DeleteUserSchedules, DeleteAccount, retention
  <2>2. PICK k : k.op \notin {"clean", "finish"} /\ task' = [task EXCEPT ![t] = k]
    BY <1>2, HandlerShapes
       DEF AccountNext, CreateUser, UpdateUser, DeleteUser, InsertUser,
           DemoteIfNotLastAdmin, UpdateRole, DeleteUserRuns,
           DeleteUserProfiles, DeleteUserSchedules, DeleteAccount, Begin, Goto, End, Idle, TypeOK, At
  <2>3. QED
    BY <1>1, <2>1, <2>2
<1>3. ASSUME NEW t \in Tasks, ScheduleNext(t)
      PROVE  Quiet
  <2>1. run' = run
    BY <1>3 DEF ScheduleNext, UpdateProfile, SaveProfile, DeleteProfile, CreateSchedule,
                UpdateSchedule, SaveSchedule, Register, Unregister, DeleteSchedule, Trigger,
                Fire, ClaimScheduleRun, retention
  <2>2. PICK k : k.op \notin {"clean", "finish"} /\ task' = [task EXCEPT ![t] = k]
    BY <1>3, HandlerShapes
       DEF ScheduleNext, UpdateProfile, SaveProfile, DeleteProfile, CreateSchedule,
           UpdateSchedule, SaveSchedule, Register, Unregister, DeleteSchedule, Trigger,
           Fire, ClaimScheduleRun, Begin, Goto, End, Idle, TypeOK, At
  <2>3. QED
    BY <1>1, <2>1, <2>2
<1>4. ASSUME NEW t \in Tasks, RetentionNext(t)
      PROVE  Quiet
  <2>1. DeleteRun(t) \/ RemoveDir(t) \/ DeleteRow(t) \/ CleanupRuns(t)
    BY <1>4 DEF RetentionNext
  <2>2. run' \in {run, None}
    BY <2>1 DEF DeleteRun, RemoveDir, DeleteRow, CleanupRuns, retention
  <2>3. PICK k : k.op \notin {"clean", "finish"} /\ task' = [task EXCEPT ![t] = k]
    BY <2>1 DEF DeleteRun, RemoveDir, DeleteRow, CleanupRuns, Begin, Goto, End, Idle
  <2>4. QED
    BY <1>1, <2>2, <2>3
<1>5. CASE Tick
    BY <1>5 DEF Tick, retention, Cleaning
<1>6. CASE UNCHANGED vars
    BY <1>6 DEF vars, Cleaning
<1>7. QED
    BY <1>2, <1>3, <1>4, <1>5, <1>6 DEF Next

LEMMA CleanStep == TypeOK /\ CleanerHoldsClaim /\ [Next]_vars => CleanerHoldsClaim'
<1> SUFFICES ASSUME TypeOK, CleanerHoldsClaim, [Next]_vars
             PROVE  CleanerHoldsClaim'
    OBVIOUS
<1>1. CASE /\ run' \in {run, None}
           /\ \A u \in Tasks : Cleaning(u)' => Cleaning(u)
    BY <1>1 DEF CleanerHoldsClaim
<1>2. ASSUME NEW t \in Tasks, NEW b \in BOOLEAN, LockRun(t, b)
      PROVE  CleanerHoldsClaim'
  <2>1. \A u \in Tasks : Cleaning(u)' => Cleaning(u)
    BY <1>2 DEF LockRun, Begin, Idle, Cleaning, TypeOK
  <2>2. run.claimed => run' = run
    BY <1>2 DEF LockRun
  <2>3. ~run.claimed => run' = [run EXCEPT !.locked = b] /\ run # None
    BY <1>2 DEF LockRun
  <2>4. ~run.claimed => run'.claimed = run.claimed
    BY <2>3 DEF TypeOK
  <2>5. QED
    BY <2>1, <2>2, <2>3, <2>4 DEF CleanerHoldsClaim
<1>3. ASSUME NEW t \in Tasks, NEW b \in BOOLEAN, Clean(t, b)
      PROVE  CleanerHoldsClaim'
  <2>1. \A u \in Tasks : Cleaning(u)' => Cleaning(u)
    BY <1>3 DEF Clean, Goto, At, Cleaning, TypeOK
  <2>2. QED
    BY <1>3, <2>1 DEF Clean, CleanerHoldsClaim
<1>4. ASSUME NEW t \in Tasks, ClaimRunCleanup(t)
      PROVE  CleanerHoldsClaim'
  <2>1. CASE art /\ Claimable
    <3>1. run' = [run EXCEPT !.claimed = TRUE] /\ run # None /\ ~run.claimed /\ ~run.locked
      BY <1>4, <2>1 DEF ClaimRunCleanup, Claimable
    <3>2. run'.claimed /\ ~run'.locked
      BY <3>1 DEF TypeOK
    <3>3. \A u \in Tasks : Cleaning(u)' => u = t
      BY <1>4, <2>1, <3>1 DEF ClaimRunCleanup, Goto, Cleaning, CleanerHoldsClaim, TypeOK
    <3>4. QED
      BY <3>2, <3>3 DEF CleanerHoldsClaim
  <2>2. CASE ~(art /\ Claimable)
    <3>1. \A u \in Tasks : Cleaning(u)' => Cleaning(u)
      <4>1. task' = [task EXCEPT ![t] = Idle] /\ task \in [Tasks -> Handlers]
        BY <1>4, <2>2, Zenon DEF ClaimRunCleanup, Goto, End, TypeOK
      <4>2. QED
        BY <4>1 DEF Idle, Cleaning
    <3>2. QED
      BY <1>4, <2>2, <3>1 DEF ClaimRunCleanup, CleanerHoldsClaim
  <2>3. QED
    BY <2>1, <2>2
<1>5. ASSUME NEW t \in Tasks, FinishRunCleanup(t)
      PROVE  CleanerHoldsClaim'
  <2>1. \A u \in Tasks : ~Cleaning(u)'
    BY <1>5 DEF FinishRunCleanup, Goto, End, At, Idle, Cleaning, CleanerHoldsClaim, TypeOK
  <2>2. run' = None \/ ~run'.claimed
    BY <1>5 DEF FinishRunCleanup, TypeOK
  <2>3. QED
    BY <2>1, <2>2 DEF CleanerHoldsClaim
<1>6. CASE Restart
  <2>1. \A u \in Tasks : ~Cleaning(u)'
    BY <1>6 DEF Restart, Idle, Cleaning
  <2>2. run' = None \/ ~run'.claimed
    BY <1>6 DEF Restart, TypeOK
  <2>3. QED
    BY <2>1, <2>2 DEF CleanerHoldsClaim
<1>7. QED
    BY <1>1, <1>2, <1>3, <1>4, <1>5, <1>6, RetentionFrame

----------------------------------------------------------------------------
(* Theorems *)

LEMMA InitIInv == Init => IInv
<1> SUFFICES ASSUME Init
             PROVE  IInv
    OBVIOUS
<1>1. AdminRemains
  <2>1. PICK a \in Users : a # Owner
    OBVIOUS
  <2>2. users[a] = "admin"
    BY <2>1 DEF Init
  <2>3. QED
    BY <2>2 DEF AdminRemains, Admins
<1>2. fired = <<>>
    BY DEF Init
<1>3. LastRunCovers /\ OneRunPerTick
    BY <1>2 DEF LastRunCovers, OneRunPerTick
<1>4. CleanerHoldsClaim
    BY DEF Init, CleanerHoldsClaim, Cleaning, Idle
<1>5. QED
    BY <1>1, <1>3, <1>4, InitTypeOK DEF IInv

LEMMA Invariance == Spec => []IInv
<1>1. IInv /\ [Next]_vars => IInv'
    BY TypeStep, AdminStep, TickStep, CleanStep DEF IInv
<1>2. QED
    BY <1>1, InitIInv, PTL DEF Spec

\* update_user and delete_user, whose statements count the admins, never take the
\* last one, whatever the handlers saw when they checked.
THEOREM AnAdminRemains == Spec => []AdminRemains
<1>1. IInv => AdminRemains
    BY DEF IInv
<1>2. QED
    BY <1>1, Invariance, PTL

\* claim_schedule_run creates one run for a tick of a row, on any number of replicas.
THEOREM TicksFireOnce == Spec => []OneRunPerTick
<1>1. IInv => OneRunPerTick
    BY DEF IInv
<1>2. QED
    BY <1>1, Invariance, PTL

\* A cleanup never removes the artifacts of a run that is locked when it does.
THEOREM LocksHold == Spec => LockKeepsArtifacts
<1> DEFINE Lost == art /\ ~art' /\ run # None /\ run.locked
<1>1. ASSUME IInv, [Next]_vars, Lost
      PROVE  \E t \in Tasks : At(t, "remove_dir")
  <2>1. \E t \in Tasks : RemoveDir(t) \/ \E b \in BOOLEAN : Clean(t, b)
    BY <1>1 DEF Next, vars, retention, AccountNext, ScheduleNext, RetentionNext,
        CreateUser, UpdateUser, DeleteUser, InsertUser, DemoteIfNotLastAdmin, UpdateRole,
        DeleteUserRuns, DeleteUserProfiles, DeleteUserSchedules, DeleteAccount,
        UpdateProfile, SaveProfile, DeleteProfile, CreateSchedule, UpdateSchedule,
        SaveSchedule, Register, Unregister, DeleteSchedule, Trigger, Fire, ClaimScheduleRun,
        LockRun, DeleteRun, DeleteRow, CleanupRuns, ClaimRunCleanup, FinishRunCleanup,
        Tick, Restart
  <2>2. ASSUME NEW t \in Tasks, NEW b \in BOOLEAN, Clean(t, b)
        PROVE  FALSE
    BY <1>1, <2>2 DEF Clean, At, IInv, CleanerHoldsClaim, Cleaning, TypeOK
  <2>3. QED
    BY <2>1, <2>2 DEF RemoveDir
<1>2. QED
    BY <1>1, Invariance, PTL DEF Spec, LockKeepsArtifacts

=============================================================================
