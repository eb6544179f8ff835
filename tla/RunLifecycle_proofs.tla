------------------------- MODULE RunLifecycle_proofs -------------------------
(***************************************************************************)
(* Proofs about RunLifecycle, for every finite set of runs and every value *)
(* of the other constants.  IInv is inductive by itself; SlotAccounting,   *)
(* InflightCap and RunningIsOwned are inductive relative to it; the other  *)
(* invariants, the action properties and the refinement of RunContract     *)
(* follow from it step by step.                                            *)
(***************************************************************************)
EXTENDS RunLifecycle, TLAPS, FiniteSetTheorems

USE DEF Statuses, Inflight, Terminal, Phases, PollerPc, TaskPc, LiveTask, Outcomes,
        NoOutcome, Started, Finished
USE DEF vars, dbVars, procVars, taskVars, reqVars

----------------------------------------------------------------------------
(* The inductive invariant *)

\* The empty table of a server that is down satisfies IInv.
LEMMA InitIInv == Init => IInv
<1> SUFFICES ASSUME Init PROVE IInv
  OBVIOUS
<1>1. (CHOOSE u \in Users : TRUE) \in Users /\ (CHOOSE n \in NodeIds : TRUE) \in NodeIds
  BY UsersAssumption, NodesAssumption
<1> QED
  BY <1>1, ConcurrencyAssumption
  DEF Init, IInv, TypeOK, PollerOwnsClaim, TasksAgreeWithRows, TaskAgreesWithRow,
      RowHistories, RowHistory

\* Every step of the server keeps IInv.
LEMMA Inductive == IInv /\ [Next]_vars => IInv'
<1> SUFFICES ASSUME IInv, [Next]_vars PROVE IInv'
  OBVIOUS
<1>1. CASE PollerAcquire
  BY <1>1
  DEF IInv, TypeOK, PollerOwnsClaim, TasksAgreeWithRows,
         TaskAgreesWithRow, RowHistories, RowHistory,
         PollerAcquire
<1>2. ASSUME NEW r \in Runs, DequeueNextQueued(r)
      PROVE  IInv'
  BY <1>2, RunsAssumption
  DEF IInv, TypeOK, PollerOwnsClaim, TasksAgreeWithRows,
         TaskAgreesWithRow, RowHistories, RowHistory,
         DequeueNextQueued, Queued
<1>3. CASE DequeueEmpty
  BY <1>3
  DEF IInv, TypeOK, PollerOwnsClaim, TasksAgreeWithRows,
         TaskAgreesWithRow, RowHistories, RowHistory,
         DequeueEmpty
<1>4. CASE DequeueFails
  BY <1>4, RunsAssumption
  DEF IInv, TypeOK, PollerOwnsClaim, TasksAgreeWithRows,
         TaskAgreesWithRow, RowHistories, RowHistory,
         DequeueFails
<1>5. CASE Spawn
  BY <1>5, RunsAssumption
  DEF IInv, TypeOK, PollerOwnsClaim, TasksAgreeWithRows,
         TaskAgreesWithRow, RowHistories, RowHistory,
         Spawn
<1>6. CASE PollerWake
  BY <1>6
  DEF IInv, TypeOK, PollerOwnsClaim, TasksAgreeWithRows,
         TaskAgreesWithRow, RowHistories, RowHistory,
         PollerWake
<1>7. ASSUME NEW r \in Runs, ExecuteLoad(r)
      PROVE  IInv'
  <2>1. /\ task[r] = "get"
        /\ \/ task' = [task EXCEPT ![r] = "done"]
           \/ task' = [task EXCEPT ![r] = "prepare"]
        /\ ~signalled[r]
        /\ UNCHANGED <<dbVars, procVars, local, signalled, reqVars, starts, stops, failures>>
    BY <1>7 DEF ExecuteLoad, TaskStep
  <2> QED
    BY <2>1 DEF IInv, TypeOK, PollerOwnsClaim, TasksAgreeWithRows,
             TaskAgreesWithRow, RowHistories, RowHistory
<1>8. ASSUME NEW r \in Runs, ExecuteLoadFails(r)
      PROVE  IInv'
  BY <1>8
  DEF IInv, TypeOK, PollerOwnsClaim, TasksAgreeWithRows,
         TaskAgreesWithRow, RowHistories, RowHistory,
         ExecuteLoadFails, TaskStep
<1>9. ASSUME NEW r \in Runs, ExecuteOutcome(r)
      PROVE  IInv'
  <2>1. PICK o \in [status : Finished, summary : BOOLEAN] : local' = [local EXCEPT ![r] = o]
    BY <1>9 DEF ExecuteOutcome
  <2> QED
    BY <1>9, <2>1 DEF IInv, TypeOK, PollerOwnsClaim, TasksAgreeWithRows,
             TaskAgreesWithRow, RowHistories, RowHistory, ExecuteOutcome, TaskStep
<1>10. ASSUME NEW r \in Runs, ExecuteRaises(r)
      PROVE  IInv'
  <2>1. /\ task[r] \in {"prepare", "work"} /\ ~signalled[r]
        /\ task' = [task EXCEPT ![r] = "errsave"]
        /\ local' = [local EXCEPT ![r] = [status |-> "failed", summary |-> local[r].summary]]
        /\ UNCHANGED <<dbVars, procVars, signalled, reqVars, starts, stops, failures>>
    BY <1>10 DEF IInv, TypeOK, ExecuteRaises, TaskStep
  <2> QED
    BY <2>1 DEF IInv, TypeOK, PollerOwnsClaim, TasksAgreeWithRows,
             TaskAgreesWithRow, RowHistories, RowHistory
<1>11. ASSUME NEW r \in Runs, FinalSave(r)
      PROVE  IInv'
  BY <1>11
  DEF IInv, TypeOK, PollerOwnsClaim, TasksAgreeWithRows,
         TaskAgreesWithRow, RowHistories, RowHistory,
         FinalSave, TaskStep, Save
<1>12. ASSUME NEW r \in Runs, FinalSaveFails(r)
      PROVE  IInv'
  <2>1. /\ task[r] \in {"final", "saved"}
        /\ task' = [task EXCEPT ![r] = "errsave"]
        /\ local' = [local EXCEPT ![r] = [status |-> "failed", summary |-> local[r].summary]]
        /\ failures' \in Nat /\ failures' # 0
        /\ UNCHANGED <<dbVars, procVars, signalled, reqVars, starts, stops>>
    BY <1>12 DEF IInv, TypeOK, FinalSaveFails, TaskStep
  <2> QED
    BY <2>1 DEF IInv, TypeOK, PollerOwnsClaim, TasksAgreeWithRows,
             TaskAgreesWithRow, RowHistories, RowHistory
<1>13. ASSUME NEW r \in Runs, FinalSaveReturns(r)
      PROVE  IInv'
  BY <1>13
  DEF IInv, TypeOK, PollerOwnsClaim, TasksAgreeWithRows,
         TaskAgreesWithRow, RowHistories, RowHistory,
         FinalSaveReturns, TaskStep
<1>14. ASSUME NEW r \in Runs, HandlerSave(r)
      PROVE  IInv'
  <2>1. /\ task[r] \in {"errsave", "cancelsave"}
        /\ task' = [task EXCEPT ![r] = "cleanup"]
    BY <1>14 DEF HandlerSave, TaskStep
  <2>2. /\ local[r].status \in Terminal
        /\ local[r].status = "cancelled" => ~local[r].summary
    BY <2>1 DEF IInv, TasksAgreeWithRows, TaskAgreesWithRow
  <2> QED
    BY <1>14, <2>1, <2>2 DEF IInv, TypeOK, PollerOwnsClaim, TasksAgreeWithRows,
             TaskAgreesWithRow, RowHistories, RowHistory, HandlerSave, Save
<1>15. ASSUME NEW r \in Runs, HandlerSaveFails(r)
      PROVE  IInv'
  <2>1. /\ task[r] \in {"errsave", "cancelsave"}
        /\ task' = [task EXCEPT ![r] = "cleanup"]
        /\ failures' \in Nat /\ failures' # 0
        /\ UNCHANGED <<dbVars, procVars, local, signalled, reqVars, starts, stops>>
    BY <1>15 DEF IInv, TypeOK, HandlerSaveFails, TaskStep
  <2> QED
    BY <2>1 DEF IInv, TypeOK, PollerOwnsClaim, TasksAgreeWithRows,
             TaskAgreesWithRow, RowHistories, RowHistory
<1>16. ASSUME NEW r \in Runs, ExecuteCleanup(r)
      PROVE  IInv'
  BY <1>16
  DEF IInv, TypeOK, PollerOwnsClaim, TasksAgreeWithRows,
         TaskAgreesWithRow, RowHistories, RowHistory,
         ExecuteCleanup, TaskStep
<1>17. ASSUME NEW r \in Runs, Interrupted(r)
      PROVE  IInv'
  <2>1. CASE /\ task[r] \in {"prepare", "work", "final", "saved"}
             /\ task' = [task EXCEPT ![r] = "cancelsave"]
             /\ local' = [local EXCEPT ![r] = CancelledOutcome(r)]
    <3>1. /\ CancelledOutcome(r) \in Outcomes
          /\ CancelledOutcome(r).status \in Terminal
          /\ CancelledOutcome(r).status = "cancelled" => ~CancelledOutcome(r).summary
          /\ status[r] \in Started \cup {CancelledOutcome(r).status}
      BY <2>1 DEF IInv, TypeOK, TasksAgreeWithRows, TaskAgreesWithRow, CancelledOutcome
    <3> QED
      BY <1>17, <2>1, <3>1 DEF IInv, TypeOK, PollerOwnsClaim, TasksAgreeWithRows,
             TaskAgreesWithRow, RowHistories, RowHistory, Interrupted
  <2>2. CASE /\ task[r] \in {"errsave", "cancelsave", "get", "cleanup"}
             /\ task' \in {[task EXCEPT ![r] = "cleanup"], [task EXCEPT ![r] = "done"]}
             /\ UNCHANGED local
    BY <1>17, <2>2 DEF IInv, TypeOK, PollerOwnsClaim, TasksAgreeWithRows,
             TaskAgreesWithRow, RowHistories, RowHistory, Interrupted
  <2> QED
    BY <1>17, <2>1, <2>2 DEF Interrupted, TaskStep
<1>18. ASSUME NEW r \in Runs, OnTaskDone(r)
      PROVE  IInv'
  BY <1>18
  DEF IInv, TypeOK, PollerOwnsClaim, TasksAgreeWithRows,
         TaskAgreesWithRow, RowHistories, RowHistory,
         OnTaskDone, TaskStep
<1>19. ASSUME NEW u \in Users, NEW r \in Runs, CreateRun(u, r)
      PROVE  IInv'
  BY <1>19
  DEF IInv, TypeOK, PollerOwnsClaim, TasksAgreeWithRows,
         TaskAgreesWithRow, RowHistories, RowHistory,
         CreateRun
<1>20. ASSUME NEW r \in Runs, CancelCheck(r)
      PROVE  IInv'
  BY <1>20
  DEF IInv, TypeOK, PollerOwnsClaim, TasksAgreeWithRows,
         TaskAgreesWithRow, RowHistories, RowHistory,
         CancelCheck
<1>21. ASSUME NEW r \in Runs, CancelSignal(r)
      PROVE  IInv'
  BY <1>21
  DEF IInv, TypeOK, PollerOwnsClaim, TasksAgreeWithRows,
         TaskAgreesWithRow, RowHistories, RowHistory,
         CancelSignal
<1>22. ASSUME NEW r \in Runs, CancelCommit(r)
      PROVE  IInv'
  BY <1>22
  DEF IInv, TypeOK, PollerOwnsClaim, TasksAgreeWithRows,
         TaskAgreesWithRow, RowHistories, RowHistory,
         CancelCommit, CancelIfInflight
<1>23. ASSUME NEW r \in Runs, CancelFails(r)
      PROVE  IInv'
  BY <1>23
  DEF IInv, TypeOK, PollerOwnsClaim, TasksAgreeWithRows,
         TaskAgreesWithRow, RowHistories, RowHistory,
         CancelFails
<1>24. ASSUME NEW r \in Runs, DeleteCheck(r)
      PROVE  IInv'
  BY <1>24
  DEF IInv, TypeOK, PollerOwnsClaim, TasksAgreeWithRows,
         TaskAgreesWithRow, RowHistories, RowHistory,
         DeleteCheck
<1>25. ASSUME NEW r \in Runs, DeleteCommit(r)
      PROVE  IInv'
  BY <1>25
  DEF IInv, TypeOK, PollerOwnsClaim, TasksAgreeWithRows,
         TaskAgreesWithRow, RowHistories, RowHistory,
         DeleteCommit
<1>26. ASSUME NEW u \in Users, DeleteUser(u)
      PROVE  IInv'
  BY <1>26
  DEF IInv, TypeOK, PollerOwnsClaim, TasksAgreeWithRows,
         TaskAgreesWithRow, RowHistories, RowHistory,
         DeleteUser
<1>27. ASSUME NEW n \in NodeIds, Startup(n)
      PROVE  IInv'
  BY <1>27
  DEF IInv, TypeOK, PollerOwnsClaim, TasksAgreeWithRows,
         TaskAgreesWithRow, RowHistories, RowHistory,
         Startup, MarkInterruptedRuns
<1>28. CASE Crash
  BY <1>28, RunsAssumption, ConcurrencyAssumption
  DEF IInv, TypeOK, PollerOwnsClaim, TasksAgreeWithRows,
         TaskAgreesWithRow, RowHistories, RowHistory,
         Crash, Exit
<1>29. CASE BeginShutdown
  BY <1>29, RunsAssumption
  DEF IInv, TypeOK, PollerOwnsClaim, TasksAgreeWithRows,
         TaskAgreesWithRow, RowHistories, RowHistory,
         BeginShutdown
<1>30. CASE DrainTimeout
  BY <1>30
  DEF IInv, TypeOK, PollerOwnsClaim, TasksAgreeWithRows,
         TaskAgreesWithRow, RowHistories, RowHistory,
         DrainTimeout, LiveRuns
<1>31. CASE FinishShutdown
  BY <1>31, RunsAssumption, ConcurrencyAssumption
  DEF IInv, TypeOK, PollerOwnsClaim, TasksAgreeWithRows,
         TaskAgreesWithRow, RowHistories, RowHistory,
         FinishShutdown, Exit
<1>32. ASSUME NEW r \in Runs, ExecuteStart(r)
      PROVE  IInv'
  <2>1. task[r] = "prepare" /\ starts[r] = 0 /\ starts[r] + 1 = 1
    BY <1>32 DEF IInv, RowHistories, RowHistory, ExecuteStart, TaskStep
  <2>2. /\ task' = [task EXCEPT ![r] = "work"]
        /\ starts' = [starts EXCEPT ![r] = 1]
    BY <1>32, <2>1 DEF IInv, TypeOK, ExecuteStart, TaskStep
  <2> QED
    BY <1>32, <2>1, <2>2 DEF IInv, TypeOK, PollerOwnsClaim, TasksAgreeWithRows,
           TaskAgreesWithRow, RowHistories, RowHistory, ExecuteStart
<1>33. CASE UNCHANGED vars
  BY <1>33 DEF IInv, TypeOK, PollerOwnsClaim, TasksAgreeWithRows,
         TaskAgreesWithRow, RowHistories, RowHistory
<1> QED
  BY <1>1, <1>2, <1>3, <1>4, <1>5, <1>6, <1>7, <1>8, <1>9, <1>10, <1>11, <1>12, <1>13,
     <1>14, <1>15, <1>16, <1>17, <1>18, <1>19, <1>20, <1>21, <1>22, <1>23, <1>24, <1>25,
     <1>26, <1>27, <1>28, <1>29, <1>30, <1>31, <1>32, <1>33
  DEF Next, PollerNext, ExecuteNext, RequestNext, LifespanNext

\* Every reachable state satisfies IInv.
LEMMA Invariance == Spec => []IInv
<1> QED
  BY InitIInv, Inductive, PTL DEF Spec

\* Type correctness: no slot count below zero, no row, task or request outside
\* its type, in any behaviour of the server.
THEOREM TypeCorrect == Spec => []TypeOK
<1>1. IInv => TypeOK
  BY DEF IInv
<1> QED
  BY Invariance, <1>1, PTL

\* A run's test process is started at most once, over any number of crashes,
\* restarts, cancels and deletes.
THEOREM AtMostOnce == Spec => []ExecutedAtMostOnce
<1>1. IInv => ExecutedAtMostOnce
  BY DEF IInv, RowHistories, RowHistory, ExecutedAtMostOnce
<1> QED
  BY Invariance, <1>1, PTL

\* No row says cancelled and carries the results of a finished execution.
THEOREM CancelledIsBare == Spec => []CancelledCarriesNoResults
<1>1. IInv => CancelledCarriesNoResults
  BY DEF IInv, RowHistories, RowHistory, CancelledCarriesNoResults
<1> QED
  BY Invariance, <1>1, PTL

----------------------------------------------------------------------------
(* The semaphore *)

\* The set of tasks is finite, now and after a step.
LEMMA TaskRunsFinite ==
    /\ IsFiniteSet(TaskRuns) /\ Cardinality(TaskRuns) \in Nat
    /\ IsFiniteSet(TaskRuns') /\ Cardinality(TaskRuns') \in Nat
<1>1. TaskRuns \subseteq Runs /\ TaskRuns' \subseteq Runs
  BY DEF TaskRuns
<1> QED
  BY <1>1, RunsAssumption, FS_Subset, FS_CardinalityType

\* Every step of the server keeps the count of slots.
LEMMA SlotStep == IInv /\ SlotAccounting /\ [Next]_vars => SlotAccounting'
<1> SUFFICES ASSUME IInv, SlotAccounting, [Next]_vars PROVE SlotAccounting'
  OBVIOUS
<1> USE TaskRunsFinite, ConcurrencyAssumption
<1>1. ASSUME TaskRuns' = TaskRuns, UNCHANGED procVars
      PROVE  SlotAccounting'
  BY <1>1 DEF SlotAccounting, Held
<1>2. CASE PollerAcquire \/ DequeueEmpty \/ DequeueFails \/ PollerWake
  <2>1. TaskRuns' = TaskRuns
    BY <1>2 DEF PollerAcquire, DequeueEmpty, DequeueFails, PollerWake, TaskRuns
  <2> QED
    BY <1>2, <2>1
    DEF IInv, TypeOK, SlotAccounting, Held, PollerAcquire, DequeueEmpty, DequeueFails, PollerWake
<1>3. ASSUME NEW r \in Runs, DequeueNextQueued(r)
      PROVE  SlotAccounting'
  <2>1. TaskRuns' = TaskRuns
    BY <1>3 DEF DequeueNextQueued, TaskRuns
  <2> QED
    BY <1>3, <2>1 DEF SlotAccounting, Held, DequeueNextQueued
<1>4. CASE Spawn
  <2>1. claimed \in Runs /\ claimed \notin TaskRuns
    BY <1>4, RunsAssumption DEF IInv, TypeOK, PollerOwnsClaim, Spawn, TaskRuns
  <2>2. TaskRuns' = TaskRuns \cup {claimed}
    BY <1>4, <2>1 DEF IInv, TypeOK, Spawn, TaskRuns
  <2>3. Cardinality(TaskRuns') = Cardinality(TaskRuns) + 1
    BY <2>1, <2>2, FS_AddElement
  <2> QED
    BY <1>4, <2>3 DEF IInv, TypeOK, SlotAccounting, Held, Spawn
<1>5. ASSUME NEW r \in Runs, OnTaskDone(r)
      PROVE  SlotAccounting'
  <2>1. r \in TaskRuns
    BY <1>5 DEF OnTaskDone, TaskRuns
  <2>2. TaskRuns' = TaskRuns \ {r}
    BY <1>5 DEF IInv, TypeOK, OnTaskDone, TaskRuns
  <2>3. Cardinality(TaskRuns') = Cardinality(TaskRuns) - 1
    BY <2>1, <2>2, FS_RemoveElement
  <2>4. Held' = Held /\ Held \in Nat /\ slots \in Nat /\ slots' = slots + 1 /\ phase' = phase
    BY <1>5 DEF IInv, TypeOK, Held, OnTaskDone
  <2> QED
    BY <2>3, <2>4 DEF SlotAccounting
<1>6. ASSUME NEW r \in Runs, ExecuteNext(r), ~OnTaskDone(r)
      PROVE  SlotAccounting'
  <2>1. UNCHANGED procVars
    BY <1>6
    DEF ExecuteNext, ExecuteLoad, ExecuteLoadFails, ExecuteStart, ExecuteOutcome,
        ExecuteRaises, FinalSave,
        FinalSaveFails, FinalSaveReturns, HandlerSave, HandlerSaveFails, ExecuteCleanup,
        Interrupted
  <2>2. \E to \in LiveTask \cup {"done"} : task[r] # "none" /\ task' = [task EXCEPT ![r] = to]
    BY <1>6
    DEF ExecuteNext, ExecuteLoad, ExecuteLoadFails, ExecuteStart, ExecuteOutcome,
        ExecuteRaises, FinalSave,
        FinalSaveFails, FinalSaveReturns, HandlerSave, HandlerSaveFails, ExecuteCleanup,
        Interrupted, TaskStep
  <2>3. TaskRuns' = TaskRuns
    BY <2>2 DEF IInv, TypeOK, TaskRuns
  <2> QED
    BY <1>1, <2>1, <2>3
<1>7. CASE RequestNext \/ UNCHANGED vars
  <2>1. UNCHANGED <<procVars, task>>
    BY <1>7
    DEF RequestNext, CreateRun, CancelCheck, CancelSignal, CancelCommit, CancelFails,
        DeleteCheck, DeleteCommit, DeleteUser
  <2> QED
    BY <1>1, <2>1 DEF TaskRuns
<1>8. ASSUME NEW n \in NodeIds, Startup(n)
      PROVE  SlotAccounting'
  <2>1. TaskRuns' = {}
    BY <1>8 DEF IInv, PollerOwnsClaim, Startup, TaskRuns
  <2> QED
    BY <1>8, <2>1, FS_EmptySet DEF IInv, PollerOwnsClaim, SlotAccounting, Held, Startup
<1>9. CASE Crash \/ BeginShutdown \/ DrainTimeout \/ FinishShutdown
  BY <1>9 DEF SlotAccounting, Crash, Exit, BeginShutdown, DrainTimeout, FinishShutdown
<1> QED
  BY <1>2, <1>3, <1>4, <1>5, <1>6, <1>7, <1>8, <1>9
  DEF Next, PollerNext, LifespanNext

\* While the server is up, free slots, the poller's slot and the tasks that have
\* not been reaped always add up to max_concurrency.
THEOREM SlotsAddUp == Spec => []SlotAccounting
<1>1. Init => SlotAccounting
  BY DEF Init, SlotAccounting
<1> QED
  BY <1>1, Invariance, SlotStep, PTL DEF Spec

----------------------------------------------------------------------------
(* The cap on runs in flight *)

\* Only CreateRun puts a run in flight, and none changes who created a run.
LEMMA NothingElseSubmits ==
    ASSUME IInv, [Next]_vars, ~(\E u \in Users, r \in Runs : CreateRun(u, r))
    PROVE  /\ createdBy' = createdBy
           /\ \A r \in Runs : status'[r] \in Inflight => status[r] \in Inflight
<1>1. CASE PollerNext
  BY <1>1
  DEF IInv, TypeOK, PollerNext, PollerAcquire, DequeueNextQueued, Queued, DequeueEmpty,
      DequeueFails, Spawn, PollerWake
<1>2. ASSUME NEW r \in Runs, FinalSave(r) \/ HandlerSave(r)
      PROVE  /\ createdBy' = createdBy
             /\ \A q \in Runs : status'[q] \in Inflight => status[q] \in Inflight
  <2>1. local[r].status \in Terminal
    BY <1>2 DEF IInv, TasksAgreeWithRows, TaskAgreesWithRow, FinalSave, HandlerSave, TaskStep
  <2> QED
    BY <1>2, <2>1 DEF IInv, TypeOK, FinalSave, HandlerSave, Save
<1>3. ASSUME NEW r \in Runs, ExecuteNext(r), ~FinalSave(r), ~HandlerSave(r)
      PROVE  UNCHANGED dbVars
  BY <1>3
  DEF ExecuteNext, ExecuteLoad, ExecuteLoadFails, ExecuteStart, ExecuteOutcome, ExecuteRaises,
      FinalSaveFails, FinalSaveReturns, HandlerSaveFails, ExecuteCleanup, Interrupted,
      OnTaskDone
<1>4. CASE RequestNext
  BY <1>4
  DEF IInv, TypeOK, RequestNext, CancelCheck, CancelSignal, CancelCommit, CancelIfInflight,
      CancelFails, DeleteCheck, DeleteCommit, DeleteUser
<1>5. CASE LifespanNext
  BY <1>5
  DEF IInv, TypeOK, LifespanNext, Startup, MarkInterruptedRuns, Crash, Exit, BeginShutdown,
      DrainTimeout, FinishShutdown
<1> QED
  BY <1>1, <1>2, <1>3, <1>4, <1>5 DEF Next

\* Every step of the server keeps the cap.
LEMMA CapStep == IInv /\ InflightCap /\ [Next]_vars => InflightCap'
<1> SUFFICES ASSUME IInv, InflightCap, [Next]_vars, NEW v \in Users, Capped(v)
             PROVE  Cardinality(InflightOf(v)') <= InflightLimit
  BY DEF InflightCap, Capped
<1> USE LimitAssumption
<1>1. /\ IsFiniteSet(InflightOf(v)) /\ IsFiniteSet(InflightOf(v)')
      /\ Cardinality(InflightOf(v)) \in Nat /\ Cardinality(InflightOf(v)') \in Nat
      /\ Cardinality(InflightOf(v)) <= InflightLimit
  <2>1. InflightOf(v) \subseteq Runs /\ InflightOf(v)' \subseteq Runs
    BY DEF InflightOf
  <2> QED
    BY <2>1, RunsAssumption, FS_Subset, FS_CardinalityType DEF InflightCap
<1>2. CASE InflightOf(v)' \subseteq InflightOf(v)
  <2>1. Cardinality(InflightOf(v)') <= Cardinality(InflightOf(v))
    BY <1>1, <1>2, FS_Subset
  <2> QED
    BY <1>1, <2>1
<1>3. ASSUME NEW u \in Users, NEW r \in Runs, CreateRun(u, r)
      PROVE  Cardinality(InflightOf(v)') <= InflightLimit
  <2>1. CASE u = v
    <3>1. InflightOf(v)' = InflightOf(v) \cup {r} /\ r \notin InflightOf(v)
      BY <1>3, <2>1 DEF IInv, TypeOK, CreateRun, InflightOf
    <3>2. Cardinality(InflightOf(v)') = Cardinality(InflightOf(v)) + 1
      BY <1>1, <3>1, FS_AddElement
    <3>3. Cardinality(InflightOf(v)) < InflightLimit
      BY <1>3, <2>1 DEF CreateRun, BelowInflightLimit
    <3> QED
      BY <1>1, <3>2, <3>3
  <2>2. CASE u # v
    <3>1. InflightOf(v)' \subseteq InflightOf(v)
      BY <1>3, <2>2 DEF IInv, TypeOK, CreateRun, InflightOf
    <3> QED
      BY <1>2, <3>1
  <2> QED
    BY <2>1, <2>2
<1>4. CASE ~(\E u \in Users, r \in Runs : CreateRun(u, r))
  <2>1. InflightOf(v)' \subseteq InflightOf(v)
    BY <1>4, NothingElseSubmits DEF InflightOf
  <2> QED
    BY <1>2, <2>1
<1> QED
  BY <1>3, <1>4

\* No user without exemption ever has more runs in flight than
\* max_inflight_runs_per_user.
THEOREM CapHolds == Spec => []InflightCap
<1>1. Init => InflightCap
  <2> SUFFICES ASSUME Init, NEW u \in Users PROVE Cardinality(InflightOf(u)) <= InflightLimit
    BY DEF InflightCap
  <2>1. InflightOf(u) = {}
    BY DEF Init, InflightOf
  <2> QED
    BY <2>1, LimitAssumption, FS_EmptySet
<1> QED
  BY <1>1, Invariance, CapStep, PTL DEF Spec

----------------------------------------------------------------------------
(* Who ends a running row *)

OwnerInv == RunningIsOwned /\ SignalledIsCancelled

\* Every step of the server keeps every running row owned.
LEMMA OwnerStep == IInv /\ OwnerInv /\ [Next]_vars => OwnerInv'
<1> SUFFICES ASSUME IInv, OwnerInv, [Next]_vars, phase' = "up", failures' = 0
             PROVE  OwnerInv'
  BY DEF OwnerInv, RunningIsOwned, SignalledIsCancelled
<1> USE DEF OwnerInv, RunningIsOwned, SignalledIsCancelled
<1>1. CASE PollerNext
  <2>1. ASSUME NEW r \in Runs, DequeueNextQueued(r)
        PROVE  OwnerInv'
    BY <2>1, RunsAssumption
    DEF IInv, TypeOK, PollerOwnsClaim, TasksAgreeWithRows, TaskAgreesWithRow, RowHistories,
        RowHistory, DequeueNextQueued, Queued
  <2>2. CASE Spawn
    BY <2>2, RunsAssumption DEF IInv, TypeOK, PollerOwnsClaim, Spawn
  <2>3. CASE DequeueFails
    BY <2>3 DEF IInv, TypeOK, DequeueFails
  <2>4. CASE PollerAcquire \/ DequeueEmpty \/ PollerWake
    BY <2>4 DEF PollerAcquire, DequeueEmpty, PollerWake
  <2> QED
    BY <1>1, <2>1, <2>2, <2>3, <2>4 DEF PollerNext
<1>2. ASSUME NEW r \in Runs, ExecuteNext(r)
      PROVE  OwnerInv'
  <2>1. CASE FinalSave(r) \/ HandlerSave(r)
    <3>1. local[r].status \in Terminal
      BY <2>1 DEF IInv, TasksAgreeWithRows, TaskAgreesWithRow, FinalSave, HandlerSave, TaskStep
    <3>2. /\ status' = [status EXCEPT ![r] = local[r].status]
          /\ UNCHANGED <<workerNode, procVars, signalled, reqVars, failures>>
      BY <2>1 DEF FinalSave, HandlerSave, Save
    <3>3. status'[r] # "running"
      BY <3>1, <3>2 DEF IInv, TypeOK, Terminal
    <3>4. \A s \in Runs \ {r} : status'[s] = status[s] /\ task'[s] = task[s]
      BY <2>1, <3>2 DEF IInv, TypeOK, FinalSave, HandlerSave, TaskStep
    <3> QED
      BY <3>2, <3>3, <3>4 DEF procVars, reqVars
  <2>2. CASE ExecuteLoad(r) \/ ExecuteStart(r) \/ ExecuteOutcome(r) \/ ExecuteRaises(r)
    BY <2>2
    DEF IInv, TypeOK, ExecuteLoad, ExecuteSkips, ExecuteStart, ExecuteOutcome, ExecuteRaises,
        TaskStep
  <2>3. CASE FinalSaveReturns(r)
    <3>1. status[r] # "running"
      BY <2>3
      DEF IInv, TypeOK, TasksAgreeWithRows, TaskAgreesWithRow, FinalSaveReturns, TaskStep
    <3> QED
      BY <2>3, <3>1 DEF IInv, TypeOK, FinalSaveReturns, TaskStep
  <2>4. CASE ExecuteCleanup(r) \/ OnTaskDone(r)
    BY <2>4 DEF IInv, TypeOK, ExecuteCleanup, OnTaskDone, TaskStep
  <2>5. CASE Interrupted(r)
    <3>1. phase = "up" /\ failures = 0 /\ signalled[r]
      BY <2>5 DEF Interrupted
    <3>2. r \in toCancel \/ status[r] # "running"
      BY <3>1
    <3> QED
      BY <2>5, <3>1, <3>2 DEF IInv, TypeOK, Interrupted, TaskStep
  <2>6. CASE ExecuteLoadFails(r) \/ FinalSaveFails(r) \/ HandlerSaveFails(r)
    BY <2>6 DEF IInv, TypeOK, ExecuteLoadFails, FinalSaveFails, HandlerSaveFails
  <2> QED
    BY <1>2, <2>1, <2>2, <2>3, <2>4, <2>5, <2>6 DEF ExecuteNext
<1>3. CASE RequestNext
  <2>1. ASSUME NEW r \in Runs, CancelSignal(r) \/ CancelCommit(r)
        PROVE  OwnerInv'
    BY <2>1 DEF IInv, TypeOK, CancelSignal, CancelCommit, CancelIfInflight
  <2>2. ASSUME NEW u \in Users, NEW r \in Runs, CreateRun(u, r)
        PROVE  OwnerInv'
    BY <2>2 DEF IInv, TypeOK, CreateRun
  <2>3. ASSUME NEW r \in Runs, CancelCheck(r) \/ CancelFails(r) \/ DeleteCheck(r) \/ DeleteCommit(r)
        PROVE  OwnerInv'
    BY <2>3 DEF IInv, TypeOK, CancelCheck, CancelFails, DeleteCheck, DeleteCommit
  <2>4. ASSUME NEW u \in Users \ Exempt, DeleteUser(u)
        PROVE  OwnerInv'
    BY <2>4 DEF DeleteUser
  <2> QED
    BY <1>3, <2>1, <2>2, <2>3, <2>4 DEF RequestNext
<1>4. CASE LifespanNext
  BY <1>4
  DEF IInv, TypeOK, PollerOwnsClaim, TasksAgreeWithRows, TaskAgreesWithRow, LifespanNext,
      Startup, MarkInterruptedRuns, Crash, Exit, BeginShutdown, DrainTimeout, FinishShutdown
<1>5. CASE UNCHANGED vars
  BY <1>5
<1> QED
  BY <1>1, <1>2, <1>3, <1>4, <1>5 DEF Next

\* While the server is up and no store call has failed, every running row of
\* this node has a poller, a task or a cancel handler that will end it.
THEOREM NoOrphans == Spec => []RunningIsOwned
<1>1. Init => OwnerInv
  BY DEF Init, OwnerInv, RunningIsOwned, SignalledIsCancelled
<1>2. OwnerInv => RunningIsOwned
  BY DEF OwnerInv
<1> QED
  BY <1>1, <1>2, Invariance, OwnerStep, PTL DEF Spec

----------------------------------------------------------------------------
(* What a step may never do *)

\* No step of the server takes a stopped run back to where it could be started.
LEMMA StoppedStep ==
    ASSUME IInv, [Next]_vars, NEW r \in Runs, Stopped(r)
    PROVE  Stopped(r)'
<1> USE DEF Stopped
<1>1. CASE PollerNext
  <2>1. CASE Spawn
    <3>1. claimed \in Runs /\ task[claimed] = "none" /\ status[claimed] \in Started
      BY <2>1, RunsAssumption DEF IInv, TypeOK, PollerOwnsClaim, Spawn
    <3> QED
      BY <2>1, <3>1, RunsAssumption
      DEF IInv, TypeOK, TasksAgreeWithRows, TaskAgreesWithRow, Spawn
  <2>2. ASSUME NEW q \in Runs, DequeueNextQueued(q)
        PROVE  Stopped(r)'
    <3>1. task[q] = "none" /\ status[q] = "queued"
      BY <2>2 DEF IInv, RowHistories, RowHistory, DequeueNextQueued, Queued
    <3>2. q # r
      BY <3>1 DEF IInv, TasksAgreeWithRows, TaskAgreesWithRow
    <3> QED
      BY <2>2, <3>2 DEF IInv, TypeOK, DequeueNextQueued
  <2>3. CASE DequeueFails
    BY <2>3, RunsAssumption DEF DequeueFails
  <2>4. CASE PollerAcquire \/ DequeueEmpty \/ PollerWake
    BY <2>4 DEF PollerAcquire, DequeueEmpty, PollerWake
  <2> QED
    BY <1>1, <2>1, <2>2, <2>3, <2>4 DEF PollerNext
<1>2. ASSUME NEW q \in Runs, ExecuteNext(q), q # r
      PROVE  Stopped(r)'
  <2>1. /\ starts'[r] = starts[r] /\ status'[r] = status[r]
        /\ task'[r] = task[r] /\ signalled'[r] = signalled[r] /\ claimed' = claimed
    BY <1>2
    DEF IInv, TypeOK, ExecuteNext, ExecuteLoad, ExecuteLoadFails, ExecuteStart,
        ExecuteOutcome, ExecuteRaises, FinalSave, FinalSaveFails, FinalSaveReturns,
        HandlerSave, HandlerSaveFails, ExecuteCleanup, Interrupted, OnTaskDone, TaskStep, Save
  <2> QED
    BY <2>1
<1>3. ASSUME ExecuteNext(r)
      PROVE  Stopped(r)'
  <2>1. CASE ExecuteLoad(r) \/ ExecuteLoadFails(r) \/ ExecuteStart(r) \/ ExecuteOutcome(r)
             \/ ExecuteRaises(r) \/ FinalSaveFails(r) \/ FinalSaveReturns(r)
             \/ HandlerSaveFails(r) \/ ExecuteCleanup(r)
    BY <2>1
    DEF IInv, TypeOK, ExecuteLoad, ExecuteSkips, ExecuteLoadFails, ExecuteStart,
        ExecuteOutcome, ExecuteRaises, FinalSaveFails, FinalSaveReturns, HandlerSaveFails,
        ExecuteCleanup, TaskStep
  <2>2. CASE FinalSave(r) \/ HandlerSave(r)
    BY <2>2 DEF IInv, TypeOK, FinalSave, HandlerSave, Save, TaskStep
  <2>3. CASE Interrupted(r)
    BY <2>3
    DEF IInv, TypeOK, Interrupted, TaskStep
  <2>4. CASE OnTaskDone(r)
    <3>1. /\ task[r] = "done" /\ task'[r] = "none" /\ claimed' = claimed
          /\ status' = status /\ starts' = starts
      BY <2>4 DEF IInv, TypeOK, OnTaskDone
    <3>2. claimed # r /\ status[r] \notin {"unborn", "queued"}
      BY <3>1, RunsAssumption DEF IInv, PollerOwnsClaim, RowHistories, RowHistory
    <3> QED
      BY <3>1, <3>2
  <2> QED
    BY <1>3, <2>1, <2>2, <2>3, <2>4 DEF ExecuteNext
<1>4. CASE RequestNext
  BY <1>4
  DEF IInv, TypeOK, TasksAgreeWithRows, TaskAgreesWithRow, RowHistories, RowHistory,
      RequestNext, CreateRun, CancelCheck, CancelSignal, CancelCommit, CancelIfInflight,
      CancelFails, DeleteCheck, DeleteCommit, DeleteUser
<1>5. CASE LifespanNext
  <2>1. status[r] \notin {"unborn", "queued"}
    BY DEF IInv, TasksAgreeWithRows, TaskAgreesWithRow, RowHistories, RowHistory
  <2>2. /\ starts' = starts
        /\ \/ status'[r] = status[r]
           \/ status[r] = "running" /\ status'[r] = "failed"
    <3>1. CASE \E n \in NodeIds : Startup(n)
      BY <3>1 DEF Startup, MarkInterruptedRuns
    <3>2. CASE Crash \/ BeginShutdown \/ DrainTimeout \/ FinishShutdown
      BY <3>2 DEF Crash, Exit, BeginShutdown, DrainTimeout, FinishShutdown
    <3> QED
      BY <1>5, <3>1, <3>2 DEF LifespanNext
  <2>3. CASE Crash \/ FinishShutdown
    BY <2>1, <2>2, <2>3, RunsAssumption DEF Crash, FinishShutdown, Exit
  <2>4. CASE BeginShutdown \/ DrainTimeout \/ \E n \in NodeIds : Startup(n)
    BY <2>1, <2>2, <2>4, RunsAssumption
    DEF IInv, TypeOK, BeginShutdown, DrainTimeout, Startup
  <2> QED
    BY <1>5, <2>3, <2>4 DEF LifespanNext
<1>6. CASE UNCHANGED vars
  BY <1>6
<1> QED
  BY <1>1, <1>2, <1>3, <1>4, <1>5, <1>6 DEF Next

\* A run that was stopped before its process started stays stopped, whatever the
\* tasks, the poller, the handlers and the restarts do.
THEOREM NoLateStart == Spec => NoStartAfterCancel
<1>1. IInv /\ [Next]_vars => [\A r \in Runs : Stopped(r) => Stopped(r)']_vars
  BY StoppedStep
<1> QED
  BY <1>1, Invariance, PTL DEF Spec, NoStartAfterCancel

\* The same as a user sees it: once its task was told to stop, or its row ended
\* before the task read it, a run that was not started is never started.
THEOREM StoppedNeverStarts ==
    ASSUME NEW r \in Runs
    PROVE  Spec => []((/\ starts[r] = 0
                       /\ \/ signalled[r]
                          \/ status[r] \in Terminal \cup {"deleted"} /\ task[r] \in {"none", "get"})
                          => [](starts[r] = 0))
<1> DEFINE Seen == /\ starts[r] = 0
                   /\ \/ signalled[r]
                      \/ status[r] \in Terminal \cup {"deleted"} /\ task[r] \in {"none", "get"}
           Idle == starts[r] = 0
           Dead == Stopped(r)
<1>1. Seen => Dead
  BY DEF Stopped
<1>2. IInv /\ Dead /\ [Next]_vars => Dead'
  BY StoppedStep
<1>3. Dead => Idle
  BY DEF Stopped
<1> HIDE DEF Seen, Idle, Dead
<1>4. Spec => [](Seen => []Idle)
  BY <1>1, <1>2, <1>3, Invariance, PTL DEF Spec
<1> QED
  BY <1>4 DEF Seen, Idle

\* Without store failures nothing relabels a completed, failed or timed out run.
THEOREM OutcomesStick == Spec => OutcomeIsSticky
<1>1. ASSUME IInv, [Next]_vars, NEW r \in Runs, failures = 0, status[r] \in Finished
      PROVE  status'[r] \in {status[r], "deleted"}
  <2>1. CASE PollerNext
    BY <1>1, <2>1
    DEF IInv, TypeOK, PollerNext, PollerAcquire, DequeueNextQueued, Queued, DequeueEmpty,
        DequeueFails, Spawn, PollerWake
  <2>2. ASSUME NEW q \in Runs, FinalSave(q) \/ HandlerSave(q)
        PROVE  status'[r] \in {status[r], "deleted"}
    BY <1>1, <2>2
    DEF IInv, TypeOK, TasksAgreeWithRows, TaskAgreesWithRow, FinalSave, HandlerSave, TaskStep,
        Save
  <2>3. ASSUME NEW q \in Runs, ExecuteNext(q), ~FinalSave(q), ~HandlerSave(q)
        PROVE  status' = status
    BY <2>3
    DEF ExecuteNext, ExecuteLoad, ExecuteLoadFails, ExecuteStart, ExecuteOutcome, ExecuteRaises,
        FinalSaveFails, FinalSaveReturns, HandlerSaveFails, ExecuteCleanup, Interrupted,
        OnTaskDone
  <2>4. CASE RequestNext
    BY <1>1, <2>4
    DEF IInv, TypeOK, RequestNext, CreateRun, CancelCheck, CancelSignal, CancelCommit,
        CancelIfInflight, CancelFails, DeleteCheck, DeleteCommit, DeleteUser
  <2>5. CASE LifespanNext
    BY <1>1, <2>5
    DEF IInv, TypeOK, LifespanNext, Startup, MarkInterruptedRuns, Crash, Exit,
        BeginShutdown, DrainTimeout, FinishShutdown
  <2> QED
    BY <1>1, <2>1, <2>2, <2>3, <2>4, <2>5 DEF Next
<1>2. IInv /\ [Next]_vars => [\A r \in Runs :
        (failures = 0 /\ status[r] \in {"completed", "failed", "timeout"})
            => status'[r] \in {status[r], "deleted"}]_vars
  BY <1>1
<1> QED
  BY <1>2, Invariance, PTL DEF Spec, OutcomeIsSticky

----------------------------------------------------------------------------
(* The runs table implements RunContract *)

\* A write of one row by the poller, a task or a handler is a step of the
\* contract for that row.
LEMMA RowStep ==
    ASSUME IInv, NEW r \in Runs, NEW s,
           status' = [status EXCEPT ![r] = s],
           \/ status[r] = "unborn" /\ s = "queued"
           \/ status[r] = "queued" /\ s = "running"
           \/ status[r] \in Inflight /\ s = "cancelled"
           \/ status[r] \in Inflight \cup Terminal /\ s = "deleted"
           \/ status[r] \in Started /\ s \in Finished
           \/ status[r] \in Finished /\ s = "failed"
           \/ status[r] = "deleted" /\ s = "cancelled"
           \/ status[r] = s
    PROVE  Contract!CNext \/ UNCHANGED status
<1>1. CASE status[r] = s
  BY <1>1 DEF IInv, TypeOK
<1>2. CASE status[r] = "unborn" /\ s = "queued"
  BY <1>2 DEF Contract!CNext, Contract!Submit, Contract!Becomes
<1>3. CASE status[r] = "queued" /\ s = "running"
  BY <1>3 DEF Contract!CNext, Contract!Begin, Contract!Becomes
<1>4. CASE status[r] \in Inflight /\ s = "cancelled"
  BY <1>4 DEF Contract!CNext, Contract!Cancel, Contract!Becomes
<1>5. CASE status[r] \in Inflight \cup Terminal /\ s = "deleted"
  BY <1>5 DEF Contract!CNext, Contract!Delete, Contract!Becomes, Contract!Outcome
<1>6. CASE status[r] \in Started /\ s \in Finished
  BY <1>6
  DEF Contract!CNext, Contract!End, Contract!Relabel, Contract!Reinsert, Contract!Becomes,
      Contract!Outcome
<1>7. CASE status[r] \in Finished /\ s = "failed"
  BY <1>7 DEF Contract!CNext, Contract!Retract, Contract!Becomes, Contract!Outcome
<1>8. CASE status[r] = "deleted" /\ s = "cancelled"
  BY <1>8 DEF Contract!CNext, Contract!Reinsert, Contract!Becomes
<1> QED
  BY <1>1, <1>2, <1>3, <1>4, <1>5, <1>6, <1>7, <1>8

\* Every step of the server is a step of the contract or leaves every row's
\* status alone.
LEMMA ContractStep == IInv /\ [Next]_vars => [Contract!CNext]_status
<1> SUFFICES ASSUME IInv, [Next]_vars PROVE Contract!CNext \/ UNCHANGED status
  OBVIOUS
<1>1. CASE PollerNext
  <2>1. ASSUME NEW r \in Runs, DequeueNextQueued(r)
        PROVE  Contract!CNext \/ UNCHANGED status
    BY <2>1, RowStep DEF DequeueNextQueued, Queued
  <2> QED
    BY <1>1, <2>1 DEF PollerNext, PollerAcquire, DequeueEmpty, DequeueFails, Spawn, PollerWake
<1>2. ASSUME NEW r \in Runs, FinalSave(r) \/ HandlerSave(r)
      PROVE  Contract!CNext \/ UNCHANGED status
  <2>1. \/ status[r] \in Started /\ local[r].status \in Terminal
        \/ status[r] \in Finished /\ local[r].status = "failed"
        \/ status[r] = local[r].status
    BY <1>2
    DEF IInv, TasksAgreeWithRows, TaskAgreesWithRow, FinalSave, HandlerSave, TaskStep
  <2> QED
    BY <1>2, <2>1, RowStep DEF FinalSave, HandlerSave, Save
<1>3. ASSUME NEW r \in Runs, ExecuteNext(r), ~FinalSave(r), ~HandlerSave(r)
      PROVE  UNCHANGED status
  BY <1>3
  DEF ExecuteNext, ExecuteLoad, ExecuteLoadFails, ExecuteStart, ExecuteOutcome, ExecuteRaises,
      FinalSaveFails, FinalSaveReturns, HandlerSaveFails, ExecuteCleanup, Interrupted,
      OnTaskDone
<1>4. CASE RequestNext
  <2>1. ASSUME NEW u \in Users, NEW r \in Runs, CreateRun(u, r)
        PROVE  Contract!CNext \/ UNCHANGED status
    BY <2>1, RowStep DEF CreateRun
  <2>2. ASSUME NEW r \in Runs, CancelCommit(r)
        PROVE  Contract!CNext \/ UNCHANGED status
    <3>1. CASE status[r] \in Inflight
      BY <2>2, <3>1, RowStep DEF IInv, TypeOK, CancelCommit, CancelIfInflight
    <3>2. CASE status[r] \notin Inflight
      BY <2>2, <3>2 DEF IInv, TypeOK, CancelCommit, CancelIfInflight
    <3> QED
      BY <3>1, <3>2
  <2>3. ASSUME NEW r \in Runs, DeleteCommit(r)
        PROVE  Contract!CNext \/ UNCHANGED status
    <3>1. status[r] \in Inflight \cup Terminal \cup {"deleted"}
      BY <2>3 DEF IInv, TypeOK, RowHistories, RowHistory, DeleteCommit
    <3> QED
      BY <2>3, <3>1, RowStep DEF DeleteCommit
  <2> QED
    BY <1>4, <2>1, <2>2, <2>3
    DEF RequestNext, CancelCheck, CancelSignal, CancelFails, DeleteCheck, DeleteUser
<1>5. ASSUME NEW n \in NodeIds, Startup(n)
      PROVE  Contract!CNext
  <2> DEFINE I == {r \in Runs : status[r] = "running" /\ workerNode[r] = n}
  <2>1. /\ I \in SUBSET {r \in Runs : status[r] = "running"}
        /\ status' = [r \in Runs |-> IF r \in I THEN "failed" ELSE status[r]]
    BY <1>5 DEF Startup, MarkInterruptedRuns
  <2> QED
    BY <2>1 DEF Contract!CNext, Contract!Restart
<1>6. CASE Crash \/ BeginShutdown \/ DrainTimeout \/ FinishShutdown
  BY <1>6 DEF Crash, Exit, BeginShutdown, DrainTimeout, FinishShutdown
<1> QED
  BY <1>1, <1>2, <1>3, <1>4, <1>5, <1>6 DEF Next, LifespanNext

\* The rows behave as RunContract says: from the first insert on, every change a
\* polling client can see is one the contract lists.
THEOREM Refinement == Spec => RefinesContract
<1>1. Init => Contract!CInit
  BY DEF Init, Contract!CInit
<1> QED
  BY <1>1, Invariance, ContractStep, PTL DEF Spec, RefinesContract, Contract!CSpec
==============================================================================
