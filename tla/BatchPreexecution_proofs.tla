---------------------- MODULE BatchPreexecution_proofs ----------------------
(***************************************************************************)
(* Theorems about BatchPreexecution, for any sets of callers, keys, Runs   *)
(* and tasks and for any bounds.                                           *)
(***************************************************************************)
EXTENDS BatchPreexecution, FiniteSetTheorems, TLAPS

USE ProcsAssumption, FactAssumption

\* A Batch in draft satisfies the invariant.
LEMMA InitIInv == Init => IInv
<1> SUFFICES ASSUME Init PROVE IInv
    OBVIOUS
<1>1. BatchValid
    BY DEF Init, BatchValid, TypeOK, Loadable, States, Phases, Events, Steps
<1>2. CommandsOK
    BY FS_EmptySet DEF Init, CommandsOK, Commands, NoCommand, Scopes
<1>3. EventsMatchFacts
    BY FS_EmptySet DEF Init, EventsMatchFacts, Events
<1>4. QED
    BY <1>1, <1>2, <1>3
    DEF Init, IInv, ClosedHasBasis, Closed, LockedFactsStand, Steps, ClosedMeansIdle

----------------------------------------------------------------------------
(* The row lock *)

\* One transaction at a time holds the row.
LEMMA OneHolder ==
    ASSUME IInv
    PROVE  /\ lock = NoProc => \A q \in Procs : pc[q] \notin Steps
           /\ \A p, q \in Procs : pc[p] \in Steps /\ pc[q] \in Steps => p = q
BY DEF IInv, BatchValid, TypeOK

\* When a command ends, and with it the transaction it may have had, nobody holds the
\* row: no fact of a transaction is left to stand.
LEMMA Released ==
    ASSUME IInv, NEW p \in Procs, pc[p] \in Steps \/ lock = NoProc, Ends(p), lock' = NoProc
    PROVE  /\ pc' \in [Procs -> {"idle", "authority"} \cup Steps]
           /\ \A q \in Procs : pc'[q] \in Steps <=> lock' = q
           /\ LockedFactsStand'
           /\ cmd' \in [Procs -> Commands]
           /\ \A q \in Procs : /\ cmd'[q].op = "cancel" => cmd'[q].id \in Keys
                               /\ cmd'[q].op = "reject" => cmd'[q].id \in Rejections
<1>1. NoCommand \in Commands /\ NoCommand.op = "none"
    BY DEF NoCommand, Commands, Scopes
<1>2. pc \in [Procs -> {"idle", "authority"} \cup Steps] /\ cmd \in [Procs -> Commands]
    BY DEF IInv, BatchValid, TypeOK, CommandsOK
<1>3. \A q \in Procs : pc'[q] \notin Steps
    BY <1>2, OneHolder DEF Ends, Steps
<1>4. /\ pc' \in [Procs -> {"idle", "authority"} \cup Steps]
      /\ \A q \in Procs : pc'[q] \in Steps <=> lock' = q
    BY <1>2, <1>3 DEF Ends
<1>5. LockedFactsStand'
    BY <1>3 DEF LockedFactsStand
<1>6. cmd' \in [Procs -> Commands]
    BY <1>1, <1>2 DEF Ends
<1>7. ASSUME NEW q \in Procs
      PROVE  /\ cmd'[q].op = "cancel" => cmd'[q].id \in Keys
             /\ cmd'[q].op = "reject" => cmd'[q].id \in Rejections
    BY <1>1, <1>2 DEF Ends, IInv, CommandsOK
<1>8. QED
    BY <1>4, <1>5, <1>6, <1>7

\* A step of a command that changes neither the Batch nor what others write keeps the
\* invariant if the transaction it is in then, if any, has the row and its facts.
LEMMA CommandStep ==
    ASSUME IInv, NEW p \in Procs, NEW at \in {"idle", "authority"} \cup Steps, NEW c \in Commands,
           pc' = [pc EXCEPT ![p] = at], cmd' = [cmd EXCEPT ![p] = c],
           UNCHANGED <<batchVars, otherVars>>,
           c.op = "cancel" => c.id \in Keys, c.op = "reject" => c.id \in Rejections,
           IF at \in Steps THEN lock \in {p, NoProc} /\ lock' = p
           ELSE IF pc[p] \in Steps THEN lock' = NoProc ELSE lock' = lock,
           at \in Steps => (AuthorityStands(p) /\ EvidenceStands(p))'
    PROVE  IInv'
<1>1. /\ pc \in [Procs -> {"idle", "authority"} \cup Steps] /\ cmd \in [Procs -> Commands]
      /\ \A q \in Procs : pc[q] \in Steps <=> lock = q
    BY DEF IInv, BatchValid, TypeOK, CommandsOK
<1>2. /\ UNCHANGED <<state, version, intent, rejection, basis, handoffs, sent>>
      /\ UNCHANGED <<runs, task, ledger, seals, planSealed, moves>>
    BY DEF batchVars, otherVars
<1>3. ASSUME NEW q \in Procs, q # p
      PROVE  pc'[q] = pc[q] /\ cmd'[q] = cmd[q]
    BY <1>1, <1>3
<1>4. pc'[p] = at /\ cmd'[p] = c
    BY <1>1
<1>5. \A q \in Procs : pc'[q] \in Steps <=> lock' = q
    BY <1>1, <1>3, <1>4
<1>6. TypeOK'
    BY <1>2, <1>5 DEF IInv, BatchValid, TypeOK
<1>7. Loadable'
    BY <1>2 DEF IInv, BatchValid, Loadable, PendingCancelBinds, BasisValid, CancelBasisBinds,
                RejectionBinds
<1>8. CommandsOK'
    BY <1>1, <1>2, <1>3, <1>4 DEF IInv, CommandsOK
<1>9. (ClosedHasBasis /\ ClosedMeansIdle /\ EventsMatchFacts)'
    BY <1>2 DEF IInv, ClosedHasBasis, ClosedMeansIdle, EventsMatchFacts, Started, Stopped
<1>10. ASSUME NEW q \in Procs, pc'[q] \in Steps
       PROVE  (AuthorityStands(q) /\ EvidenceStands(q))'
  <2>1. CASE q = p
    BY <1>4, <1>10, <2>1
  <2>2. CASE q # p
    <3>1. AuthorityStands(q) /\ EvidenceStands(q)
      BY <1>3, <1>10, <2>2 DEF IInv, LockedFactsStand
    <3>2. QED
      BY <1>2, <1>3, <2>2, <3>1 DEF AuthorityStands, EvidenceStands, Started, Stopped
  <2>3. QED
    BY <2>1, <2>2
<1>11. QED
    BY <1>6, <1>7, <1>8, <1>9, <1>10 DEF IInv, BatchValid, LockedFactsStand

\* A command that ends without effect, be its transaction rolled back or never begun.
LEMMA EndStep ==
    ASSUME IInv, NEW p \in Procs, Ends(p), UNCHANGED <<batchVars, otherVars>>,
           IF pc[p] \in Steps THEN lock' = NoProc ELSE lock' = lock
    PROVE  IInv'
<1>1. NoCommand \in Commands /\ NoCommand.op = "none" /\ "idle" \notin Steps
    BY DEF NoCommand, Commands, Scopes, Steps
<1>2. QED
    BY <1>1, CommandStep DEF Ends

----------------------------------------------------------------------------
(* The writers outside *)

\* What an outside step leaves of the commands.
LEMMA OutsideFrame ==
    ASSUME IInv, UNCHANGED <<lock, procVars>>, runs' \subseteq Runs, ledger' \in Nat,
           task' \in [Tasks -> {"none", "started", "stopped"}],
           UNCHANGED <<intent, rejection, basis, handoffs, sent>>,
           state' \in States, version' \in Nat
    PROVE  TypeOK' /\ CommandsOK' /\ EventsMatchFacts'
<1>1. UNCHANGED <<lock, pc, cmd>>
    BY DEF procVars
<1>2. QED
    BY <1>1 DEF IInv, BatchValid, TypeOK, CommandsOK, EventsMatchFacts

\* An insert of others waits for the row.
LEMMA RowFreeStep ==
    ASSUME IInv, RowFree, UNCHANGED <<lock, procVars>>
    PROVE  LockedFactsStand'
<1>1. UNCHANGED <<lock, pc, cmd>>
    BY DEF procVars
<1>2. QED
    BY <1>1, OneHolder DEF RowFree, LockedFactsStand

LEMMA TransitionKeeps == ASSUME IInv, Transition PROVE IInv'
<1>1. /\ state \in Phases /\ state' \in Phases \cup {"running"} /\ version' \in Nat
      /\ intent = NoFact /\ UNCHANGED <<intent, rejection, basis, handoffs, sent>>
      /\ UNCHANGED <<runs, task, ledger, lock, procVars>>
    BY DEF Transition, MayAdvance, AllowedTransitions, Phases, IInv, BatchValid, TypeOK, otherVars
<1>2. basis = NoFact
    BY <1>1
    DEF IInv, BatchValid, Loadable, RejectionBinds, CancelBasisBinds, Phases, TypeOK, Bases
<1>3. TypeOK' /\ CommandsOK' /\ EventsMatchFacts'
    BY <1>1, OutsideFrame DEF States, IInv, BatchValid, TypeOK, CommandsOK
<1>4. Loadable'
    BY <1>1, <1>2 DEF IInv, BatchValid, Loadable
<1>5. (ClosedHasBasis /\ ClosedMeansIdle)'
    BY <1>1 DEF ClosedHasBasis, ClosedMeansIdle, Closed, Phases
<1>6. QED
    BY <1>1, <1>3, <1>4, <1>5, RowFreeStep DEF IInv, BatchValid, Transition

\* A step that leaves the Batch alone keeps what can be loaded of it.
LEMMA BatchFrame ==
    ASSUME IInv, UNCHANGED batchVars
    PROVE  /\ Loadable' /\ ClosedHasBasis'
           /\ UNCHANGED <<state, version, intent, rejection, basis, handoffs, sent>>
<1>1. UNCHANGED <<state, version, intent, rejection, basis, handoffs, sent>>
    BY DEF batchVars
<1>2. QED
    BY <1>1 DEF IInv, BatchValid, Loadable, PendingCancelBinds, BasisValid, CancelBasisBinds,
                RejectionBinds, ClosedHasBasis

LEMMA MaterializeKeeps == ASSUME IInv, NEW r \in Runs, MaterializeRun(r) PROVE IInv'
<1>1. /\ UNCHANGED <<task, ledger, lock, procVars>> /\ UNCHANGED batchVars /\ RowFree
      /\ runs' \subseteq Runs /\ state \notin Closed
    BY DEF MaterializeRun, IInv, BatchValid, TypeOK, Closed
<1>2. ClosedMeansIdle'
    BY <1>1, BatchFrame DEF ClosedMeansIdle
<1>3. TypeOK' /\ CommandsOK' /\ EventsMatchFacts'
    BY <1>1, BatchFrame, OutsideFrame DEF IInv, BatchValid, TypeOK, CommandsOK
<1>4. QED
    BY <1>1, <1>2, <1>3, BatchFrame, RowFreeStep DEF IInv, BatchValid

LEMMA StartTaskKeeps == ASSUME IInv, NEW t \in Tasks, StartTask(t) PROVE IInv'
<1>1. /\ UNCHANGED <<runs, lock, procVars>> /\ UNCHANGED batchVars /\ RowFree
      /\ ledger' \in Nat /\ task' \in [Tasks -> {"none", "started", "stopped"}]
      /\ state \notin Closed
    BY DEF StartTask, IInv, BatchValid, TypeOK, CommandsOK, Closed, Phases
<1>2. ClosedMeansIdle'
    BY <1>1, BatchFrame DEF ClosedMeansIdle
<1>3. TypeOK' /\ CommandsOK' /\ EventsMatchFacts'
    BY <1>1, BatchFrame, OutsideFrame DEF IInv, BatchValid, TypeOK
<1>4. QED
    BY <1>1, <1>2, <1>3, BatchFrame, RowFreeStep DEF IInv, BatchValid

\* The stop of a task may come while a transaction proves that all are stopped.
LEMMA StopTaskKeeps == ASSUME IInv, NEW t \in Tasks, StopTask(t) PROVE IInv'
<1>1. /\ UNCHANGED <<runs, ledger, lock, procVars>> /\ UNCHANGED batchVars
      /\ UNCHANGED <<pc, cmd>>
      /\ task' \in [Tasks -> {"none", "started", "stopped"}]
    BY DEF StopTask, IInv, BatchValid, TypeOK, procVars
<1>2. Started' = Started /\ Started # Stopped
    BY DEF StopTask, Started, Stopped, IInv, BatchValid, TypeOK
<1>3. ClosedMeansIdle'
    BY <1>1, <1>2, BatchFrame DEF ClosedMeansIdle, IInv
<1>4. TypeOK' /\ CommandsOK' /\ EventsMatchFacts'
    BY <1>1, BatchFrame, OutsideFrame DEF IInv, BatchValid, TypeOK, CommandsOK
<1>5. LockedFactsStand'
    BY <1>1, <1>2, BatchFrame DEF IInv, LockedFactsStand, AuthorityStands, EvidenceStands
<1>6. QED
    BY <1>1, <1>3, <1>4, <1>5, BatchFrame DEF IInv, BatchValid

\* The ledger and the seals are no facts of the Batch.
LEMMA LedgerKeeps ==
    ASSUME IInv, OpenLedger \/ MoveLedger \/ SealInventory \/ SealPlan PROVE IInv'
<1>1. /\ UNCHANGED <<runs, task, lock, procVars>> /\ UNCHANGED batchVars
      /\ UNCHANGED <<pc, cmd>> /\ ledger' \in Nat
    BY DEF OpenLedger, MoveLedger, SealInventory, SealPlan, IInv, CommandsOK, procVars
<1>2. ClosedMeansIdle'
    BY <1>1, BatchFrame DEF ClosedMeansIdle, IInv, Started, Stopped
<1>3. TypeOK' /\ CommandsOK' /\ EventsMatchFacts'
    BY <1>1, BatchFrame, OutsideFrame DEF IInv, BatchValid, TypeOK
<1>4. LockedFactsStand'
    BY <1>1, BatchFrame
    DEF IInv, LockedFactsStand, AuthorityStands, EvidenceStands, Started, Stopped
<1>5. QED
    BY <1>1, <1>2, <1>3, <1>4, BatchFrame DEF IInv, BatchValid

----------------------------------------------------------------------------
(* Commands *)

\* What is known of a command.
LEMMA CommandType ==
    ASSUME IInv, NEW p \in Procs
    PROVE  /\ cmd[p] \in Commands /\ pc[p] \in {"idle", "authority"} \cup Steps
           /\ cmd[p].op = "cancel" => cmd[p].id \in Keys
           /\ cmd[p].op = "reject" => cmd[p].id \in Rejections
           /\ pc[p] \in Steps => lock = p /\ AuthorityStands(p) /\ EvidenceStands(p)
BY DEF IInv, BatchValid, TypeOK, CommandsOK, LockedFactsStand

LEMMA BeginKeeps ==
    ASSUME IInv, NEW p \in Procs, BeginCancel(p) \/ BeginClose(p) \/ BeginReject(p) PROVE IInv'
<1>1. PICK op \in {"cancel", "close", "reject"}, id \in Keys \cup Rejections \cup {NoFact} :
         /\ Begin(p, op, id)
         /\ op = "cancel" => id \in Keys
         /\ op = "reject" => id \in Rejections
    BY DEF BeginCancel, BeginClose, BeginReject
<1> DEFINE g == IF state \in DOMAIN StageByPhase THEN StageByPhase[state] ELSE NoFact
           c == [NoCommand EXCEPT !.op = op, !.id = id, !.version = version,
                                  !.scope = ExpectedScope(state), !.stage = g]
<1>2. g \in Stages \cup {NoFact}
    BY DEF StageByPhase, Stages
<1> HIDE DEF g
<1>3. ExpectedScope(state) \in Scopes /\ version \in Nat
    BY DEF ExpectedScope, Scopes, IInv, BatchValid, TypeOK
<1>4. c \in Commands /\ c.op = op /\ c.id = id
    BY <1>2, <1>3 DEF NoCommand, Commands
<1>5. pc' = [pc EXCEPT ![p] = "authority"] /\ cmd' = [cmd EXCEPT ![p] = c] /\ pc[p] \notin Steps
    BY <1>1 DEF Begin, Steps, g
<1> HIDE DEF c
<1>6. UNCHANGED <<batchVars, otherVars>> /\ lock' = lock /\ "authority" \notin Steps
    BY <1>1 DEF Begin, Steps
<1>7. QED
    BY <1>1, <1>4, <1>5, <1>6, CommandStep

LEMMA RequestCancelKeeps == ASSUME IInv, NEW p \in Procs, RequestCancel(p) PROVE IInv'
<1>1. CASE ~(Loadable /\ AcceptsCancel(p))
  <2>1. UNCHANGED <<batchVars, otherVars>> /\ lock' = lock /\ pc[p] \notin Steps
    BY <1>1 DEF RequestCancel, batchVars, Steps
  <2>2. QED
    BY <2>1, EndStep DEF RequestCancel
<1>2. CASE Loadable /\ AcceptsCancel(p)
  <2>1. /\ intent' = NewIntent(p) /\ version' = version + 1
        /\ sent' = [sent EXCEPT !["cancel_requested"] = @ + 1]
        /\ UNCHANGED <<state, rejection, basis, handoffs, runs, task, ledger, lock>>
        /\ Ends(p) /\ lock = NoProc
    BY <1>2 DEF RequestCancel, PublishCancellation, otherVars, RowFree
  <2>2. /\ state \in Phases /\ intent = NoFact /\ rejection = NoFact /\ version = cmd[p].version
        /\ cmd[p].scope = ExpectedScope(state) /\ cmd[p].id \in Keys /\ cmd[p] \in Commands
    BY <1>2, CommandType DEF AcceptsCancel, RequestCancel
  <2>3. intent' \in Intents /\ intent'.source = version /\ intent'.scope = ExpectedScope(state)
    BY <2>1, <2>2 DEF NewIntent, Intents, Commands
  <2>4. basis = NoFact /\ version \in Nat
    BY <2>2 DEF IInv, BatchValid, TypeOK, Loadable, RejectionBinds, CancelBasisBinds, Phases
  <2>5. TypeOK'
    <3>1. sent' \in [Events -> Nat]
      BY <2>1 DEF IInv, BatchValid, TypeOK, Events
    <3>2. QED
      BY <2>1, <2>3, <2>4, <3>1, Released DEF IInv, BatchValid, TypeOK
  <2>6. Loadable'
    BY <2>1, <2>2, <2>3, <2>4 DEF Loadable, PendingCancelBinds
  <2>7. CommandsOK'
    BY <2>1, Released DEF IInv, CommandsOK
  <2>8. EventsMatchFacts'
    <3>1. intent' # NoFact
      BY <2>3
    <3>2. QED
      BY <2>1, <2>2, <3>1 DEF IInv, BatchValid, TypeOK, EventsMatchFacts, Events
  <2>9. (ClosedHasBasis /\ ClosedMeansIdle)'
    BY <2>1, <2>2 DEF ClosedHasBasis, ClosedMeansIdle, Closed, Phases
  <2>10. QED
    BY <2>1, <2>5, <2>6, <2>7, <2>8, <2>9, Released DEF IInv, BatchValid
<1>3. QED
    BY <1>1, <1>2

\* A command that is granted its authority holds the row as it has just read it.
LEMMA AuthorityKeeps ==
    ASSUME IInv, NEW p \in Procs, RequireClosureAuthority(p) \/ RequireRejectionAuthority(p)
    PROVE  IInv'
<1>1. /\ pc[p] = "authority" /\ pc[p] \notin Steps /\ lock = NoProc
      /\ UNCHANGED <<batchVars, otherVars>>
    BY DEF RequireClosureAuthority, RequireRejectionAuthority, RowFree, Steps
<1>2. CASE Ends(p) /\ UNCHANGED lock
    BY <1>1, <1>2, EndStep
<1>3. CASE Locks(p)
  <2>1. /\ pc' = [pc EXCEPT ![p] = "scan"] /\ cmd' = [cmd EXCEPT ![p] = cmd[p]] /\ lock' = p
        /\ cmd' = cmd /\ "scan" \in Steps
    BY <1>3 DEF Locks, IInv, CommandsOK, Steps
  <2>2. pc'[p] = "scan"
    BY <2>1 DEF IInv, BatchValid, TypeOK
  <2>3. Locks(p) => ~(Ends(p) /\ UNCHANGED lock)
    BY <1>1 DEF Locks
  <2>4. \/ cmd[p].op = "close" /\ Loadable /\ MayClose(p)
        \/ cmd[p].op = "reject" /\ Loadable /\ MayReject(p)
    BY <1>3, <2>3 DEF RequireClosureAuthority, RequireRejectionAuthority
  <2>5. AuthorityStands(p)
    <3>1. CASE cmd[p].op = "close" /\ MayClose(p)
      BY <3>1 DEF MayClose, AuthorityStands
    <3>2. CASE cmd[p].op = "reject" /\ Loadable /\ MayReject(p)
      <4>1. basis = NoFact
        BY <3>2 DEF MayReject, Loadable, RejectionBinds, CancelBasisBinds
      <4>2. QED
        BY <3>2, <4>1 DEF MayReject, AuthorityStands
    <3>3. QED
      BY <2>4, <3>1, <3>2
  <2>6. AuthorityStands(p)'
    BY <1>1, <2>1, <2>5 DEF AuthorityStands, batchVars
  <2>7. EvidenceStands(p)'
    BY <2>2 DEF EvidenceStands
  <2>8. QED
    BY <1>1, <2>1, <2>6, <2>7, CommandType, CommandStep
<1>4. QED
    BY <1>2, <1>3 DEF RequireClosureAuthority, RequireRejectionAuthority

\* A statement of the proof reads, and knows more, or gives up.
LEMMA ProofStep ==
    ASSUME IInv, NEW p \in Procs, NEW from \in Steps, NEW to \in Steps, NEW holds, NEW c \in Commands,
           c.op = cmd[p].op, c.id = cmd[p].id, c.version = cmd[p].version, c.scope = cmd[p].scope,
           c.stage = cmd[p].stage,
           Proves(p, from, holds, to, c),
           holds => /\ to \in {"inventory", "position", "stops", "publish"} => runs = {}
                    /\ to \in {"position", "stops", "publish"} => c.seen = Started
                    /\ to = "publish" => Started = Stopped
    PROVE  IInv'
<1>1. pc[p] \in Steps /\ UNCHANGED <<batchVars, otherVars>>
    BY DEF Proves
<1>2. CASE EndTransaction(p)
    BY <1>1, <1>2, EndStep DEF EndTransaction, Unlock
<1>3. CASE holds /\ Goto(p, to) /\ cmd' = [cmd EXCEPT ![p] = c] /\ UNCHANGED lock
  <2>1. pc' = [pc EXCEPT ![p] = to] /\ pc'[p] = to /\ cmd'[p] = c /\ lock = p /\ lock' = p
    BY <1>1, <1>3, CommandType DEF Goto, IInv, BatchValid, TypeOK, CommandsOK
  <2>2. AuthorityStands(p)'
    BY <1>1, <2>1, CommandType DEF AuthorityStands, batchVars
  <2>3. EvidenceStands(p)'
    BY <1>1, <1>3, <2>1 DEF EvidenceStands, otherVars, Started, Stopped
  <2>4. QED
    BY <1>1, <1>3, <2>1, <2>2, <2>3, CommandType, CommandStep
<1>4. QED
    BY <1>2, <1>3 DEF Proves

LEMMA ScanKeeps == ASSUME IInv, NEW p \in Procs, ScanExecutionChildren(p) PROVE IInv'
<1> DEFINE to == IF runs = {} THEN "inventory" ELSE "handoff"
           c == [cmd[p] EXCEPT !.seen = runs]
<1>1. /\ pc[p] = "scan" /\ pc[p] \in Steps /\ pc' = [pc EXCEPT ![p] = to] /\ cmd' = [cmd EXCEPT ![p] = c]
      /\ UNCHANGED <<batchVars, otherVars, lock>> /\ to \in Steps
    BY DEF ScanExecutionChildren, Goto, Steps, IInv, CommandsOK
<1>2. lock = p /\ AuthorityStands(p) /\ cmd[p] \in Commands /\ runs \in SUBSET Runs
    BY <1>1, CommandType DEF IInv, BatchValid, TypeOK
<1>3. /\ c \in Commands /\ c.op = cmd[p].op /\ c.id = cmd[p].id /\ c.version = cmd[p].version
      /\ c.scope = cmd[p].scope /\ c.stage = cmd[p].stage
    BY <1>2 DEF Commands
<1>4. pc'[p] = to /\ cmd'[p] = c
    BY <1>1 DEF IInv, BatchValid, TypeOK, CommandsOK
<1> HIDE DEF c
<1>5. AuthorityStands(p)'
    BY <1>1, <1>2, <1>3, <1>4 DEF AuthorityStands, batchVars
<1>6. EvidenceStands(p)'
    BY <1>1, <1>4 DEF EvidenceStands, otherVars
<1>7. QED
    BY <1>1, <1>2, <1>3, <1>5, <1>6, CommandType, CommandStep

LEMMA InventoryKeeps == ASSUME IInv, NEW p \in Procs, ReadSealedTaskInventory(p) PROVE IInv'
<1> DEFINE c == [cmd[p] EXCEPT !.seen = Started, !.at = ledger]
<1>1. pc[p] = "inventory" /\ pc[p] \in Steps /\ "position" \in Steps
    BY DEF ReadSealedTaskInventory, Proves, Steps
<1>2. runs = {} /\ cmd[p] \in Commands /\ Started \in SUBSET Tasks /\ ledger \in Nat
    BY <1>1, CommandType DEF EvidenceStands, Started, IInv, CommandsOK
<1>3. /\ c \in Commands /\ c.op = cmd[p].op /\ c.id = cmd[p].id /\ c.version = cmd[p].version
      /\ c.scope = cmd[p].scope /\ c.stage = cmd[p].stage /\ c.seen = Started
    BY <1>2 DEF Commands
<1>4. Proves(p, "inventory", SealedAt(ledger), "position", c)
    BY DEF ReadSealedTaskInventory
<1> HIDE DEF c
<1>5. QED
    BY <1>1, <1>2, <1>3, <1>4, ProofStep

LEMMA PositionKeeps == ASSUME IInv, NEW p \in Procs, ReadCurrentTaskLedgerPosition(p) PROVE IInv'
<1>1. pc[p] = "position" /\ pc[p] \in Steps /\ "stops" \in Steps
    BY DEF ReadCurrentTaskLedgerPosition, Proves, Steps
<1>2. runs = {} /\ cmd[p].seen = Started /\ cmd[p] \in Commands
    BY <1>1, CommandType DEF EvidenceStands
<1>3. QED
    BY <1>1, <1>2, ProofStep DEF ReadCurrentTaskLedgerPosition

LEMMA StopsKeeps == ASSUME IInv, NEW p \in Procs, ReadTrustedTaskStops(p) PROVE IInv'
<1>1. pc[p] = "stops" /\ pc[p] \in Steps /\ "publish" \in Steps
    BY DEF ReadTrustedTaskStops, Proves, Steps
<1>2. runs = {} /\ cmd[p].seen = Started /\ cmd[p] \in Commands
    BY <1>1, CommandType DEF EvidenceStands
<1>3. StopsCover(p) => Started = Stopped
    BY <1>2 DEF StopsCover
<1>4. QED
    BY <1>1, <1>2, <1>3, ProofStep DEF ReadTrustedTaskStops

----------------------------------------------------------------------------
(* Commits *)

\* A repeated trigger finds its handoff; a new one adds one to the handoffs and one to
\* the events.
LEMMA HandoffKeeps == ASSUME IInv, NEW p \in Procs, PublishMaterializedHandoff(p) PROVE IInv'
<1>1. /\ pc[p] \in Steps /\ Ends(p) /\ lock' = NoProc
      /\ UNCHANGED <<state, version, intent, rejection, basis, runs, task, ledger>>
    BY DEF PublishMaterializedHandoff, EndTransaction, Unlock, otherVars, Steps
<1>2. Loadable' /\ ClosedHasBasis' /\ ClosedMeansIdle'
    BY <1>1
    DEF IInv, BatchValid, Loadable, PendingCancelBinds, BasisValid, CancelBasisBinds,
        RejectionBinds, ClosedHasBasis, ClosedMeansIdle, Started, Stopped
<1>3. IsFiniteSet(handoffs) /\ sent \in [Events -> Nat] /\ sent["handoff"] = Cardinality(handoffs)
    BY DEF IInv, BatchValid, TypeOK, CommandsOK, EventsMatchFacts
<1>4. /\ sent' \in [Events -> Nat] /\ \A e \in Events \ {"handoff"} : sent'[e] = sent[e]
      /\ IsFiniteSet(handoffs') /\ sent'["handoff"] = Cardinality(handoffs')
  <2>1. CASE HandoffStored(p)
    BY <1>3, <2>1 DEF PublishMaterializedHandoff
  <2>2. CASE ~HandoffStored(p)
    <3> DEFINE h == [trigger |-> Trigger(p), source |-> cmd[p].version, runs |-> cmd[p].seen]
    <3>1. /\ handoffs' = handoffs \cup {h} /\ sent' = [sent EXCEPT !["handoff"] = @ + 1]
      BY <2>2 DEF PublishMaterializedHandoff
    <3>2. h \notin handoffs
      BY <2>2 DEF HandoffStored
    <3> HIDE DEF h
    <3>3. IsFiniteSet(handoffs') /\ Cardinality(handoffs') = Cardinality(handoffs) + 1
      BY <1>3, <3>1, <3>2, FS_AddElement
    <3>4. QED
      BY <1>3, <3>1, <3>3 DEF Events
  <2>3. QED
    BY <2>1, <2>2
<1>5. TypeOK'
    BY <1>1, <1>4, Released DEF IInv, BatchValid, TypeOK
<1>6. CommandsOK'
    BY <1>1, <1>4, Released DEF IInv, CommandsOK
<1>7. EventsMatchFacts'
    BY <1>1, <1>4 DEF IInv, EventsMatchFacts, Events
<1>8. QED
    BY <1>1, <1>2, <1>5, <1>6, <1>7, Released DEF IInv, BatchValid

\* The transaction that closes the Batch has proved it idle and holds its row still.
LEMMA ClosureKeeps == ASSUME IInv, NEW p \in Procs, PublishPreexecutionClosure(p) PROVE IInv'
<1> DEFINE b == Basis(p, "prestart_cancel")
<1>1. /\ pc[p] = "publish" /\ pc[p] \in Steps /\ Ends(p) /\ lock' = NoProc
      /\ UNCHANGED <<intent, rejection, handoffs, runs, task, ledger, otherVars>>
    BY DEF PublishPreexecutionClosure, EndTransaction, Unlock, otherVars, Steps
<1>2. CASE ~(CancelScopeBinds(p) /\ BasisValid(b))
  <2>1. UNCHANGED <<batchVars, otherVars>>
    BY <1>1, <1>2 DEF PublishPreexecutionClosure, batchVars
  <2>2. QED
    BY <1>1, <2>1, EndStep
<1>3. CASE CancelScopeBinds(p) /\ BasisValid(b)
  <2>1. /\ state' = "cancelled" /\ version' = version + 1 /\ basis' = b
        /\ sent' = [sent EXCEPT !["cancelled"] = @ + 1]
    BY <1>3
    DEF PublishPreexecutionClosure, FinalizeUnmaterializedCancel, InsertPreexecutionBasis,
        InsertTerminalOutbox
  <2>2. /\ cmd[p].version = version /\ basis = NoFact /\ intent # NoFact
        /\ intent.scope = cmd[p].scope /\ cmd[p] \in Commands
        /\ runs = {} /\ Started = Stopped
    BY <1>1, CommandType
    DEF AuthorityStands, EvidenceStands, PublishPreexecutionClosure
  <2>3. /\ rejection = NoFact /\ state \in Phases /\ intent.source + 1 = version
        /\ version \in Nat
    BY <2>2 DEF IInv, BatchValid, TypeOK, Loadable, PendingCancelBinds
  <2>4. /\ b \in Bases /\ b.kind = "prestart_cancel" /\ b.source = version /\ b.scope = intent.scope
    BY <2>2, <2>3 DEF Basis, Snapshot, Bases, Commands
  <2> HIDE DEF b
  <2>5. b # NoFact
    BY <2>4
  <2>6. TypeOK'
    <3>1. sent' \in [Events -> Nat]
      BY <2>1 DEF IInv, BatchValid, TypeOK, Events
    <3>2. state' \in States /\ version' \in Nat
      BY <2>1, <2>3 DEF States, Closed
    <3>3. QED
      BY <1>1, <2>1, <2>4, <3>1, <3>2, Released DEF IInv, BatchValid, TypeOK
  <2>7. Loadable'
    BY <1>1, <1>3, <2>1, <2>2, <2>3, <2>4, <2>5 DEF Loadable, CancelBasisBinds, BasisValid
  <2>8. CommandsOK'
    BY <1>1, Released DEF IInv, CommandsOK
  <2>9. EventsMatchFacts'
    BY <1>1, <2>1, <2>2, <2>5 DEF IInv, BatchValid, TypeOK, EventsMatchFacts, Events
  <2>10. (ClosedHasBasis /\ ClosedMeansIdle)'
    BY <1>1, <2>1, <2>2, <2>5 DEF ClosedHasBasis, ClosedMeansIdle, Started, Stopped
  <2>11. QED
    BY <1>1, <2>6, <2>7, <2>8, <2>9, <2>10, Released DEF IInv, BatchValid
<1>4. QED
    BY <1>2, <1>3

LEMMA RejectionKeeps == ASSUME IInv, NEW p \in Procs, PublishPreexecutionRejection(p) PROVE IInv'
<1> DEFINE b == Basis(p, "rejection")
           f == Fact(p)
<1>1. /\ pc[p] = "publish" /\ pc[p] \in Steps /\ Ends(p) /\ lock' = NoProc
      /\ UNCHANGED <<intent, handoffs, runs, task, ledger, otherVars>>
    BY DEF PublishPreexecutionRejection, EndTransaction, Unlock, otherVars, Steps
<1>2. CASE ~BasisValid(b)
  <2>1. UNCHANGED <<batchVars, otherVars>>
    BY <1>1, <1>2 DEF PublishPreexecutionRejection, batchVars
  <2>2. QED
    BY <1>1, <2>1, EndStep
<1>3. CASE BasisValid(b)
  <2>1. /\ state' = "rejected" /\ version' = version + 1 /\ basis' = b /\ rejection' = f
        /\ sent' = [sent EXCEPT !["rejected"] = @ + 1]
    BY <1>3
    DEF PublishPreexecutionRejection, RejectPreexecution, InsertRejection,
        InsertPreexecutionBasis, InsertTerminalOutbox
  <2>2. /\ cmd[p].version = version /\ basis = NoFact /\ intent = NoFact
        /\ state \in DOMAIN StageByPhase /\ cmd[p].stage = StageByPhase[state]
        /\ cmd[p] \in Commands /\ cmd[p].id \in Rejections
        /\ runs = {} /\ Started = Stopped
    BY <1>1, CommandType
    DEF AuthorityStands, EvidenceStands, PublishPreexecutionRejection
  <2>3. state \in Phases /\ version \in Nat /\ StageByPhase[state] \in Stages
    BY <2>2 DEF IInv, BatchValid, TypeOK, StageByPhase, Phases, Stages
  <2>4. /\ b \in Bases /\ b.kind = "rejection" /\ b.source = version /\ b.phase = state
    BY <2>2, <2>3 DEF Basis, Snapshot, Bases, Commands
  <2>5. f \in Facts /\ f.source = version /\ f.stage = StageByPhase[state]
    BY <2>2, <2>3 DEF Fact, Facts, Commands
  <2> HIDE DEF b, f
  <2>6. b # NoFact /\ f # NoFact
    BY <2>4, <2>5
  <2>7. TypeOK'
    <3>1. sent' \in [Events -> Nat]
      BY <2>1 DEF IInv, BatchValid, TypeOK, Events
    <3>2. state' \in States /\ version' \in Nat
      BY <2>1, <2>3 DEF States, Closed
    <3>3. QED
      BY <1>1, <2>1, <2>4, <2>5, <3>1, <3>2, Released DEF IInv, BatchValid, TypeOK
  <2>8. Loadable'
    BY <1>1, <1>3, <2>1, <2>2, <2>4, <2>5, <2>6 DEF Loadable, RejectionBinds, BasisValid
  <2>9. CommandsOK'
    BY <1>1, Released DEF IInv, CommandsOK
  <2>10. EventsMatchFacts'
    BY <1>1, <2>1, <2>2, <2>6 DEF IInv, BatchValid, TypeOK, EventsMatchFacts, Events
  <2>11. (ClosedHasBasis /\ ClosedMeansIdle)'
    BY <1>1, <2>1, <2>2, <2>6 DEF ClosedHasBasis, ClosedMeansIdle, Started, Stopped
  <2>12. QED
    BY <1>1, <2>7, <2>8, <2>9, <2>10, <2>11, Released DEF IInv, BatchValid
<1>4. QED
    BY <1>2, <1>3

LEMMA RollbackKeeps == ASSUME IInv, NEW p \in Procs, Rollback(p) PROVE IInv'
BY EndStep DEF Rollback, EndTransaction, Unlock

----------------------------------------------------------------------------
(* Theorems *)

\* No step of a command or of a writer outside breaks the invariant.
LEMMA Inductive == IInv /\ [Next]_vars => IInv'
<1> SUFFICES ASSUME IInv, [Next]_vars PROVE IInv'
    OBVIOUS
<1>1. CASE UNCHANGED vars
  <2>1. UNCHANGED <<batchVars, otherVars>> /\ UNCHANGED <<lock, procVars>> /\ UNCHANGED <<pc, cmd>>
        /\ UNCHANGED <<runs, task, ledger>>
    BY <1>1 DEF vars, otherVars, procVars
  <2>2. TypeOK' /\ CommandsOK' /\ EventsMatchFacts'
    BY <2>1, BatchFrame, OutsideFrame DEF IInv, BatchValid, TypeOK, CommandsOK
  <2>3. LockedFactsStand' /\ ClosedMeansIdle'
    BY <2>1, BatchFrame
    DEF IInv, LockedFactsStand, AuthorityStands, EvidenceStands, ClosedMeansIdle, Started, Stopped
  <2>4. QED
    BY <2>1, <2>2, <2>3, BatchFrame DEF IInv, BatchValid
<1>2. ASSUME NEW p \in Procs, Execute(p)
      PROVE  IInv'
    BY <1>2, RequestCancelKeeps, AuthorityKeeps, ScanKeeps, InventoryKeeps, PositionKeeps,
       StopsKeeps, HandoffKeeps, ClosureKeeps, RejectionKeeps DEF Execute
<1>3. QED
    BY <1>1, <1>2, TransitionKeeps, LedgerKeeps, MaterializeKeeps, StartTaskKeeps, StopTaskKeeps,
       BeginKeeps, RollbackKeeps DEF Next

LEMMA Invariance == Spec => []IInv
BY InitIInv, Inductive, PTL DEF Spec

\* A Batch closed before execution has no Run and no running task, from the commit that
\* closes it on, whatever was started or stopped between the statements of its proof.
THEOREM ClosedBatchesAreIdle == Spec => []ClosedMeansIdle
<1>1. IInv => ClosedMeansIdle
    BY DEF IInv
<1>2. QED
    BY <1>1, Invariance, PTL

\* Every Batch that is stored passes the checks of Batch.__post_init__ when it is loaded.
THEOREM StoredBatchesLoad == Spec => []BatchValid
<1>1. IInv => BatchValid
    BY DEF IInv
<1>2. QED
    BY <1>1, Invariance, PTL

\* The outbox holds one event for each closure and each handoff and none besides.
THEOREM EventsAgree == Spec => []EventsMatchFacts
<1>1. IInv => EventsMatchFacts
    BY DEF IInv
<1>2. QED
    BY <1>1, Invariance, PTL

\* The first cancellation intent is never replaced, and the Batch it is for keeps its
\* phase until it is cancelled.
THEOREM FirstCancelStands == Spec => CancelStands
<1>1. ASSUME IInv, [Next]_vars, intent # NoFact
      PROVE  intent' = intent /\ state' \in {state, "cancelled"}
  <2>1. ASSUME NEW p \in Procs, RequestCancel(p)
        PROVE  intent' = intent /\ state' = state
    BY <1>1, <2>1 DEF RequestCancel, AcceptsCancel
  <2>2. ASSUME NEW p \in Procs, PublishPreexecutionRejection(p)
        PROVE  FALSE
    BY <1>1, <2>2, CommandType DEF PublishPreexecutionRejection, AuthorityStands, Steps
  <2>3. ASSUME NEW p \in Procs, PublishPreexecutionClosure(p)
        PROVE  intent' = intent /\ state' \in {state, "cancelled"}
    BY <2>3 DEF PublishPreexecutionClosure, FinalizeUnmaterializedCancel
  <2>4. ASSUME NEW p \in Procs, Execute(p)
        PROVE  intent' = intent /\ state' \in {state, "cancelled"}
    BY <2>1, <2>2, <2>3, <2>4
    DEF Execute, RequireClosureAuthority, RequireRejectionAuthority, ScanExecutionChildren,
        ReadSealedTaskInventory, ReadCurrentTaskLedgerPosition, ReadTrustedTaskStops, Proves,
        PublishMaterializedHandoff, batchVars
  <2>5. ASSUME NEW p \in Procs, BeginCancel(p) \/ BeginClose(p) \/ BeginReject(p) \/ Rollback(p)
        PROVE  intent' = intent /\ state' = state
    BY <2>5 DEF BeginCancel, BeginClose, BeginReject, Begin, Rollback, batchVars
  <2>6. QED
    BY <1>1, <2>4, <2>5
    DEF Next, vars, batchVars, Transition, MayAdvance, OpenLedger, MoveLedger, SealInventory, SealPlan,
        MaterializeRun, StartTask, StopTask
<1>2. IInv /\ [Next]_vars => [intent # NoFact => intent' = intent /\ state' \in {state, "cancelled"}]_vars
    BY <1>1
<1>3. QED
    BY <1>2, Invariance, PTL DEF Spec, CancelStands
=============================================================================
