----------------------------- MODULE RunContract -----------------------------
(***************************************************************************)
(* What the runs table promises to a client that polls it (docs/FEATURES:  *)
(* queued -> running -> completed / failed / timeout / cancelled), one run *)
(* at a time and without the process behind it.  Three steps are in the    *)
(* contract only because the code takes them: a cancelled run can still be *)
(* relabelled, and a deleted run can come back, by the last save of an     *)
(* execution that was under way; and an outcome whose save was committed   *)
(* but reported as an error becomes failed.                                *)
(***************************************************************************)
CONSTANT Runs
VARIABLE status

Outcome == {"completed", "failed", "timeout"}

CInit == status = [r \in Runs |-> "unborn"]

Becomes(r, from, to) ==
    /\ status[r] \in from
    /\ \E s \in to : status' = [status EXCEPT ![r] = s]

Submit(r) == Becomes(r, {"unborn"}, {"queued"})
Begin(r)  == Becomes(r, {"queued"}, {"running"})
End(r)    == Becomes(r, {"running"}, Outcome)
Cancel(r) == Becomes(r, {"queued", "running"}, {"cancelled"})
Delete(r) == Becomes(r, {"queued", "running", "cancelled"} \cup Outcome, {"deleted"})
Relabel(r) == Becomes(r, {"cancelled"}, Outcome)
Retract(r) == Becomes(r, Outcome, {"failed"})
Reinsert(r) == Becomes(r, {"deleted"}, Outcome \cup {"cancelled"})

\* A restart fails any number of running rows at once.
Restart ==
    \E I \in SUBSET {r \in Runs : status[r] = "running"} :
        status' = [r \in Runs |-> IF r \in I THEN "failed" ELSE status[r]]

CNext ==
    \/ \E r \in Runs : \/ Submit(r) \/ Begin(r) \/ End(r) \/ Cancel(r)
                       \/ Delete(r) \/ Relabel(r) \/ Retract(r) \/ Reinsert(r)
    \/ Restart

CSpec == CInit /\ [][CNext]_status
=============================================================================
