---------------------------- MODULE SuiteContract ----------------------------
(***************************************************************************)
(* What the Suite and Batch gateways promise (application/ports/suite.py,  *)
(* application/ports/batch.py): a Suite is registered with one revision,   *)
(* gains revisions, and is retired; a Batch is opened once per key, for a  *)
(* revision of a Suite that is active at that moment.  Nothing that is     *)
(* stored is ever rewritten.                                               *)
(***************************************************************************)
EXTENDS Naturals, Sequences, SequencesExt

CONSTANTS Suites, Revisions, Projects, Keys, Digests, Batches, None

VARIABLES
    suites,  \* the Suites with their revisions
    batches  \* the Batches by idempotency key

vars == <<suites, batches>>

Registered == {s \in Suites : suites[s] # None}
Used       == UNION {ToSet(suites[s].revs) : s \in Registered}
Created    == {k \in Keys : batches[k] # None}

Init ==
    /\ suites = [s \in Suites |-> None]
    /\ batches = [k \in Keys |-> None]

Register(s, j, v) ==
    /\ suites[s] = None /\ v \notin Used
    /\ suites' = [suites EXCEPT ![s] =
                     [project |-> j, status |-> "active", version |-> 0, revs |-> <<v>>]]
    /\ UNCHANGED batches

PublishRevision(s, v) ==
    /\ suites[s] # None /\ suites[s].status = "active" /\ v \notin Used
    /\ suites' = [suites EXCEPT ![s].revs = Append(@, v), ![s].version = @ + 1]
    /\ UNCHANGED batches

Retire(s) ==
    /\ suites[s] # None /\ suites[s].status = "active"
    /\ suites' = [suites EXCEPT ![s].status = "retired", ![s].version = @ + 1]
    /\ UNCHANGED batches

Create(k, d, b, s) ==
    /\ batches[k] = None
    /\ \A l \in Created : batches[l].id # b
    /\ suites[s] # None /\ suites[s].status = "active"
    /\ \E v \in ToSet(suites[s].revs) :
          batches' = [batches EXCEPT ![k] =
                         [id |-> b, digest |-> d, rev |-> v, project |-> suites[s].project]]
    /\ UNCHANGED suites

Next ==
    \E s \in Suites :
        \/ Retire(s)
        \/ \E v \in Revisions : PublishRevision(s, v) \/ \E j \in Projects : Register(s, j, v)
        \/ \E k \in Keys, d \in Digests, b \in Batches : Create(k, d, b, s)

Spec == Init /\ [][Next]_vars
=============================================================================
