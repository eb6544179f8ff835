------------------------------ MODULE MCOutbox ------------------------------
(* Outbox on a small instance.  Rows and publishers are interchangeable, but *)
(* symmetry is not used: the run checks liveness.                            *)
EXTENDS Outbox

=============================================================================
