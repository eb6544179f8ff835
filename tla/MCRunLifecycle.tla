--------------------------- MODULE MCRunLifecycle ---------------------------
(* RunLifecycle on small instances: the properties the runs check.          *)
EXTENDS RunLifecycle, TLC

\* ids are interchangeable: created_at orders the queue.
Symmetry == Permutations(Runs)

=============================================================================
