----------------------------- MODULE MCConsole -----------------------------
(* Console on a small instance: tasks and replicas are interchangeable.     *)
EXTENDS Console, TLC

Symmetry == Permutations(Tasks) \cup Permutations(Replicas)

=============================================================================
