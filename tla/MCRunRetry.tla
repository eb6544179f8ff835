----------------------------- MODULE MCRunRetry -----------------------------
(* RunRetry on a small instance.                                            *)
EXTENDS RunRetry, TLC

\* One retry of failed tests, two after failures of the platform.
Signed == [f \in Families |-> IF f = "suite" THEN 1 ELSE 2]

Symmetry == Permutations(Callers)

=============================================================================
