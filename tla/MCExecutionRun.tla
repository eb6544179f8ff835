--------------------------- MODULE MCExecutionRun ---------------------------
(* ExecutionRun on a small instance.                                        *)
EXTENDS ExecutionRun, TLC

\* Worker generations are interchangeable.
Symmetry == Permutations(Workers)

=============================================================================
