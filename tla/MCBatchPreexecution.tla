------------------------ MODULE MCBatchPreexecution ------------------------
(* BatchPreexecution on a small instance.                                    *)
EXTENDS BatchPreexecution, TLC

\* Callers, keys and tasks are interchangeable.
Symmetry == Permutations(Procs) \cup Permutations(Keys) \cup Permutations(Tasks)

=============================================================================
