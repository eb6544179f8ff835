------------------------- MODULE MCAssignmentStore -------------------------
(* AssignmentStore on a small instance.                                     *)
EXTENDS AssignmentStore, TLC

\* Workers are interchangeable, and so are sessions.
Symmetry == Permutations(Workers) \cup Permutations(Sessions)

=============================================================================
