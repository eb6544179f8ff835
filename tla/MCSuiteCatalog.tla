--------------------------- MODULE MCSuiteCatalog ---------------------------
(* SuiteCatalog on a small instance.                                         *)
EXTENDS SuiteCatalog

\* Nothing distinguishes the ids from one another.
Symmetry ==
    UNION {Permutations(S) : S \in {Suites, Revisions, Projects, Keys, Digests, Batches, Callers}}

=============================================================================
