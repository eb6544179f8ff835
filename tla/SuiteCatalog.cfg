CONSTANTS
    Suites = {s1, s2}
    Revisions = {v1, v2}
    Projects = {j1, j2}
    Keys = {k1, k2}
    Digests = {d1, d2}
    Batches = {b1, b2}
    Callers = {c1, c2}
    None = None
SPECIFICATION Spec
SYMMETRY Symmetry
INVARIANTS
    AnswersStand
PROPERTIES
    RefinesCatalog
