CONSTANTS
    Workers = {w1, w2}
    Sessions = {s1, s2}
    MaxTime = 3
    MaxAssignments = 3
    None = None
SPECIFICATION StoreSpec
SYMMETRY Symmetry
PROPERTIES
    Refines
CHECK_DEADLOCK FALSE
