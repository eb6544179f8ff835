CONSTANTS
    Procs = {p1, p2}
    Keys = {k1, k2}
    Rejections = {x1}
    Runs = {r1}
    Tasks = {t1, t2}
    MaxMoves = 1
    MaxFaults = 1
    NoProc = NoProc
    NoFact = NoFact
SPECIFICATION Spec
SYMMETRY Symmetry
INVARIANTS
    ClosedMeansIdle
    BatchValid
    EventsMatchFacts
PROPERTIES
    CancelStands
CHECK_DEADLOCK FALSE
