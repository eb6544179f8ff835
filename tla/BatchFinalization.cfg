CONSTANTS
    r1 = r1  r2 = r2  i1 = i1  i2 = i2  i3 = i3
    Runs = {r1, r2}
    Items = {i1, i2, i3}
    ItemsOf <- TwoShards
    Callers = {c1, c2}
    MaxAttempts <- RetryOnce
    None = None
    MaxTestFailed = 1
SPECIFICATION Spec
SYMMETRY Symmetry
INVARIANTS
    ClosedRestsOnLastAttempt
    UnknownStaysVisible
    BatchEndsOnItsRuns
    SuccessMeansExecuted
PROPERTIES
    ClosedForGood
CHECK_DEADLOCK FALSE
