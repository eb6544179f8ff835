CONSTANTS
    r1 = r1  r2 = r2  i1 = i1  i2 = i2  i3 = i3
    Runs = {r1}
    Items = {i1}
    ItemsOf <- OneShard
    Callers = {c1}
    MaxAttempts <- Once
    None = None
    MaxTestFailed = 1
SPECIFICATION LiveSpec
PROPERTIES
    InfraVerdictCloses
CHECK_DEADLOCK FALSE
