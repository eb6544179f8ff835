CONSTANTS
    Runs = {r1}
    Users = {u1}
    Exempt = {u1}
    NodeIds = {n1}
    MaxConcurrency = 1
    InflightLimit = 0
    MaxStops = 0
    MaxFailures = 0
    NoRun = NoRun
SPECIFICATION Spec
PROPERTY
    TerminalIsFinal
