CONSTANTS
    Runs = {r1, r2}
    Users = {u1}
    Exempt = {u1}
    NodeIds = {n1}
    MaxConcurrency = 1
    InflightLimit = 0
    MaxStops = 1
    MaxFailures = 0
    NoRun = NoRun
SPECIFICATION FairSpec
PROPERTIES
    EveryRunSettles
