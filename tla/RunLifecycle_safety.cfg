CONSTANTS
    Runs = {r1, r2}
    Users = {u1, sys}
    Exempt = {sys}
    NodeIds = {n1}
    MaxConcurrency = 1
    InflightLimit = 1
    MaxStops = 1
    MaxFailures = 1
    NoRun = NoRun
SPECIFICATION Spec
SYMMETRY Symmetry
INVARIANTS
    TypeOK
    SlotAccounting
    ExecutedAtMostOnce
    InflightCap
    RunningIsOwned
    CancelledCarriesNoResults
PROPERTIES
    NoStartAfterCancel
    OutcomeIsSticky
    RefinesContract
