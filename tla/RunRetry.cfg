CONSTANTS
    Callers = {c1, c2}
    MaxRetries <- Signed
    MaxSeconds = 2
    Until = 2
    Ttl = 1
    Sla = 0
    MaxTime = 2
    MaxAttempts = 2
    MaxAdjudications = 2
    MaxVersions = 2
    MaxReleases = 4
    None = None
SPECIFICATION Spec
SYMMETRY Symmetry
INVARIANTS
    BudgetRespected
    RetriesAreCovered
PROPERTIES
    EscalationStands
CHECK_DEADLOCK FALSE
