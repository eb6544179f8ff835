CONSTANTS
    Workers = {w1}
    MaxTime = 2
    MaxAssignments = 3
    MaxAttempts = 2
    MaxAdjudications = 2
    MaxEvents = 1
SPECIFICATION Spec
SYMMETRY Symmetry
INVARIANTS
    AggregateValid
    RetriesAreAuthorized
    OneLiveAttempt
PROPERTIES
    NoExecutionAfterCancel
    SupersededIsFrozen
    FirstFactStands
CHECK_DEADLOCK FALSE
