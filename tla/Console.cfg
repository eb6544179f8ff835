CONSTANTS
    Users = {ada, eve}
    Owner = eve
    Replicas = {r1, r2}
    Tasks = {t1, t2}
    MaxTime = 3
    MaxRequests = 3
    MaxRestarts = 1
    None = None
SPECIFICATION Spec
SYMMETRY Symmetry
INVARIANTS
    AdminRemains
    OneRunPerTick
PROPERTIES
    LockKeepsArtifacts
CHECK_DEADLOCK FALSE
