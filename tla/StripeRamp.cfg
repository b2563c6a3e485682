SPECIFICATION Spec
CONSTANTS
    Total = 3
    Jobs = 0
    MaxConcurrency = 2
    ReplicaConcurrency = 1
    Ramp = TRUE
    PutMaxAttempts = 1
    PutTransientMaxAttempts = 1
    ReplicaPutMaxAttempts = 1
    DefaultTransientMaxAttempts = 1
CHECK_DEADLOCK FALSE
INVARIANTS
    RampHolds
