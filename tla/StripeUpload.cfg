SPECIFICATION UploadSpec
CONSTANTS
    Total = 4
    Jobs = 2
    MaxConcurrency = 3
    ReplicaConcurrency = 2
    Ramp = TRUE
    PutMaxAttempts = 2
    PutTransientMaxAttempts = 3
    ReplicaPutMaxAttempts = 1
    DefaultTransientMaxAttempts = 2
    LargeBlocks = 4
    SmallBlocks = 5
    PreferWorker = "unless_fails"
    WorkerAvailable = TRUE
    CreateAttempts = 2
    HashConcurrency = 2
CHECK_DEADLOCK FALSE
INVARIANTS
    TypeOK
    StripeBeforeReplica
    EachBlockHasOneSender
    ReplicasAreSettled
    PrepareTypeOK
    WorkersAreDisposed
    ReadyIsHashed
    HashIsCurrentUnlessRaced
    PoolIsBusy
PROPERTIES
    PrepareEnds
    WorkersDrain
