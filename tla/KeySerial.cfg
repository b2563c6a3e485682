SPECIFICATION FairSpec
CONSTANTS
    Loop = Loop
    Putter = {p1}
    Request = {q1, q2}
    ApiKey = {k1, k2, k3}
    AuthKey = {b1, b2, b3}
    None = None
    InitialUses = 2
    OverlappingBeats = FALSE
    MaxCrashes = 1
    MaxLost = 1
    MaxCuts = 1
INVARIANTS
    TypeOK
    UsableKeyHasActiveAuth
PROPERTIES
    PairIsRestored
