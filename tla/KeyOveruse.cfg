SPECIFICATION Spec
CONSTANTS
    Loop = Loop
    Putter = {p1}
    Request = {q1, q2}
    ApiKey = {k1, k2, k3}
    AuthKey = {b1, b2, b3}
    None = None
    InitialUses = 2
    OverlappingBeats = TRUE
    MaxCrashes = 0
    MaxLost = 1
    MaxCuts = 0
PROPERTIES
    KeyUsesAreLimited
