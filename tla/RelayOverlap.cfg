SPECIFICATION FairSpec
CONSTANTS
    Token = {t1, t2}
    Data = {d1}
    PutHandler = {p1, p2}
    GetHandler = {}
    None = None
    Torn = Torn
    MaxBlocks = 1
    OverlappingPuts = TRUE
    MaxCrashes = 1
INVARIANTS
    OvershootBounded
PROPERTIES
    SplitIsReclaimed
