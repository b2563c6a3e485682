SPECIFICATION Spec
CONSTANTS
    Token = {t1, t2}
    Data = {d1, d2}
    PutHandler = {p1, p2}
    GetHandler = {g1}
    None = None
    Torn = Torn
    MaxBlocks = 2
    OverlappingPuts = FALSE
    MaxCrashes = 1
SYMMETRY Symmetry
INVARIANTS
    TypeOK
    IndexedFileIsIntact
    NoTornRead
PROPERTIES
    AckedSurvivesOtherPuts
    ImplementsBlobStore
