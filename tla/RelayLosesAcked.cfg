SPECIFICATION Spec
CONSTANTS
    Token = {t1, t2}
    Data = {d1}
    PutHandler = {p1, p2}
    GetHandler = {g1}
    None = None
    Torn = Torn
    MaxBlocks = 1
    OverlappingPuts = TRUE
    MaxCrashes = 1
SYMMETRY Symmetry
PROPERTIES
    AckedSurvivesOtherPuts
