SPECIFICATION Spec
CONSTANTS
    Token = {t1, t2}
    Hash = {h1, h2}
    Relay = {r1, r2}
    Uploader = {u1}
    Downloader = {d1}
    None = None
    MaxTtl = 1
    OverlappingReserves = FALSE
SYMMETRY Symmetry
INVARIANTS
    TypeOK
    OneLivePrimary
    LiveRowsAgree
PROPERTIES
    ReservationHolds
    ResolvedPrimaryIsCurrent
