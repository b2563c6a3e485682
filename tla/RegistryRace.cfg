SPECIFICATION Spec
CONSTANTS
    Token = {t1}
    Hash = {h1, h2}
    Relay = {r1, r2}
    Uploader = {u1, u2}
    Downloader = {}
    None = None
    MaxTtl = 1
    OverlappingReserves = TRUE
SYMMETRY Symmetry
PROPERTIES
    ReservationHolds
