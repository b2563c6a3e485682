SPECIFICATION Spec
CONSTANTS
    None = None
    c1 = c1
    c2 = c2
    Credential = {c1, c2}
    NumTokens <- MCNumTokens
    Hashes <- MCHashes
    small = small
    large = large
    File = {small, large}
    Streamed = {large}
    r1 = r1
    r2 = r2
    r3 = r3
    Registry = {r1, r2, r3}
    DefaultRegistry = r1
    Shareable = {r1, r2}
    MaxAttempts = 2
    Steps = 2
    Minute = 4
    HoursPerDay = 2
    Presets <- MCPresets
    DurationEntry <- MCDurationEntry
    DefaultTtl = 16
    Session = {"send", "receive", "ttl", "style"}
INVARIANTS
    TypeOK
    SettingsShowWhatSendUses
    StyleGenerates
    WhatIsShownWasUploaded
    ReelRests
    ShownFileIsWanted
PROPERTIES
    ProgressNeverGoesBack
    PanelsRecover
CHECK_DEADLOCK FALSE
