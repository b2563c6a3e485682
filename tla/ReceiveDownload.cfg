SPECIFICATION FairSpec
CONSTANTS
    s1 = s1
    s2 = s2
    large = large
    short = short
    brief = brief
    plain = plain
    Session = {s1, s2}
    Credential = {large, short, brief, plain}
    Blocks <- MCBlocks
    Wire <- MCWire
    Large = {large}
    RelayMaxBody = 3
    Budget = 6
    MinPrefetch = 2
    MaxPrefetch = 3
    Targets <- MCTargets
    GetMaxAttempts = 2
    ResolveMaxAttempts = 2
    None = None
    Asks <- MCAsks
CHECK_DEADLOCK FALSE
INVARIANTS
    TypeOK
    NeededIsNotCancelled
    WindowWithinBudget
    SuccessLeavesNothing
PROPERTIES
    FailureHasCause
    
