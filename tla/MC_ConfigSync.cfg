SPECIFICATION FairSpec
CONSTANTS
    k1 = k1
    k2 = k2
    home = home
    away = away
    Initial = Initial
    Clients = {k1, k2}
    Slots = {home, away}
    MainOf <- OwnMain
    SlotsOf <- OwnKnown
    Carries <- MixedKeys
    Signing = {}
    NeedsSignature = FALSE
    MaxAttempts = 3
    MaxFaults = 1
    Drops = {home}
INVARIANTS
    TypeOK
    UpdateInMainSlot
    AppliedOnce
    FailuresHaveCauses
PROPERTIES
    SlotsOnlyGrow
    SyncEnds
