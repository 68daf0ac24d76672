SPECIFICATION Spec
CONSTANTS
    k1 = k1
    k2 = k2
    home = home
    away = away
    Initial = Initial
    Clients = {k1, k2}
    Slots = {home, away}
    MainOf <- OwnMain
    SlotsOf <- OwnKnown
    Carries <- SharedKeys
    Signing = {k1}
    NeedsSignature = TRUE
    MaxAttempts = 3
    MaxFaults = 0
    Drops = {}
INVARIANT FailuresHaveCauses
