SPECIFICATION Spec
CONSTANTS
    Tokens = {t1, t2}
    Certificates = {k1}
    System = {t2}
    ClusterTokens = {t2}
    Kinds = {"view", "auth"}
    CanSign = FALSE
    MaxElements = 3
    MaxEdits = 2
    MaxRounds = 2
INVARIANTS
    TypeOK
    
PROPERTIES
    TokensStay
    UntouchedSubmit
CHECK_DEADLOCK FALSE
