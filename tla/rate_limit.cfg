SPECIFICATION Spec
CONSTANTS
    k1 = k1
    k2 = k2
    Key = {k1, k2}
    Quota <- MCQuota
    Window <- MCWindow
    NoBucket = NoBucket
    NoDecision = NoDecision
    MaxUptime = 4
    MaxBacks = 1
INVARIANTS
    TypeOK
    RateBound
    QuotaServed
    RemainingIsHonest
PROPERTIES
    ImplementsTokenBucket
