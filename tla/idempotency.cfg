SPECIFICATION FairSpec
CONSTANTS
    Caller = {c1, c2, c3}
    Key = {k1, k2}
    Hash = {h1, h2}
    NoKey = NoKey
    InFlight = InFlight
    Ttl = 2
    MaxRun = 3
INVARIANTS
    TypeOK
    OneRunner
PROPERTIES
    DoneIsFinal
    NoRevival
    KeysLapse
