SPECIFICATION Spec
CONSTANTS
    Session = {s1, s2}
    User = {u1}
    TokenId = {t1, t2, t3}
    FamilyId = {f1}
    None = None
    NoRow = NoRow
    RefreshTtl = 1
    Leeway = 0
    MaxClock = 0
INVARIANT
    ReuseRevokesFamily
