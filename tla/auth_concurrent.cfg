SPECIFICATION Spec
CONSTANTS
    Session = {s1, s2, s3}
    User = {u1}
    TokenId = {t1, t2, t3}
    FamilyId = {f1, f2}
    None = None
    NoRow = NoRow
    RefreshTtl = 0
    Leeway = 2
    MaxClock = 1
SYMMETRY Symmetry
INVARIANTS
    FamiliesAreChains
    SingleUse
    IInv
    RotationFitsIndex
    NoDeadlock
PROPERTIES
    RefinesFamilies
    HistoryIsFinal
    SpentFamilyStaysSpent
    DisabledUsersAreCutOff
    ReuseSparesOnlyARace
