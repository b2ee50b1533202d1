SPECIFICATION FairSpec
CONSTANTS
    Session = {s1, s2}
    UserId = {u1, u2}
    Email = {e1, e2}
    None = None
    AccessTtl = 1
    Leeway = 0
    MaxClock = 1
INVARIANTS
    TypeOK
    EmailsUnique
    RegistrationsStand
PROPERTIES
    AccessDiesOut
    RequestsEnd
