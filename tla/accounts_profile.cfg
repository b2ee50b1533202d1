SPECIFICATION Spec
CONSTANTS
    Session = {s1}
    UserId = {u1}
    Email = {e1}
    None = None
    AccessTtl = 1
    Leeway = 0
    MaxClock = 0
INVARIANT
    ProfilesLast
