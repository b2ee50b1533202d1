SPECIFICATION FairSpec
CONSTANTS
    Call = {c1}
    MaxAttempts = 3
    None = None
CHECK_DEADLOCK FALSE
INVARIANTS
    TypeOK
    SingleExecution
    OutcomesAreTrue
PROPERTY
    CallsEnd
