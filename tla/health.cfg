SPECIFICATION FairSpec
CONSTANTS
    Request = {r1, r2}
INVARIANTS
    TypeOK
    ReadyMeansWired
PROPERTIES
    ReadyzHonest
    HealthAnswers
