SPECIFICATION PipelineSpec
CONSTANTS
    Task = {t1, t2}
    Id = {i1, i2, i3}
    NoId = NoId
    NoResponse = NoResponse
INVARIANTS
    PipelineTypeOK
    ResponsesIdentified
    OnlyExceptionsSlipPast
