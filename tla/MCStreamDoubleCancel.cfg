\* A sink that cancels twice behind the trampoline adapter.
CONSTANTS
    W <- MC_W
    From <- MC_From
    To <- MC_To
    MaxChunks <- MC_MaxChunks
    PullSizes <- MC_PullSizes
    AnyBudget <- MC_AnyBudget
    RecordPull <- MC_RecordPull
    Sources <- MC_CountOnly
    Sinks <- MC_AnyOnly
    Maps = {FALSE}
    Schedulers = {TRUE}
    Unbounded = Unbounded

SPECIFICATION Spec
INVARIANT CancelIdempotent
CHECK_DEADLOCK FALSE
