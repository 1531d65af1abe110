\* A failing WAV read through the map operator into foreach.
CONSTANTS
    W <- MC_W
    From <- MC_From
    To <- MC_To
    MaxChunks <- MC_MaxChunks
    PullSizes <- MC_PullSizes
    AnyBudget <- MC_AnyBudget
    RecordPull <- MC_RecordPull
    Sources <- MC_WavOnly
    Sinks <- MC_ForeachOnly
    Maps = {TRUE}
    Schedulers = {FALSE}
    Unbounded = Unbounded

SPECIFICATION Spec
PROPERTY FailureDelivered
CHECK_DEADLOCK FALSE
