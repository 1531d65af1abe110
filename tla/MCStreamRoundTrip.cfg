\* The round trip of spec 8: count wired directly to a sink that pulls
\* to - from once.
CONSTANTS
    W <- MC_W
    From <- MC_From
    To <- MC_To
    MaxChunks <- MC_MaxChunks
    PullSizes <- MC_PullSizes
    AnyBudget <- MC_AnyBudget
    RecordPull <- MC_RecordExact
    Sources <- MC_CountOnly
    Sinks <- MC_RecordOnly
    Maps = {FALSE}
    Schedulers = {FALSE}
    Unbounded = Unbounded

SPECIFICATION Spec
PROPERTY RoundTripCompletes
CHECK_DEADLOCK FALSE
