\* Every source and sink of the repository, wired directly (source->connect,
\* where every pull and push re-enters the other side) or behind
\* rxc_pipeline_start's trampoline adapter, with and without map.
CONSTANTS
    W <- MC_W
    From <- MC_From
    To <- MC_To
    MaxChunks <- MC_MaxChunks
    PullSizes <- MC_PullSizes
    AnyBudget <- MC_AnyBudget
    RecordPull <- MC_RecordPull
    Sources <- MC_AllSources
    Sinks <- MC_Sinks
    Maps = {FALSE, TRUE}
    Schedulers = {FALSE, TRUE}
    Unbounded = Unbounded

SPECIFICATION Spec
INVARIANT TypeOK
INVARIANT InOrder
INVARIANT QuietAfterTerminal
INVARIANT StackBounded
INVARIANT PullsInOrder
PROPERTY Terminates
CHECK_DEADLOCK FALSE
