CONSTANTS
    W <- MC_W
    PullSizes <- MC_PullSizes
    MaxCalls <- MC_MaxCalls
    Unbounded = Unbounded

SPECIFICATION Spec

INVARIANT DemandAccounted
INVARIANT QuietAfterTerminal
INVARIANT Backpressure
PROPERTY DemandRefinement

CHECK_DEADLOCK FALSE
