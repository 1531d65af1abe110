CONSTANTS
    Chunks <- MC_Chunks
    OpenResults <- MC_OpenResults
    ReadResults <- MC_ReadResults
    MaxDup <- MC_MaxDup
    MaxLoss <- MC_MaxLoss
    MaxAllocFail <- MC_MaxAllocFail
SPECIFICATION Spec
CHECK_DEADLOCK FALSE
INVARIANTS
    TypeOK
    ClientInOrder
PROPERTY
    ClientReturns
