\* A file that opens and reads without error, over a network that neither
\* loses nor duplicates datagrams but may reorder them.
CONSTANTS
    Chunks <- MC_Chunks
    OpenResults <- MC_OpenOk
    ReadResults <- MC_ReadData
    MaxDup = 0
    MaxLoss = 0
    MaxAllocFail = 0
SPECIFICATION Spec
CHECK_DEADLOCK FALSE
INVARIANT
    ClientGetsFile
