CONSTANTS
    i1 = i1
    i2 = i2
    p1 = p1
    p2 = p2
    s1 = s1
    s2 = s2
    s3 = s3
    Null = Null
    Addrs <- MC_OneHost
    AddrBytes <- MC_AddrBytesOneHost
    Ids <- MC_Ids
    Flags <- MC_Flags
    SynResults <- MC_SynResults
    Timeout <- MC_Timeout
    MaxTime <- MC_MaxTime
    MaxPackets <- MC_MaxPackets
SPECIFICATION Spec
CHECK_DEADLOCK FALSE
INVARIANTS
    TypeOK
    NoForgottenSession
PROPERTY
    SessionsExpire
