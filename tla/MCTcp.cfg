CONSTANTS
    SeqSpace = 8
    RcvBuf = 2
    SndBuf = 2
    TcpMss = 2
    PeerMss = 1
    QueueLimit = 2
    HostBuf = 1
    Loads <- MCLoads
    InTransit = 2
    MaxFaults = 1
    LossyUpdates = FALSE
SPECIFICATION FairSpec
INVARIANTS StreamsInOrder AckedIsKept EndsLast WindowKept
 
CHECK_DEADLOCK FALSE
