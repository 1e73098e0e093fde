\* One connection, peers that read, browsers that keep coming, time passing:
\* what becomes of a session whose server side has closed.
CONSTANTS
    Byte <- MCByte
    Xlate <- MCXlate
    Requests <- MCRequests1
    Reply <- MCReply2
    ReadMax = 1
    SndBuf = 1
    MaxSession = 1
    WalkShare = 2
    Alive = 1
    Period = 1
    Fast = 0
    Elapsed <- MCTime
    Faults = FALSE
    Resets = FALSE
SPECIFICATION CrowdedSpec
PROPERTIES
    ServerGoneFreed
