\* One connection: a plain request or CONNECT with a byte after the header,
\* requests that are bad in every way the server tells apart, two bytes
\* of answer, failing system calls and resets.  The clock stands still.
CONSTANTS
    Byte <- MCByte
    Xlate <- MCXlate
    Requests <- MCRequests
    Reply <- MCReply2
    ReadMax = 1
    SndBuf = 1
    MaxSession = 1
    WalkShare = 2
    Alive = 1
    Period = 1
    Fast = 0
    Elapsed <- MCNoTime
    Faults = TRUE
    Resets = TRUE
    HeadMax = 3
    Established <- MCEstablished
SPECIFICATION Spec
INVARIANTS
    OnlyHostStringsLeak
    StreamIntegrity
    HeadCacheHasRoom
    HostOnlyAfterHeader
PROPERTIES
    KeepsPromise
