\* One connection, three bytes one way and two back, reads of up to two bytes, with
\* failing system calls and resets.  The clock stands still, so that no timeout
\* helps.
CONSTANTS
    Byte <- MCByte
    Xlate <- MCXlate
    Requests <- MCRequests3
    Reply <- MCReply2
    ReadMax = 2
    SndBuf = 1
    MaxSession = 1
    WalkShare = 2
    Alive = 1
    Period = 1
    Fast = 0
    Elapsed <- MCNoTime
    Faults = TRUE
    Resets = TRUE
SPECIFICATION Spec
INVARIANTS
    NoLeak
    ClosedOnlyToFlush
    ArmedForWhatIsPending
    StreamIntegrity
PROPERTIES
    ClosedSideIsFlushed
    KeepsPromise
