\* Two slots that are used again and again while time passes: events of one
\* batch, timeouts and new browsers compete for them.  A walk visits half of the
\* pool.
CONSTANTS
    Byte <- MCByte
    Xlate <- MCXlate
    Requests <- MCRequests1
    Reply <- MCNoReply
    ReadMax = 1
    SndBuf = 1
    MaxSession = 2
    WalkShare = 2
    Alive = 1
    Period = 1
    Fast = 0
    Elapsed <- MCTime
    Faults = TRUE
    Resets = FALSE
SPECIFICATION FairSpec
INVARIANTS
    BatchNamesOpenFds
PROPERTIES
    FreedSlotUntouched
    IdleReaped
