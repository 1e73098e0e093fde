\* Every configured text, every call that can fail, with and without standard
\* descriptors.
CONSTANTS
    OutMax = 4
    Texts <- MCTexts
    Word = 1024
    MaxFd = 7
    TickRate = 3
    SampleTimes = 3
    SampleSleep = 2
    Samples <- MCSamples
SPECIFICATION Spec
INVARIANTS
    KeyAsConfigured
    DecodeInBuffer
    ReleasedOnce
    NothingKept
    RunsFullyBuilt
    ExitStatus
    ClockNeverFast
\* main() has returned, or an assertion of timer_ticks_init has failed.
CHECK_DEADLOCK FALSE
