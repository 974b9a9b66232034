\* A log of two files when the stream begins, one record to come.
SPECIFICATION DSpec
CONSTANTS
    BN = 2
    Grace = 1
    Idle = 1
    FileCap = 1
    Input <- MCInput
    OldLog <- MCOldLog
    MaxTs = 3
    MaxFrames = 1
    MaxBurst = 1
    Backups = 3
    Beside = 2
    Timelines <- MCTimelines
INVARIANT
    WholeChainRead
