\* Buckets of two time units, a grace period of one, log files of one record, three of
\* which exist at a time; two are there at the start, both full.
SPECIFICATION MCSpec
CONSTANTS
    BN = 2
    Grace = 1
    Idle = 1
    FileCap = 1
    Input <- MCInput
    OldLog <- MCOldLog
    MaxTs = 3
    MaxFrames = 3
    MaxBurst = 2
    Backups = 3
    Beside = 2
    Timelines <- MCTimelines
INVARIANTS
    RecordsExact
    SecondRecordExcused
    ReadsInOrder
    RowsComplete
    SweepCorrect
PROPERTIES
    TailScored
