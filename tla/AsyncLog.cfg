SPECIFICATION FairSpec
CONSTANTS
    Loggers = {l1, l2}
    FatalLoggers = {l2}
    DiskFails = TRUE
    m_nFileRollSize = 2
    LengthOf <- MCLengthOf
    MaxLines = 2
    MaxTime = 1
    NoLine = NoLine
    NoFile = NoFile
INVARIANTS
    TypeOK
    NothingLostOrReordered
    SleepsOnlyWhenIdle
    FilesBounded
PROPERTIES
    ExitDrains
    EveryLineWritten
CHECK_DEADLOCK FALSE
