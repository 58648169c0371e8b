SPECIFICATION FairSpec
CONSTANTS
    Loggers = {l1, l2}
    FatalLoggers = {}
    DiskFails = FALSE
    m_nFileRollSize = 2
    LengthOf <- MCLengthOf
    MaxLines = 2
    MaxTime = 1
    NoLine = NoLine
    NoFile = NoFile
PROPERTIES
    ExitFlagEndsWriter
CHECK_DEADLOCK FALSE
