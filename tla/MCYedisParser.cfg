SPECIFICATION Spec
CONSTANTS
    Bytes <- MCBytes
    Inputs <- MCInputs
INVARIANTS
    TypeOK
    WholeRequestRead
    CutRequestWaits
CHECK_DEADLOCK FALSE
