SPECIFICATION Spec
CONSTANTS
    Keys = {"k"}
    Strings <- Texts
    AsLong <- MCAsLong
    AsDouble <- MCAsDouble
    ToText <- MCToText
    NotLong = NotLong
    NaN = NaN
    Commands <- AllCommands
    MinMembers = 1
    MaxMembers = 2
    ScoreTexts <- MCScoreTexts
    MaxLen = 3
INVARIANTS
    TypeOK
    NoEmptyCollections
    PopAssertHolds
    ScoresAgree
PROPERTIES
    ImplementsRedisButFor
CHECK_DEADLOCK FALSE
