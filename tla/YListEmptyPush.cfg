SPECIFICATION Spec
CONSTANTS
    Keys = {"k"}
    Strings <- WordAndNumber
    AsLong <- MCAsLong
    AsDouble <- MCAsDouble
    ToText <- MCToText
    NotLong = NotLong
    NaN = NaN
    Commands <- ListCommands
    MinMembers = 0
    MaxMembers = 1
    ScoreTexts <- MCScoreTexts
    MaxLen = 2
INVARIANTS
    PopAssertHolds
