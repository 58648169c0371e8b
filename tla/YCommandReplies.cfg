SPECIFICATION Spec
CONSTANTS
    Keys = {"k"}
    Strings <- WordAndNumber
    AsLong <- MCAsLong
    AsDouble <- MCAsDouble
    ToText <- MCToText
    NotLong = NotLong
    NaN = NaN
    Commands <- AllCommands
    MinMembers = 1
    MaxMembers = 1
    ScoreTexts <- MCScoreTexts
    MaxLen = 1
INVARIANTS
    OneReplyPerCommand
