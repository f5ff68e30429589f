CONSTANTS
    Size = 7
    Cases <- MCCases
    RowLength = 2
SPECIFICATION ResponseSpec
CHECK_DEADLOCK FALSE
INVARIANTS
    WholeOrError
    AnswerAsDocumented
