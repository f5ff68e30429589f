CONSTANTS
    Size = 7
    Cases <- MCRefused
    RowLength = 2
SPECIFICATION ResponseSpec
CHECK_DEADLOCK FALSE
INVARIANTS
    AnsweredOnce
