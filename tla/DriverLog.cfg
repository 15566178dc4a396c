SPECIFICATION FairSpec
CONSTANTS
    Request = {1, 2}
    NoRequest = 0
    Code = {10004}
    MaxAttempts = 1
    MaxLines = 2
INVARIANTS LogInOrder AtMostOneLate
PROPERTIES StopEnds GoneIsForgotten
CHECK_DEADLOCK FALSE
