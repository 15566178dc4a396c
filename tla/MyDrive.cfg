SPECIFICATION FairSpec
CONSTANTS
    Request = {1, 2}
    NoRequest = 0
    Code = {10002, 10003}
    RunStatus = 10002
    Delete = 10003
    MaxAttempts = 1
    Row = {1, 2}
    PageSize = 1
    Call = {c1, c2}
INVARIANTS TypeOK OneConnection KeepsTrying SettledTable DeletedIsGone
PROPERTIES OwnAnswer OverlaysEnd
CHECK_DEADLOCK FALSE
