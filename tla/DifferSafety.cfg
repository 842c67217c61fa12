CONSTANTS
    a = a
    b = b
    c = c
    d = d
    Req = {a, b, c}
    ReqNarSize <- Sizes121
    NarBytes <- Bytes121
    MaxInt64 = 31
    DiskFree = 4
    NumCPU = 1
    Filtered = {b}
    FilterMayFail = TRUE
    Refusals = {400, 405}
    Leaving = {a, b, c}
SPECIFICATION Spec
INVARIANTS TypeOK DiskBudget PermitsKept OkMeansDelta
PROPERTIES ServesReplies
CHECK_DEADLOCK FALSE
