CONSTANTS
    a = a
    b = b
    c = c
    d = d
    Req = {a, b}
    ReqNarSize <- Sizes12
    NarBytes <- Bytes121
    MaxInt64 = 31
    DiskFree = 5
    NumCPU = 1
    Filtered = {b}
    FilterMayFail = TRUE
    Refusals = {400, 405}
    Leaving = {a, b}
SPECIFICATION Spec
INVARIANTS DiskCovered
CHECK_DEADLOCK FALSE
