CONSTANTS
    a = a
    b = b
    c = c
    d = d
    Req = {a, b, c, d}
    ReqNarSize <- Sizes1219
    NarBytes <- Bytes121
    MaxInt64 = 31
    DiskFree = 4
    NumCPU = 1
    Filtered = {b}
    FilterMayFail = FALSE
    Refusals = {}
    Leaving = {a, d}
SPECIFICATION FairSpec
PROPERTIES AdmissibleServed GoneUnwound
