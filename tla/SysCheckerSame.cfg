CONSTANTS
    glibc64 = glibc64
    glibc32 = glibc32
    NoLibc = NoLibc
    Request = {r1}
    Libc = {glibc64, glibc32}
    System <- Systems
    Asked = {glibc64, glibc32}
    Stored = {glibc64, glibc32}
    LocalSure = TRUE
    ReqSem = 1
    CacheSize = 2
SPECIFICATION Spec
INVARIANTS SameSystem
