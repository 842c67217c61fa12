CONSTANTS
    glibc64 = glibc64
    glibc32 = glibc32
    NoLibc = NoLibc
    Request = {r1, r2}
    Libc = {glibc64, glibc32}
    System <- Systems
    Asked = {glibc64, glibc32}
    Stored = {glibc32}
    LocalSure = FALSE
    ReqSem = 1
    CacheSize = 1
SPECIFICATION FairSpec
INVARIANTS TypeOK NoFalseSystem OneFlight CacheBound KnownSameSystem
PROPERTIES Told
