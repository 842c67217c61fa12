CONSTANTS
    p1 = p1
    p2 = p2
    p3 = p3
    n1 = n1
    n2 = n2
    n3 = n3
    Conn = {c1, c2}
    Path = {p1, p2, p3}
    Nar = {n1, n2, n3}
    NarOf <- Nars
    NarInfoSlots = 1
    NarSlots = 1
    RecentsSize = 2
    UpstreamStatus = {403, 503}
    Second = 2
    TTL = 1
    IdleTime = 3
SPECIFICATION Spec
INVARIANTS TypeOK PromiseKept SlotsKept
PROPERTIES ExitSparesYoung
SYMMETRY Alike
