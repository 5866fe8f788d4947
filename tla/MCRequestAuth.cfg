CONSTANTS
    d1 = d1
    n1 = n1
    n2 = n2
    n3 = n3
    n4 = n4
    Handlers = {h1, h2}
    Devices = {d1}
    Nonces = {n1, n2, n3, n4}
    Requests <- MCRequests
    NoRate = NoRate
    Idle = Idle
    MaxClockSkew = 3
    NonceTtl = 3
    MaxNonces = 4
    RateWindow = 2
    RateLimit = 2
    MaxTime = 9
SPECIFICATION Spec
SYMMETRY Symmetry
INVARIANTS
    TypeOK
    NoReplayWithinTtl
    RepeatsBounded
    BurstBounded
