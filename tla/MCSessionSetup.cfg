CONSTANTS
    KeyIds = {k1, k2, k3}
    FirstKeyId = k1
    MaxRetired = 1
    Graces = {1}
    MaxMs = 2
    NoKey = NoKey
    MaxTime = 2
    MaxKeys = 3
    Initiator = alice
    Responder = bob
    Ephemerals = {e1, e2}
    Zero = Zero
    Others = {other}
    NoOneTime = NoOneTime
    MaxAltered = 1
    MaxBundles = 2
    MaxSessions = 2
SYMMETRY Symmetry
SPECIFICATION Spec
INVARIANTS
    StoreTypeOK
    GraceHonoured
    OneTimeKeysAccounted
    InitAnswered
    RootsAgree
