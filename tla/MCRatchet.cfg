CONSTANTS
    MaxCounter = 5
    MaxSkip = 2
    MaxSnapshotSkipped = 2
    MaxChain = 6
    Junk = Junk
    Malformed = Malformed
    NoSnapshot = NoSnapshot
SPECIFICATION Spec
INVARIANTS
    TypeOK
    EveryCounterAccountedFor
    GenuineAnswered
PROPERTY
    ImplementsChannel
