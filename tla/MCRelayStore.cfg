SPECIFICATION Spec
CONSTANTS
    alice = alice
    bob = bob
    i1 = i1
    i2 = i2
    i3 = i3
    Devices = {alice, bob}
    MessageIds = {i1, i2, i3}
    Messages <- MCMessages
    MaxPerDevice = 2
    MaxTotalMessages = 3
    MaxTotalBytes = 5
    OfflineTtl = 2
    MaxClockSkew = 1
    MaxTime = 4
INVARIANTS
    TypeOK
    UniqueIds
    CountersExact
    WithinLimits
    RetentionWindow
PROPERTY
    NoEarlyLoss
