SPECIFICATION GatewaySpec
CONSTANTS
    alice = alice
    bob = bob
    i1 = i1
    i2 = i2
    c1 = c1
    c2 = c2
    NoEntry = NoEntry
    NoMessage = NoMessage
    Devices = {alice, bob}
    MessageIds = {i1, i2}
    Messages <- TwoSenders
    Conns = {c1, c2}
    DeviceOf <- MCDeviceOf
    r1 = r1
    Requests = {r1}
    MaxPerDevice = 2
    MaxTotalMessages = 2
    MaxTotalBytes = 2
    OfflineTtl = 1
    MaxClockSkew = 0
    MaxTime = 1
    LiveChannelCapacity = 1
    MaxAccepts = 1
INVARIANTS
    GatewayTypeOK
    NoStrandedMessage
    EntryHasSession
PROPERTIES
    ActivateNeverDrops
    EntryLeavesWithItsOwner
