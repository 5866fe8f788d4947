SPECIFICATION Spec
CONSTANTS
    alice = alice
    bob = bob
    k1 = k1
    k2 = k2
    x1 = x1
    x2 = x2
    x3 = x3
    r0 = r0
    r1 = r1
    r2 = r2
    Devices = {alice, bob}
    KeyIds = {k1, k2}
    PublicKeys = {x1, x2, x3}
    RequestIds = {r0, r1, r2}
    NilRequest = r0
    Publications <- MCPublications
    MaxLifetime = 2
    MaxClockSkew = 1
    NoPublication = NoPublication
    MaxTime = 2
INVARIANT
    EachPrekeySingleUse
