SPECIFICATION Spec
CONSTANTS
    w1 = w1
    p1 = p1
    p2 = p2
    Writers = {w1}
    Payloads = {p1, p2}
    MaxGeneration = 1
    Damaged = Damaged
    NoPayload = NoPayload
    MaxCrashes = 1
    MaxCorruptions = 0
INVARIANT
    TempNameIsUnused
