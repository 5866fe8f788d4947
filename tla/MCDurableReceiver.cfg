CONSTANTS
    Writers = {w1, w2}
    Payloads <- MCPayloads
    MaxGeneration = 1
    Damaged = Damaged
    NoPayload = NoPayload
    MaxCrashes = 2
    MaxCorruptions = 1
    MaxCounter = 3
    MaxSkip = 1
    MaxSnapshotSkipped = 1
    Lost = Lost
    Packets = {0, 1}
SPECIFICATION DurableSpec
SYMMETRY Symmetry
INVARIANTS
    DurableTypeOK
    RecoveryNeverGoesBack
    ReplayAcrossRestarts
