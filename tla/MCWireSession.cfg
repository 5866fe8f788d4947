CONSTANTS
    Version = 1
    MaxFrame = 13
    MaxHeader = 3
    MaxCiphertext = 2
    MaxEnvelopeHeader = 2
    MaxEnvelopeCiphertext = 3
    Alice = 1
    Bob = 2
    Capacity = 1
    MaxHeld = 2
    MaxSkip = 1
    Text = Text
    Control = Control
    Pingers = {2}
    Units = {2}
    DamageWords = {0, 1, 3}
    MaxSealed = 3
    MaxSent = 3
    MaxFaults = 1
    MaxSessions = 1
SPECIFICATION MCSpec
INVARIANTS
    WireTypeOK
    ActsOnWhatWasSent
    HeldCanBeSent
    OpenedAsSealed
    GenuineOpens
CHECK_DEADLOCK FALSE
