SPECIFICATION Spec
CONSTANTS
    Methods = {"stream", "aead", "aead2022"}
    Policies = {"Default", "Reject"}
    MaxBytes = 3
    MaxPacket = 2
    FirstMax = 1
    CopyMax = 3
    SinkMax = 1
    MaxData = 2
    Requests = {1}
    Salts = {1, 2, 3, 4, 5}
    Policy = "Reject"
    MaxDiff = 1
    Ticks = 2
    ItemCount = 2
    MaxTime = 9
INVARIANTS
    EndsHaveCauses
    OnlyAuthentic
    HalfCloseKeepsTheRest
    RelayInv
    RecentSaltsKnown
PROPERTIES
    ImplementsByteStream
    RelaysEnd
    NoQuickRepeat
CHECK_DEADLOCK FALSE
