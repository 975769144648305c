SPECIFICATION Spec
CONSTANTS
    Sessions = {s1}
    MaxPacketId = 3
    MaxPackets = 2
    ServerPackets = {}
    ClockSkews = {}
    WindowSize = 1
    MaxDiff = 1
    ExpireDuration = 2
    None = None
CHECK_DEADLOCK FALSE
INVARIANT
    ServerAvailable
