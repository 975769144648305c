SPECIFICATION Spec
CONSTANTS
    Sessions = {s1, s2}
    MaxPacketId = 2
    MaxPackets = 3
    ServerPackets <- MCServerPackets
    ClockSkews <- MCClockSkews
    WindowSize = 0
    MaxDiff = 1
    ExpireDuration = 2
    None = None
CHECK_DEADLOCK FALSE
INVARIANTS
    PacketIdsIncrease
    SendInv
    DeliveredOnce
