SPECIFICATION Spec
CONSTANTS
    Peers = {p1, p2, p3}
    NoTask = NoTask
    Capacity = 2
    TimeToLive = 2
    SendChannelSize = 1
    KeepAliveChannelSize = 1
    MaxErrors = 1
SYMMETRY PeerSymmetry
INVARIANTS
    TasksAreTracked
    ExpiredWasSilent
    ExpiredIsCollected
    ManagerInv
