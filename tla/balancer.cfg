SPECIFICATION FairSpec
CONSTANTS
    Mode = {"tcp", "udp"}
    Configs <- MCConfigs
    CheckBest = TRUE
    WarmUp = 1
    Window = 2
    Fifth = 1
    LatencyParts = {0}
    MaxScore = 11
    MaxReloads = 1
    MaxFlips = 1
    None = None
INVARIANTS
    BestIsUsable
    BalancerInv
PROPERTIES
    Failover
    BestCheckerWakes
CHECK_DEADLOCK FALSE
