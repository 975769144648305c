SPECIFICATION FairSpec
CONSTANTS
    Calls = {c1, c2}
    None = None
    Lines = {"error", "listening on", "other"}
    MaxLines = 1
    PidReads = {TRUE, FALSE}
    Sequential = FALSE
INVARIANTS
    SupervisorInv
    LeakOnlyThroughTimeout
    StartSuccessNeedsListening
PROPERTIES
    AbandonedStartTimesOut
    EveryCallReturns
    DeadReadersEnd
CHECK_DEADLOCK FALSE
