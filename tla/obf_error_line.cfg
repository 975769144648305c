SPECIFICATION Spec
CONSTANTS
    Calls = {c1, c2}
    None = None
    Lines = {"error"}
    MaxLines = 1
    PidReads = {TRUE}
    Sequential = TRUE
INVARIANTS
    ErrorLineReachesHandler
CHECK_DEADLOCK FALSE
