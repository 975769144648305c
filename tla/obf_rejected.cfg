SPECIFICATION Spec
CONSTANTS
    Calls = {c1, c2}
    None = None
    Lines = {"listening on"}
    MaxLines = 1
    PidReads = {TRUE}
    Sequential = TRUE
PROPERTIES
    RejectedOnlyWhileRunning
CHECK_DEADLOCK FALSE
