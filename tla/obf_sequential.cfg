SPECIFICATION Spec
CONSTANTS
    Calls = {c1, c2, c3}
    None = None
    Lines = {"error", "listening on", "other"}
    MaxLines = 1
    PidReads = {TRUE}
    Sequential = TRUE
SYMMETRY Symmetry
PROPERTIES
    ImplementsContract
CHECK_DEADLOCK FALSE
