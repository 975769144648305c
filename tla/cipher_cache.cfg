SPECIFICATION Spec
CONSTANTS
    Servers = {"a", "b"}
    Places = {1, 2}
    Duration = 1
    Limit = 2
    MaxSessions = 2
INVARIANT
    CipherFitsTheServer
CHECK_DEADLOCK FALSE
