SPECIFICATION Spec
CONSTANTS
    BLOCK_BITS = 2
    RING_BLOCKS = 4
    Limit = 13
    Ids <- MCIds
INVARIANT
    RingRemembers
PROPERTY
    IsReplayWindow
