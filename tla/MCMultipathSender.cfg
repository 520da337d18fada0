CONSTANTS
    Paths = {1, 2}
    PaceMode <- MCPaceMode
    MaxSplit = 2
    SeqSpace = 3
    MaxFrames = 2
SPECIFICATION Spec
INVARIANTS
    NothingLost
    SegmentsAccounted
    QuietAfterStop
PROPERTIES
    OrderKept
CHECK_DEADLOCK FALSE
