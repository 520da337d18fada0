CONSTANTS
    Paths = {1, 2}
    PaceMode <- MCProgressMode
    MaxSplit = 2
    SeqSpace = 3
    MaxFrames = 2
SPECIFICATION FairSpec
PROPERTIES
    PathsConnect
    SegmentsLeave
CHECK_DEADLOCK FALSE
