CONSTANTS
    p1 = p1
    p2 = p2
    p3 = p3
    Paths <- MCThreePaths
    MaxSplit = 2
    MaxPackets = 3
    MaxSeq = 3
    MaxSends = 4
SPECIFICATION Spec
SYMMETRY MCSymmetry
INVARIANTS
    QueuesOK
    NothingForgotten
    OutstandingAhead
PROPERTIES
    GivenUpWhenStale
    RetransOnLivePath
CHECK_DEADLOCK FALSE
