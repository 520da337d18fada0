CONSTANTS
    p1 = p1
    p2 = p2
    p3 = p3
    Paths <- MCTwoPaths
    MaxSplit = 2
    MaxPackets = 3
    MaxSeq = 3
    MaxSends = 6
SPECIFICATION Spec
SYMMETRY MCSymmetry
INVARIANTS
    NoPathBug
CHECK_DEADLOCK FALSE
