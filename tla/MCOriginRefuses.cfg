CONSTANTS
    Paths = {1, 2}
    NumFrames = 3
    Total <- MCTotal
    Key = {1}
    Layout <- MCLayout
    MaxBufLen = 7
SPECIFICATION Spec
INVARIANT KeyFrameKept
