CONSTANTS
    W8 = 2
    W16 = 3
    SIM_VIDEO_SIZE = 2
    Garbage = Garbage
    Lengths = {1, 3}
    MaxFrames = 3
    MaxSegments = 4
    HeaderSize = 1
    Rates = {1, 2}
    StartRate = 1
    MaxInterval = 1
    Elapses = {1, 3}
    Window = 3
    FeedbackSize = 2
    HasObserver = TRUE
    MaxSwitches = 2
SPECIFICATION Spec
INVARIANTS
    SegmentsInPlace
    PacedRate
    ReportsAreTrue
CHECK_DEADLOCK FALSE
