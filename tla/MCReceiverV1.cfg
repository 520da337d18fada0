CONSTANTS
    NumFrames = 4
    Total <- MCTotal
SPECIFICATION FairSpec
INVARIANTS
    CompletionIsExact
    BufferIsAhead
PROPERTIES
    KeepsPromise
    FramesLeave
CHECK_DEADLOCK FALSE
