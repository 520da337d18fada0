CONSTANTS
    Kinds <- MCKinds
    Paths = {1, 2, 3}
    Rates = {1, 3}
    Delays <- MCDelays
    Frames <- MCFrames
    QueueBound = 1
    MaxScheduled = 3
    Unit = 1260
    Roots = {420}
    Millis = 1
SPECIFICATION Spec
INVARIANTS
    EveryPacketPlaced
    GoesWrongOnlyWhen
PROPERTIES
    PsiConserved
CHECK_DEADLOCK FALSE
