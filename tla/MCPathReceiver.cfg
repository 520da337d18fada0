CONSTANTS
    MaxSeq = 5
    Index <- MCIndex
    NackNum = 2
SPECIFICATION PathSpec
INVARIANTS
    PathTypeOK
    TablesExact
    BaseIsHonest
PROPERTIES
    TablesAdvance
    AcksAreTrue
    FilterSound
CHECK_DEADLOCK FALSE
