CONSTANTS
    FrameIds = {0, 1, 2}
    K = 2
    MaxTimestamp = 7
INIT MCInit
NEXT MCNext
INVARIANTS
    ReplacerTypeOK
    VictimMatchesDefinition
    SizeMatchesEvictable
PROPERTIES
    ImplementsLRUKSpec
