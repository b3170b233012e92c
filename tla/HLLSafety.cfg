CONSTANTS
    W = 6
    DenseBits = 2
    OverflowBits = 1
    AlphaNum = 79402
    AlphaDen = 100000
INIT MCInit
NEXT MCNext
INVARIANTS
    HLLTypeOK
    PrestoTypeOK
    BucketsMatchReference
    RegistersMatchReference
PROPERTIES
    HLLEstimateMonotone
