SPECIFICATION Spec
CONSTANTS
    RingSize = 4
    MaxAttempts = 5
    JitterRange = 1
    MaxAge = 8
    RealIndexes <- MCRealIndexes
    MaxIndexes <- MCMaxIndexes
INVARIANTS
    ChainSuffices
CHECK_DEADLOCK FALSE
