SPECIFICATION InputSpec
CONSTANTS
    RingSize = 4
    MaxAttempts = 5
    JitterRange = 1
    MaxAge = 8
    RealIndexes = {0}
    MaxIndexes = {0}
    Views <- MCViews
    Requests <- MCRequests
    Heights <- MCHeights
    Past = 3
    Recent = 1
    Mod = 32
INVARIANTS
    InputTypeOK
    RingSound
    OffsetsRecoverRing
    SecretMemberOpens
    DecoysAreOld
    OutcomeExplained
PROPERTIES
    Terminates
CHECK_DEADLOCK FALSE
