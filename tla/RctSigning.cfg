SPECIFICATION Spec
CONSTANTS
    Q = 11
    Vectors = 4
    Secrets = {1, 2, 3}
    LogN = 1
    MaxM = 2
    Cases <- MCCases
INVARIANTS
    TypeOK
    RangeProofVerifies
    FitsOrFails
    RingCloses
    SignedVerifies
CHECK_DEADLOCK FALSE
