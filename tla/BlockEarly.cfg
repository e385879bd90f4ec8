SPECIFICATION Spec
CONSTANTS
    Blocks <- MCBlocks
    TxPool <- MCTxPool
    MaxInserts = 2
    MaxParses = 2
    MaxMisread = 2
INVARIANTS
    MinerTxRoundTrips
