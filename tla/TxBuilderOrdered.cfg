SPECIFICATION OrderedSpec
CONSTANTS
    alice = alice
    bob = bob
    c1 = c1
    c2 = c2
    Wallets = {alice, bob}
    TxOwner = "s"
    Garbage = Garbage
    Coins = {c1, c2}
    CoinValue <- MCCoinValue
    CoinMask <- MCCoinMask
    InputRequests <- MCInputRequests
    OutputRequests <- MCOutputRequests
    Fees <- MCFees
    Q = 3
    Mod = 5
    Hs <- MCHs
    MaxBppOutputs = 2
    MaxInputRequests = 2
    MaxOutputRequests = 3
    MaxInputs = 3
    MaxOutputs = 3
    MaxInputScalars = 4
INVARIANTS
    PartialFailureIsFatal
    SentIsSigned
    SentVerifies
    
PROPERTIES
    ImplementsPayment
CHECK_DEADLOCK FALSE
