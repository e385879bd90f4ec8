SPECIFICATION Spec
CONSTANTS
    alice = alice
    bob = bob
    c1 = c1
    c2 = c2
    Wallets = {alice, bob}
    TxOwner = "s"
    Garbage = Garbage
    Coins = {c1, c2}
    CoinValue <- MCCoinValue
    CoinMask <- MCCoinMask
    InputRequests <- MCFewInputRequests
    OutputRequests <- MCFewOutputRequests
    Fees <- MCFewFees
    Q = 3
    Mod = 5
    Hs <- MCHs
    MaxBppOutputs = 2
    MaxInputRequests = 2
    MaxOutputRequests = 2
    MaxInputs = 2
    MaxOutputs = 2
    MaxInputScalars = 3
VIEW WithoutResults
INVARIANTS
    TypeOK
    OutputsAligned
    SignedOnceOpens
CHECK_DEADLOCK FALSE
