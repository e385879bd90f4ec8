SPECIFICATION ScanSpec
CONSTANTS
    alice = alice
    bob = bob
    carol = carol
    c1 = c1
    c2 = c2
    Wallets = {alice, bob, carol}
    TxOwner = "s"
    Garbage = Garbage
    Coins = {c1, c2}
    CoinValue <- MCCoinValue
    CoinMask <- MCCoinMask
    InputRequests <- MCInputRequests
    OutputRequests <- MCOutputRequests
    Fees = {}
    Q = 2
    Mod = 8
    Hs <- MCHs
    MaxBppOutputs = 16
    MaxInputRequests = 2
    MaxOutputRequests = 3
    MaxInputs = 2
    MaxOutputs = 12
    MaxInputScalars = 2
    RingSize = 2
    Rounds = 1
    ZeroBytes = ZeroBytes
    AtomicToXmr <- MCAtomicToXmr
    XmrPlus <- MCXmrPlus
    MaxCalls = 4
VIEW WithoutHidden
INVARIANTS
    ParsesWhatWasSent
    ScanFindsPaid
    ForeignMissed
    EveryPayeeReached
    RecognisedOpens
    PaymentIdForLastPayee
CHECK_DEADLOCK FALSE
