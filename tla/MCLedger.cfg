CONSTANTS
    Account = {1, 2}
    Local = 2
    InitialBalance <- MCInitialBalance
    Cash = 4
    Amount = {1, 2}
    Foreign <- MCForeign
    Request <- MCRequest
    MaxSequence = 3
    MaxOwn = 2
    MaxBlocks = 2
SPECIFICATION Spec
INVARIANTS
    TypeOK
    BalancesAreHistory
    BlocksHoldHistory
    WalletTracksAccount
    StoredChainIsLinked
PROPERTIES
    ImplementsPayments
