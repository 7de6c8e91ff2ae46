CONSTANTS
    t1 = t1
    t2 = t2
    a1 = a1
    a2 = a2
    b1 = b1
    Node = {1, 2, 3, 4}
    Connected <- MCConnected
    UNLsize <- MCUNLsize
    Tx = {t1, t2}
    Creator <- MCCreator
    Account = {a1, a2}
    Wallet <- MCWallet
    Parties <- MCParties
    Accounts <- MCAccounts
    Block = {b1}
    Blocks <- MCBlocks
    MaxStarted = 3
SPECIFICATION FairSpec
INVARIANTS
    PoolIsChecked
    AnnouncedIsHeld
    WaitingIsAnswered
    BlockIsAskedForOnce
PROPERTIES
    KnownAccountsStay
    TransactionsSpread
CHECK_DEADLOCK FALSE
