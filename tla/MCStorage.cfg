SPECIFICATION StorageSpec
CONSTANTS
    MaxAddresses = 1
    Wallet <- Wallets
    Tx <- Transactions
    Sender <- SenderOf
    Receiver <- ReceiverOf
    Number <- NumberOf
    Amount = 1
    Records <- AccountRecords
    MaxBlocks = 2
    MaxStops = 1
INVARIANTS
    BlocksReadBack
    BlocksExplainBalances
    SequenceIsLast
PROPERTIES
    PeersReplaceNoBalance
CHECK_DEADLOCK FALSE
