CONSTANTS
    n1 = n1
    n2 = n2
    h1 = h1
    Validator = {n1, n2}
    Tx = {1, 2}
    Slot <- DistinctSlots
    TxSet <- MCTxSet
    AccHash = {h1}
    NullHash = NullHash
    UintModulus = 256
    NoBlock = NoBlock
    Dangling = Dangling
    Stage = {0}
    Dropped <- DroppedTx
    MayFail = {}
    MayExpire = FALSE
    MaxRounds = 2
    MaxSequence = 2
SPECIFICATION VotesSpec
INVARIANTS
    OurVotesMatchOurSet
    ValidBlocksWereAcceptedByAll
    ExecutedBlockIsValidBlock
PROPERTIES
    ImplementsChain
SYMMETRY Symmetry
CHECK_DEADLOCK FALSE
