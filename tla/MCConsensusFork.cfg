CONSTANTS
    n1 = n1
    n2 = n2
    h1 = h1
    Validator = {n1, n2}
    Tx = {1, 2}
    Slot <- DistinctSlots
    TxSet <- MCTxSet
    AccHash = {h1}
    NullHash = NullHash
    UintModulus = 256
    NoBlock = NoBlock
    Dangling = Dangling
    Stage = {0}
    Dropped <- DroppedTx
    MayFail = {}
    MayExpire = FALSE
    MaxRounds = 3
    MaxSequence = 1
SPECIFICATION VotesSpec
INVARIANTS
    Agreement
CONSTRAINT UntilAllValid
ACTION_CONSTRAINT InOrder
SYMMETRY Symmetry
CHECK_DEADLOCK FALSE
