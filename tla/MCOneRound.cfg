CONSTANTS
    n0 = n0
    p1 = p1
    p2 = p2
    h1 = h1
    Validator = {n0, p1, p2}
    Self = n0
    Tx = {1, 2}
    Slot <- DistinctSlots
    TxSet <- MCTxSet
    AccHash = {h1}
    NullHash = NullHash
    UintModulus = 256
    NoBlock = NoBlock
    Dangling = Dangling
    Stage = {0, 50, 85, 200}
    MaxSeq = 0
    MayFail = {2}
SPECIFICATION OwnSpec
INVARIANTS
    ConsensusIsUnanimous
    VotersHavePositions
PROPERTIES
    PositionsOnlyShrink
SYMMETRY Symmetry
