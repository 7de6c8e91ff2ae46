CONSTANTS
    p1 = p1
    p2 = p2
    t1 = t1
    t2 = t2
    h1 = h1
    TxSet = {t1, t2}
    AccHash = {h1}
    NullHash = NullHash
    n0 = n0
    Validator = {n0, p1, p2}
    Self = n0
    UintModulus = 3
    NoBlock = NoBlock
    Dangling = Dangling
    Several = Several
    MaxSequence = 2
SPECIFICATION VotesSpec
INVARIANTS
    TreeIsWellFormed
    ValidChainIsLinked
    PreferredBlockIsValidBlock
    VotesFollowExecutedBlock
    QuorumIsOfDifferentValidators
PROPERTIES
    ImplementsValidatedChain
SYMMETRY Symmetry
CHECK_DEADLOCK FALSE
