CONSTANTS
    p1 = p1
    p2 = p2
    p3 = p3
    p4 = p4
    Voter = {p1, p2, p3, p4}
    Stage = {0, 50, 85, 200}
SPECIFICATION DisputeSpec
INVARIANTS
    CountersCountVotes
PROPERTIES
    OnlyVetoesChangeOurVote
