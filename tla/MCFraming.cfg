SPECIFICATION FairSpec
CONSTANTS
    MaxAddresses = 1
    Magic = 99
    HashBase = 31
    HashModulus = 65521
    Sendable <- Sent
    MaxSent = 2
    MaxFragment = 5
INVARIANTS
    DeliveredIsSent
    ReaderKeepsStep
PROPERTIES
    AllArrive
CHECK_DEADLOCK FALSE
