CONSTANTS
    Node = {1, 2, 3}
    Networks <- MCNetworks
    Known = {1, 2, 3}
    MaxNetwork = 5
    MaxStops = 1
    MaxRequests = 1
SPECIFICATION Spec
INVARIANT
    DuplicateLeavesOne
CHECK_DEADLOCK FALSE
