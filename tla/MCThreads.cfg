SPECIFICATION ThreadsFairSpec
CONSTANTS
    MaxPool = 2
    MaxQueue = 2
    MaxArrivals = 3
    Window = 1
INVARIANTS
    SleepersHaveNoWork
PROPERTIES
    PoolIsServed
    ShutdownEnds
CHECK_DEADLOCK FALSE
