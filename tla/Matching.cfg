SPECIFICATION FairSpec
CONSTANTS
    Prices <- MCPrices
    Shapes <- MCShapes
    MaxOrders = 5
INVARIANTS
    TypeOK
    RestingIsBooked
    NeverOverfilled
PROPERTIES
    PriceTimePriority
    NothingLeftToMatch
    EveryOrderIsAnswered
CHECK_DEADLOCK FALSE
