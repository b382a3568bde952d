SPECIFICATION Spec
CONSTANTS
    Prices <- MCPrices
    Shapes <- MCShapes
    MaxOrders = 4
PROPERTY
    CancelledNeverTrades
CHECK_DEADLOCK FALSE
