SPECIFICATION Spec
CONSTANTS
    o1 = o1
    o2 = o2
    NoOrder = NoOrder
    Tolerance = 0
    Orders = {o1, o2}
    OrderQty <- Sizes
    MaxRetries = 2
    Usages <- EveryUsage
    Cancels = TRUE
    MaxCrashes = 2
CHECK_DEADLOCK FALSE
INVARIANTS
    PortfolioFollowsStore
    WholeFillsInv
PROPERTIES
    WholeFillsHaltLasts
    ClosedIsFinal
    CallReturns
