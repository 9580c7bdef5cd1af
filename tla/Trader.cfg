SPECIFICATION TraderSpec
CHECK_DEADLOCK FALSE
CONSTANTS
    a1 = a1
    a2 = a2
    Assets = {a1, a2}
    Quotes = {80, 100}
    StartingCash = 25
    Leverage = 3
    MinNotional = 15
    Allocation = 20
    MaxTicks = 5
INVARIANTS
    TraderInv
PROPERTIES
    ShutdownEnds
