SPECIFICATION Spec
CONSTANTS
    None = None
    Symbols = {s1}
    Prices = {100, 102}
    Amounts = {1, 2}
    TwapAbove = 150
    ChunkValue = 110
    Equities = {0, 100, 97, 94}
    Window = 2
    MaxOrders = 2
    MaxChecks = 3
INVARIANTS
    StreamInv
    StopSellsOnce
PROPERTIES
    HaltIsCarriedOut
