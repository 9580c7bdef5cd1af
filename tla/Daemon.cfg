SPECIFICATION DaemonSpec
SYMMETRY Alike
CHECK_DEADLOCK FALSE
CONSTANTS
    s1 = s1
    s2 = s2
    s3 = s3
    Symbols = {s1, s2, s3}
    Prices = {4, 5}
    InitialCash = 50
    MaxSlots = 2
    TwapThreshold = 22
    Slices = 2
    Lot = 5
    MaxHours = 2
    MaxCrashes = 1
    MaxWrong = 2
INVARIANTS
    DaemonInv
    TradingMakesNothing
