SPECIFICATION Spec
CONSTANTS
    own = own
    foreign = foreign
    e1 = e1
    e2 = e2
    f1 = f1
    Tolerance = 0
    Orders = {own, foreign}
    Outside = {foreign}
    Execs = {e1, e2, f1}
    OrderOf <- OrderOfExec
    QtyOf <- Sizes
    CostOf <- Costs
    FeeOf <- Fee
    SymbolOf <- Symbol
    CashTolerance = 1
    Modes <- AllModes
    MaxCrashes = 1
CHECK_DEADLOCK FALSE
INVARIANTS
    AppliedOnce
