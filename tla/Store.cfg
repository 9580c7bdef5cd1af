SPECIFICATION StoreSpec
CONSTANTS
    o1 = o1
    o2 = o2
    e1 = e1
    e2 = e2
    e3 = e3
    e4 = e4
    w1 = w1
    w2 = w2
    NoExec = NoExec
    Orders = {o1, o2}
    Execs = {e1, e2, e3, e4}
    Workers = {w1, w2}
    OrderQty <- BookQty
    ExecOf <- BookOf
    ExecQty <- BookExecQty
    Marks <- AllMarks
    Usages <- SerialAndNot
    StartIn <- FromCreated
    Tolerance = 1
    a1 = a1
    a2 = a2
    a3 = a3
    d1 = d1
    n1 = n1
    n2 = n2
    ka = ka
    kb = kb
    ca = ca
    cb = cb
    cc = cc
    cd = cd
    buy = buy
    sell = sell
    NoKey = NoKey
    None = None
    Calls = {a1, a2, a3, d1, n1, n2}
    KeyOf <- MixedKey
    CidOf <- MixedCid
    PrintOf <- MixedPrint
    b1 = b1
    b2 = b2
    s1 = s1
    s2 = s2
    SideOf <- TradeSide
    QtyOf <- TradeQty
    PriceOf <- TradePrice
    FeeOf <- TradeFee
    StartCash = 100
    Nothing = Nothing
    Executions = {b1, b2, s1, s2}
    Threads = {w1}
    MaxCrashes = 2
INVARIANTS
    RowAgreesWithLedger
    StoredOnce
    OneOrderPerIntent
    AnswersOwnRequest
    RaceIsResolved
    LedgerTypes
    AtRestIsReplay
    WealthIsConserved
PROPERTIES
    KeepsRegister
    StoredIsApplied
