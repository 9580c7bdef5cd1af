SPECIFICATION SoakSpec
SYMMETRY Alike
CONSTANTS
    s1 = s1
    s2 = s2
    NoSymbol = NoSymbol
    Universe = {s1, s2}
    BarLength = 2
    MaxDelay = 1
    HeartbeatTimeout = 1
    Skew = 0
    CacheSize = 2
    MaxAttempts = 2
    MaxFetch = 2
    MaxClock = 6
    DurationHours = 3
    RebalanceInterval = 2
    None = None
INVARIANTS
    SoakInv
PROPERTIES
    NeverBackwards
    OnlyTimeAndSilenceHurt
    DecidedOnCurrentBar
