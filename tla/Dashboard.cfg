SPECIFICATION FewSpec
CONSTANTS
    q1 = q1
    q2 = q2
    None = None
    Queries = {q1, q2}
    Clients = {c1, c2}
    Loops = {updates, keep_alive}
    Updaters = {updates}
    Registrations <- Registered
    Topics <- Asked
    MaxFailures = 1
    HistoryLimit = 1
CHECK_DEADLOCK FALSE
INVARIANTS
    PlatformInv
PROPERTIES
    NobodyWaitsForever
