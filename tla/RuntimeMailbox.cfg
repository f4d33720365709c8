SPECIFICATION FairSpec
CONSTANTS
    s1 = s1
    t1 = t1
    r1 = r1
    r2 = r2
    None = None
    Nil = Nil
    Sessions = {s1}
    Terminals = {}
    Runtimes = {r1, r2}
    Ids = {1}
    MaxRequests = 3
    CacheLimit = 1
    Kinds <- AllCommands
    WorkersMayDie = TRUE
INVARIANTS
    DriverIsSupervised
PROPERTIES
    ServiceSpec
    Answered
    Taken
CHECK_DEADLOCK FALSE
