SPECIFICATION FairSpec
CONSTANTS
    s1 = s1
    s2 = s2
    r1 = r1
    r2 = r2
    t1 = t1
    None = None
    Sessions = {s1}
    Runtimes = {r1, r2}
    Terminals = {}
    SessionOf <- OneSession
    Clients = {"c1"}
    ReplayLimit = 1
    MaxEvents = 2
    MaxRevision = 1
INVARIANTS
    NothingLostUnannounced
    DedupLosesNothing
PROPERTIES
    ChangesBetweenEvents
    HubThreadsReturn
    FeedSpec
