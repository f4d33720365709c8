SPECIFICATION FairSpec
CONSTANTS
    u1 = u1
    u2 = u2
    u3 = u3
    Users = {u1, u2, u3}
    Nobody = Nobody
    MaxServers = 3
INVARIANTS
    OneServer
    NoOrphan
    WaitersAreBehindSomeone
PROPERTIES
    LeaseSpec
    WaitsEnd
