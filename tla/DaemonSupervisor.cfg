SPECIFICATION LiveSpec
CONSTANTS
    Policies = {"loopback", "lan"}
    Initial = "loopback"
    Watch = TRUE
    Subscribers = {"sync"}
    Values = {"v1", "v2"}
    MayReturn = FALSE
    MaxChoices = 1
    MaxTrouble = 2
    MaxBuilds = 2
    MaxApplies = 1
    MaxMoves = 3
INVARIANTS
    OneOwnedDaemon
    PolicyInForce
    SubscribersAreCurrent
PROPERTIES
    RunsToTheEnd
    RebuildIsServed
    SettingsArrive
CHECK_DEADLOCK FALSE
