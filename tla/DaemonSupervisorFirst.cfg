SPECIFICATION LiveSpec
CONSTANTS
    Policies = {"loopback"}
    Initial = "loopback"
    Watch = TRUE
    Subscribers = {}
    Values = {"v1"}
    MayReturn = FALSE
    MaxChoices = 0
    MaxTrouble = 0
    MaxBuilds = 2
    MaxApplies = 0
    MaxMoves = 1
PROPERTIES
    EveryBuildIsServed
CHECK_DEADLOCK FALSE
