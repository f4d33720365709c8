SPECIFICATION Spec
CONSTANTS
    Policies = {"loopback", "lan"}
    Initial = "loopback"
    Watch = TRUE
    Subscribers = {}
    Values = {"v1"}
    MayReturn = FALSE
    MaxChoices = 0
    MaxTrouble = 0
    MaxBuilds = 1
    MaxApplies = 1
    MaxMoves = 4
PROPERTIES
    HealthyIsLeftAlone
CHECK_DEADLOCK FALSE
