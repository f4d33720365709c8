SPECIFICATION LiveSpec
CONSTANTS
    Policies = {"loopback"}
    Initial = "loopback"
    Watch = TRUE
    Subscribers = {}
    Values = {"v1", "v2"}
    MayReturn = TRUE
    MaxChoices = 3
    MaxTrouble = 0
    MaxBuilds = 1
    MaxApplies = 0
    MaxMoves = 4
PROPERTIES
    SettingsArrive
CHECK_DEADLOCK FALSE
