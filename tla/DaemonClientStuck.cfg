SPECIFICATION LiveSpec
CONSTANTS
    Requests = {}
    MaxAttach = 1
    MaxBegun = 1
    MaxEvents = 1
    MaxBuffered = 3
    Kinds = {"request", "finished", "error", "exited"}
PROPERTIES
    NeverStuckWorking
CHECK_DEADLOCK FALSE
