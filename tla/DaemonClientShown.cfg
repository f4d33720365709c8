SPECIFICATION Spec
CONSTANTS
    Requests = {}
    MaxAttach = 1
    MaxBegun = 1
    MaxEvents = 4
    MaxBuffered = 3
    Kinds = {"request", "finished", "error", "exited"}
INVARIANTS
    NewestIsShown
CHECK_DEADLOCK FALSE
