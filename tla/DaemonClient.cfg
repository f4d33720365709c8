SPECIFICATION LiveSpec
CONSTANTS
    Requests = {"q1"}
    MaxAttach = 2
    MaxBegun = 2
    MaxEvents = 2
    MaxBuffered = 1
    Kinds = {"request", "finished"}
INVARIANTS
    OwnerKeepsStream
    StreamIsWhole
    RequestsAreKept
PROPERTIES
    DisconnectAnswers
    EndIsTold
CHECK_DEADLOCK FALSE
