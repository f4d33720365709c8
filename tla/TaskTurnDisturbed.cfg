SPECIFICATION Spec
CONSTANTS
    r1 = r1
    r2 = r2
    None = None
    Runtimes <- TwoRuntimes
    MaxTurns = 2
    MaxAsks = 1
    MaxBacklog = 1
    May = {"overlap", "replace", "rewind", "error", "exit"}
INVARIANTS
    OnlyLastRuns
    CountsAreSequential
PROPERTIES
    CloseSettles
    EndedStays
SYMMETRY EitherFirst
CHECK_DEADLOCK FALSE
