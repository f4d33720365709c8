SPECIFICATION Spec
CONSTANTS
    r1 = r1
    r2 = r2
    None = None
    Runtimes <- TwoRuntimes
    MaxTurns = 1
    MaxAsks = 1
    MaxBacklog = 2
    May = {"archive", "error"}
INVARIANTS
    ShelfIsQuiet
SYMMETRY EitherFirst
CHECK_DEADLOCK FALSE
