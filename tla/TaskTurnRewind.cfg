SPECIFICATION Spec
CONSTANTS
    r1 = r1
    r2 = r2
    None = None
    Runtimes <- TwoRuntimes
    MaxTurns = 1
    MaxAsks = 0
    MaxBacklog = 1
    May = {"archive", "rewind"}
PROPERTIES
    ShelfMarkStays
SYMMETRY EitherFirst
CHECK_DEADLOCK FALSE
