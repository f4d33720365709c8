SPECIFICATION FairSpec
CONSTANTS
    r1 = r1
    r2 = r2
    None = None
    Runtimes <- TwoRuntimes
    MaxTurns = 2
    MaxAsks = 2
    MaxBacklog = 1
    May = {"archive", "restart", "exit"}
INVARIANTS
    StatusIsTrue
    ShelfIsQuiet
    DiskIsCurrent
PROPERTIES
    ShelfMarkStays
    EndedStays
    TurnEnds
CHECK_DEADLOCK FALSE
