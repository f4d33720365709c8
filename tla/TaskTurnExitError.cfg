SPECIFICATION Spec
CONSTANTS
    r1 = r1
    r2 = r2
    None = None
    Runtimes <- TwoRuntimes
    MaxTurns = 1
    MaxAsks = 0
    MaxBacklog = 2
    May = {"error", "exit"}
PROPERTIES
    ExitSettles
SYMMETRY EitherFirst
CHECK_DEADLOCK FALSE
