CONSTANTS
    totRouterNum = 3
    Links = {1, 2}
    Ends <- LineEnds
    Lens = {1, 3}
    INF = 50
    InitialLen <- LineLen
    MaxChanges = 1
    StartSettled = FALSE
SPECIFICATION Spec
INVARIANTS TypeOK Converged
CHECK_DEADLOCK FALSE
