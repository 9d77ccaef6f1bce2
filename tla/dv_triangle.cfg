CONSTANTS
    totRouterNum = 3
    Links = {1, 2, 3}
    Ends <- TriangleEnds
    Lens = {1}
    INF = 50
    InitialLen <- TriangleOnes
    MaxChanges = 2
    StartSettled = TRUE
SPECIFICATION Spec
INVARIANTS NextHopDescends NoUnderestimate Converged
CHECK_DEADLOCK FALSE
