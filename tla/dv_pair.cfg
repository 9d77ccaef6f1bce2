CONSTANTS
    totRouterNum = 2
    Links = {1}
    Ends <- OneCable
    Lens = {1, 3}
    INF = 50
    InitialLen <- OneLen
    MaxChanges = 2
    StartSettled = FALSE
SPECIFICATION FairSpec
PROPERTY Settles
CHECK_DEADLOCK FALSE
