SPECIFICATION FairSpec
CONSTANTS
    Clients = {c1, c2}
    Names = {f}
    Credentials = {good, bad}
    Contents = {text, other, large}
    Good = good
    Large = {large}
    None = None
    WaitTimesLim = 6
    WildFree = TRUE
INVARIANTS
    TypeOK
    RepliesMatch
    NeverBothWait
    OnlyLoggedIn
    FlagsAgree
    LoggedInIsServed
PROPERTIES
    ServiceSpec
    Answered
    Stored
CHECK_DEADLOCK FALSE
