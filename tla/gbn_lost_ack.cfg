SPECIFICATION FairSpec
CONSTANTS
    c1 = c1
    c2 = c2
    c3 = c3
    c4 = c4
    c5 = c5
    Payload <- Payload5
    NoData = NoData
    Message <- Message3
    SndW = 2
    RcvW = 2
    StartSeqs = {7}
    LoseData = TRUE
    LoseAck = TRUE
    DupStartAck = FALSE
    Patient = TRUE
PROPERTIES
    SendMessageReturns
