SPECIFICATION FairSpec
CONSTANTS
    c1 = c1
    c2 = c2
    c3 = c3
    c4 = c4
    c5 = c5
    Payload <- Payload5
    NoData = NoData
    Message <- Message5
    SndW = 3
    RcvW = 2
    StartSeqs = {7}
    LoseData = TRUE
    LoseAck = FALSE
    DupStartAck = FALSE
    Patient = TRUE
INVARIANTS
    TypeOK
    SuccessMeansDelivered
    EndIsAllOrNothing
    AckedIsWritten
PROPERTIES
    TransferSpec
    TransferCompletes
