SPECIFICATION FairSpec
CONSTANTS
    Base = 3
    Types = {0, 1}
    SizeMax = 15
    MaxPayload = 2
    SocketBuffer = 4
    MaxSent = 2
INVARIANTS
    TypeOK
PROPERTIES
    ChannelSpec
    Delivered
CHECK_DEADLOCK FALSE
