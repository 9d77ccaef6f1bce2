SPECIFICATION Spec
CONSTANTS
    Mac = {m1, m2, m3}
    Ports = {1, 2, 3}
    Threshold = 3
INVARIANTS
    TypeOK
    TableIsRecent
PROPERTIES
    ForwardsByHearing
