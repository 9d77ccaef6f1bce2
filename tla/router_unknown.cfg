SPECIFICATION ForwardSpec
CONSTANTS
    Hosts = {4, 5, 6}
    PoolSize = 2
    Width = 4
    internalIPMin = 4
    internalIPMax = 7
    availableIPMin = 12
    Ids = {1, 2, 3, 4}
    Network <- MCNetwork
    Garbage <- MCGarbage
    Added = {5}
    Destinations = {5, 9, 12}
    external = 2
    RouterPorts = {3}
    HostPorts = {4}
INVARIANTS
    ReturnsAPort
CHECK_DEADLOCK FALSE
