SPECIFICATION WirelessFairSpec
CONSTANTS
    Pairings = {1, 2}
    Callers = {"c1"}
    None = None
    Lifetime = 2
    DiscoveryTimeout = 1
    ConnectTimeout = 2
    Addresses = 2
    Steps = 2
    MaxClock = 4
    MaxCrashes = 1
    MaxDrops = 1
INVARIANTS
    PairingReadable
    WaitsEndInTime
    EndedIsQuiet
PROPERTIES
    EndedStoresNothing
    TaskTerminates
CHECK_DEADLOCK FALSE
