SPECIFICATION Spec
CONSTANTS
    Clients = {c1, c2}
    MaxCalls = 1
    MaxDaemons = 3
    MaxFaults = 2
    Env = {"crash", "sigterm", "shutdown", "accepterror", "launchfail", "spawnfail", "slowstart", "calltimeout", "handlertimeout", "service"}
    HttpPort <- MCHttpPort
    ServicePort = 1
CHECK_DEADLOCK FALSE
INVARIANTS
    OneBrowser
    ListenerReachable
    AtMostOnce
    SpawnsBounded
PROPERTIES
    ImplementsToolService
