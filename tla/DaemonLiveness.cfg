SPECIFICATION FairSpec
CONSTANTS
    Clients = {c1, c2}
    MaxCalls = 1
    MaxDaemons = 3
    MaxFaults = 1
    Env = {"crash", "service"}
    HttpPort <- MCHttpPort
    ServicePort = 1
CHECK_DEADLOCK FALSE
PROPERTIES
    EveryCallReturns
    CallSucceedsUnlessDaemonDies
