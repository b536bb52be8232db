SPECIFICATION FairSpec
CONSTANTS
    maxConnections = 2
    MaxFd = 4
    MaxClients = 3
    MaxSends = 2
    MaxFaults = 1
INVARIANTS
    TableIsTheConnections
PROPERTIES
    ServesManyClients
    EveryClientDealtWith
CHECK_DEADLOCK FALSE
