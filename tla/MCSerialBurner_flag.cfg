SPECIFICATION Spec
CONSTANTS
    Port = {1, 2}
    DefPort = 1
    Timeout = {6}
    DefTimeout = 6
    Override = {2}
    DefOverride = 2
    BaudRate = {9}
    DefBaudRate = 9
    Form <- PortOnly
    MaxClients = 0
    MaxPosts = 1
    MaxResets = 0
INVARIANT FlagTellsOfChange
CHECK_DEADLOCK FALSE
