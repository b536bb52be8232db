SPECIFICATION FairSpec
CONSTANTS
    Port = {1, 2}
    DefPort = 1
    Timeout = {6}
    DefTimeout = 6
    Override = {2}
    DefOverride = 2
    BaudRate = {9, 4}
    DefBaudRate = 9
    Form <- ThereAndBack
    MaxClients = 1
    MaxPosts = 2
    MaxResets = 1
INVARIANTS
    OneListener
    SettingsInForce
PROPERTIES
    ChangeTakesEffect
CHECK_DEADLOCK FALSE
