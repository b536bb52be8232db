SPECIFICATION FairSpec
CONSTANTS
    INCOMING_BUF_SIZE = 6
    Texts <- MCTexts
    MaxFd = 2
    MaxBrowsers = 2
    Piece = 1
    MaxFlips = 1
INVARIANTS
    OneWebSocket
    MessagesWhole
PROPERTIES
    EveryMessageObeyed
    PageShowsSwitches
    ReportsReachPages
    LostIsReleased
CHECK_DEADLOCK FALSE
