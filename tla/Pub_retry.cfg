\* One token whose request fails with 503 and is sent again.
CONSTANTS
    None = None
    fontA = fontA
    fontB = fontB
    Handlers = {h1}
    Rebuilders = {}
    Requests <- OneToken
    Rank <- ByVersion
    KeyOrder <- ByString
    Times = {1}
    StateDurable = TRUE
    MaxRequests = 2
    MaxFaults = 1
    MaxCrashes = 0
SPECIFICATION LiveSpec
PROPERTIES RetryIsNoReplay
CHECK_DEADLOCK FALSE
