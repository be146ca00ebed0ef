\* Two versions of one package published at the same time, no failures.
CONSTANTS
    None = None
    fontA = fontA
    fontB = fontB
    Handlers = {h1, h2}
    Rebuilders = {}
    Requests <- Releases
    Rank <- ByVersion
    KeyOrder <- ByString
    Times = {1}
    StateDurable = TRUE
    MaxRequests = 2
    MaxFaults = 0
    MaxCrashes = 0
SPECIFICATION LiveSpec
INVARIANTS AliasMatchesIndex
CHECK_DEADLOCK FALSE
