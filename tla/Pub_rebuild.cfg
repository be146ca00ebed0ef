\* A handler and a rebuilder that overtake each other, with a failing store call.
CONSTANTS
    None = None
    fontA = fontA
    fontB = fontB
    Handlers = {h1}
    Rebuilders = {b1}
    Requests <- Releases
    Rank <- ByVersion
    KeyOrder <- ByString
    Times = {1}
    StateDurable = TRUE
    MaxRequests = 2
    MaxFaults = 1
    MaxCrashes = 0
SPECIFICATION MaintainedSpec
INVARIANTS NeverIndexesNothing
PROPERTIES RebuildRestores
