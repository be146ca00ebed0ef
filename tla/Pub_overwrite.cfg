\* Two requests for one version key at the same time.
CONSTANTS
    None = None
    fontA = fontA
    fontB = fontB
    Handlers = {h1, h2}
    Rebuilders = {}
    Requests <- Publications
    Rank <- ByVersion
    KeyOrder <- ByString
    Times = {1}
    StateDurable = TRUE
    MaxRequests = 2
    MaxFaults = 0
    MaxCrashes = 0
SPECIFICATION LiveSpec
PROPERTIES ImmutableVersions
CHECK_DEADLOCK FALSE
