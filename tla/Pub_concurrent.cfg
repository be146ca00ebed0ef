\* Two requests at the same time, with a failing store call and a crash.
CONSTANTS
    None = None
    fontA = fontA
    fontB = fontB
    Handlers = {h1, h2}
    Rebuilders = {}
    Requests <- Claims
    Rank <- ByVersion
    KeyOrder <- ByString
    Times = {1}
    StateDurable = TRUE
    MaxRequests = 3
    MaxFaults = 1
    MaxCrashes = 1
SPECIFICATION Spec
SYMMETRY Symmetry
INVARIANTS Discoverability OwnVersionListed AdmittedAtMostOnce PublishedByOwner
CHECK_DEADLOCK FALSE
