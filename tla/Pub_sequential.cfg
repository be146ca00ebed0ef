\* One request at a time, with failing store calls, repeated requests and a crash.
CONSTANTS
    None = None
    fontA = fontA
    fontB = fontB
    Handlers = {h1}
    Rebuilders = {}
    Requests <- Publications
    Rank <- ByVersion
    KeyOrder <- ByString
    Times = {1, 2}
    StateDurable = FALSE
    MaxRequests = 3
    MaxFaults = 1
    MaxCrashes = 1
SPECIFICATION LiveSpec
INVARIANTS TypeOK SuccessMeansCurrent HeadsAgree
PROPERTIES ImplementsRegistry ImmutableVersions EveryRequestAnswered
CHECK_DEADLOCK FALSE
