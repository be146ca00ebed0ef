\* One update at a time, and two processes that read.
CONSTANTS
    None = None
    fontA = fontA
    fontB = fontB
    Handlers = {h1}
    Rebuilders = {}
    Requests <- Releases
    Rank <- ByVersion
    KeyOrder <- ByVersion
    Times = {1}
    StateDurable = TRUE
    MaxRequests = 2
    MaxFaults = 0
    MaxCrashes = 0
    r1 = r1
    r2 = r2
    Readers = {r1, r2}
    Questions <- Asks
    Elsewhere <- Mirror
    MaxReads = 2
SPECIFICATION ReadSpec
INVARIANTS ReadTypeOK CacheMatches RootAnswerIsTheServers NamedIsReadable MissingIsMissing SuccessIsVisible ListingsGoForward
CHECK_DEADLOCK FALSE
