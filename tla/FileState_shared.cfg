\* Three callers in two processes, with failing file operations and a crash.
CONSTANTS
    None = None
    c1 = c1
    c2 = c2
    c3 = c3
    s1 = s1
    s2 = s2
    Callers = {c1, c2, c3}
    Servers = {s1, s2}
    Home <- TwoServers
    JTIs = {t1, t2}
    PackageIDs = {fontA}
    RepositoryIDs = {id1, id2}
    MaxCalls = 3
    MaxFaults = 1
    MaxCrashes = 1
SPECIFICATION LiveSpec
INVARIANTS TypeOK LockProtects StaleLockExplained
PROPERTIES NothingForgotten ImplementsStateStore ReturnsUnlessStale
CHECK_DEADLOCK FALSE
