SPECIFICATION Spec
CONSTANTS
    h1 = h1
    h2 = h2
    k1 = k1
    k2 = k2
    None = None
    Handlers <- MCHandlers
    Kids <- MCKids
    Initial <- MCInitial
    Tokens <- MCTokens
    TTL = 2
    Window = 1
    MaxTime = 2
    MaxRequests = 3
    MaxFaults = 1
INVARIANTS TypeOK CacheHonest RetiredKeysExpire CurrentKeyFound OnlySigned
SYMMETRY Symmetry
CHECK_DEADLOCK FALSE
