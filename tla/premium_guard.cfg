SPECIFICATION GuardSpec
CONSTANTS
    Users = {1, 2}
    Scenarios <- Scenarios0
    Workers = {w1}
    Requests = {r1, r2}
    MaxNow = 3
    MaxLag = 0
    ReplayWindow = 9
    MaxCrashes = 1
    CacheTtl = 2
    None = None
    NoRow = NoRow
    Free = Free
SYMMETRY Symmetry
INVARIANT CacheFollowsRevocation
PROPERTY StaleGrantBounded
