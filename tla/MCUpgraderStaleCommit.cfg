SPECIFICATION Spec
CONSTANTS
    o1 = o1
    o2 = o2
    Ops = {o1, o2}
    Packages = {base, p1, p2}
    Base = base
    BaseCommit = base
    NoPackage = NoPackage
    Torn = Torn
    Mixed = Mixed
    MaxRequests = 2
    MaxCrashes = 1
    MaxRollbacks = 1
    StartLimit = 3
    Rank <- MCRank
    RecentLimit = 1
    RetryRolledBack = TRUE
PROPERTIES
    SuccessMeansInstalled
CHECK_DEADLOCK FALSE
