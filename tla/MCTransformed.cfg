SPECIFICATION FairSpec
CONSTANTS
    Func <- MCFunc
    Roots <- MCRoots
    Node <- MCNode
    Owner <- MCOwner
    Entry <- MCEntry
    Succ <- MCSucc
    Scale <- MCScale
    Callee <- MCCallee
    BackJumps <- MCBackJumps
    Weighty <- MCWeighty
    Weight <- MCWeight
    MaxDepth = 4
    Modulus = 16
    Fresh = {1, 2, 3, 5}
    NoEvent = NoEvent
    CacheCountdown = TRUE
    BalancePaths = FALSE
    SpecializeEmpty = TRUE
    SpecializeSingleton = TRUE
INVARIANTS
    OneHolder
    FastPathCovered
PROPERTIES
    SamplesOnSchedule
    SitesAreSampled
CHECK_DEADLOCK FALSE
