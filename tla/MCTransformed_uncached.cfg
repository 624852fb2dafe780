SPECIFICATION Spec
CONSTANTS
    Func <- MCFunc
    Roots <- MCRoots
    Node <- MCNode
    Owner <- MCOwner
    Entry <- MCEntry
    Succ <- MCSucc
    Scale <- MCScaleBig
    Callee <- MCCallee
    BackJumps <- MCBackJumps
    Weighty <- MCWeighty
    Weight <- MCWeightBig
    MaxDepth = 4
    Modulus = 16
    Fresh = {1, 2, 3, 5}
    NoEvent = NoEvent
    CacheCountdown = FALSE
    BalancePaths = FALSE
    SpecializeEmpty = FALSE
    SpecializeSingleton = FALSE
PROPERTIES
    SamplesOnSchedule
CHECK_DEADLOCK FALSE
