SPECIFICATION Spec
CONSTANTS
    Func <- MCFunc
    Roots <- MCRoots
    Node <- MCNode
    Owner <- MCOwner
    Entry <- MCEntry
    Succ <- MCSucc
    Scale <- MCScale
    Callee <- MCCallee
    BackJumps <- MCBackJumps
    Weighty <- MCWeighty
    Weight <- MCWeight
    MaxDepth = 1
    Modulus = 16
    Fresh = {2, 3}
    NoEvent = NoEvent
    CacheCountdown = TRUE
    BalancePaths = TRUE
    SpecializeEmpty = TRUE
    SpecializeSingleton = TRUE
INVARIANTS
    NextSampleInReach
CHECK_DEADLOCK FALSE
