SPECIFICATION Spec
CONSTANTS
    Size = 6
    MaxGotos = 1
    Weights <- MCWeights
INVARIANTS
    FlowIsKept
    CyclesAreCut
    WeightIsTight
    CasesAreRedirected
    BalancedPathsAgree
CHECK_DEADLOCK FALSE
