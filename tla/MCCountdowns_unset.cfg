SPECIFICATION Spec
CONSTANTS
    Thread = {1, 2}
    Main = 1
    Environments <- MCUnset
    BankSize = 2
    MaxDraws = 3
INVARIANTS
    UnsetDisablesSampling
