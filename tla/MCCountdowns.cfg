SPECIFICATION FairSpec
CONSTANTS
    Thread = {1, 2}
    Main = 1
    Environments <- MCEnvironments
    BankSize = 2
    MaxDraws = 3
INVARIANTS
    StreamsInOrder SeededAsTold ChildStops
PROPERTIES
    FaultsAfterReport ThreadsSample
