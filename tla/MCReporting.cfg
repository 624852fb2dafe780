SPECIFICATION FairSpec
CONSTANTS
    main = main
    worker = worker
    app = app
    plugin = plugin
    Thread = {main, worker}
    Main = main
    Unit = {app, plugin}
    Signal = {"SEGV", "ABRT"}
    Nobody = Nobody
    Locks = TRUE
    Crashes = {"SEGV", "ABRT"}
    Reentrant = FALSE
    Recurring = FALSE
    LateLoads = FALSE
    Forks = TRUE
    MaxLoads = 2
INVARIANTS
    RegistryIsExact
    ReportWellFormed
    ReportIsComplete
    EveryLoadDelivered
    CrashLeavesBacktrace
PROPERTIES
    ReportingEnds
CHECK_DEADLOCK FALSE
