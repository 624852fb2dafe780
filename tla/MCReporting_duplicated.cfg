SPECIFICATION Spec
CONSTANTS
    main = main
    worker = worker
    app = app
    plugin = plugin
    Thread = {main}
    Main = main
    Unit = {app, plugin}
    Signal = {"SEGV"}
    Nobody = Nobody
    Locks = FALSE
    Crashes = {}
    Reentrant = FALSE
    Recurring = FALSE
    LateLoads = FALSE
    Forks = TRUE
    MaxLoads = 1
INVARIANTS
    EachLoadReportedOnce
CHECK_DEADLOCK FALSE
