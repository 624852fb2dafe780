SPECIFICATION FairSpec
CONSTANTS
    k1 = k1
    k2 = k2
    Kids = {k1, k2}
    Capacity = 2
    Sections = 2
    Threaded = TRUE
INVARIANTS
    WholeReport
    DescriptorsKept
PROPERTIES
    PipeIsChannel
    ReportIsTaken
    WrapperFollows
CHECK_DEADLOCK FALSE
