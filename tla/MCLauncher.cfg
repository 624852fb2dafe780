SPECIFICATION FairSpec
CONSTANTS
    w1 = w1
    w2 = w2
    home = home
    NoUrl = NoUrl
    Wrappers = {w1, w2}
    LongReports = {w1}
    Rates = {0, 1}
    Urls = {home}
    MaxChanges = 1
INVARIANTS
    ConsentBeforeSampling
    ConsentBeforeUpload
    ParticipantsReport
    TrayKnowsItsClients
PROPERTIES
    EverythingEnds
CHECK_DEADLOCK FALSE
