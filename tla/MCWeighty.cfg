SPECIFICATION FairSpec
CONSTANTS
    parse = parse
    eval = eval
    sqrt = sqrt
    qsort = qsort
    pragma = pragma
    extern = extern
    Defs <- MCDefs
    Externs = {sqrt, qsort, pragma, extern}
    Pragma = {pragma}
    Library = {sqrt, qsort}
    Builtin = {}
    Pointer = Pointer
    AssumeWeightyInterns = FALSE
    AssumeWeightyExterns = TRUE
    AssumeWeightyLibraries = FALSE
INVARIANTS
    ResultIsClosed
    ResultIsExact
PROPERTIES
    AnalysisEnds
CHECK_DEADLOCK FALSE
