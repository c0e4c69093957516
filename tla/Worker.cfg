CONSTANTS
    N = 2
    Workers = {w1}
    WriteFaults = TRUE
SPECIFICATION Spec
INVARIANTS ReportMatchesRegistry
PROPERTIES FailedNotRelaunched
