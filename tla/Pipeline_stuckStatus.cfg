SPECIFICATION FairSpec
CONSTANTS
    Apps = {a1}
    Requests = {q1}
    Kinds = {"deploy", "delete"}
    MaxJobs = 1
    MaxCrashes = 1
    Groups = 1
    Recoverable = {}
    Retain = 10
    Production = TRUE
    Watchdog = FALSE
    Faulty = FALSE
    None = None
PROPERTIES
    ApplicationSettles
CHECK_DEADLOCK FALSE
