SPECIFICATION Spec
CONSTANTS
    Apps = {a1}
    Requests = {q1}
    Kinds = {"deploy", "cancelDeployment"}
    MaxJobs = 1
    MaxCrashes = 0
    Groups = 2
    Recoverable = {1}
    Retain = 10
    Production = TRUE
    Watchdog = FALSE
    Faulty = FALSE
    None = None
PROPERTIES
    CancelledIsFinal
CHECK_DEADLOCK FALSE
