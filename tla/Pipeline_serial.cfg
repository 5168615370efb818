SPECIFICATION Spec
CONSTANTS
    Apps = {a1}
    Requests = {q1}
    Kinds = {"deploy", "cancelDeployment", "killBuild", "killProcess", "cleanQueues", "reload", "start", "stop", "markRunning", "delete"}
    MaxJobs = 1
    MaxCrashes = 1
    Groups = 2
    Recoverable = {1}
    Retain = 10
    Production = TRUE
    Watchdog = TRUE
    Faulty = TRUE
    None = None
INVARIANTS
    TypeOK
    NoUntrackedService
    NoAbandonedRunningRow
    DeletionGuard
CHECK_DEADLOCK FALSE
