SPECIFICATION Spec
CONSTANTS
    Apps = {a1}
    Requests = {q1, q2}
    Kinds = {"deploy", "delete"}
    MaxJobs = 1
    MaxCrashes = 0
    Groups = 1
    Recoverable = {}
    Retain = 10
    Production = TRUE
    Watchdog = FALSE
    Faulty = FALSE
    None = None
INVARIANTS
    NoUntrackedService
SYMMETRY Symmetry
CHECK_DEADLOCK FALSE
