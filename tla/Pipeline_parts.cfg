SPECIFICATION PartsSpec
CONSTANTS
    a1 = a1
    q1 = q1
    q2 = q2
    None = None
    Sites = {d1, d2}
    Paths = {d1}
    Middlewares = {m1}
    Writers = {c1, c2}
    Nobody = Nobody
    Mutations = {"manage", "remove", "addMiddleware", "updateMiddleware", "removeMiddleware"}
    MaxTries = 2
    MaxCrashes = 1
    Exclusive = TRUE
    Unreadable = FALSE
    Phases = 2
    Retryable = {2}
    MaxAttempts = 3
    MaxDrops = 2
INVARIANTS
    DeletionGuard
    OnlyTheNewestRowRuns
    PhaseTypeOK
    NoProcessLeftBehind
    FilesTypeOK
    NoDanglingMiddleware
PROPERTIES
    NoLostUpdate
    CancelReachesPhases
CHECK_DEADLOCK FALSE
