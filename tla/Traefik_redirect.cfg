SPECIFICATION FilesSpec
CONSTANTS
    Sites = {d1, d2}
    Paths = {d1}
    Middlewares = {m1}
    Writers = {c1, c2}
    Nobody = Nobody
    Mutations = {"manage", "remove", "addMiddleware", "updateMiddleware", "removeMiddleware"}
    MaxTries = 2
    MaxCrashes = 0
    Exclusive = FALSE
    Unreadable = FALSE
PROPERTIES NoLostUpdate
