SPECIFICATION PartsSpec
CONSTANTS
    Composes <- MCComposes
    Domains = {d1, d2}
    Clients = {c1, c2}
    Kinds = {"service", "create", "domain", "rebuild"}
    PoolSize = 2
    Unattached = Unattached
    Fresh = Fresh
    Absent = Absent
    a1 = a1
    q1 = q1
    None = None
INVARIANT
    TypeOK
PROPERTIES
    ImplementsSerialRouting
    MutationEnds
    CancelHonoured
    EveryJobEnds
    ApplicationSettles
CHECK_DEADLOCK FALSE
