SPECIFICATION FairSpec
CONSTANTS
    Composes <- MCComposes
    Domains = {d1}
    Clients = {c1}
    Kinds = {"service", "rebuild"}
    PoolSize = 3
    Unattached = Unattached
    Fresh = Fresh
    Absent = Absent
PROPERTY
    RedeployEnds
CHECK_DEADLOCK FALSE
