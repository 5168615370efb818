SPECIFICATION Spec
CONSTANTS
    Domains = {"d1"}
    Hosts = {"h1", "h2"}
    Clients = {"c1", "c2"}
    Operations = {"add", "move", "upsertCNAME"}
    Faults = {"reload"}
    HandedOn = FALSE
    MaxCalls = 3
INVARIANT
    AliasStandsAlone
CHECK_DEADLOCK FALSE
