SPECIFICATION Spec
CONSTANTS
    Domains = {"d1"}
    Clients = {"c1", "c2"}
    Operations = {"delete", "addDomain"}
    Failing = {}
    MaxCalls = 2
    Exclusive = FALSE
INVARIANT
    NothingLeftBehind
CHECK_DEADLOCK FALSE
