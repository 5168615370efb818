SPECIFICATION Spec
CONSTANTS
    Clients = {"c1", "c2"}
    Operations = {"deploy"}
    MayOverlap = {"deploy"}
    Spaced = FALSE
    Failing = {}
    MaxCalls = 2
INVARIANT
    OneDeploymentAtATime
CHECK_DEADLOCK FALSE
