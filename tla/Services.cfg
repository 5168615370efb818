SPECIFICATION PartsSpec
CONSTANTS
    p1 = p1
    p2 = p2
    UTC = UTC
    z = z
    NoZone = NoZone
    States = {s1, s2}
    Callbacks = {c1, c2}
    Refreshers = {r1, r2}
    MaxTokens = 5
    Failing = {}
INVARIANTS
    TypesOK
    TimersFollowRows
    OneRunPerTick
    RoutesFollowDomains
    ServiceIsGone
    RunningMeansRun
    PublishedIsCurrent
    DomainsHaveTheirRecords
    DeletedZoneIsUnpublished
    AliasStandsAlone
    PreviewIsGone
    PreviewsAreBounded
    StatusTellsTheRun
    DoneIsCurrent
    OneDeploymentAtATime
    DoneMeansUp
    StateIsUsedOnce
    ConnectionIsKept
PROPERTIES
    RestartHeals
    NoInvisibleRoute
CHECK_DEADLOCK FALSE
