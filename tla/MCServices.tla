----------------------------- MODULE MCServices -----------------------------
(***************************************************************************)
(* Instances for TLC of the six modules that nothing composes: they share no *)
(* state, so one run checks them side by side.  A behaviour is one of one     *)
(* part: `part` says which, its module's variables are that module's, and    *)
(* the variables of the other modules are Unused; those of GitlabConnection,  *)
(* which this module extends, stay as they are at the start.  A variable that *)
(* two modules declare is the one of the part at hand.                       *)
(* Where a part's properties are theorems, its instance is of the module with *)
(* the proofs, which extends the component's: Services_proofs cites them.     *)
(***************************************************************************)
EXTENDS GitlabConnection, Sequences

CONSTANTS
    p1, p2,          \* cron expressions
    UTC, z, NoZone   \* time zones of schedules, and their absence

VARIABLES
    part,
    rows, timers, queue, platform, service, req, calls, starts, deployments, jobs,
    lock, domains, records, file, stack, worker, zone, hosts, published, publisher,
    call, begun, application, pulls, previews, routes, services, source, missed,
    disturbed, inserted, swarm, overlooked

vars == <<part, connection, rows, timers, queue, platform, service, req, calls, starts, deployments,
          jobs, lock, domains, records, file, stack, worker, zone, hosts, published,
          publisher, call, begun, application, pulls, previews, routes, services,
          source, missed, disturbed, inserted, swarm, overlooked>>

-----------------------------------------------------------------------------
(* Jobs: of the local host; of remote servers; and these with two procedures  *)
(* that are interrupted by restarts of either process.                       *)

KindOf(j) == CASE j \in {"backup1", "backup2"} -> "backup" [] j = "schedule1" -> "schedule" [] OTHER -> "volume-backup"
MixedJobs == {"backup1", "schedule1", "volume1"}
RemoteJobs == {"backup1", "backup2", "volume1"}

Local == INSTANCE JobScheduling WITH
    Jobs <- MixedJobs, Kind <- [j \in MixedJobs |-> KindOf(j)], Remote <- {}, OfDatabase <- {}, Owned <- {},
    Patterns <- {p1, p2}, Zones <- {UTC, z}, Requests <- {"r1"},
    MaxCalls <- 3, MaxPlatformStarts <- 2, MaxServiceStarts <- 1, InOrder <- TRUE

Away == INSTANCE JobScheduling WITH
    Jobs <- RemoteJobs, Kind <- [j \in RemoteJobs |-> KindOf(j)], Remote <- RemoteJobs, OfDatabase <- {}, Owned <- RemoteJobs,
    Patterns <- {p1, p2}, Zones <- {UTC}, Requests <- {"r1"},
    MaxCalls <- 3, MaxPlatformStarts <- 1, MaxServiceStarts <- 3, InOrder <- TRUE

Restarted == INSTANCE JobScheduling WITH
    Jobs <- MixedJobs, Kind <- [j \in MixedJobs |-> KindOf(j)], Remote <- MixedJobs, OfDatabase <- {}, Owned <- {"backup1", "volume1"},
    Patterns <- {p1, p2}, Zones <- {UTC}, Requests <- {"r1", "r2"},
    MaxCalls <- 2, MaxPlatformStarts <- 2, MaxServiceStarts <- 2, InOrder <- TRUE

-----------------------------------------------------------------------------
(* One Compose service: its domains beside its deployments; two domains; its  *)
(* deployments beside the cancellations and stops.                           *)

Routing == INSTANCE ComposeLifecycle_proofs WITH
    Domains <- {"d1"}, Clients <- {"c1", "c2"},
    Operations <- {"deploy", "addDomain", "removeDomain", "stop", "delete"},
    Failing <- {"build", "command", "dns", "undo", "row", "route"}, MaxCalls <- 4, Exclusive <- TRUE

TwoDomains == INSTANCE ComposeLifecycle WITH
    Domains <- {"d1", "d2"}, Clients <- {"c1", "c2"},
    Operations <- {"deploy", "addDomain", "removeDomain", "stop", "delete"},
    Failing <- {"build", "command", "dns", "row"}, MaxCalls <- 4, Exclusive <- TRUE

Cancelling == INSTANCE ComposeLifecycle_proofs WITH
    Domains <- {"d1"}, Clients <- {"c1", "c2"},
    Operations <- {"deploy", "cleanQueues", "cancelDeployment", "start", "stop", "delete"},
    Failing <- {"build", "log", "command"}, MaxCalls <- 3, Exclusive <- TRUE

-----------------------------------------------------------------------------
(* One zone: managed domains while the DNS container fails to reload; and     *)
(* managed domains beside records written by hand.                           *)

Zone == INSTANCE ManagedDns_proofs WITH
    Domains <- {"d1", "d2"}, Hosts <- {"h1", "h2"}, Clients <- {"c1", "c2"},
    Operations <- {"add", "move", "remove", "publish", "deleteZone"},
    Faults <- {"reload"}, HandedOn <- FALSE, MaxCalls <- 3

ByHand == INSTANCE ManagedDns_proofs WITH
    Domains <- {"d1", "d2"}, Hosts <- {"h1", "h2"}, Clients <- {"c1", "c2"},
    Operations <- {"add", "move", "remove", "upsertA", "upsertCNAME", "deleteRecords"},
    Faults <- {}, HandedOn <- TRUE, MaxCalls <- 4

-----------------------------------------------------------------------------
(* Previews: one pull request whose previews are made, closed and deleted while *)
(* anything fails; two pull requests and everything a user may do; pushes     *)
(* beside redeployments; the limit.  Two webhooks are under way at a time but  *)
(* in "used".                                                                *)

Reviewed == INSTANCE PreviewDeployments WITH
    PullRequests <- {"p1"}, Handlers <- {"w1", "w2"}, Users <- {"u1"},
    Operations <- {"opened", "synchronize", "labeled", "closed", "delete"},
    Failing <- {"comment", "build", "dns", "service", "route", "row"},
    PreviewLimit <- 1, MaxPreviews <- 2, MaxCalls <- 3

Used == INSTANCE PreviewDeployments WITH
    PullRequests <- {"p1", "p2"}, Handlers <- {"w1"}, Users <- {"u1"},
    Operations <- {"opened", "synchronize", "closed", "cancel", "delete", "deleteDomain", "deleteApplication"},
    Failing <- {"comment", "service", "deployments", "code", "route"},
    PreviewLimit <- 1, MaxPreviews <- 2, MaxCalls <- 3

Pushed == INSTANCE PreviewDeployments WITH
    PullRequests <- {"p1"}, Handlers <- {"w1", "w2"}, Users <- {"u1"},
    Operations <- {"opened", "synchronize", "redeploy", "labeled"},
    Failing <- {"build", "log"}, PreviewLimit <- 1, MaxPreviews <- 2, MaxCalls <- 4

Limited == INSTANCE PreviewDeployments WITH
    PullRequests <- {"p1", "p2"}, Handlers <- {"w1", "w2"}, Users <- {"u1"},
    Operations <- {"opened", "synchronize", "unlabeled", "closed"},
    Failing <- {}, PreviewLimit <- 0, MaxPreviews <- 3, MaxCalls <- 3

-----------------------------------------------------------------------------
(* One MongoDB service: its procedures, in turn but for deployments; and      *)
(* deployments whose rows outlive them, with restarts and the passing of time.*)

Database == INSTANCE MongoService_proofs WITH
    Clients <- {"c1", "c2"}, MayOverlap <- {"deploy", "saveExternalPort"}, Spaced <- TRUE,
    Operations <- {"deploy", "saveExternalPort", "stop", "start", "reload", "rebuild", "remove"},
    Failing <- {"pull", "build"}, MaxCalls <- 4

Aged == INSTANCE MongoService_proofs WITH
    Clients <- {"c1", "c2"}, MayOverlap <- {"deploy", "saveExternalPort"}, Spaced <- TRUE,
    Operations <- {"deploy", "saveExternalPort"},
    Failing <- {"pull", "log", "restart"}, MaxCalls <- 3

-----------------------------------------------------------------------------
(* One GitLab provider is the part "gitlab": two states, two callbacks and two *)
(* refreshes, as the constants of GitlabConnection say.                      *)

ASSUME Assumptions ==
    Local!SchedulingAssumption /\ Away!SchedulingAssumption /\ Restarted!SchedulingAssumption

-----------------------------------------------------------------------------
(* Which variables each part leaves alone.                                  *)

Unused == "unused"

NotOfScheduling ==
    <<connection, deployments, jobs, lock, domains, records, file, stack, worker, zone, hosts,
      published, publisher, call, begun, application, pulls, previews, routes,
      services, source, missed, disturbed, inserted, swarm, overlooked>>
OnlyScheduling ==
    /\ Init
    /\ deployments = Unused /\ jobs = Unused /\ lock = Unused /\ domains = Unused
    /\ records = Unused /\ file = Unused /\ stack = Unused /\ worker = Unused
    /\ zone = Unused /\ hosts = Unused /\ published = Unused /\ publisher = Unused
    /\ call = Unused /\ begun = Unused /\ application = Unused /\ pulls = Unused
    /\ previews = Unused /\ routes = Unused /\ services = Unused /\ source = Unused
    /\ missed = Unused /\ disturbed = Unused /\ inserted = Unused /\ swarm = Unused /\ overlooked = Unused

NotOfCompose ==
    <<connection, rows, timers, queue, platform, starts, zone, hosts, published, publisher, call,
      begun, application, pulls, previews, routes, services, source, missed,
      disturbed, inserted, swarm, overlooked>>
OnlyCompose ==
    /\ Init
    /\ rows = Unused /\ timers = Unused /\ queue = Unused /\ platform = Unused
    /\ starts = Unused /\ zone = Unused /\ hosts = Unused /\ published = Unused
    /\ publisher = Unused /\ call = Unused /\ begun = Unused /\ application = Unused
    /\ pulls = Unused /\ previews = Unused /\ routes = Unused /\ services = Unused
    /\ source = Unused /\ missed = Unused /\ disturbed = Unused /\ inserted = Unused /\ swarm = Unused
    /\ overlooked = Unused

NotOfDns ==
    <<connection, rows, timers, queue, platform, service, req, calls, starts, deployments, jobs,
      lock, domains, file, stack, worker, application, pulls, previews, routes,
      services, source, missed, disturbed, inserted, swarm, overlooked>>
OnlyDns ==
    /\ Init
    /\ rows = Unused /\ timers = Unused /\ queue = Unused /\ platform = Unused
    /\ service = Unused /\ req = Unused /\ calls = Unused /\ starts = Unused
    /\ deployments = Unused /\ jobs = Unused /\ lock = Unused /\ domains = Unused
    /\ file = Unused /\ stack = Unused /\ worker = Unused /\ application = Unused
    /\ pulls = Unused /\ previews = Unused /\ routes = Unused /\ services = Unused
    /\ source = Unused /\ missed = Unused /\ disturbed = Unused /\ inserted = Unused /\ swarm = Unused
    /\ overlooked = Unused

NotOfPreview ==
    <<connection, rows, timers, platform, service, starts, deployments, jobs, lock, records,
      file, stack, zone, hosts, published, publisher, call, begun, swarm, overlooked>>
OnlyPreview ==
    /\ Init
    /\ rows = Unused /\ timers = Unused /\ platform = Unused /\ service = Unused
    /\ starts = Unused /\ deployments = Unused /\ jobs = Unused /\ lock = Unused
    /\ records = Unused /\ file = Unused /\ stack = Unused /\ zone = Unused
    /\ hosts = Unused /\ published = Unused /\ publisher = Unused /\ call = Unused
    /\ begun = Unused /\ swarm = Unused /\ overlooked = Unused

NotOfMongo ==
    <<connection, timers, queue, platform, starts, deployments, jobs, lock, domains, records,
      file, stack, worker, zone, hosts, published, publisher, call, begun,
      application, pulls, previews, routes, services, source, missed, disturbed,
      inserted>>
OnlyMongo ==
    /\ Init
    /\ timers = Unused /\ queue = Unused /\ platform = Unused /\ starts = Unused
    /\ deployments = Unused /\ jobs = Unused /\ lock = Unused /\ domains = Unused
    /\ records = Unused /\ file = Unused /\ stack = Unused /\ worker = Unused
    /\ zone = Unused /\ hosts = Unused /\ published = Unused /\ publisher = Unused
    /\ call = Unused /\ begun = Unused /\ application = Unused /\ pulls = Unused
    /\ previews = Unused /\ routes = Unused /\ services = Unused /\ source = Unused
    /\ missed = Unused /\ disturbed = Unused /\ inserted = Unused

NotOfGitlab == <<rows, timers, queue, platform, service, req, calls, starts,
                 deployments, jobs, lock, domains, records, file, stack, worker,
                 zone, hosts, published, publisher, call, begun, application, pulls,
                 previews, routes, services, source, missed, disturbed, inserted, swarm,
                 overlooked>>
OnlyGitlab ==
    /\ Init
    /\ rows = Unused /\ timers = Unused /\ queue = Unused /\ platform = Unused
    /\ service = Unused /\ req = Unused /\ calls = Unused /\ starts = Unused
    /\ deployments = Unused /\ jobs = Unused /\ lock = Unused /\ domains = Unused
    /\ records = Unused /\ file = Unused /\ stack = Unused /\ worker = Unused
    /\ zone = Unused /\ hosts = Unused /\ published = Unused /\ publisher = Unused
    /\ call = Unused /\ begun = Unused /\ application = Unused /\ pulls = Unused
    /\ previews = Unused /\ routes = Unused /\ services = Unused /\ source = Unused
    /\ missed = Unused /\ disturbed = Unused /\ inserted = Unused /\ swarm = Unused /\ overlooked = Unused

-----------------------------------------------------------------------------
PartsInit ==
    \/ OnlyScheduling /\ (\/ part = "local" /\ Local!Init
                          \/ part = "away" /\ Away!Init
                          \/ part = "restarted" /\ Restarted!Init)
    \/ OnlyCompose /\ (\/ part = "routing" /\ Routing!Init
                       \/ part = "two domains" /\ TwoDomains!Init
                       \/ part = "cancelling" /\ Cancelling!Init)
    \/ OnlyDns /\ (\/ part = "zone" /\ Zone!Init
                   \/ part = "by hand" /\ ByHand!Init)
    \/ OnlyPreview /\ (\/ part = "reviewed" /\ Reviewed!Init
                       \/ part = "used" /\ Used!Init
                       \/ part = "pushed" /\ Pushed!Init
                       \/ part = "limited" /\ Limited!Init)
    \/ OnlyMongo /\ (\/ part = "database" /\ Database!Init
                     \/ part = "aged" /\ Aged!Init)
    \/ OnlyGitlab /\ part = "gitlab"

PartsNext ==
    /\ UNCHANGED part
    /\ \/ part = "local" /\ Local!Next /\ UNCHANGED NotOfScheduling
       \/ part = "away" /\ Away!Next /\ UNCHANGED NotOfScheduling
       \/ part = "restarted" /\ Restarted!Next /\ UNCHANGED NotOfScheduling
       \/ part = "routing" /\ Routing!Next /\ UNCHANGED NotOfCompose
       \/ part = "two domains" /\ TwoDomains!Next /\ UNCHANGED NotOfCompose
       \/ part = "cancelling" /\ Cancelling!Next /\ UNCHANGED NotOfCompose
       \/ part = "zone" /\ Zone!Next /\ UNCHANGED NotOfDns
       \/ part = "by hand" /\ ByHand!Next /\ UNCHANGED NotOfDns
       \/ part = "reviewed" /\ Reviewed!Next /\ UNCHANGED NotOfPreview
       \/ part = "used" /\ Used!Next /\ UNCHANGED NotOfPreview
       \/ part = "pushed" /\ Pushed!Next /\ UNCHANGED NotOfPreview
       \/ part = "limited" /\ Limited!Next /\ UNCHANGED NotOfPreview
       \/ part = "database" /\ Database!Next /\ UNCHANGED NotOfMongo
       \/ part = "aged" /\ Aged!Next /\ UNCHANGED NotOfMongo
       \/ part = "gitlab" /\ Next /\ UNCHANGED NotOfGitlab

PartsSpec == PartsInit /\ [][PartsNext]_vars

-----------------------------------------------------------------------------
(* The modules' properties, each of the parts it holds in.  StateIsUsedOnce   *)
(* and ConnectionIsKept are those of GitlabConnection.                       *)

\* Every part's variables have their types.
TypesOK ==
    CASE part = "local" -> Local!TypeOK
      [] part = "away" -> Away!TypeOK
      [] part = "restarted" -> Restarted!TypeOK
      [] part = "routing" -> Routing!TypeOK
      [] part = "two domains" -> TwoDomains!TypeOK
      [] part = "cancelling" -> Cancelling!TypeOK
      [] part = "zone" -> Zone!TypeOK
      [] part = "by hand" -> ByHand!TypeOK
      [] part = "reviewed" -> Reviewed!TypeOK
      [] part = "used" -> Used!TypeOK
      [] part = "pushed" -> Pushed!TypeOK
      [] part = "limited" -> Limited!TypeOK
      [] part = "database" -> Database!TypeOK
      [] part = "aged" -> Aged!TypeOK
      [] part = "gitlab" -> TypeOK

\* JobScheduling: with nothing under way, the platform's timers are those of the
\* enabled local rows, at their pattern and zone, and no stray one runs on.
TimersFollowRows == part = "local" => Local!TimersFollowRows

\* JobScheduling: with nothing under way, no backup or volume backup of a remote
\* server is run twice at a time.
OneRunPerTick == part = "away" => Away!OneRunPerTick

\* JobScheduling: a start of the schedules service puts right what interleaved,
\* refused and interrupted calls have left in its queue.
RestartHeals == [][part = "restarted" => Restarted!Heals]_vars

\* ComposeLifecycle: a domain's row is deleted only when nothing of the domain is
\* left that would have to be found through it, no record and no live route.
NoInvisibleRoute == [][part = "routing" => Routing!NoInvisibleRoute]_vars

\* ComposeLifecycle: with nothing under way, a service that is up routes the
\* domains it has, however deployments and changes of domains were ordered.
RoutesFollowDomains == part = "two domains" => TwoDomains!RoutesFollowDomains

\* ComposeLifecycle: a deleted service leaves nothing on its server, no DNS
\* record, and no job that would bring it back.
ServiceIsGone ==
    /\ part = "routing" => Routing!NothingLeftBehind
    /\ part = "cancelling" => Cancelling!NothingLeftBehind

\* ComposeLifecycle: while the status says that a deployment is running, one is.
RunningMeansRun ==
    /\ part = "routing" => Routing!RunningMeansRun
    /\ part = "cancelling" => Cancelling!RunningMeansRun

\* ManagedDns: with nothing under way and the last publication a success, the zone
\* file has the domains' records of the database.
PublishedIsCurrent == part = "zone" => Zone!PublishedIsCurrent

\* ManagedDns: with nothing under way, every domain has one record, at its own
\* host; a change that could not be published has left the one before it.
DomainsHaveTheirRecords == part = "zone" => Zone!DomainsHaveTheirRecords

\* ManagedDns: no publication that waited for the deletion of the zone brings its
\* file back.
DeletedZoneIsUnpublished == part = "zone" => Zone!DeletedZoneIsUnpublished

\* ManagedDns: a name that has an alias has nothing else, whoever made the records,
\* as long as no publication fails (what is taken back then is not locked).
AliasStandsAlone == part = "by hand" => ByHand!AliasStandsAlone

\* PreviewDeployments: once nothing is under way, a preview without a row has
\* neither a service nor a route, unless its removal was disturbed.
PreviewIsGone ==
    /\ part = "reviewed" => Reviewed!NothingLeftBehind
    /\ part = "used" => Used!NothingLeftBehind

\* PreviewDeployments: webhooks that overlap give a pull request more than one
\* preview, and the application more than its limit, by no more than their number.
PreviewsAreBounded ==
    /\ part = "reviewed" => Reviewed!PreviewsAreBounded
    /\ part = "pushed" => Pushed!PreviewsAreBounded
    /\ part = "limited" => Limited!PreviewsAreBounded

\* PreviewDeployments: a preview shown as running is being run, a run that is
\* over never leaves it so, and one shown as done has its service.
StatusTellsTheRun ==
    /\ part = "used" => Used!StatusTellsTheRun
    /\ part = "pushed" => Pushed!StatusTellsTheRun

\* PreviewDeployments: a preview shown as done runs its branch's newest commit,
\* unless the push was one of those the code drops.
DoneIsCurrent == part = "pushed" => Pushed!DoneIsCurrent

\* MongoService: two deployments of the service are never under way at once, as
\* long as none begins between another's check and its row.
OneDeploymentAtATime ==
    /\ part = "database" => Database!OneDeploymentAtATime
    /\ part = "aged" => Aged!OneDeploymentAtATime

\* MongoService: once nothing is under way, a service shown as done is up and has
\* the port of its row, and a row that is gone has no service.
DoneMeansUp == part = "database" => Database!DoneMeansUp
=============================================================================
