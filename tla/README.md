# Nearzero: models, checks and proofs of the platform's services

Nearzero is a self-hosted platform that builds applications from Git, runs them on
Docker Swarm, and gives them routes, certificates and DNS records. This directory
holds TLA+ models of its concurrent core and of the services around it, the TLC runs
that check them on small instances and TLAPS proofs of the properties that matter most.

Paths below are relative to `src/`; `services/` is `packages/server/src/services/`,
`routers/` is `apps/platform/server/api/routers/`, `schedules/` is `apps/schedules/src/`.

## 1. The system

### Components

| component | state | operations | interacts with |
| --- | --- | --- | --- |
| Deployment queue and worker (`apps/platform/server/queues`, `utils/deploy.ts`) | BullMQ queue `deployments` in Redis: jobs with a state, a stall count, a deduplication key | `enqueueDeployment`, `cancelQueuedDeployment`, `cleanQueuesByApplication`, `prepareDeploymentJobsForServiceDeletion`, the processor, `markDeploymentJobErrored` | API adds and removes jobs; the worker calls the pipeline; BullMQ hands stalled jobs back |
| Application pipeline (`services/application.ts`, `services/deployment.ts`) | rows of `application` (status) and `deployment` (status, log) | `deployApplication`, `rebuildApplication`, `createDeployment`, `cancelPreviousRunningDeployments`, `removeLastTenDeployments`, status updates | database; phase runner; Swarm; notifications |
| API procedures (`routers/application.ts`, `routers/deployment.ts`) | none but their own variables across awaits | `deploy`, `redeploy`, `cancelDeployment`, `killBuild`, `killProcess`, `cleanQueues`, `start`, `stop`, `markRunning`, `reload`, `delete` | all of the above, concurrently with the worker |
| Phase runner (`services/deployment-runner.ts`) | on the build server: work directory with `active.pid` and the cancel file; processes | `runDeploymentPhases`, the runner script, `cancelDeploymentProcess` | SSH; the pipeline and the cancelling procedures meet only in these files |
| Startup and watchdog (`apps/platform/server/server.ts`, `packages/server/src/utils/startup/cancel-deployments.ts`) | none | `initCancelDeployments`, `expireStaleDeployments`, start of the worker | rows of `deployment`, `application` |
| Routing locks (`services/compose.ts`, `domain.ts`, `domain-library.ts`, `managed-domain-provision.ts`) | PostgreSQL advisory locks, the connection pool, `domain.composeId` | `withComposeRoutingMutationLock`, `withDomainRoutingMutationLock` around deploy, start, stop, remove, create, update, assign, remove | every mutation of a Compose service or domain |
| Compose lifecycle (`routers/compose.ts`, `services/compose.ts`) | rows of `compose`, `domain`, `deployment`; the Compose file, the running stack | deploy (a job), start, stop, delete, `cleanQueues`, `cancelDeployment`; creating and removing domains, with the routes reconciled | queue, routing lock, DNS |
| Managed domains and DNS (`services/domain.ts`, `dns.ts`) | zones, records of domains and of the user, the zone file | create, move, remove a domain; records by hand; publish, delete the zone; taking a change back | DNS server, domains |
| Traefik files (`packages/server/src/utils/traefik`) | dynamic configuration files, a lock directory with an owner token | read-modify-write under `withTraefikMutationLock` | routes of applications and domains |
| Job scheduling (`services/job-placement.ts`, `routers/{backup,schedule,volume-backups}.ts`, `schedules/`) | rows; repeatable jobs in Redis; `node-schedule` timers in memory | create, update, delete; load at both starts; clean-up of the queue | the platform for its own host, the schedules service for remote servers |
| Previews (`services/preview-deployment.ts`, `apps/platform/server/routes/handlers/deploy/github.ts`) | rows of `preview_deployments`, a domain and a service each | webhook events, delete, redeploy, the worker's preview branch | GitHub, queue, DNS, Swarm |
| Database services (`services/mongo.ts`, `database-deployment.ts`, `routers/mongo.ts`) | rows, deployment rows, a Swarm service | deploy, port, start, stop, reload, rebuild, remove, in the request itself | Swarm |
| Git-provider OAuth (`services/git-provider-oauth-state.ts`, `utils/providers/gitlab.ts`) | states with an expiry; a provider's tokens | issue, consume, exchange, refresh | GitLab |
| Rollbacks, backups, server setup, authentication, agent, monitoring, console | see `components` in `PROJECT.json` | | |

### Where it is hard

* *Interleaving.* A worker and any number of requests write the same rows; every
  `await` is a point where another one may run. Status writes are unconditional
  updates: the last writer wins.
* *Crash.* A deployment is spread over Redis (the job), PostgreSQL (two rows), a
  build server (processes and files) and Swarm (the service). A crash of the
  platform loses only the worker's and the requests' own state.
* *Redelivery.* BullMQ gives a stalled job back once. The new run meets the rows
  and processes of the old one.
* *Cancellation.* A canceller and the runner share nothing but a cancel file and a
  pid file, which come and go with each group of phases.
* *Lost connections.* A dropped SSH connection is indistinguishable from a failed
  attempt; the process may go on.
* *Files.* Traefik's files are read, changed and written back over SSH; a lock directory
  with a time limit keeps domain mutations apart, and redirects do not take it.
* *Two schedulers.* The row is in PostgreSQL, the timer in the platform's memory or in the
  Redis of another process, reached by calls that may be refused; both are rebuilt from
  the rows at a start, and only then.
* *Taking back.* A domain is a row, a route and a DNS record, written one after the other
  and taken back one by one when one of them fails; taking back may fail, too.
* *Requests without a queue.* Databases are deployed by the request itself, tokens are
  refreshed by whoever needs one: what was read at the start is used at the end.
* *Locks.* Advisory locks belong to connections of a bounded pool, some operations
  take several, and one takes the same lock twice.

### What makes each part correct

* Queue: one unfinished job per application; every job ends; deletion waits for the
  active one.
* Pipeline: at most one running row, and it is the newest; a row and an application
  leave "running" whatever fails; a cancelled row is final.
* Procedures: a deleted application leaves no service behind.
* Phase runner: no process outlives its call; a cancellation in time is honoured; the
  number of attempts is bounded.
* Locks: routes of a service are mutated by one at a time, under the locks of the
  services a domain is attached to *now*; a mutation ends unless all
  connections of the pool are taken.
* Traefik files: a write takes nobody else's change back; a router names middlewares
  that exist.
* Compose: what is routed is what the rows say; a deleted service leaves nothing; a
  domain's row goes only when nothing is left that had to be found through it.
* DNS: what is published is what the rows say; a change that cannot be published is
  taken back whole; an alias stands alone.
* Scheduling: no job runs twice at a tick; local timers follow their rows; a restart
  heals.
* Previews: no more per pull request than webhooks overlap; a row that is gone has left
  nothing, unless a step of its removal failed; "done" is the newest commit.
* Databases: one deployment at a time, as the code's comments have it; "done" is up, with
  the row's port.
* OAuth: a state is used once; the stored token is one the provider still takes.

## 2. The models

| module | role |
| --- | --- |
| `DeploymentPipeline` | queue, worker, pipeline, API procedures, recovery |
| `PhaseRunner` | one call of the runner against one cancellation, script line by script line |
| `DeploymentPipeline_proofs` | the theorems of these two |
| `SerialRouting` | abstract: mutations that have their services to themselves |
| `RoutingLocks` | the advisory locks and the pool; implements `SerialRouting` |
| `TraefikFiles` | the Traefik lock directory and the files mutated under it, or without it |
| `Routing_proofs` | the theorems of the locks, the implementation among them, and of the files |
| `JobScheduling` | rows of jobs, the platform's timers, the schedules service's queue |
| `JobScheduling_proofs` | its theorems |
| `ComposeLifecycle` | one Compose service, its domains, its jobs and its stack, under the routing lock |
| `ComposeLifecycle_proofs` | its theorems |
| `ManagedDns` | one zone: its records, the locks of their names, its publication |
| `ManagedDns_proofs` | its theorems |
| `PreviewDeployments` | the previews of one application, from the webhook to the worker |
| `PreviewDeployments_proofs` | its theorems |
| `MongoService` | one MongoDB service and its deployments |
| `MongoService_proofs` | its theorems |
| `GitlabConnection` | states, callbacks and token refreshes of one GitLab provider |
| `MCPipelineParts`, `MCLiveness`, `MCServices` | instances side by side: of the pipeline, the runner and the Traefik files; of the pipeline and the locks, with fairness; of the six modules from `JobScheduling` on |
| `MCDeploymentPipeline`, `MCRoutingLocks`, `MCTraefikFiles` | single instances, for the other runs |
| `Services_proofs` | the theorems of `GitlabConnection`, and those of `ManagedDns`, `MongoService` and `ComposeLifecycle` for the parts of `MCServices` |

Names that two modules proved about together would share differ: the runner's types are
`PhaseTypeOK`, those of the Traefik files `FilesTypeOK` with `FilesInit`, `FilesNext`,
`Writers`, `Sites` and `Mutations` for what the locks call `Init`, `Next`, `Clients`,
`Domains` and `Operations`.

### DeploymentPipeline

State: `jobs` is the queue (`state`, `stalls`); `rows` is the table `deployment`, each
row with the two things that belong to it on the build server, the cancel file
(`mark`) and the running process (`child`); `app` is the table `application` (`live`,
`status`) with the Swarm `service`; `worker` is the processor's local state with a
program counter; `req` the same for each request; `stale` the watchdog's loop;
`server` says how far the platform process is.

The worker's actions follow `deployApplication` from await to await: `TakeJob`,
`MarkRunning` (processor), `FindApplication`, `PrepareRow` and `InsertRow`
(`createDeployment`), then for each group of phases `StartRunner`, `RunnerExits`,
`JudgeFailure`, `CleanupGroup` (`runDeploymentPhases`), then `DeployService`, `RowDone`,
`AppDone`, `Notify` (with the `finally`, whose commit information may fail after a
success); on failure `FailRow`, `FailApp` (twice: the pipeline's catch and the processor's
`markDeploymentJobErrored`); `FinishJob`.

A procedure is a sequence of named steps (`Program`); each step is one round trip.
`cancelDeployment`, for instance, lists the waiting jobs, removes them one by one,
looks for the running row, touches the cancel file, kills the process, marks the row
and twice the application. Steps that several procedures share are written once.

Recovery: `Crash` may happen at any point and keeps the database, Redis and the build
server; `Listen` opens the API *before* `StartWorker` runs `initCancelDeployments` and
the worker, as `server.ts` does; `Stall` is BullMQ's stalled-job check; `ExpireRows`
and `MarkOwnerErroredIfIdle` are the watchdog.

Abstractions: a deploy and a redeploy differ only in fetching the source and are one kind
of job; `move` is left out, and so are preview and Compose jobs; of the scripts of a group
one is kept (`PhaseRunner` has the rest); `cancelPreviousRunningDeployments` and the
retention are one step, since the worker is the only one who runs them, and the process
they kill was started before a crash, so that its pid file is there; the database and
Redis answer, except to the `finally` of a run; a `find` skips the rest of the
cancellation when no row is running.

### PhaseRunner

`node` is the caller (phase, attempt, the runner it waits for), `runner[k]` the k-th
runner script with its child, `pidFile` and `cancelFile` the shared files, `cancel`
the canceller, `drops` the lost connections. `Preflight`, `Prepare`, `Launch`,
`Collect`, `Judge` and `Cleanup` are the caller's steps; `RunnerCheck`, `Spawn`,
`WritePid`, `ChildExits` and `FinalCheck` the script's; `Touch`, `ReadPid`, `Signal`
(TERM, then KILL) and `RemovePid` the canceller's. `Drop` loses the connection of a
runner that goes on. The data phases pass on, logs and redaction are left out.

### SerialRouting and RoutingLocks

`SerialRouting` says only: a client enters a service nobody has, leaves all it has, and
attaches a domain to a service (or to none) only when it has both the old and the new one.
`RoutingLocks` has what the code does about it: transactions that take a connection from
the pool and keep it, the domain's lock, the read of `composeId`, service locks in order,
the mutation, which needs another connection, and the commit. `mutating` is mapped to the
services whose lock a client holds. `rebuildCompose` may begin a second transaction for
its own service (`LockAgain`): it passes no `composeRoutingLockHeld`. Ids are numbers
because the code sorts them.

### TraefikFiles

The files of one remote server: `conf` is the dynamic file of one application (its
routers, each with the middlewares it names), `middlewares` the entries of
`middlewares.yml`, which all applications share. A mutation is a `Program` of SSH
commands on the client's own copies: `manageDomain` and `removeDomain` between
`Attempt`/`Own` and `Release`, redirects without a lock. `Retry` and `TakeOver` are two
halves of one round of the acquiring script, between which another client may act;
`Expire` is the passing of ten minutes, longer than any mutation under way, as the code
assumes. `Fail` stops a mutation half-way and gives the lock back, `Crash` keeps it.
`unfinished` is a history variable that only `NoDanglingMiddleware` reads.

Left out: the local variant of the lock (the same algorithm with a 30-second deadline);
the order of a redirect's removal on a local server, which writes the configuration before
the middlewares (`redirect.ts:128-131`), the remote one the other way round;
files the user writes as a whole; the clean-up of a deleted application, which also
reads and writes `middlewares.yml` without the lock; basic-auth users, which follow the
pattern of redirects; the callers' roll-back, which is another mutation here.

### JobScheduling

`rows` are the tables of backups, schedules and volume backups, `timers` the platform's
node-schedule jobs by name (with the strays that lost their name), `queue` the
repeatable jobs in Redis, each keyed by row, pattern and zone as BullMQ keys them. A
procedure writes its row and then calls its scheduler, which for the schedules service is
a request that may be refused and a removal and an addition in two round trips. Both
processes crash and start again: `LoadTimers` and `LoadVolumeBackup`; `CleanQueue`,
`LoadRows` and `LoadJob`. What a job does when it fires is `Effective`: the checks of
`runJobs`. Redis and the database answer: the `catch` of a failing clean-up
(`schedules/queue.ts:16-26`) and the one around each row of the load
(`schedules/utils.ts:176-189`) are not entered.

### ComposeLifecycle

A service with its rows, the queue's Compose jobs, the domains with a DNS record each,
the Compose `file` and the `stack` that was started from it: routes are labels of
containers, so that a change of domains reaches Traefik only through both. A procedure
is a `Program` of steps between which others act; the steps between "lock" and "unlock"
hold the service's routing lock, which `RoutingLocks` has in detail. The worker's run
takes the lock, renders the file with the domains it reads then, builds and starts the
stack. Failures of commands, records, rows and routes have their roll-backs (`UndoRow`
and its neighbours), which may fail as well.

### ManagedDns

`records` are rows of `dns_record`, of a domain or of the user; `published` is the zone
file and `publisher` the holder of its lock file. A change of a domain is one transaction
under the lock of the owner name (`Sync`); publication follows (`PublishSteps`), and when
it fails a second transaction takes back what the first has done (`Restore`), and the
caller its own row (`AfterFailure`). A change looks its zone up once where the code does so
twice (`services/domain.ts:330`, `services/dns.ts:681`); writing the file and reloading it
is one step; the deletion of the zone's rows does not fail (`dns.ts:365-371`); adding and
moving have no route that could fail (`routers/domain.ts:538`; `ComposeLifecycle` has
routes); a stale publish lock is not taken over (`dns.ts:136-146`).

### PreviewDeployments

`previews` are the rows, each with the status of its newest deployment row; `domains`,
`routes`, `services` and `source` are what belongs to each on the server, with the commit
that is checked out and running; `pulls` is GitHub. A webhook handler, a procedure and
the worker's preview branch are programs of steps. Each step of a removal (the service, the
deployment rows, the checkout, the route, the row) may fail; the code swallows the failure
and goes on. Two histories say what a property excuses: `missed`, the pushes for which
the code adds no job, or one that fetches nothing, which `DoneIsCurrent` reads; and
`disturbed`, the previews whose removal failed to take the service, the route or the row,
went by cascade, or met a run or the creation of theirs, which `NothingLeftBehind` reads,
too.

### MongoService

Procedures that run in the request, all but `changeStatus` and `update`: `deployMongo`
reads the row, looks for a deployment in progress, inserts its own row, pulls, builds and
marks the service. `rows` age past the ten-minute window (`Age`), but not those of a
deployment under way: the model assumes that deployments take less, where the code
compares the row's age only (`services/database-deployment.ts:149`); `Restart` ends all
requests, and the start-up closes the rows they leave. `overlooked` is history: a saved
port whose deployment was skipped or failed.

### GitlabConnection

`states` are the authorization states, `provider` the row with its refresh token; `live`
and `minted` are GitLab's side, which spends a refresh token at its use. A callback
consumes its state in one conditional update and then exchanges the code; a refresh reads
the stored token, exchanges it and stores its successor, beside others that do the same.

## 3. The runs

| run | bounds | shows |
| --- | --- | --- |
| `pipeline_serial` | 1 request at a time of any kind, 1 job, 1 crash, 2 groups, failing commands, watchdog, production | types; no running row without its run; no service without its application; deletion guard |
| `pipeline_parts` | three parts: `overlapping` (2 requests of deploy and delete, 2 jobs, 1 crash, 1 group, 1 row retained, not production), `runner` (2 phases, one with 3 attempts, 2 drops), `files` (2 clients, 2 domains, one with a path middleware, 1 redirect, 2 attempts, 1 client that dies, failing commands, redirects one at a time) | deletion guard; one running row; no process left; cancellations reach the phases; no lost update; no dangling middleware |
| `liveness` | two parts: `recovery` (1 request of deploy/cancelDeployment/killProcess, 1 job, 1 crash, 2 groups), `locks` (2 clients, 2 services, 2 domains, 2 connections) | cancellations are honoured, jobs end, applications settle; the locks implement `SerialRouting`; mutations end |
| `pipeline_cancelled_row` | no crash | *violated*: a cancelled row becomes done |
| `pipeline_late_deploy` | 2 requests, no crash | *violated*: a service outlives its application |
| `pipeline_stuck_status` | 1 crash | *violated*: "running" for ever |
| `locks_redeploy` | 1 client | *violated*: a redeploy waits for itself |
| `traefik_redirect` | the files without deaths, redirects at any time | *violated*: a redirect takes a domain's change back |
| `services` | fifteen parts, see below | what is shown, scheduled, published and routed agrees with the rows; what is deleted leaves nothing |
| `mongo_overlap` | 2 deployments, nothing fails | *violated*: two deployments at once |
| `dns_alias` | 1 domain, 2 hosts, 3 calls, reloads that fail | *violated*: an address comes back beside an alias |
| `compose_new_domain` | 1 domain, 1 deletion, 1 addition, nothing fails | *violated*: a record outlives its service |

Why the bounds are enough. Two jobs of one application are the least that meet (the second
is the redeploy or the redelivered one), one crash the least that leaves a row behind;
retention 1 instead of 10 makes old rows go within the bound. `Production = FALSE` in the
part `overlapping` keeps the rows a crash leaves running, so that closing them is the next
run's work alone. Two groups have a boundary between them, where the cancel file
disappears. For the locks two clients in opposite directions over two services are the
shortest cycle; with two connections their transactions can use the whole pool up, as any
ten do in the code, whose pool does not bound those who wait. Three attempts are the
code's constant. For the Traefik files two clients are enough for a lost update; with one
of them dead the other is the only waiter, for which the take-over of a stale lock is
right. Applications do not interact except through the single worker, so one is enough for
the safety properties; the proofs cover any number. Symmetry (of the
requests) is used in `pipeline_late_deploy` only.

Deadlock is checked in `traefik_redirect` only: elsewhere, when the bounds are used up or
all users are gone, the system may stop. Termination where it matters is stated as a
liveness property.

### The parts of `services`

Six modules share no state with the rest, and one run checks fifteen instances of them
(`MCServices`): a behaviour belongs to one `part`, whose variables alone change. Each
part is one question, with the operations, faults and bounds that question needs.

| part | instance | shows |
| --- | --- | --- |
| local | `JobScheduling`: a backup, a schedule and a volume backup of the local host, 1 procedure at a time of 3, 2 starts of the platform | `TimersFollowRows` |
| away | two backups and a volume backup of remote servers, 1 procedure at a time of 3, the owner may go, refused calls, 3 starts of the service | `OneRunPerTick` |
| restarted | one job of each kind on remote servers, 2 procedures at once, 2 starts of each process | `RestartHeals` |
| routing | `ComposeLifecycle`: 1 domain, 2 clients, 4 calls of deploy, addDomain, removeDomain, stop and delete, all failures but a reported one of an applied route | `NoInvisibleRoute`, `ServiceIsGone`, `RunningMeansRun` |
| two domains | 2 domains, the same calls, fewer failures | `RoutesFollowDomains` |
| cancelling | 3 calls of deploy, cleanQueues, cancelDeployment, start, stop, delete | `ServiceIsGone`, `RunningMeansRun` |
| zone | `ManagedDns`: 2 domains, 2 hosts, 2 clients, 3 calls, reloads that fail, the zone may be deleted | `PublishedIsCurrent`, `DomainsHaveTheirRecords`, `DeletedZoneIsUnpublished` |
| by hand | the same with 4 calls, records by hand, no failures | `AliasStandsAlone` |
| reviewed | `PreviewDeployments`: 1 pull request, 2 webhooks and 1 user at once, 3 calls, failing comments, builds, records and removals of services, routes and rows | `PreviewIsGone`, `PreviewsAreBounded` |
| used | 2 pull requests, 1 webhook and 1 user, all procedures, failing comments and removals of services, deployment rows, checkouts and routes | `PreviewIsGone`, `StatusTellsTheRun` |
| pushed | 1 pull request, 2 webhooks and 1 user, 4 pushes and redeployments, failing builds and logs | `DoneIsCurrent`, `StatusTellsTheRun`, `PreviewsAreBounded` |
| limited | 2 pull requests, 2 webhooks, a limit of 0 | `PreviewsAreBounded` |
| database | `MongoService`: 2 clients, 4 calls of all procedures of the module, deployments at any time | `OneDeploymentAtATime`, `DoneMeansUp` |
| aged | 3 deployments, failing log, restarts, ten minutes passing | `OneDeploymentAtATime` |
| gitlab | `GitlabConnection`: 2 states, 2 callbacks, 2 refreshes, 5 tokens | `StateIsUsedOnce`, `ConnectionIsKept` |

`TypesOK` has the types of all parts. Two clients are what an overlap needs. The calls
suffice to set the component up (a deployment, a domain, a preview), to change it while
something else is under way, and to change it once more after a failure; the mutants of
`PROJECT.json`, each a plausible slip in one of the steps, are all caught within them.

Some parts restrict what may overlap, where the code does not: `InOrder` (a start has
ended before requests arrive), `Exclusive` (a deployment or a new domain keeps clear of
the deletion), `Spaced` and `MayOverlap` (database procedures), `HandedOn` (a host is not
claimed while it may be taken back). Each is a constant of the module, and what becomes of
the property without it is in the next section, or shown by a run of its own: with these
restrictions a property says what the code does maintain.

### Disagreements without a run of their own

Met while modelling, and shown by TLC on the module named when the constant in
parentheses is changed; none is needed for a passing run.

*DeploymentPipeline.*
* Two builds of one application at a time are what the code does: in production a start
  (`initCancelDeployments`) closes the row of a build that goes on, and the redelivered job
  builds beside it; the watchdog, and a cancellation whose command does not reach the build
  server, do the same. `OnlyTheNewestRowRuns` speaks of the rows alone.

*JobScheduling.*
* Backups of the local host are loaded by the schedules service, too
  (`schedules/utils.ts:163`, against `services/job-placement.ts:3-8`), and a deleted or
  disabled volume backup of a remote server goes on firing when its pattern changed in
  the same update: the removal uses the key of the row it has just written
  (`routers/volume-backups.ts:218,272-277`, `schedules/queue.ts:79-84`).
* A service's restart forgets the time zone of schedules (`schedules/utils.ts:226`), and
  does not load volume backups of databases (`schedules/utils.ts:264`; `OfDatabase`),
  which `apps/schedules/README.md:3-5` does not except.
* The platform may stop between the row's write and the call to the schedules service:
  an enabled row is then known to nobody until the service starts again
  (`apps/platform/server/utils/backup.ts:40`).
* Updating a remote schedule adds without removing, and it runs twice: `OneRunPerTick` is
  false with a schedule among the jobs.
* Deleting the owner deletes its rows by cascade and stops no job. Backups of the local host
  keep their timer when a database is deleted while the service cannot be reached
  (`apps/platform/server/utils/backup.ts:86`).
* With `InOrder` FALSE the clean-up of a start erases what a request or the load itself has
  added (`schedules/index.ts:34-35`), and a request before the platform's load leaves a
  second timer that nothing can cancel (`server.ts:249`).
* Overlapping updates of one row leave a duplicate until the next start.

*ComposeLifecycle.*
* With `Exclusive` FALSE a deploy that overlaps a deletion leaves a stack or a job without
  a service; for a new domain see the findings.
* With "rollback" failing beside "route", a domain's row is deleted although its route is
  live, which the comment at `services/domain.ts:559` excludes.
* Stop, add a domain, start: the stack comes back with the routes of its last file.
* `cancelDeployment` writes "idle" on a service that is up, after which `removeDomain` skips
  the reconciliation and leaves a live route without a row; it may also turn a failed
  row into a done one (`routers/compose.ts:1096`).

*ManagedDns.*
* With "timeout" a publication that gives up has its change taken back without publishing
  again, and the file may keep it: `PublishedIsCurrent` is false.
* With `HandedOn` a host is claimed while the domain leaving it may take it back: the
  restoration is refused and the domain has no record.

*PreviewDeployments.*
* Deleting an application takes the rows of its previews and leaves their services
  (`routers/application.ts:264-395`, against the comment at 306-308); deleting a preview's
  domain takes the preview's row by cascade and leaves its service.
* A service or a route that cannot be removed outlives the preview's row: every step of the
  removal swallows its failure (`services/preview-deployment.ts:62-84`). A deletion during
  the preview's run leaves what the run creates afterwards. `NothingLeftBehind` excuses
  these removals by name (`disturbed`) and no others.
* Overlapping webhooks of one pull request create one preview each, which
  `PreviewsAreBounded` counts; the limit is compared with `>` (`github.ts:450`), so that
  there is one more than it says, and above it pushes to existing previews are ignored.
* A cancellation on the parent removes waiting jobs of its previews
  (`apps/platform/server/utils/deploy.ts:97`), and a push while its preview's job runs
  adds none: the preview stays at an older commit and says "done".
* A failing comment in the error path leaves the deployment row "running"
  (`services/application.ts:1117`).

*MongoService.*
* A saved port is not deployed when a deployment is under way, and a deployment that read
  its row before another one's check may deploy the older port over the newer.
* With `MayOverlap` all procedures, a stop or a removal during a deployment ends as "done"
  without a service, or as a service without a row; removing a service that cannot be
  removed ("service") drops the row all the same.
* After a restart the service's own status stays "running"; a failing log leaves a row
  "running" that refuses deployments for ten minutes.

*GitlabConnection.*
* With "answer" failing, a refresh whose answer is lost has spent the stored token:
  `ConnectionIsKept` is false until somebody authorizes again.
* A refresh that began before a new authorization stores the older grant's token over the
  new one's.

### Fairness

*Pipeline.* The worker, the start-up, the procedures that have begun and the watchdog's
loop are `async` functions: the event loop runs them on (weak fairness). Builds end
because every phase runs under a timeout, which is part of `Worker`'s `RunnerExits`.
`Stall` is fair: BullMQ checks periodically while the worker runs. Users, crashes and
the watchdog's timer are not fair: nothing relies on them.
*Locks.* Both the pool's queue and PostgreSQL's lock queue are first come, first
served; a waiting client is therefore not passed for ever, which strong fairness of a
client's next step expresses.
*Phase runner.* Everybody who has begun goes on; a child ends at its timeout; nobody
has to cancel and no connection has to drop.
*Services.* Its properties are safety properties, mostly of the states in which nothing
is under way; `RestartHeals` and `NoInvisibleRoute` speak of steps. None needs fairness.

### Findings

Eight runs show a behaviour that a comment, a message or a test of the repository
excludes; `findings` in `PROJECT.json` quotes them.

1. A cancellation after the last runner, or between two groups, is lost: the row goes
   from cancelled to done.
2. Deletion looks at the queue once; a deploy that comes later leaves a service without
   an application.
3. After a crash, a refused deletion has already removed the job that would have ended
   the "running" status it is refused for.
4. `rebuildCompose` deadlocks on its own advisory lock.
5. Redirects (like basic-auth users) change the Traefik files without the lock that is to
   serialize such changes, and take a domain's change back.
6. Two deployments of one database both find none in progress and run at once: the check
   and the row are two queries (`services/mongo.ts:166`).
7. A roll-back of a domain's change takes no owner lock and restores an address beside an
   alias made in between.
8. A domain added while its service is being deleted has its record published after the
   service's row is gone.

The passing runs are stated so that they do not hide these: `NoUntrackedService` passes
with one request at a time, `CancelHonoured` speaks of a cancel file a runner can still
see, `MutationEnds` leaves out redeploys and the time when every connection is held by a
transaction that needs another (`Exhausted`: nobody of those gives one back before getting
another), `ApplicationSettles` passes without deletions, `NoLostUpdate` with redirects
that run alone, and the last three with deployments that are `Spaced`, with publications
that succeed, and with domains that keep clear of the deletion. Beyond the runs, TLC shows
that `NoLostUpdate` fails with three clients, one of which dies with the lock (two waiters
take over the same stale directory, the second removing the first one's), and when a read
of an existing `middlewares.yml` may fail (`Unreadable`: `createPathMiddlewares` then
writes the file anew with its own entry).

## 4. The proofs

The theorems hold for every value of the constants. What they assume of them is named:
`PipelineAssumption`, `LocksAssumption` and the assumptions of `PhaseRunner` and
`TraefikFiles`, which TLC evaluates on each run, and the hypotheses of the single
theorem, which the following table gives with the reason. Each hypothesis excludes a
behaviour the code has; without it TLC finds the property violated, in the run
where one is named.

| theorem | hypothesis | without it |
| --- | --- | --- |
| `ServicesTracked` | `Alone`, one request at a time | run `pipeline_late_deploy`: a deploy joins the queue after the deletion has looked at it |
| `RoutersComplete`, `UpdatesKept` | `Orderly`: redirects run alone, an existing file can be read, and nobody dies or there are two clients | run `traefik_redirect`; a failing read writes `middlewares.yml` anew; two waiters take over one stale lock |
| `OneDeployment` | `Spaced` | run `mongo_overlap`: two deployments pass the check before either has a row |
| `PublicationCurrent` | nobody gives up waiting for the lock | the change of the one who gives up is taken back without a publication |
| `ConnectionKept` | no answer of GitLab's is lost | the stored token has been spent, and its successor is unknown |
| `RecordsFollowDomains` | `~ HandedOn`: no host is claimed while the domain leaving it may take it back | the restoration is refused, and the domain has no record |
| `AliasAlone` | nothing fails | run `dns_alias`: a roll-back, which takes no lock, puts an address beside a new alias |
| `DeletionLeavesNothing` | `Exclusive`: a deployment or a new domain keeps clear of the deletion | run `compose_new_domain`: a domain's record outlives the service; likewise a deploy that is let in before the row goes leaves a stack or a job |
| `StatusTells` | "row" does not fail | a handler that cannot delete a row has already removed its service, and the status stays |

`PreviewsBounded` asks that the webhook handlers be finitely many, as there is no number
to bound the previews by otherwise. `NothingBehind` and `DoneCurrent` have no hypothesis
on what overlaps or fails: the histories `disturbed` and `missed` excuse single previews.

Where a constant is a set of operations, the theorem also says that they are the module's,
and that bounds are numbers (`Constants`); `ManagedDns_proofs` further that a user is no
domain, "nobody" no procedure and "no host" no host, `ComposeLifecycle_proofs` that
neither "no one" nor the worker is a client. `ShapeKept`, `RunningIsRun` and the type
theorems have no other hypothesis.

*`DeploymentPipeline_proofs`.* `TypeOK`, `OnlyTheNewestRowRuns`, `NoAbandonedRunningRow`
and `DeletionGuard`. None of the last three is inductive. The invariant `IInv` adds:

* `ProcedureOK`: a request's counter is within its procedure, although `find` skips;
* `WorkerOK`: a busy worker has an active job, so nobody else removes it; it has no row
  before `InsertRow`; after it has written a final state the row is not running; it
  gets to `failRow` only with a reason, so the row does not become "ok"; it is idle
  unless the server is ready;
* `KnownRows`: rows in somebody's hands exist, so that nobody writes to a row that is
  then inserted;
* `RowOrder`: rows are inserted in order, and at the insertion the application has no
  running row, which `PrepareRow` has seen to;
* `SnapshotOK`: what a deletion saw is ended or, while it is still removing, in its
  list; this gives `DeletionGuard` at the later steps.

One lemma per action shows that it preserves the invariant, grouped by conjunct;
`Invariance` combines them, and each theorem follows by implication.

`ServicesTracked` has an invariant of its own on top of `IInv`: a deletion past its checks
has no job left that could create the service again, and once it has removed the service
nothing does (`Tracked`).

*`PhaseRunner`, in the same module.* `RunTypeCorrect` bounds the attempts of each phase.
`ProcessesEnd`: while no connection is lost, a runner that has begun and not exited is the
one the caller waits for, and a process lives only between its runner's spawn and its
final check (`OneAtATime`); so the next attempt begins, and the call returns, when no
process is left.

*`Routing_proofs`, the locks.* `LocksInv` says that a lock has one holder (`OneHolder`),
that a mutation of one service waits for its lock or has it (`ServiceOK`), that a domain's
mutation holds the domain's lock after reading the attachment and then waits for or has
the lock of every service concerned (`DomainOK`), and that a redeploy's inner transaction
wants what the outer one holds (`SelfBlocked`). From it: `LocksImplementSerialRouting`, a
refinement: the attachment read before the service lock is still right afterwards, because
only a holder of the domain's lock changes it, or a creation, which touches fresh rows
only; and `RedeployBlocksItself`, the finding for every instance.

*`Routing_proofs`, the files.* What a mutation has left to do is a suffix of its program,
and the lemmas on these suffixes (`A1` to `C4`) say which files it holds a copy of. The
lock is exclusive although it can be taken over (`LockOK`): a directory that nobody inside
holds is that of a dead client, and under `OneWaiter` only one client is left to find it
stale. Hence a copy read under the lock is still the file's content when it is written
back (`UpdatesKept`), and the entry a router names is written before the router and
removed after it (`RoutersComplete`).

*`MongoService_proofs`.* `OneDeployment`: a deployment past its check holds a row that
says "running" and is fresh, since a deployment takes less than the ten minutes after which
its row is passed over, which `Age` takes for granted (`RowHeld`);
between the check and the row there is at most one (`Narrow`), which is where `Spaced`
is needed.

*`ManagedDns_proofs`.* What a procedure has left to do is a path of its steps (`Follows`),
whichever failures it has jumped over. `LockInv`: from the read on a procedure has the
publish lock, and the zone it found stays; so a late publication finds the zone gone.
`Followed`: what the file lacks is the business of a procedure that is yet to read the
records; a step outside the lock that changes a domain's record is always followed by a
publication, a removal's deletion of the zone included. `AliasInv`: an alias is by the
user, so that both sides see it under its name's lock, and nothing is restored.
`RecordsFollowDomains` holds whatever fails. While the zone exists, what a procedure has
left to do is known exactly from where it is and whether it is undoing (`After`), and so
is how its domain's host and record stand (`Sound`): as found, renamed, as wanted with the
old record kept, or back. Domains that nobody changes are `Tidy`. The roll-back succeeds
because no domain and no other mover has the host that a mover is leaving (`Apiece`), so
that neither the row nor the record is refused.

*`ComposeLifecycle_proofs`.* `Shape` says where a procedure may stand: what it has left to
do is a path of its program (`Path`), whichever failures it has jumped over, and the
routing lock is held by exactly those between taking and releasing it (`Locked`). All
else rests on it, since only the holder changes file, stack and domains.
`RunningIsRun`: the status is "running" only between the worker's first step and the one
that writes the outcome, and every error path writes one (`StatusInv`).
`DeletionLeavesNothing`: a deletion past its check of the worker finds no job and no
run (`NoJobs`, `JobOfWorker`, `Apart`), has taken the records of the domains it has passed
(`DomainsLeft`, `RecordsKept`), and what its last steps have removed stays removed
(`StackGone`).

*`JobScheduling_proofs`.* `TypeCorrect` only: what else holds of the schedulers holds under
restrictions the code does not keep, and is left to the run.

*`PreviewDeployments_proofs`.* Six programs share their steps; `Types` says which step may
follow which and that ids in anybody's hands have been given out. `StatusTells`: a run
whose end did not write its row is marked by the processor, and a "done" preview has its
service until a removal takes it (`StatusInv`, `Leaving`). `PreviewsBounded` is inductive
as it stands: the property counts, beside the rows, the handlers that have found none and
those that were let in. When a handler joins the first, its pull request has no preview;
when it joins the second, the application is within its limit; so in both cases only
handlers count beyond that, and an insertion puts a row in its handler's place.
`NothingBehind`: what the removal of a preview has passed is gone and stays so, since
neither a run nor the making of the same preview is under way beside it (`GoneInv`); where
one is, the preview is `disturbed`. `DoneCurrent`: every push is on its way to a checkout
or has been missed (`Fetched`), and what is served is what was checked out (`Served`).

*`Services_proofs`, GitLab.* `StateUsedOnce`: the states' invariant says that a callback
about to exchange its code is the only one of its state, which is consumed and unused;
`exchanged` alone is not inductive, since two callbacks could be on their way under one
state. `ConnectionKept`, under the hypothesis that answers are not lost: the tokens'
invariant says that a token on its way to the row is live and known to nobody else
(`Fresh`), so that no refresh can spend it before it is stored. Its freshness rests on
tokens being numbered.

*`Services_proofs`.* The run `services` checks properties of `MCServices`, one for each
part. The theorems say that a behaviour of a part is one of the part's module and that the
part's constants meet the hypotheses above, for the properties of the parts `zone`, `by
hand`, `database`, `aged`, `routing`, `cancelling` and `gitlab`. Those of the previews are
theorems of their own module, for all its constants.

*Only model-checked.* Liveness and `ENABLED`, which the provers cannot do:
`CancelHonoured`, `CancelReachesPhases`, `EveryJobEnds`, `ApplicationSettles` and
`MutationEnds`. The findings, which are counterexamples. `TimersFollowRows`,
`OneRunPerTick`, `RestartHeals`, `NoInvisibleRoute`, `RoutesFollowDomains` and
`DoneMeansUp`: they hold in parts whose constants keep several of the code's overlaps and
failures away at once, as the notes of `hazards` say, and a theorem under all these
hypotheses would say little. `TypesOK` of the parts `zone`, `by hand`, `database`, `aged`
and `gitlab`, whose bounds on ports and tokens no other property needs; the types of the
other ten are `TypeCorrect` and `TypesKept` of their modules.

## 5. Plan

Done: the deployment core, the runner, the routing locks, the Traefik files, and the
services around them: scheduling, Compose services, DNS, previews, MongoDB, the GitLab
connection; theorems of all of them.

Next:

1. Types of `ManagedDns`, `MongoService` and `GitlabConnection` as theorems.
2. An abstract specification of a deployment's life that the pipeline implements up to
   the findings.
3. One queue and one worker for application, Compose and preview jobs together. Each
   module has a worker of its own that runs only its kind; the single worker only delays
   jobs of other kinds, which any of the modules allows.

### Not modelled

Within the modelled components: `move` and settings procedures of applications; the
redeploy, Git sources and templates of Compose services; DNS secondaries and the take-over
of a stale publish lock; labels, permissions and cancellation of preview runs; the five
other kinds of databases, which run the steps of `MongoService` without rows and without
its check, so that nothing keeps their deployments apart; clean-up jobs of servers;
Gitea and GitHub, and the managed GitLab application. `components` in `PROJECT.json`
says so for each.

Not planned: console, installer, edition wiring, agent, monitoring,
authentication and permissions, which share no state with the deployment core; backups,
restores, rollbacks and server setup, which are sequences of shell commands whose
outcome is their correctness; Docker, Traefik, PostgreSQL, Redis and BullMQ themselves,
of which the models have the behaviour the code relies on.
