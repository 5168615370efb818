------------------------- MODULE DeploymentPipeline -------------------------
(***************************************************************************)
(* The life of an application deployment: the BullMQ queue with its        *)
(* deduplication, the single deployment worker, the build pipeline it      *)
(* drives on a build server, the deployment and application rows it writes *)
(* on the way, the API procedures that enqueue, cancel, kill, reload and   *)
(* delete at the same time, and the crash, restart, stall and stale-row    *)
(* recovery around all of it.                                              *)
(*                                                                         *)
(* Abstractions.  A deploy and a redeploy job differ only in whether the   *)
(* source is fetched, so a job has no type.  Preview and compose jobs are  *)
(* left out.  One call of runDeploymentPhases is a "group": of its runner  *)
(* scripts one is kept (PhaseRunner has them all).  The database and Redis *)
(* always answer, but for the update in the finally block of                *)
(* deployApplication, the last of a run; shell commands on a server may     *)
(* fail when Faulty.                                                        *)
(***************************************************************************)
EXTENDS Integers, Sequences, FiniteSets

CONSTANTS
    Apps,          \* the applications
    Requests,      \* API requests that may be in flight at the same time
    Kinds,         \* which procedures they call, a subset of DOMAIN Program
    MaxJobs,       \* bound: jobs ever added to the queue
    MaxCrashes,    \* bound: crashes of the platform process
    Groups,        \* runDeploymentPhases calls of one pipeline run
    Recoverable,   \* those of them whose failure only changes the builder
    Retain,        \* deployment rows kept when a new one is created (10)
    Production,    \* NODE_ENV = production: initCancelDeployments runs at start
    Watchdog,      \* whether running rows may grow older than the stale timeout
    Faulty,        \* whether commands on the build or application server may fail
    None           \* no application

VARIABLES
    jobs,          \* the "deployments" queue, in order of addition
    rows,          \* the deployments table; mark and child live on the build server
    app,           \* the applications table, and the Swarm service of each
    worker,        \* the deployment worker: one job at a time
    req,           \* the API requests being served
    stale,         \* rows the watchdog has expired, and how far it is with their owner
    server,        \* the platform process: down, booting (API only) or ready
    crashes        \* crashes so far

vars == <<jobs, rows, app, worker, req, stale, server, crashes>>

JobIds == 1..MaxJobs
RowIds == 1..(MaxJobs + MaxCrashes)

\* The steps of each procedure after it has found its application (Call).
Program ==
    [deploy           |-> <<"add">>,
     cleanQueues      |-> <<"list", "unqueue">>,
     cancelDeployment |-> <<"list", "unqueue", "find", "touch", "kill", "mark", "idle", "idle">>,
     killBuild        |-> <<"find", "touch", "kill", "mark", "idle", "list", "unqueue">>,
     killProcess      |-> <<"touch", "kill", "mark">>,
     reload           |-> <<"idle", "mechanize", "done">>,
     start            |-> <<"scale", "done">>,
     stop             |-> <<"scale", "idle">>,
     markRunning      |-> <<"running">>,
     delete           |-> <<"list", "unqueue", "status", "snapshot", "unqueue",
                            "service", "dbDelete">>]

Statuses == {"idle", "running", "done", "error"}
RowStates == {"none", "running", "done", "error", "cancelled", "removed"}
Steps == {"idle", "mark", "find", "prepare", "insert", "check", "wait", "judge",
          "cleanup", "deploy", "rowDone", "appDone", "notify",
          "failRow", "failApp", "catch", "finish"}

ASSUME PipelineAssumption ==
    /\ None \notin Apps
    /\ Kinds \subseteq DOMAIN Program
    /\ MaxJobs \in Nat \ {0} /\ MaxCrashes \in Nat
    /\ Groups \in Nat \ {0} /\ Recoverable \subseteq 1..(Groups - 1)
    /\ Retain \in Nat
    /\ Production \in BOOLEAN /\ Watchdog \in BOOLEAN /\ Faulty \in BOOLEAN

-----------------------------------------------------------------------------
(* Views of the state.                                                     *)

Unfinished(a) == {j \in JobIds : jobs[j].app = a /\ jobs[j].state \in {"waiting", "active"}}
Queued(a) == {j \in JobIds : jobs[j].app = a /\ jobs[j].state = "waiting"}
RowsOf(a) == {r \in RowIds : rows[r].app = a /\ rows[r].state \notin {"none", "removed"}}
Outdated(a) == {r \in RowsOf(a) : Cardinality({s \in RowsOf(a) : s > r}) >= Retain}
RunningRows(a) == {r \in RowsOf(a) : rows[r].state = "running"}
At(q, step) == req[q].kind # "none" /\ Program[req[q].kind][req[q].pc] = step
WorkerApp == jobs[worker.job].app

NoRequest == [kind |-> "none", pc |-> 0, app |-> None, row |-> 0, jobs |-> {}, seen |-> {}]
IdleWorker == [pc |-> "idle", job |-> 0, row |-> 0, group |-> 0, result |-> "ok"]

Init ==
    /\ jobs = [j \in JobIds |-> [app |-> None, state |-> "none", stalls |-> 0]]
    /\ rows = [r \in RowIds |-> [app |-> None, state |-> "none", mark |-> FALSE, child |-> FALSE]]
    /\ app = [a \in Apps |-> [live |-> TRUE, status |-> "idle", service |-> FALSE]]
    /\ worker = IdleWorker
    /\ req = [q \in Requests |-> NoRequest]
    /\ stale = {}
    /\ server = "ready"
    /\ crashes = 0

-----------------------------------------------------------------------------
(* Row updates: UPDATE ... WHERE id = ... does nothing when the row is gone. *)

WithStatus(a, status) == IF app[a].live THEN [app EXCEPT ![a].status = status] ELSE app
WithRowState(r, state) ==
    IF rows[r].state = "removed" THEN rows ELSE [rows EXCEPT ![r].state = state]

\* A command on a server: it may fail only when Faulty.
Reached == IF Faulty THEN BOOLEAN ELSE {TRUE}

-----------------------------------------------------------------------------
(* The worker: one processor call, from taking the job to finishing it.    *)

Goto(pc) == worker' = [worker EXCEPT !.pc = pc]
Throw(result, pc) == worker' = [worker EXCEPT !.pc = pc, !.result = result]

\* The oldest waiting job becomes active.
TakeJob ==
    /\ server = "ready" /\ worker.pc = "idle"
    /\ \E j \in JobIds :
        /\ jobs[j].state = "waiting"
        /\ \A i \in 1..(j - 1) : jobs[i].state # "waiting"
        /\ jobs' = [jobs EXCEPT ![j].state = "active"]
        /\ worker' = [IdleWorker EXCEPT !.pc = "mark", !.job = j]
    /\ UNCHANGED <<rows, app, req, stale, server, crashes>>

MarkRunning ==
    /\ worker.pc = "mark"
    /\ app' = WithStatus(WorkerApp, "running")
    /\ Goto("find")
    /\ UNCHANGED <<jobs, rows, req, stale, server, crashes>>

\* findApplicationById and the check that the queued placement still holds.
FindApplication ==
    /\ worker.pc = "find"
    /\ \/ app[WorkerApp].live /\ Goto("prepare")
       \/ Throw("error", "catch")
    /\ UNCHANGED <<jobs, rows, app, req, stale, server, crashes>>

\* Mutant: rows left running by an earlier run are not closed.
PrepareRowKeepsOld ==
    /\ worker.pc = "prepare"
    /\ IF app[WorkerApp].live THEN Goto("insert") ELSE Throw("error", "catch")
    /\ UNCHANGED <<jobs, rows, app, req, stale, server, crashes>>

\* createDeployment, first half: cancelPreviousRunningDeployments (a process
\* that cannot be reached is skipped) and removeLastTenDeployments.
PrepareRow ==
    /\ worker.pc = "prepare"
    /\ LET a == WorkerApp
       IN  \/ /\ app[a].live
              /\ \E hit \in IF Faulty THEN SUBSET RunningRows(a) ELSE {RunningRows(a)} :
                    rows' = [r \in RowIds |->
                        [rows[r] EXCEPT !.state = IF r \in Outdated(a) THEN "removed"
                                                  ELSE IF r \in RunningRows(a) THEN "cancelled"
                                                  ELSE @,
                                        !.mark = @ \/ r \in hit,
                                        !.child = @ /\ r \notin hit]]
              /\ Goto("insert")
           \/ Throw("error", "catch") /\ UNCHANGED rows
    /\ UNCHANGED <<jobs, app, req, stale, server, crashes>>

\* createDeployment, second half: a running row, or an error row when the log
\* directory could not be made; neither when the application is gone.
InsertRow ==
    /\ worker.pc = "insert"
    /\ \E r \in RowIds :
        /\ rows[r].state = "none" /\ \A s \in 1..(r - 1) : rows[s].state # "none"
        /\ LET a == WorkerApp
               insert(state) == rows' = [rows EXCEPT ![r].app = a, ![r].state = state]
           IN  \/ /\ app[a].live
                  /\ insert("running")
                  /\ worker' = [worker EXCEPT !.pc = "check", !.row = r, !.group = 1]
                  /\ UNCHANGED app
               \/ /\ app[a].live => Faulty
                  /\ IF app[a].live THEN insert("error") ELSE UNCHANGED rows
                  /\ app' = WithStatus(a, "error")
                  /\ Throw("error", "catch")
    /\ UNCHANGED <<jobs, req, stale, server, crashes>>

\* A runner script starts: exit 130 at once if the cancel file is there, else
\* the phase's child process is spawned.  Preparing the scripts may fail.
StartRunner ==
    /\ worker.pc = "check"
    /\ \/ /\ rows[worker.row].mark
          /\ Throw("error", "judge") /\ UNCHANGED rows
       \/ /\ ~ rows[worker.row].mark
          /\ rows' = [rows EXCEPT ![worker.row].child = TRUE]
          /\ Goto("wait")
       \/ Faulty /\ Throw("error", "cleanup") /\ UNCHANGED rows
    /\ UNCHANGED <<jobs, app, req, stale, server, crashes>>

\* Mutant: the runner does not look at the cancel file after the child ended.
RunnerExitsUnchecked ==
    /\ worker.pc = "wait"
    /\ rows' = [rows EXCEPT ![worker.row].child = FALSE]
    /\ \/ rows[worker.row].child /\ Throw("ok", "cleanup")
       \/ Throw("error", "judge")
    /\ UNCHANGED <<jobs, app, req, stale, server, crashes>>

\* The child ends (with any status unless it was killed) and the runner tests
\* for the cancel file a last time.
RunnerExits ==
    /\ worker.pc = "wait"
    /\ LET r == worker.row
       IN  /\ rows' = [rows EXCEPT ![r].child = FALSE]
           /\ \/ rows[r].child /\ ~ rows[r].mark /\ Throw("ok", "cleanup")
              \/ Throw("error", "judge")
    /\ UNCHANGED <<jobs, app, req, stale, server, crashes>>

\* A failed runner: wasDeploymentCancelled decides what the failure means.
JudgeFailure ==
    /\ worker.pc = "judge"
    /\ \E reached \in Reached :
        IF reached /\ rows[worker.row].mark
        THEN Throw("cancelled", "cleanup")
        ELSE \E result \in IF worker.group \in Recoverable THEN {"ok", "error"} ELSE {"error"} :
                Throw(result, "cleanup")
    /\ UNCHANGED <<jobs, rows, app, req, stale, server, crashes>>

\* runApplicationBuildPipeline: the groups run one after the other, then the
\* service is deployed; a failure ends the run.
NextStep ==
    IF worker.result # "ok" THEN "failRow" ELSE IF worker.group < Groups THEN "check" ELSE "deploy"

\* finally: rm -rf workDir, cancel file included; its failure is ignored.
CleanupGroup ==
    /\ worker.pc = "cleanup"
    /\ \E reached \in Reached :
        rows' = [rows EXCEPT ![worker.row].mark = @ /\ ~ reached]
    /\ worker' = [worker EXCEPT
          !.pc = NextStep,
          !.group = IF worker.group < Groups THEN @ + 1 ELSE @]
    /\ UNCHANGED <<jobs, app, req, stale, server, crashes>>

\* resolveRuntimePort and mechanizeDockerContainer; an unhealthy service fails
\* the deployment but stays on the server.
DeployService ==
    /\ worker.pc = "deploy"
    /\ \/ /\ app' = [app EXCEPT ![WorkerApp].service = TRUE]
          /\ Goto("rowDone") \/ Throw("error", "failRow")
       \/ UNCHANGED app /\ Throw("error", "failRow")
    /\ UNCHANGED <<jobs, rows, req, stale, server, crashes>>

RowDone ==
    /\ worker.pc = "rowDone"
    /\ rows' = WithRowState(worker.row, "done")
    /\ Goto("appDone")
    /\ UNCHANGED <<jobs, app, req, stale, server, crashes>>

AppDone ==
    /\ worker.pc = "appDone"
    /\ app' = WithStatus(WorkerApp, "done")
    /\ Goto("notify")
    /\ UNCHANGED <<jobs, rows, req, stale, server, crashes>>

\* The default domain (never fatal) and the success notifications, whose
\* failure sends the finished deployment down the error path; then the finally
\* block, which names the row after its commit and whose failure is the worker's.
Notify ==
    /\ worker.pc = "notify"
    /\ Goto("finish") \/ Throw("error", "failRow") \/ Throw("error", "catch")
    /\ UNCHANGED <<jobs, rows, app, req, stale, server, crashes>>

FailRow ==
    /\ worker.pc = "failRow"
    /\ rows' = WithRowState(worker.row, worker.result)
    /\ Goto("failApp")
    /\ UNCHANGED <<jobs, app, req, stale, server, crashes>>

\* Mutant: the deployment's status is copied to the application.
FailAppCopies ==
    /\ worker.pc \in {"failApp", "catch"}
    /\ app' = WithStatus(WorkerApp, worker.result)
    /\ Goto(IF worker.pc = "failApp" THEN "catch" ELSE "finish")
    /\ UNCHANGED <<jobs, rows, req, stale, server, crashes>>

\* Mutant: a cancelled run leaves the application's status to the canceller.
FailAppIgnoresCancel ==
    /\ worker.pc \in {"failApp", "catch"}
    /\ app' = IF worker.result = "cancelled" THEN app ELSE WithStatus(WorkerApp, "error")
    /\ Goto(IF worker.pc = "failApp" THEN "catch" ELSE "finish")
    /\ UNCHANGED <<jobs, rows, req, stale, server, crashes>>

\* The pipeline's own status update, then the worker's (markDeploymentJobErrored),
\* which sees the finally block's failure in place of the cancellation.
FailApp ==
    /\ worker.pc \in {"failApp", "catch"}
    /\ app' = WithStatus(WorkerApp, IF worker.result = "cancelled" THEN "idle" ELSE "error")
    /\ \/ Goto(IF worker.pc = "failApp" THEN "catch" ELSE "finish")
       \/ worker.pc = "failApp" /\ Throw("error", "catch")
    /\ UNCHANGED <<jobs, rows, req, stale, server, crashes>>

\* Completed or failed: the job leaves the queue and frees its deduplication key.
FinishJob ==
    /\ worker.pc = "finish"
    /\ jobs' = [jobs EXCEPT ![worker.job].state = "ended"]
    /\ worker' = IdleWorker
    /\ UNCHANGED <<rows, app, req, stale, server, crashes>>

Worker ==
    \/ TakeJob \/ MarkRunning \/ FindApplication \/ PrepareRow \/ InsertRow
    \/ StartRunner \/ RunnerExits \/ JudgeFailure \/ CleanupGroup \/ DeployService
    \/ RowDone \/ AppDone \/ Notify \/ FailRow \/ FailApp \/ FinishJob

-----------------------------------------------------------------------------
(* The API.  A request holds its program counter, its application and the  *)
(* rows and jobs it has read; every step is a round trip of its own.       *)

After(r) == IF r.pc = Len(Program[r.kind]) THEN NoRequest ELSE [r EXCEPT !.pc = @ + 1]
Continue(q) == req' = [req EXCEPT ![q] = After(@)]
Abort(q) == req' = [req EXCEPT ![q] = NoRequest]

\* A call arrives and finds its application (killProcess: its deployment).
Call(q) ==
    /\ server # "down" /\ req[q].kind = "none"
    /\ \E kind \in Kinds, a \in Apps :
        /\ app[a].live
        /\ \E r \in IF kind = "killProcess" THEN RowsOf(a) ELSE {0} :
            req' = [req EXCEPT ![q] = [NoRequest EXCEPT !.kind = kind, !.pc = 1, !.app = a, !.row = r]]
    /\ UNCHANGED <<jobs, rows, app, worker, stale, server, crashes>>

\* myQueue.add with a deduplication id: a no-op while a job of the same
\* application is unfinished.
AddJob(q) ==
    /\ At(q, "add")
    /\ \/ Unfinished(req[q].app) # {} /\ UNCHANGED jobs
       \/ /\ Unfinished(req[q].app) = {}
          /\ \E j \in JobIds :
              /\ jobs[j].state = "none" /\ \A i \in 1..(j - 1) : jobs[i].state # "none"
              /\ jobs' = [jobs EXCEPT ![j].app = req[q].app, ![j].state = "waiting"]
    /\ Continue(q)
    /\ UNCHANGED <<rows, app, worker, stale, server, crashes>>

\* cancelQueuedDeployment reads the waiting jobs ...
ListQueued(q) ==
    /\ At(q, "list")
    /\ req' = [req EXCEPT ![q] = After([@ EXCEPT !.jobs = Queued(req[q].app)])]
    /\ UNCHANGED <<jobs, rows, app, worker, stale, server, crashes>>

\* ... and removes them one by one; job.remove throws on a job that a worker
\* has locked in the meantime.
Unqueue(q) ==
    /\ At(q, "unqueue")
    /\ \/ /\ \A j \in req[q].jobs : jobs[j].state = "ended"
          /\ Continue(q) /\ UNCHANGED jobs
       \/ \E j \in req[q].jobs :
              \/ /\ jobs[j].state = "waiting"
                 /\ jobs' = [jobs EXCEPT ![j].state = "ended"] /\ UNCHANGED req
              \/ jobs[j].state = "active" /\ Abort(q) /\ UNCHANGED jobs
    /\ UNCHANGED <<rows, app, worker, stale, server, crashes>>

\* cancelRunningApplicationDeployment picks the newest running row; without
\* one its remaining steps (touch, kill, mark, idle) are skipped.
FindRunning(q) ==
    /\ At(q, "find")
    /\ LET a == req[q].app
       IN  \/ \E r \in RunningRows(a) :
                /\ \A s \in RunningRows(a) : s <= r
                /\ req' = [req EXCEPT ![q] = After([@ EXCEPT !.row = r])]
           \/ RunningRows(a) = {} /\ req' = [req EXCEPT ![q].pc = @ + 5]
    /\ UNCHANGED <<jobs, rows, app, worker, stale, server, crashes>>

\* cancelDeploymentProcess: leave the cancel file ...
TouchMark(q) ==
    /\ At(q, "touch")
    /\ \/ rows' = [rows EXCEPT ![req[q].row].mark = TRUE] /\ Continue(q)
       \/ Faulty /\ Abort(q) /\ UNCHANGED rows
    /\ UNCHANGED <<jobs, app, worker, stale, server, crashes>>

\* ... then kill the child, if its pid file is there to be read.
KillChild(q) ==
    /\ At(q, "kill")
    /\ \/ \E gone \in {FALSE, rows[req[q].row].child} :
            /\ rows' = [rows EXCEPT ![req[q].row].child = @ /\ ~ gone]
            /\ Continue(q)
       \/ Faulty /\ Abort(q) /\ UNCHANGED rows
    /\ UNCHANGED <<jobs, app, worker, stale, server, crashes>>

MarkCancelled(q) ==
    /\ At(q, "mark")
    /\ rows' = WithRowState(req[q].row, "cancelled")
    /\ Continue(q)
    /\ UNCHANGED <<jobs, app, worker, stale, server, crashes>>

\* updateApplicationStatus by cancelDeployment, killBuild, reload, start, stop
\* and markRunning.
SetStatus(q) ==
    /\ \E status \in {"idle", "done", "running"} :
        At(q, status) /\ app' = WithStatus(req[q].app, status)
    /\ Continue(q)
    /\ UNCHANGED <<jobs, rows, worker, stale, server, crashes>>

\* reload: recreate the service from the last image.
Reload(q) ==
    /\ At(q, "mechanize")
    /\ \/ app' = [app EXCEPT ![req[q].app].service = TRUE] /\ Continue(q)
       \/ app' = WithStatus(req[q].app, "error") /\ Abort(q)
    /\ UNCHANGED <<jobs, rows, worker, stale, server, crashes>>

\* start and stop: change the number of replicas of a service that is there.
ScaleService(q) ==
    /\ At(q, "scale")
    /\ \/ app[req[q].app].service /\ Continue(q)
       \/ (app[req[q].app].service => Faulty) /\ Abort(q)
    /\ UNCHANGED <<jobs, rows, app, worker, stale, server, crashes>>

\* delete: refuse while the application is running ...
CheckNotRunning(q) ==
    /\ At(q, "status")
    /\ IF app[req[q].app].live /\ app[req[q].app].status # "running" THEN Continue(q) ELSE Abort(q)
    /\ UNCHANGED <<jobs, rows, app, worker, stale, server, crashes>>

\* Mutant: an active job does not stop the deletion.
SnapshotIgnoresActive(q) ==
    /\ At(q, "snapshot")
    /\ LET a == req[q].app
       IN  req' = [req EXCEPT ![q] = After([@ EXCEPT !.jobs = Queued(a), !.seen = Unfinished(a)])]
    /\ UNCHANGED <<jobs, rows, app, worker, stale, server, crashes>>

\* ... and while one of its jobs is active; the waiting ones are removed next.
SnapshotJobs(q) ==
    /\ At(q, "snapshot")
    /\ LET a == req[q].app
       IN  IF Unfinished(a) = Queued(a)
           THEN req' = [req EXCEPT ![q] = After([@ EXCEPT !.jobs = Queued(a), !.seen = Unfinished(a)])]
           ELSE Abort(q)
    /\ UNCHANGED <<jobs, rows, app, worker, stale, server, crashes>>

\* Mutant: a failed removal does not stop the deletion.
RemoveServiceBestEffort(q) ==
    /\ At(q, "service")
    /\ \/ app' = [app EXCEPT ![req[q].app].service = FALSE]
       \/ Faulty /\ UNCHANGED app
    /\ Continue(q)
    /\ UNCHANGED <<jobs, rows, worker, stale, server, crashes>>

\* removeService; the parent row is kept when it fails.
RemoveService(q) ==
    /\ At(q, "service")
    /\ \/ app' = [app EXCEPT ![req[q].app].service = FALSE] /\ Continue(q)
       \/ Faulty /\ Abort(q) /\ UNCHANGED app
    /\ UNCHANGED <<jobs, rows, worker, stale, server, crashes>>

\* DELETE FROM application, its deployments by cascade.
DeleteApplication(q) ==
    /\ At(q, "dbDelete")
    /\ app' = [app EXCEPT ![req[q].app].live = FALSE]
    /\ rows' = [r \in RowIds |->
                  IF r \in RowsOf(req[q].app) THEN [rows[r] EXCEPT !.state = "removed"] ELSE rows[r]]
    /\ Continue(q)
    /\ UNCHANGED <<jobs, worker, stale, server, crashes>>

Serve(q) ==
    \/ AddJob(q) \/ ListQueued(q) \/ Unqueue(q) \/ FindRunning(q)
    \/ TouchMark(q) \/ KillChild(q) \/ MarkCancelled(q) \/ SetStatus(q) \/ Reload(q)
    \/ ScaleService(q) \/ CheckNotRunning(q) \/ SnapshotJobs(q) \/ RemoveService(q) \/ DeleteApplication(q)

-----------------------------------------------------------------------------
(* Recovery: the stale-row watchdog, crashes, start-up and stalled jobs.   *)

\* One UPDATE expires the rows that are old enough ...
ExpireRows ==
    /\ Watchdog /\ server = "ready" /\ stale = {}
    /\ \E old \in SUBSET {r \in RowIds : rows[r].state = "running"} :
        /\ old # {}
        /\ rows' = [r \in RowIds |-> IF r \in old THEN [rows[r] EXCEPT !.state = "error"] ELSE rows[r]]
        /\ stale' = old \X {"expired"}
    /\ UNCHANGED <<jobs, app, worker, req, server, crashes>>

\* ... then, row by row, the owner's running rows are looked up; an owner found
\* without one is marked, in a second query.
MarkOwnerErroredIfIdle ==
    /\ \E r \in RowIds :
        LET a == rows[r].app
        IN  \/ /\ <<r, "expired">> \in stale
               /\ stale' = (stale \ {<<r, "expired">>})
                              \cup (IF RunningRows(a) = {} THEN {<<r, "idle">>} ELSE {})
               /\ UNCHANGED app
            \/ /\ <<r, "idle">> \in stale
               /\ stale' = stale \ {<<r, "idle">>}
               /\ app' = IF app[a].status = "running" THEN WithStatus(a, "error") ELSE app
    /\ UNCHANGED <<jobs, rows, worker, req, server, crashes>>

\* The process dies; processes on the build server and Redis survive it.
Crash ==
    /\ server # "down" /\ crashes < MaxCrashes
    /\ server' = "down" /\ crashes' = crashes + 1
    /\ worker' = IdleWorker
    /\ req' = [q \in Requests |-> NoRequest]
    /\ stale' = {}
    /\ UNCHANGED <<jobs, rows, app>>

\* server.listen: the API answers before anything else is initialised.
Listen ==
    /\ server = "down"
    /\ server' = "booting"
    /\ UNCHANGED <<jobs, rows, app, worker, req, stale, crashes>>

\* Mutant: rows of the crashed process are left as they are.
StartWorkerOnly ==
    /\ server = "booting"
    /\ server' = "ready"
    /\ UNCHANGED <<jobs, rows, app, worker, req, stale, crashes>>

\* initCancelDeployments (in production), then deploymentWorker.run.
StartWorker ==
    /\ server = "booting"
    /\ server' = "ready"
    /\ rows' = [r \in RowIds |-> IF Production /\ rows[r].state = "running"
                                 THEN [rows[r] EXCEPT !.state = "cancelled"] ELSE rows[r]]
    /\ UNCHANGED <<jobs, app, worker, req, stale, crashes>>

\* Mutant: an interrupted job is never given back to the queue.
StallOnlyRepeated ==
    /\ server = "ready"
    /\ \E j \in JobIds :
        /\ jobs[j].state = "active" /\ worker.job # j /\ jobs[j].stalls = 1
        /\ jobs' = [jobs EXCEPT ![j].state = "ended"]
    /\ UNCHANGED <<rows, app, worker, req, stale, server, crashes>>

\* An active job whose lock has expired goes back to the queue once; the
\* second time it fails without running (maxStalledCount = 1).
Stall ==
    /\ server = "ready"
    /\ \E j \in JobIds :
        /\ jobs[j].state = "active" /\ worker.job # j
        /\ jobs' = [jobs EXCEPT ![j].state = IF jobs[j].stalls = 0 THEN "waiting" ELSE "ended",
                                ![j].stalls = 1]
    /\ UNCHANGED <<rows, app, worker, req, stale, server, crashes>>

\* A build process that lost its worker ends on its own.
OrphanExits ==
    /\ \E r \in RowIds :
        /\ rows[r].child /\ ~ (worker.pc = "wait" /\ worker.row = r)
        /\ rows' = [rows EXCEPT ![r].child = FALSE]
    /\ UNCHANGED <<jobs, app, worker, req, stale, server, crashes>>

Next ==
    \/ Worker
    \/ \E q \in Requests : Call(q) \/ Serve(q)
    \/ ExpireRows \/ MarkOwnerErroredIfIdle
    \/ Crash \/ Listen \/ StartWorker \/ Stall \/ OrphanExits

Spec == Init /\ [][Next]_vars

\* The event loop runs the worker, the start-up and the procedures it has begun
\* to serve; BullMQ checks for stalled jobs; build processes end (every phase
\* has a timeout).  Nobody has to call the API, and nothing has to crash.
Fairness ==
    /\ WF_vars(Worker)
    /\ WF_vars(Listen) /\ WF_vars(StartWorker) /\ WF_vars(Stall)
    /\ WF_vars(MarkOwnerErroredIfIdle)
    /\ \A q \in Requests : WF_vars(Serve(q))

FairSpec == Spec /\ Fairness

-----------------------------------------------------------------------------
(* Properties.                                                             *)

Jobs == [app : Apps \cup {None}, state : {"none", "waiting", "active", "ended"}, stalls : 0..1]
Rows == [app : Apps \cup {None}, state : RowStates, mark : BOOLEAN, child : BOOLEAN]
AppRecords == [live : BOOLEAN, status : Statuses, service : BOOLEAN]
WorkerStates == [pc : Steps, job : 0..MaxJobs, row : 0..(MaxJobs + MaxCrashes),
                 group : 0..Groups, result : {"ok", "error", "cancelled"}]
RequestStates == [kind : Kinds \cup {"none"}, pc : 0..8, app : Apps \cup {None},
                  row : 0..(MaxJobs + MaxCrashes), jobs : SUBSET JobIds, seen : SUBSET JobIds]

\* Types; among the rest, the result of a run ("ok", "error", "cancelled") is
\* translated to what the two enums have: "ok" is no state of a row, "cancelled"
\* no status of an application (deploymentStatus, applicationStatus).
TypeOK ==
    /\ jobs \in [JobIds -> Jobs]
    /\ rows \in [RowIds -> Rows]
    /\ app \in [Apps -> AppRecords]
    /\ worker \in WorkerStates
    /\ req \in [Requests -> RequestStates]
    /\ stale \in SUBSET (RowIds \X {"expired", "idle"})
    /\ server \in {"down", "booting", "ready"}
    /\ crashes \in 0..MaxCrashes

\* At most one row of an application is running, and it is its newest: a run
\* starts by closing what an earlier run left open
\* (cancelPreviousRunningDeployments in createDeployment).
OnlyTheNewestRowRuns ==
    \A a \in Apps : \A r \in RunningRows(a) : \A s \in RowsOf(a) : s <= r

\* In production, once the worker runs, every running row is the one it is
\* executing: neither an error path nor a restart leaves a row running for ever
\* (the catch of deployApplication, initCancelDeployments).
NoAbandonedRunningRow ==
    Production /\ server = "ready" =>
        \A r \in RowIds : rows[r].state = "running" => worker.row = r

\* A deletion that has passed its checks has no job of its snapshot left to
\* race with (prepareDeploymentJobsForServiceDeletion).
DeletionGuard ==
    \A q \in Requests : At(q, "service") \/ At(q, "dbDelete") =>
        \A j \in req[q].seen : jobs[j].state = "ended"

\* A deleted application has no service left on its server (removeService:
\* "a running service never becomes untracked").
NoUntrackedService == \A a \in Apps : app[a].service => app[a].live

\* A cancelled deployment stays cancelled: the console stops polling it and
\* reports "Deployment was cancelled."
CancelledIsFinal ==
    [][\A r \in RowIds : rows[r].state = "cancelled" => rows'[r].state \in {"cancelled", "removed"}]_vars

\* A cancel file that is there before the runner of a phase ends stops the
\* deployment: the worker lets go of the row, and it is not marked done.
CancelHonoured ==
    \A r \in RowIds :
        worker.row = r /\ worker.pc \in {"check", "wait"} /\ rows[r].mark
            ~> worker.row # r /\ rows[r].state \in {"cancelled", "removed"}

\* Every queued job leaves the queue, crashes or not.
EveryJobEnds == \A j \in JobIds : jobs[j].state \in {"waiting", "active"} ~> jobs[j].state = "ended"

\* No application stays "running" for ever, which would block its deletion.
ApplicationSettles ==
    \A a \in Apps : app[a].live /\ app[a].status = "running"
        ~> ~ app[a].live \/ app[a].status # "running"
=============================================================================
