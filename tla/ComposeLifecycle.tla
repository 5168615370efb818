-------------------------- MODULE ComposeLifecycle --------------------------
(***************************************************************************)
(* One Compose service from its first deployment to its deletion: the row    *)
(* with its status, the jobs of the queue and the worker that runs them, the *)
(* domains with their DNS records, and on the server the compose file and    *)
(* the containers, whose labels are the routes.  Everything that touches the *)
(* server holds the service's routing lock (see RoutingLocks); the writes of  *)
(* the status, the queue and the deletion of the row do not.                 *)
(***************************************************************************)
EXTENDS Naturals, Sequences, FiniteSets

CONSTANTS
    Domains,         \* ids of domains, each with a managed DNS record
    Clients,         \* API procedures that may be under way
    Operations,      \* the procedures of this instance
    Failing,         \* what may fail: "build", "log", "command", "dns", "undo",
                     \* "route", "rollback", "row"
    MaxCalls,        \* bound: procedures begun
    Exclusive        \* whether deploying and adding domains keep clear of a
                     \* deletion (nothing in the code sees to that)

VARIABLES
    service,         \* the row: whether it exists, composeStatus
    deployments,     \* its deployment rows
    jobs,            \* the jobs of the queue, in the order they were added
    lock,            \* who holds compose-routing:<id>
    domains,         \* the domain rows
    records,         \* the domains whose DNS record exists
    file,            \* the compose file on the server
    stack,           \* the containers
    worker,          \* the deployment worker
    req,             \* each procedure's local state
    calls            \* how much of MaxCalls is used up

lifecycle == <<service, deployments, jobs, lock, domains, records, file, stack, worker, req, calls>>

NoOne == "nobody"
Worker == "worker"
Statuses == {"idle", "running", "done", "error"}
Missing == [present |-> FALSE, routes |-> {}]
FileWith(routes) == [present |-> TRUE, routes |-> routes]
Down == [state |-> "none", routes |-> {}]
UpWith(routes) == [state |-> "up", routes |-> routes]

\* The steps of each procedure.  What happens between "lock" and "unlock" is
\* one transaction, whose end releases the lock.
RemovalSteps == <<"lock", "readDomain", "route", "record", "row", "unlock">>
Program(op) ==
    CASE op = "deploy" -> <<"find", "enqueue">>
      [] op = "cancelDeployment" -> <<"find", "idle", "rowDone", "listWaiting", "dequeue">>
      [] op = "cleanQueues" -> <<"listWaiting", "dequeue">>
      [] op = "stop" -> <<"lock", "findLocked", "halt", "status", "unlock">>
      [] op = "start" -> <<"lock", "findLocked", "start", "status", "unlock">>
      [] op = "addDomain" -> <<"lock", "findLocked", "insert", "route", "record", "unlock">>
      [] op = "removeDomain" -> RemovalSteps
      [] op = "delete" ->
            <<"find", "listWaiting", "dequeue", "notRunning", "listAll", "notActive", "dequeue",
              "domains", "lock", "remove", "unlock", "dropRow">>

\* A procedure: what it still has to do, the domain it is about, the domains it
\* has read and those it has still to remove, its jobs, the status it will write, whether the route was applied
\* and whether a clean-up failed.
Rest == [op |-> "none", todo |-> <<>>, domain |-> CHOOSE d \in Domains : TRUE, read |-> {},
         left |-> {}, seen |-> {}, write |-> "idle", applied |-> FALSE, failed |-> FALSE]
NoRun == [pc |-> "idle", job |-> 0, routes |-> {}, row |-> 0]

At(c, step) == req[c].todo # <<>> /\ Head(req[c].todo) = step
Quiet == \A c \in Clients : req[c].todo = <<>>
Unfinished == {i \in DOMAIN jobs : jobs[i] \in {"waiting", "active"}}
Waiting == {i \in DOMAIN jobs : jobs[i] = "waiting"}
Deleting == \E c \in Clients : req[c].op = "delete"

\* A procedure that has done its last step is over.
Set(c, r) == req' = [req EXCEPT ![c] = IF r.todo = <<>> THEN Rest ELSE r]
Go(c, r) == Set(c, [r EXCEPT !.todo = Tail(@)])
Continue(c) == Go(c, req[c])
Jump(c, r, todo) == Set(c, [r EXCEPT !.todo = todo])

\* It throws: what has locked unlocks, and nothing else is done.
Abort(c) == Jump(c, req[c], IF lock = c THEN <<"unlock">> ELSE <<>>)

Init ==
    /\ service = [exists |-> TRUE, status |-> "idle"]
    /\ deployments = <<>> /\ jobs = <<>>
    /\ lock = NoOne
    /\ domains = {} /\ records = {}
    /\ file = Missing /\ stack = Down
    /\ worker = NoRun
    /\ req = [c \in Clients |-> Rest]
    /\ calls = 0

-----------------------------------------------------------------------------
(* Beginning, locking, reading.                                             *)

\* An operation that the restriction to Exclusive keeps back.
Clear(op) ==
    Exclusive =>
        /\ op \in {"deploy", "addDomain"} => ~ Deleting
        /\ op = "delete" => \A c \in Clients : req[c].op \notin {"deploy", "addDomain"}

BeginCall(c) ==
    /\ req[c].todo = <<>> /\ calls < MaxCalls /\ service.exists
    /\ \E op \in Operations, d \in Domains :
        /\ Clear(op)
        /\ op = "addDomain" => d \notin domains /\ \A q \in Clients : req[q].op = op => req[q].domain # d
        /\ op = "removeDomain" => d \in domains
        /\ op \notin {"addDomain", "removeDomain"} => d = Rest.domain
        /\ Jump(c, [Rest EXCEPT !.op = op, !.domain = d], Program(op))
    /\ calls' = calls + 1
    /\ UNCHANGED <<service, deployments, jobs, lock, domains, records, file, stack, worker>>

Lock(c) ==
    /\ At(c, "lock") /\ lock = NoOne
    /\ lock' = c /\ Continue(c)
    /\ UNCHANGED <<service, deployments, jobs, domains, records, file, stack, worker, calls>>

Unlock(c) ==
    /\ At(c, "unlock")
    /\ lock' = NoOne /\ Continue(c)
    /\ UNCHANGED <<service, deployments, jobs, domains, records, file, stack, worker, calls>>

\* findComposeById, which throws when there is no row.
FindService(c) ==
    /\ At(c, "find") \/ At(c, "findLocked")
    /\ IF service.exists THEN Go(c, [req[c] EXCEPT !.read = domains]) ELSE Abort(c)
    /\ UNCHANGED <<service, deployments, jobs, lock, domains, records, file, stack, worker, calls>>

-----------------------------------------------------------------------------
(* The queue.                                                               *)

\* Compose jobs have no deduplication id.
Enqueue(c) ==
    /\ At(c, "enqueue")
    /\ jobs' = Append(jobs, "waiting")
    /\ Continue(c)
    /\ UNCHANGED <<service, deployments, lock, domains, records, file, stack, worker, calls>>

\* getJobs of the waiting jobs, or of all jobs.
ListJobs(c) ==
    /\ \/ At(c, "listWaiting") /\ Go(c, [req[c] EXCEPT !.seen = Waiting])
       \/ At(c, "listAll") /\ Go(c, [req[c] EXCEPT !.seen = Unfinished])
    /\ UNCHANGED <<service, deployments, jobs, lock, domains, records, file, stack, worker, calls>>

\* Mutant: an active job is taken for one that may be cancelled.
IgnoreActive(c) ==
    /\ At(c, "notActive")
    /\ Go(c, [req[c] EXCEPT !.seen = @ \cap Waiting])
    /\ UNCHANGED <<service, deployments, jobs, lock, domains, records, file, stack, worker, calls>>

\* prepareDeploymentJobsForServiceDeletion looks at the states of the jobs listed.
CheckNotActive(c) ==
    /\ At(c, "notActive")
    /\ IF \E i \in req[c].seen : jobs[i] = "active" THEN Abort(c)
       ELSE Go(c, [req[c] EXCEPT !.seen = @ \cap Waiting])
    /\ UNCHANGED <<service, deployments, jobs, lock, domains, records, file, stack, worker, calls>>

\* One job.remove() after the other: an active job is locked, and the call throws.
Dequeue(c) ==
    /\ At(c, "dequeue")
    /\ \/ req[c].seen = {} /\ Continue(c) /\ UNCHANGED jobs
       \/ \E i \in req[c].seen :
            IF jobs[i] = "active" THEN Abort(c) /\ UNCHANGED jobs
            ELSE /\ jobs' = [jobs EXCEPT ![i] = "ended"]
                 /\ Set(c, [req[c] EXCEPT !.seen = @ \ {i}])
    /\ UNCHANGED <<service, deployments, lock, domains, records, file, stack, worker, calls>>

\* cancelDeployment: the status, whatever it was, and the first row of a query without an order.
MarkIdle(c) ==
    /\ At(c, "idle")
    /\ service' = [service EXCEPT !.status = "idle"]
    /\ Continue(c)
    /\ UNCHANGED <<deployments, jobs, lock, domains, records, file, stack, worker, calls>>

MarkRowDone(c) ==
    /\ At(c, "rowDone")
    /\ \/ deployments = <<>> /\ UNCHANGED deployments
       \/ \E i \in DOMAIN deployments : deployments' = [deployments EXCEPT ![i] = "done"]
    /\ Continue(c)
    /\ UNCHANGED <<service, jobs, lock, domains, records, file, stack, worker, calls>>

CheckNotRunning(c) ==
    /\ At(c, "notRunning")
    /\ IF ~ service.exists \/ service.status = "running" THEN Abort(c)
       ELSE Go(c, [req[c] EXCEPT !.left = domains])
    /\ UNCHANGED <<service, deployments, jobs, lock, domains, records, file, stack, worker, calls>>

-----------------------------------------------------------------------------
(* Starting and stopping.                                                   *)

\* The containers are stopped; a failure may come before or after.
Halt(c) ==
    LET stopped == IF stack.state = "up" THEN [stack EXCEPT !.state = "stopped"] ELSE stack IN
    /\ At(c, "halt")
    /\ \/ stack' = stopped /\ Go(c, [req[c] EXCEPT !.write = "idle"])
       \/ /\ "command" \in Failing
          /\ stack' \in {stack, stopped} /\ Go(c, [req[c] EXCEPT !.write = "error"])
    /\ UNCHANGED <<service, deployments, jobs, lock, domains, records, file, worker, calls>>

\* docker compose start: the containers as they were created, for which it reads the file.
StartStack(c) ==
    /\ At(c, "start")
    /\ \/ /\ file.present
          /\ stack' = IF stack.state = "stopped" THEN [stack EXCEPT !.state = "up"] ELSE stack
          /\ Go(c, [req[c] EXCEPT !.write = "done"])
       \/ /\ ~ file.present \/ stack.state = "none" \/ "command" \in Failing
          /\ UNCHANGED stack /\ Go(c, [req[c] EXCEPT !.write = "idle"])
    /\ UNCHANGED <<service, deployments, jobs, lock, domains, records, file, worker, calls>>

WriteStatus(c) ==
    /\ At(c, "status")
    /\ service' = [service EXCEPT !.status = req[c].write]
    /\ Continue(c)
    /\ UNCHANGED <<deployments, jobs, lock, domains, records, file, stack, worker, calls>>

-----------------------------------------------------------------------------
(* Domains.  Routes(routes) is reconcileComposeDomainRoutes: the outcome it    *)
(* returns ("applied", "skipped") or "failed", with the file and the stack.   *)

Reconciled(routes, outcome) ==
    \/ /\ outcome = "skipped" /\ service.exists /\ service.status = "idle"
       /\ UNCHANGED <<file, stack>>
    \/ /\ outcome = "applied" /\ service.exists /\ service.status = "done" /\ file.present
       /\ file' = FileWith(routes) /\ stack' = UpWith(routes)
    \/ /\ outcome = "failed"
       /\ \/ UNCHANGED stack /\ (~ service.exists \/ service.status \in {"running", "error"} \/ ~ file.present)
          \/ /\ "route" \in Failing /\ service.status = "done" /\ file.present
             /\ stack' \in {stack, UpWith(file.routes)} \cup (IF "rollback" \in Failing THEN {UpWith(routes)} ELSE {})
       /\ UNCHANGED file

\* The row refers to its service, which must still be there.
InsertDomain(c) ==
    /\ At(c, "insert")
    /\ IF service.exists
       THEN domains' = domains \cup {req[c].domain} /\ Continue(c)
       ELSE Abort(c) /\ UNCHANGED domains
    /\ UNCHANGED <<service, deployments, jobs, lock, records, file, stack, worker, calls>>

\* findDomainById, which throws, and findComposeById.
ReadDomain(c) ==
    /\ At(c, "readDomain")
    /\ IF req[c].domain \in domains THEN Go(c, [req[c] EXCEPT !.read = domains]) ELSE Abort(c)
    /\ UNCHANGED <<service, deployments, jobs, lock, domains, records, file, stack, worker, calls>>

UndoAdding == <<"undoRoute", "undoRecord", "undoRow", "unlock">>
Desired(c) == IF req[c].op = "addDomain" THEN req[c].read \cup {req[c].domain} ELSE req[c].read \ {req[c].domain}
RouteDomain(c) ==
    /\ At(c, "route")
    /\ \E outcome \in {"applied", "skipped", "failed"} :
        /\ Reconciled(Desired(c), outcome)
        /\ IF outcome # "failed" THEN Go(c, [req[c] EXCEPT !.applied = outcome = "applied"])
           ELSE IF req[c].op = "addDomain" THEN Jump(c, [req[c] EXCEPT !.applied = FALSE], UndoAdding)
           ELSE Abort(c)
    /\ UNCHANGED <<service, deployments, jobs, lock, domains, records, worker, calls>>

\* syncManagedDnsRecordForDomain or deleteManagedDnsRecordForDomain; see ManagedDns.
Record(c) ==
    LET adding == req[c].op = "addDomain" IN
    /\ At(c, "record")
    /\ \/ /\ records' = IF adding THEN records \cup {req[c].domain} ELSE records \ {req[c].domain}
          /\ Continue(c)
       \/ /\ "dns" \in Failing
          /\ Jump(c, req[c], IF adding THEN UndoAdding ELSE <<"undoRoute", "unlock">>)
          /\ UNCHANGED records
    /\ UNCHANGED <<service, deployments, jobs, lock, domains, file, stack, worker, calls>>

DeleteDomainRow(c) ==
    /\ At(c, "row")
    /\ \/ domains' = domains \ {req[c].domain} /\ Continue(c)
       \/ /\ "row" \in Failing /\ UNCHANGED domains
          /\ Jump(c, req[c], <<"undoRoute", "restoreRecord", "unlock">>)
    /\ UNCHANGED <<service, deployments, jobs, lock, records, file, stack, worker, calls>>

RestoreRecord(c) ==
    /\ At(c, "restoreRecord")
    /\ records' \in {records \cup {req[c].domain}} \cup (IF "dns" \in Failing THEN {records} ELSE {})
    /\ Continue(c)
    /\ UNCHANGED <<service, deployments, jobs, lock, domains, file, stack, worker, calls>>

\* The routes as they were read; a removal swallows the failure.
UndoRoute(c) ==
    /\ At(c, "undoRoute")
    /\ \/ ~ req[c].applied /\ Continue(c) /\ UNCHANGED <<file, stack>>
       \/ /\ req[c].applied
          /\ \E outcome \in {"applied", "skipped", "failed"} :
               /\ Reconciled(req[c].read, outcome)
               /\ Go(c, [req[c] EXCEPT !.failed = @ \/ outcome = "failed"])
    /\ UNCHANGED <<service, deployments, jobs, lock, domains, records, worker, calls>>

UndoRecord(c) ==
    /\ At(c, "undoRecord")
    /\ \/ records' = records \ {req[c].domain} /\ Continue(c)
       \/ "undo" \in Failing /\ Go(c, [req[c] EXCEPT !.failed = TRUE]) /\ UNCHANGED records
    /\ UNCHANGED <<service, deployments, jobs, lock, domains, file, stack, worker, calls>>

\* Mutant: the row goes whether or not the clean-up has succeeded.
ForgetDomain(c) ==
    /\ At(c, "undoRow")
    /\ domains' = domains \ {req[c].domain}
    /\ Continue(c)
    /\ UNCHANGED <<service, deployments, jobs, lock, records, file, stack, worker, calls>>

UndoRow(c) ==
    /\ At(c, "undoRow")
    /\ domains' = IF req[c].failed THEN domains ELSE domains \ {req[c].domain}
    /\ Continue(c)
    /\ UNCHANGED <<service, deployments, jobs, lock, records, file, stack, worker, calls>>

-----------------------------------------------------------------------------
(* The deletion.                                                            *)

\* removeDomainById for each domain that was read.
RemoveDomains(c) ==
    /\ At(c, "domains")
    /\ \/ req[c].left = {} /\ Continue(c)
       \/ \E d \in req[c].left :
            Jump(c, [req[c] EXCEPT !.domain = d, !.left = @ \ {d}], RemovalSteps \o req[c].todo)
    /\ UNCHANGED <<service, deployments, jobs, lock, domains, records, file, stack, worker, calls>>

\* removeCompose: the containers, then the files; the row is kept when it fails.
RemoveStack(c) ==
    /\ At(c, "remove")
    /\ \/ file' = Missing /\ stack' = Down /\ Continue(c)
       \/ "command" \in Failing /\ stack' \in {stack, Down} /\ Abort(c) /\ UNCHANGED file
    /\ UNCHANGED <<service, deployments, jobs, lock, domains, records, worker, calls>>

\* The row, with its domains and deployments by cascade; then the directory, if it can be removed.
DropRow(c) ==
    /\ At(c, "dropRow")
    /\ service' = [exists |-> FALSE, status |-> "idle"]
    /\ domains' = {} /\ deployments' = <<>>
    /\ file' \in {Missing} \cup (IF "command" \in Failing THEN {file} ELSE {})
    /\ Continue(c)
    /\ UNCHANGED <<jobs, lock, records, stack, worker, calls>>

-----------------------------------------------------------------------------
(* The worker: one job at a time, the first that waits.                      *)

Status(s) == service' = IF service.exists THEN [service EXCEPT !.status = s] ELSE service
Result(s) == deployments' = [i \in DOMAIN deployments |-> IF i = worker.row THEN s ELSE deployments[i]]
WorkerAt(pc) == worker.pc = pc
WorkerTo(pc) == worker' = [worker EXCEPT !.pc = pc]

TakeJob ==
    /\ WorkerAt("idle") /\ Waiting # {}
    /\ LET i == CHOOSE i \in Waiting : \A k \in Waiting : i <= k IN
        /\ jobs' = [jobs EXCEPT ![i] = "active"]
        /\ worker' = [NoRun EXCEPT !.pc = "running", !.job = i]
    /\ UNCHANGED <<service, deployments, lock, domains, records, file, stack, req, calls>>

MarkRunning ==
    /\ WorkerAt("running")
    /\ Status("running") /\ WorkerTo("lock")
    /\ UNCHANGED <<deployments, jobs, lock, domains, records, file, stack, req, calls>>

\* Mutant: the deployment does not take the lock.
RunUnlocked ==
    /\ WorkerAt("lock")
    /\ WorkerTo("find")
    /\ UNCHANGED <<service, deployments, jobs, lock, domains, records, file, stack, req, calls>>

RunLocked ==
    /\ WorkerAt("lock") /\ lock = NoOne
    /\ lock' = Worker /\ WorkerTo("find")
    /\ UNCHANGED <<service, deployments, jobs, domains, records, file, stack, req, calls>>

\* Leaving deployCompose, which ends the transaction.
Leave(pc) == lock' = (IF lock = Worker THEN NoOne ELSE lock) /\ WorkerTo(pc)

\* findComposeById: what is deployed is what it returns.
ReadService ==
    /\ WorkerAt("find")
    /\ IF service.exists
       THEN worker' = [worker EXCEPT !.pc = "create", !.routes = domains] /\ UNCHANGED lock
       ELSE Leave("mark")
    /\ UNCHANGED <<service, deployments, jobs, domains, records, file, stack, req, calls>>

\* createDeploymentCompose closes the rows that are still running.
CreateDeployment ==
    LET closed == [i \in DOMAIN deployments |-> IF deployments[i] = "running" THEN "cancelled" ELSE deployments[i]] IN
    /\ WorkerAt("create")
    /\ \/ /\ ~ service.exists /\ Leave("mark") /\ UNCHANGED <<service, deployments>>
       \/ /\ service.exists /\ deployments' = Append(closed, "running")
          /\ worker' = [worker EXCEPT !.pc = "build", !.row = Len(closed) + 1]
          /\ UNCHANGED <<service, lock>>
       \/ /\ service.exists /\ "build" \in Failing /\ deployments' = Append(closed, "error")
          /\ Status("error") /\ Leave("mark")
    /\ UNCHANGED <<jobs, domains, records, file, stack, req, calls>>

\* cloneCompose, then the file with its routes and docker compose up; a failure
\* may leave no file, the bare one, or containers that are up already.
Build ==
    /\ WorkerAt("build")
    /\ \/ file' = FileWith(worker.routes) /\ stack' = UpWith(worker.routes) /\ WorkerTo("rowDone")
       \/ /\ "build" \in Failing /\ WorkerTo("log")
          /\ \/ file' \in {Missing, FileWith({})} /\ UNCHANGED stack
             \/ file' = FileWith(worker.routes) /\ stack' \in {stack, UpWith(worker.routes)}
    /\ UNCHANGED <<service, deployments, jobs, lock, domains, records, req, calls>>

MarkDeploymentDone ==
    /\ WorkerAt("rowDone")
    /\ Result("done") /\ WorkerTo("statusDone")
    /\ UNCHANGED <<service, jobs, lock, domains, records, file, stack, req, calls>>

MarkServiceDone ==
    /\ WorkerAt("statusDone")
    /\ Status("done") /\ WorkerTo("notify")
    /\ UNCHANGED <<deployments, jobs, lock, domains, records, file, stack, req, calls>>

\* The service is read again and the notifications are sent.
Notify ==
    /\ WorkerAt("notify")
    /\ \/ service.exists /\ Leave("end")
       \/ (~ service.exists \/ "build" \in Failing) /\ WorkerTo("log") /\ UNCHANGED lock
    /\ UNCHANGED <<service, deployments, jobs, domains, records, file, stack, req, calls>>

\* The catch block writes to the log first; when that throws, the row stays as it is.
LogFailure ==
    /\ WorkerAt("log")
    /\ \/ WorkerTo("rowError") /\ UNCHANGED lock
       \/ "log" \in Failing /\ Leave("mark")
    /\ UNCHANGED <<service, deployments, jobs, domains, records, file, stack, req, calls>>

MarkDeploymentError ==
    /\ WorkerAt("rowError")
    /\ Result("error") /\ WorkerTo("statusError")
    /\ UNCHANGED <<service, jobs, lock, domains, records, file, stack, req, calls>>

MarkServiceError ==
    /\ WorkerAt("statusError")
    /\ Status("error") /\ Leave("mark")
    /\ UNCHANGED <<deployments, jobs, domains, records, file, stack, req, calls>>

\* Mutant: only the deployment's own error path marks the service.
MarkNothing ==
    /\ WorkerAt("mark")
    /\ WorkerTo("end")
    /\ UNCHANGED <<service, deployments, jobs, lock, domains, records, file, stack, req, calls>>

\* markDeploymentJobErrored, when the lock has been released.
MarkJobErrored ==
    /\ WorkerAt("mark")
    /\ Status("error") /\ WorkerTo("end")
    /\ UNCHANGED <<deployments, jobs, lock, domains, records, file, stack, req, calls>>

EndJob ==
    /\ WorkerAt("end")
    /\ jobs' = [jobs EXCEPT ![worker.job] = "ended"] /\ worker' = NoRun
    /\ UNCHANGED <<service, deployments, lock, domains, records, file, stack, req, calls>>

-----------------------------------------------------------------------------
Procedure(c) ==
    \/ BeginCall(c) \/ Lock(c) \/ Unlock(c) \/ FindService(c)
    \/ Enqueue(c) \/ ListJobs(c) \/ CheckNotActive(c) \/ Dequeue(c)
    \/ MarkIdle(c) \/ MarkRowDone(c) \/ CheckNotRunning(c)
    \/ Halt(c) \/ StartStack(c) \/ WriteStatus(c)
    \/ InsertDomain(c) \/ ReadDomain(c) \/ RouteDomain(c) \/ Record(c) \/ DeleteDomainRow(c)
    \/ RestoreRecord(c) \/ UndoRoute(c) \/ UndoRecord(c) \/ UndoRow(c)
    \/ RemoveDomains(c) \/ RemoveStack(c) \/ DropRow(c)

Run ==
    \/ TakeJob \/ MarkRunning \/ RunLocked \/ ReadService \/ CreateDeployment \/ Build
    \/ MarkDeploymentDone \/ MarkServiceDone \/ Notify
    \/ LogFailure \/ MarkDeploymentError \/ MarkServiceError \/ MarkJobErrored \/ EndJob

Next == Run \/ \E c \in Clients : Procedure(c)

Spec == Init /\ [][Next]_lifecycle

-----------------------------------------------------------------------------
(* Properties.                                                              *)

\* Every variable keeps to its type, and a procedure knows only jobs that were added.
TypeOK ==
    /\ service \in [exists : BOOLEAN, status : Statuses]
    /\ \A i \in DOMAIN deployments : deployments[i] \in {"running", "done", "error", "cancelled"}
    /\ \A i \in DOMAIN jobs : jobs[i] \in {"waiting", "active", "ended"}
    /\ lock \in Clients \cup {NoOne, Worker}
    /\ domains \subseteq Domains /\ records \subseteq Domains
    /\ file.routes \subseteq Domains /\ stack.routes \subseteq Domains
    /\ \A c \in Clients : req[c].left \subseteq Domains /\ req[c].seen \subseteq DOMAIN jobs

\* A domain's row is deleted only when nothing of the domain is left to find
\* through it: no DNS record, and no route on containers that are up.
NoInvisibleRoute ==
    \A d \in domains \ domains' :
        d \notin records' /\ (stack'.state = "up" => d \notin stack'.routes)

\* When no procedure is under way, a service that has been deployed and not been
\* touched since routes the domains it has, however the mutations were ordered.
RoutesFollowDomains ==
    Quiet /\ WorkerAt("idle") /\ service.status = "done" /\ stack.state = "up" =>
        stack.routes = domains

\* A deleted service leaves nothing on its server, no DNS record, and no job
\* that would bring it back.
NothingLeftBehind ==
    ~ service.exists =>
        stack = Down /\ records = {} /\ Unfinished = {} /\ WorkerAt("idle")

\* While the status says that a deployment is running, one is: every way a run
\* can end takes the service out of "running".
RunningMeansRun == service.status = "running" => ~ WorkerAt("idle")
=============================================================================
