---------------------------- MODULE MongoService ----------------------------
(***************************************************************************)
(* One MongoDB service: the procedures of its router, which run in the API   *)
(* process without a queue or a lock, deployMongo with its check for a        *)
(* deployment in progress, the deployment rows that check reads, and the      *)
(* Swarm service.  Of the six kinds of databases this is the only one whose   *)
(* deployments leave rows and are checked for overlap.                       *)
(***************************************************************************)
EXTENDS Naturals, Sequences

CONSTANTS
    Clients,         \* procedures that may be under way
    Operations,      \* the procedures of this instance
    MayOverlap,      \* the procedures that may run at the same time as others
    Spaced,          \* whether no deployment begins while another is between reading
                     \* the service and writing its row (nothing sees to that)
    Failing,         \* what may fail: "pull", "build", "log", "service", "restart"
    MaxCalls         \* bound: procedures begun

VARIABLES
    service,         \* the row: whether it exists, applicationStatus, the external port
    rows,            \* the deployment rows
    swarm,           \* the Swarm service: "none", "down" (no replicas) or "up", and its port
    req,             \* each procedure's local state
    overlooked,      \* history: the last port saved was not deployed, its deployment
                     \* having been skipped or failed
    calls            \* how much of MaxCalls is used up

mongo == <<service, rows, swarm, req, overlooked, calls>>

Deploy == <<"find", "check", "insert", "markRunning", "pull", "build", "markDone", "finalize">>
Program(op) ==
    CASE op = "deploy" -> Deploy
      [] op = "saveExternalPort" -> <<"port">> \o Deploy
      [] op = "rebuild" -> <<"removeService", "settle">> \o Deploy
      [] op = "start" -> <<"scaleUp", "markStarted">>
      [] op = "stop" -> <<"scaleDown", "markIdle">>
      [] op = "reload" -> <<"scaleDown", "markIdle", "scaleUp", "markStarted">>
      [] op = "remove" -> <<"removeService", "dropRow">>

Rest == [op |-> "none", todo |-> <<>>, port |-> 0, row |-> 0]
None == [state |-> "none", port |-> 0]
Idle(c) == req[c].todo = <<>>
At(c, step) == req[c].todo # <<>> /\ Head(req[c].todo) = step
Set(c, r) == req' = [req EXCEPT ![c] = IF r.todo = <<>> THEN Rest ELSE r]
Go(c, r) == Set(c, [r EXCEPT !.todo = Tail(@)])
Continue(c) == Go(c, req[c])
Jump(c, todo) == Set(c, [req[c] EXCEPT !.todo = todo])
Throw(c) == Jump(c, <<>>)

\* A row younger than ten minutes that says "running".
InProgress == \E i \in DOMAIN rows : rows[i] = [status |-> "running", fresh |-> TRUE]
Deploying(c) == req[c].row # 0

Init ==
    /\ service = [exists |-> TRUE, status |-> "idle", port |-> 0]
    /\ rows = <<>> /\ swarm = None
    /\ req = [c \in Clients |-> Rest]
    /\ overlooked = FALSE /\ calls = 0

Begin(c) ==
    /\ Idle(c) /\ calls < MaxCalls /\ service.exists
    /\ \E op \in Operations :
        /\ \A d \in Clients : ~ Idle(d) => {op, req[d].op} \subseteq MayOverlap
        /\ Set(c, [Rest EXCEPT !.op = op, !.todo = Program(op)])
    /\ calls' = calls + 1
    /\ UNCHANGED <<service, rows, swarm, overlooked>>

-----------------------------------------------------------------------------
(* deployMongo.                                                             *)

\* What is deployed is the row as it is read here.
FindMongo(c) ==
    /\ At(c, "find")
    /\ Spaced => \A d \in Clients : ~ At(d, "check") /\ ~ At(d, "insert")
    /\ IF service.exists THEN Go(c, [req[c] EXCEPT !.port = service.port]) ELSE Throw(c)
    /\ UNCHANGED <<service, rows, swarm, overlooked, calls>>

\* Mutant: only the newest row is looked at.
CheckNewest(c) ==
    /\ At(c, "check")
    /\ LET skip == rows # <<>> /\ rows[1].status = "running"
       IN /\ IF skip THEN Throw(c) ELSE Continue(c)
          /\ overlooked' = (overlooked \/ (skip /\ req[c].op = "saveExternalPort"))
    /\ UNCHANGED <<service, rows, swarm, calls>>

CheckInProgress(c) ==
    /\ At(c, "check")
    /\ LET skip == InProgress
       IN /\ IF skip THEN Throw(c) ELSE Continue(c)
          /\ overlooked' = (overlooked \/ (skip /\ req[c].op = "saveExternalPort"))
    /\ UNCHANGED <<service, rows, swarm, calls>>

\* The log is begun before the row; without it the failure leaves no row.
InsertDeployment(c) ==
    /\ At(c, "insert")
    /\ \/ /\ rows' = Append(rows, [status |-> "running", fresh |-> TRUE])
          /\ Go(c, [req[c] EXCEPT !.row = Len(rows) + 1])
          /\ UNCHANGED overlooked
       \/ /\ "log" \in Failing /\ Jump(c, <<"markError">>)
          /\ overlooked' = TRUE /\ UNCHANGED rows
    /\ UNCHANGED <<service, swarm, calls>>

MarkRunning(c) ==
    /\ At(c, "markRunning") /\ Continue(c)
    /\ service' = [service EXCEPT !.status = "running"]
    /\ UNCHANGED <<rows, swarm, overlooked, calls>>

Fail(c) == Jump(c, <<"markError", "finalizeError">>) /\ overlooked' = TRUE

\* A line of log, then the pull: either may fail.
PullImage(c) ==
    /\ At(c, "pull")
    /\ \/ Continue(c) /\ UNCHANGED overlooked
       \/ Failing \cap {"pull", "log"} # {} /\ Fail(c)
    /\ UNCHANGED <<service, rows, swarm, calls>>

\* Mutant: a service that is there is left as it is.
BuildOnce(c) ==
    /\ At(c, "build")
    /\ swarm' = IF swarm.state # "up" THEN [state |-> "up", port |-> req[c].port] ELSE swarm
    /\ Continue(c)
    /\ overlooked' = (overlooked /\ req[c].port # service.port)
    /\ UNCHANGED <<service, rows, calls>>

\* upsertSwarmService: a service it has created is removed again when it does
\* not get stable, one it has updated stays.
BuildMongo(c) ==
    /\ At(c, "build")
    /\ LET built == [state |-> "up", port |-> req[c].port]
       IN \/ /\ swarm' = built /\ Continue(c)
             /\ overlooked' = (overlooked /\ req[c].port # service.port)
          \/ /\ "build" \in Failing /\ Fail(c)
             /\ swarm' = IF swarm = None THEN None ELSE built
    /\ UNCHANGED <<service, rows, calls>>

MarkDone(c) ==
    /\ At(c, "markDone") /\ Continue(c)
    /\ service' = [service EXCEPT !.status = "done"]
    /\ UNCHANGED <<rows, swarm, overlooked, calls>>

\* The log is appended to first.  Where that fails the deployment has failed,
\* and its row stays "running" when the log cannot be written there either.
Finalize(c) ==
    /\ At(c, "finalize")
    /\ \/ /\ rows' = [rows EXCEPT ![req[c].row].status = "done"]
          /\ Continue(c) /\ UNCHANGED overlooked
       \/ "log" \in Failing /\ Fail(c) /\ UNCHANGED rows
    /\ UNCHANGED <<service, swarm, calls>>

MarkError(c) ==
    /\ At(c, "markError")
    /\ \/ service' = [service EXCEPT !.status = "error"] /\ Continue(c)
       \/ "log" \in Failing /\ Throw(c) /\ UNCHANGED service
    /\ UNCHANGED <<rows, swarm, overlooked, calls>>

FinalizeError(c) ==
    /\ At(c, "finalizeError") /\ Continue(c)
    /\ \/ rows' = [rows EXCEPT ![req[c].row].status = "error"]
       \/ "log" \in Failing /\ UNCHANGED rows
    /\ UNCHANGED <<service, swarm, overlooked, calls>>

-----------------------------------------------------------------------------
(* The rest of the router.                                                  *)

\* The port goes into the row; the service gets it from the deployment that
\* follows, if that is not skipped.
SavePort(c) ==
    /\ At(c, "port") /\ Continue(c)
    /\ service' = [service EXCEPT !.port = @ + 1]
    /\ UNCHANGED <<rows, swarm, overlooked, calls>>

\* docker service scale, which fails without a service.
Scale(c) ==
    /\ \/ At(c, "scaleUp") /\ swarm' = [swarm EXCEPT !.state = IF @ = "none" THEN @ ELSE "up"]
       \/ At(c, "scaleDown") /\ swarm' = [swarm EXCEPT !.state = IF @ = "none" THEN @ ELSE "down"]
    /\ IF swarm = None THEN Throw(c) ELSE Continue(c)
    /\ UNCHANGED <<service, rows, overlooked, calls>>

MarkScaled(c) ==
    /\ \/ At(c, "markStarted") /\ service' = [service EXCEPT !.status = "done"]
       \/ At(c, "markIdle") /\ service' = [service EXCEPT !.status = "idle"]
    /\ Continue(c)
    /\ UNCHANGED <<rows, swarm, overlooked, calls>>

\* A service that cannot be removed is reported to the caller, which goes on.
RemoveService(c) ==
    /\ At(c, "removeService") /\ Continue(c)
    /\ swarm' = None \/ ("service" \in Failing /\ UNCHANGED swarm)
    /\ UNCHANGED <<service, rows, overlooked, calls>>

\* Six seconds, then the volumes are removed, which fails for one still in use.
Settle(c) ==
    /\ At(c, "settle")
    /\ Continue(c) \/ (swarm # None /\ Throw(c))
    /\ UNCHANGED <<service, rows, swarm, overlooked, calls>>

DropRow(c) ==
    /\ At(c, "dropRow") /\ Continue(c)
    /\ service' = [service EXCEPT !.exists = FALSE]
    /\ UNCHANGED <<rows, swarm, overlooked, calls>>

-----------------------------------------------------------------------------
(* Time and restarts.                                                       *)

\* Ten minutes pass over a row.  A deployment is assumed to take less: the row of
\* one that takes longer is overlooked like that of one that is dead.
Age ==
    /\ \E i \in DOMAIN rows :
        /\ rows[i].status = "running" /\ rows[i].fresh
        /\ \A c \in Clients : req[c].row # i
        /\ rows' = [rows EXCEPT ![i].fresh = FALSE]
    /\ UNCHANGED <<service, swarm, req, overlooked, calls>>

\* The API process ends; initCancelDeployments cancels what says "running".
Restart ==
    /\ "restart" \in Failing
    /\ \E c \in Clients : ~ Idle(c)
    /\ req' = [c \in Clients |-> Rest]
    /\ rows' = [i \in DOMAIN rows |->
                    IF rows[i].status = "running" THEN [rows[i] EXCEPT !.status = "cancelled"] ELSE rows[i]]
    /\ UNCHANGED <<service, swarm, overlooked, calls>>

DeployStep(c) == \/ FindMongo(c) \/ CheckInProgress(c) \/ InsertDeployment(c) \/ MarkRunning(c)
                 \/ PullImage(c) \/ BuildMongo(c) \/ MarkDone(c) \/ Finalize(c)
                 \/ MarkError(c) \/ FinalizeError(c)
RouterStep(c) == SavePort(c) \/ Scale(c) \/ MarkScaled(c) \/ RemoveService(c) \/ Settle(c) \/ DropRow(c)

Next == \/ Age
        \/ Restart
        \/ \E c \in Clients : Begin(c) \/ DeployStep(c) \/ RouterStep(c)

Spec == Init /\ [][Next]_mongo

-----------------------------------------------------------------------------
(* Properties.                                                              *)

\* Every variable keeps to its type.
TypeOK ==
    /\ service \in [exists : BOOLEAN, status : {"idle", "running", "done", "error"}, port : 0..MaxCalls]
    /\ \A i \in DOMAIN rows : rows[i] \in [status : {"running", "done", "error", "cancelled"}, fresh : BOOLEAN]
    /\ swarm \in [state : {"none", "down", "up"}, port : 0..MaxCalls]
    /\ \A c \in Clients : req[c].row \in 0..Len(rows) /\ req[c].port \in 0..MaxCalls
    /\ overlooked \in BOOLEAN /\ calls \in 0..MaxCalls

AtRest == \A c \in Clients : Idle(c)

\* Two deployments of the service are never under way at once ("does not spawn a
\* second overlapping deployment for the same service").  Nothing joins the check
\* and the row, so that it needs Spaced.
OneDeploymentAtATime == \A c, d \in Clients : Deploying(c) /\ Deploying(d) => c = d

\* Once nothing is under way, a service shown as done is up and has the external
\* port of its row, unless the deployment of that port was skipped or failed;
\* and a row that is gone has no service.
DoneMeansUp ==
    AtRest =>
        /\ service.exists /\ service.status = "done"
               => swarm.state = "up" /\ (swarm.port = service.port \/ overlooked)
        /\ ~ service.exists => swarm = None

==============================================================================
