---------------------------- MODULE JobScheduling ----------------------------
(***************************************************************************)
(* Backups, volume backups and schedules are rows of the database, each of  *)
(* which a scheduler has a copy of: a timer of the platform's process when   *)
(* the job is for the local host, a repeatable job of the schedules          *)
(* service's queue when it is for a remote server.  The procedures write the *)
(* row first and tell the scheduler afterwards; both schedulers load the     *)
(* rows again when they start.  Redis and the database always answer: the     *)
(* catches around the clean-up and around each row of the load, which log     *)
(* and go on, are never entered.                                             *)
(***************************************************************************)
EXTENDS Naturals, FiniteSets, Sequences

CONSTANTS
    Jobs,            \* ids of rows
    Kind,            \* what each job is
    Remote,          \* those that belong to a remote server (JOBS_URL is set)
    OfDatabase,      \* volume backups of a database, not of an application
    Owned,           \* those whose application or database may be deleted
    Patterns,        \* cron expressions
    Zones, UTC,      \* time zones of schedules
    NoZone,          \* a repeatable key without a time zone
    Requests,        \* API procedures that may be under way
    MaxCalls,        \* bound: procedures begun
    MaxPlatformStarts, MaxServiceStarts, \* bounds: starts, the first included
    InOrder          \* whether a start has finished before anybody calls, the
                     \* service's clean-up before its load (nothing in the code waits)

VARIABLES
    rows,            \* the tables backup, volume_backup and schedule
    timers,          \* the platform's node-schedule jobs, by name
    queue,           \* the repeatable jobs in Redis
    platform,        \* the platform's process
    service,         \* the schedules service's process
    req,             \* each procedure's local state
    calls, starts    \* how much of the bounds is used up

vars == <<rows, timers, queue, platform, service, req, calls, starts>>

Kinds == {"backup", "schedule", "volume-backup"}

\* What an instance has to assume.
SchedulingAssumption ==
    /\ Kind \in [Jobs -> Kinds]
    /\ Remote \subseteq Jobs /\ Owned \subseteq Jobs
    /\ OfDatabase \subseteq {j \in Jobs : Kind[j] = "volume-backup"}
    /\ UTC \in Zones /\ NoZone \notin Zones
    /\ {MaxCalls, MaxPlatformStarts, MaxServiceStarts} \subseteq Nat
    /\ InOrder \in BOOLEAN

Columns == [enabled : BOOLEAN, pattern : Patterns, zone : Zones]
Row == [state : {"new", "live", "deleted"}, enabled : BOOLEAN, pattern : Patterns, zone : Zones]
Trigger == [pattern : Patterns, zone : Zones]
Key == [job : Jobs, pattern : Patterns, zone : Zones \cup {NoZone}]

\* Only schedules have a time zone.
InputOf(j) == {c \in Columns : Kind[j] # "schedule" => c.zone = UTC}
TriggerOf(row) == [pattern |-> row.pattern, zone |-> row.zone]

\* BullMQ's key of a repeatable job, when it is added ...
KeyOf(j, row) == [job |-> j, pattern |-> row.pattern,
                  zone |-> IF Kind[j] = "schedule" THEN row.zone ELSE NoZone]

\* ... and when it is removed: by its pattern alone.
RemovedKey(j, pattern) == [job |-> j, pattern |-> pattern, zone |-> NoZone]

-----------------------------------------------------------------------------
(* node-schedule keeps the last timer of each name; a timer whose name has   *)
(* been given to another one runs on and can no longer be cancelled.        *)

NoTimers == [named |-> {}, strays |-> 0]
Cancelled(t) == [t EXCEPT !.named = {}]
Armed(t, row) == [named |-> {TriggerOf(row)}, strays |-> t.strays + Cardinality(t.named)]

\* Mutant: the timer is armed anew without cancelling the old one.
ArmedTwice(t, row) == Armed(t, row)

\* Mutant: the name keeps both timers.
RearmedBeside(t, row) == [t EXCEPT !.named = @ \cup {TriggerOf(row)}]

\* removeScheduleBackup and scheduleBackup, removeScheduleJob and scheduleJob.
Rearmed(t, row) == Armed(Cancelled(t), row)

NewRow == [state |-> "new", enabled |-> FALSE, pattern |-> CHOOSE p \in Patterns : TRUE, zone |-> UTC]

\* A procedure: the row it inserts or writes, or has read; the pattern of the
\* repeatable job it has found.
Idle == [op |-> "none", pc |-> "idle", job |-> CHOOSE j \in Jobs : TRUE, row |-> NewRow, found |-> NewRow.pattern]
Done(r) == req' = [req EXCEPT ![r] = Idle]
Continue(r, pc, row) ==
    req' = [req EXCEPT ![r] = IF pc = "idle" THEN Idle ELSE [@ EXCEPT !.pc = pc, !.row = row]]
At(r, pc) == req[r].pc = pc
Job(r) == req[r].job
Live(j) == rows[j].state = "live"
Scheduled(j) == Live(j) /\ rows[j].enabled

\* Mutant: an update of a backup goes the way schedules go, without removing the old job.
DispatchToAdd(op, j, row) ==
    IF j \in Remote
    THEN CASE op = "delete" -> "remove"
           [] op \in {"create", "update"} /\ row.enabled -> "add"
           [] op = "update" /\ ~ row.enabled -> "remove"
           [] OTHER -> "idle"
    ELSE CASE op = "create" /\ row.enabled -> "arm"
           [] op = "update" /\ row.enabled -> IF Kind[j] = "volume-backup" THEN "cancelThenArm" ELSE "rearm"
           [] op = "delete" \/ (op = "update" /\ ~ row.enabled) -> "cancel"
           [] OTHER -> "idle"

\* Where a procedure goes on when it has the row it acts on.
Dispatch(op, j, row) ==
    IF j \in Remote
    THEN CASE op = "delete" -> "remove"
           [] op = "create" /\ row.enabled -> "add"
           [] op = "update" /\ row.enabled -> IF Kind[j] = "schedule" THEN "add" ELSE "lookup"
           [] op = "update" /\ ~ row.enabled -> "remove"
           [] OTHER -> "idle"
    ELSE CASE op = "create" /\ row.enabled -> "arm"
           [] op = "update" /\ row.enabled -> IF Kind[j] = "volume-backup" THEN "cancelThenArm" ELSE "rearm"
           [] op = "delete" \/ (op = "update" /\ ~ row.enabled) -> "cancel"
           [] OTHER -> "idle"

\* backup reads its row again; a new volume backup is looked up for its server.
AfterWrite(op, j, row) ==
    IF op # "delete" /\ (Kind[j] = "backup" \/ (Kind[j] = "volume-backup" /\ op = "create" /\ row.enabled))
    THEN "reread" ELSE Dispatch(op, j, row)

PlatformReady == platform.up /\ platform.load = <<>> /\ platform.arming = {}
ServiceReady == service.up /\ service.cleaned /\ service.load = <<>> /\ service.adding = {}
Quiet == \A r \in Requests : At(r, "idle")

Init ==
    /\ rows = [j \in Jobs |-> NewRow]
    /\ timers = [j \in Jobs |-> NoTimers]
    /\ queue = {}
    /\ platform = [up |-> FALSE, load |-> <<>>, arming |-> {}]
    /\ service = [up |-> FALSE, cleaned |-> TRUE, load |-> <<>>, adding |-> {}]
    /\ req = [r \in Requests |-> Idle]
    /\ calls = 0
    /\ starts = [platform |-> 0, service |-> 0]

-----------------------------------------------------------------------------
(* The procedures create, update and delete of the three routers, and the     *)
(* deletion of a database, which cancels the database's backups, or of an     *)
(* application, which cancels nothing; either takes the rows with it.         *)

\* An id is new once.
Begin(r) ==
    /\ At(r, "idle") /\ platform.up /\ calls < MaxCalls
    /\ InOrder => PlatformReady /\ (service.up => ServiceReady)
    /\ \E j \in Jobs :
         \/ /\ rows[j].state = "new" /\ \A q \in Requests : Job(q) = j => At(q, "idle")
            /\ \E c \in InputOf(j) :
                 req' = [req EXCEPT ![r] = [Idle EXCEPT !.op = "create", !.pc = "write", !.job = j,
                             !.row = [state |-> "live", enabled |-> c.enabled, pattern |-> c.pattern, zone |-> c.zone]]]
         \/ /\ Live(j)
            /\ \E c \in InputOf(j) :
                 req' = [req EXCEPT ![r] = [Idle EXCEPT !.op = "update", !.pc = "read", !.job = j,
                             !.row = [state |-> "live", enabled |-> c.enabled, pattern |-> c.pattern, zone |-> c.zone]]]
         \/ /\ Live(j)
            /\ \E op \in {"delete"} \cup (IF j \in Owned THEN {"deleteOwner"} ELSE {}) :
                 req' = [req EXCEPT ![r] = [Idle EXCEPT !.op = op, !.pc = "read", !.job = j]]
    /\ calls' = calls + 1
    /\ UNCHANGED <<rows, timers, queue, platform, service, starts>>

\* find...ById, which throws when there is no row.
Read(r) ==
    /\ At(r, "read")
    /\ IF Live(Job(r))
       THEN Continue(r, IF req[r].op = "deleteOwner" /\ Kind[Job(r)] = "backup" /\ rows[Job(r)].enabled
                        THEN "remove" ELSE "write",
                     IF req[r].op = "update" THEN req[r].row ELSE rows[Job(r)])
       ELSE Done(r)
    /\ UNCHANGED <<rows, timers, queue, platform, service, calls, starts>>

\* The row is inserted, updated or deleted.  Removing a volume backup goes on when the row is gone.
Write(r) ==
    LET j == Job(r)
        op == req[r].op
        row == IF op = "delete" /\ Kind[j] = "backup" THEN rows[j] ELSE req[r].row
    IN
    /\ At(r, "write")
    /\ IF Live(j) \/ op = "create"
       THEN rows' = [rows EXCEPT ![j] = IF op \in {"delete", "deleteOwner"} THEN [@ EXCEPT !.state = "deleted"] ELSE row]
       ELSE rows' = rows
    /\ IF op # "deleteOwner" /\ (Live(j) \/ op = "create" \/ (op = "delete" /\ Kind[j] = "volume-backup"))
       THEN Continue(r, AfterWrite(op, j, row), row)
       ELSE Done(r)
    /\ UNCHANGED <<timers, queue, platform, service, calls, starts>>

Reread(r) ==
    LET j == Job(r)
        row == IF Kind[j] = "backup" THEN rows[j] ELSE req[r].row
    IN
    /\ At(r, "reread")
    /\ IF Live(j) THEN Continue(r, Dispatch(req[r].op, j, row), row) ELSE Done(r)
    /\ UNCHANGED <<rows, timers, queue, platform, service, calls, starts>>

-----------------------------------------------------------------------------
(* In the platform's process: a timer is changed without waiting.            *)

Rearm(r) ==
    /\ At(r, "rearm")
    /\ timers' = [timers EXCEPT ![Job(r)] = Rearmed(@, req[r].row)]
    /\ Done(r)
    /\ UNCHANGED <<rows, queue, platform, service, calls, starts>>

Cancel(r) ==
    /\ At(r, "cancel") \/ At(r, "cancelThenArm")
    /\ timers' = [timers EXCEPT ![Job(r)] = Cancelled(@)]
    /\ IF At(r, "cancelThenArm") THEN Continue(r, "arm", req[r].row)
       ELSE IF req[r].op = "deleteOwner" THEN Continue(r, "write", req[r].row)
       ELSE Done(r)
    /\ UNCHANGED <<rows, queue, platform, service, calls, starts>>

\* scheduleVolumeBackup reads its row, and fails when there is none.
Arm(r) ==
    LET j == Job(r) IN
    /\ At(r, "arm")
    /\ timers' = IF Kind[j] # "volume-backup" THEN [timers EXCEPT ![j] = Armed(@, req[r].row)]
                 ELSE IF Live(j) THEN [timers EXCEPT ![j] = Armed(@, rows[j])]
                 ELSE timers
    /\ Done(r)
    /\ UNCHANGED <<rows, queue, platform, service, calls, starts>>

-----------------------------------------------------------------------------
(* Calls of the schedules service: create-backup, remove-job and             *)
(* update-backup, whose three round trips to Redis are steps of their own.   *)

Reachable == service.up /\ (InOrder => ServiceReady)

Add(r) ==
    /\ At(r, "add") \/ At(r, "readd")
    /\ At(r, "add") => Reachable
    /\ queue' = queue \cup {KeyOf(Job(r), req[r].row)}
    /\ Done(r)
    /\ UNCHANGED <<rows, timers, platform, service, calls, starts>>

Remove(r) ==
    /\ At(r, "remove") /\ Reachable
    /\ queue' = queue \ {RemovedKey(Job(r), req[r].row.pattern)}
    /\ IF req[r].op = "deleteOwner" THEN Continue(r, "cancel", req[r].row) ELSE Done(r)
    /\ UNCHANGED <<rows, timers, platform, service, calls, starts>>

\* getJobRepeatable: the first job of that name.
Lookup(r) ==
    LET found == {k \in queue : k.job = Job(r)} IN
    /\ At(r, "lookup") /\ Reachable
    /\ \/ /\ found = {}
          /\ Continue(r, "readd", req[r].row)
       \/ \E k \in found :
            req' = [req EXCEPT ![r].pc = "drop", ![r].found = k.pattern]
    /\ UNCHANGED <<rows, timers, queue, platform, service, calls, starts>>

Drop(r) ==
    /\ At(r, "drop")
    /\ queue' = queue \ {RemovedKey(Job(r), req[r].found)}
    /\ Continue(r, "readd", req[r].row)
    /\ UNCHANGED <<rows, timers, platform, service, calls, starts>>

\* fetch throws: the row stays as it has been written; the deletion of a database goes on.
Refused(r) ==
    /\ At(r, "add") \/ At(r, "remove") \/ At(r, "lookup")
    /\ ~ service.up
    /\ IF req[r].op = "deleteOwner" THEN Continue(r, "write", req[r].row) ELSE Done(r)
    /\ UNCHANGED <<rows, timers, queue, platform, service, calls, starts>>

-----------------------------------------------------------------------------
(* The platform's process.  It listens before it loads.                      *)

StartPlatform ==
    /\ ~ platform.up /\ starts.platform < MaxPlatformStarts
    /\ platform' = [up |-> TRUE, load |-> <<"backup", "schedule", "volume-backup">>, arming |-> {}]
    /\ starts' = [starts EXCEPT !.platform = @ + 1]
    /\ UNCHANGED <<rows, timers, queue, service, req, calls>>

\* The platform loads the enabled rows that are not for the schedules service.
Here(j) == Scheduled(j) /\ j \notin Remote

\* initCronJobs, initSchedules, initVolumeBackupsCronJobs: the last one reads each row again.
LoadTimers ==
    /\ platform.up /\ platform.load # <<>>
    /\ LET kind == Head(platform.load)
           mine == {j \in Jobs : Kind[j] = kind /\ Here(j)} IN
       IF kind = "volume-backup"
       THEN /\ platform' = [platform EXCEPT !.load = Tail(@), !.arming = mine]
            /\ UNCHANGED timers
       ELSE /\ platform' = [platform EXCEPT !.load = Tail(@)]
            /\ timers' = [j \in Jobs |-> IF j \in mine THEN Armed(timers[j], rows[j]) ELSE timers[j]]
    /\ UNCHANGED <<rows, queue, service, req, calls, starts>>

LoadVolumeBackup ==
    /\ \E j \in platform.arming :
        /\ timers' = IF Live(j) THEN [timers EXCEPT ![j] = Armed(@, rows[j])] ELSE timers
        /\ platform' = [platform EXCEPT !.arming = @ \ {j}]
    /\ UNCHANGED <<rows, queue, service, req, calls, starts>>

\* A handler of the schedules service goes on without its caller.
CrashPlatform ==
    /\ platform.up
    /\ platform' = [up |-> FALSE, load |-> <<>>, arming |-> {}]
    /\ timers' = [j \in Jobs |-> NoTimers]
    /\ req' = [r \in Requests |-> IF At(r, "drop") \/ At(r, "readd") THEN req[r] ELSE Idle]
    /\ UNCHANGED <<rows, queue, service, calls, starts>>

-----------------------------------------------------------------------------
(* The schedules service.  It waits neither for the clean-up nor the load.    *)

StartService ==
    /\ ~ service.up /\ starts.service < MaxServiceStarts
    /\ InOrder => Quiet
    /\ service' = [up |-> TRUE, cleaned |-> FALSE, adding |-> {},
                    load |-> <<"backup", "schedule", "volume-backup">>]
    /\ starts' = [starts EXCEPT !.service = @ + 1]
    /\ UNCHANGED <<rows, timers, queue, platform, req, calls>>

\* Mutant: the queue is kept.
CleanNothing ==
    /\ service.up /\ ~ service.cleaned
    /\ service' = [service EXCEPT !.cleaned = TRUE]
    /\ UNCHANGED <<rows, timers, queue, platform, req, calls, starts>>

CleanQueue ==
    /\ service.up /\ ~ service.cleaned
    /\ queue' = {}
    /\ service' = [service EXCEPT !.cleaned = TRUE]
    /\ UNCHANGED <<rows, timers, platform, req, calls, starts>>

\* The key a load gives a job: schedules come without their time zone.
LoadedKey(j) == KeyOf(j, [rows[j] EXCEPT !.zone = UTC])

\* What a load takes: all enabled backups; of schedules and volume backups those
\* of an application, a Compose service or a server that is active.
Loaded(kind) ==
    {j \in Jobs : Kind[j] = kind /\ Scheduled(j) /\ (kind # "backup" => j \in Remote \ OfDatabase)}

LoadRows ==
    /\ service.up /\ service.load # <<>> /\ service.adding = {}
    /\ InOrder => service.cleaned
    /\ service' = [service EXCEPT !.load = Tail(@), !.adding = {LoadedKey(j) : j \in Loaded(Head(service.load))}]
    /\ UNCHANGED <<rows, timers, queue, platform, req, calls, starts>>

LoadJob ==
    /\ \E k \in service.adding :
        /\ queue' = queue \cup {k}
        /\ service' = [service EXCEPT !.adding = @ \ {k}]
    /\ UNCHANGED <<rows, timers, platform, req, calls, starts>>

CrashService ==
    /\ service.up
    /\ service' = [up |-> FALSE, cleaned |-> TRUE, load |-> <<>>, adding |-> {}]
    /\ req' = [r \in Requests |-> IF At(r, "drop") \/ At(r, "readd") THEN Idle ELSE req[r]]
    /\ UNCHANGED <<rows, timers, queue, platform, calls, starts>>

-----------------------------------------------------------------------------
Procedure(r) ==
    \/ Begin(r) \/ Read(r) \/ Write(r) \/ Reread(r)
    \/ Rearm(r) \/ Cancel(r) \/ Arm(r)
    \/ Add(r) \/ Remove(r) \/ Lookup(r) \/ Drop(r) \/ Refused(r)

Next ==
    \/ \E r \in Requests : Procedure(r)
    \/ StartPlatform \/ LoadTimers \/ LoadVolumeBackup \/ CrashPlatform
    \/ StartService \/ CleanQueue \/ LoadRows \/ LoadJob \/ CrashService

Spec == Init /\ [][Next]_vars

-----------------------------------------------------------------------------
(* Properties.                                                              *)

AtRest == Quiet /\ PlatformReady /\ ServiceReady

\* What a firing of the schedules service runs: runJobs looks at the row, of
\* schedules and volume backups also whether it is enabled, and needs a remote server.
Effective(k) ==
    k.job \in Remote /\ Live(k.job) /\ (Kind[k.job] # "backup" => rows[k.job].enabled)

Runs(j) == Cardinality({k \in queue : k.job = j /\ Effective(k)}) + Cardinality(timers[j].named) + timers[j].strays

\* Types: at most one timer of a name, and every procedure is at one of its steps.
TypeOK ==
    /\ rows \in [Jobs -> Row]
    /\ \A j \in Jobs : timers[j].named \subseteq Trigger /\ timers[j].strays \in Nat
    /\ \A j \in Jobs : Cardinality(timers[j].named) <= 1
    /\ queue \subseteq Key /\ service.adding \subseteq Key /\ platform.arming \subseteq Jobs
    /\ \A r \in Requests :
        /\ req[r].pc \in {"idle", "read", "write", "reread", "rearm", "cancel", "cancelThenArm", "arm",
                           "add", "remove", "lookup", "drop", "readd"}
        /\ req[r].row \in Row /\ req[r].job \in Jobs /\ req[r].found \in Patterns

\* With nothing under way, no job is run twice at a time: an update leaves no
\* earlier timer or repeatable job behind that would run the row as well.
OneRunPerTick == AtRest => \A j \in Jobs : Runs(j) <= 1

\* With nothing under way, the platform's timers are those of the enabled local
\* rows: nothing runs for a disabled or deleted row, or at a time it no longer has.
TimersFollowRows ==
    AtRest => \A j \in Jobs :
        timers[j] = [named |-> IF Here(j) THEN {TriggerOf(rows[j])} ELSE {}, strays |-> 0]

\* A start of the schedules service puts right what interleaved, refused and
\* interrupted calls have left: when it has loaded and nothing is under way, its
\* jobs of remote servers are exactly the enabled rows.
Heals ==
    ~ ServiceReady /\ ServiceReady' /\ Quiet' =>
        {k \in queue' : k.job \in Remote} = {KeyOf(j, rows[j]) : j \in {i \in Remote : Scheduled(i)}}'
=============================================================================
