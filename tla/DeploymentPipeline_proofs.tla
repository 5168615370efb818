---------------------- MODULE DeploymentPipeline_proofs ----------------------
(***************************************************************************)
(* Proofs about DeploymentPipeline, for any number of applications,        *)
(* requests, jobs, crashes and groups, and for every setting of the flags.  *)
(*                                                                         *)
(* The inductive invariant is TypeOK together with five facts: how far a    *)
(* procedure can get (ProcedureOK), what the worker holds at each of its    *)
(* steps (WorkerOK), that a row somebody holds exists (KnownRows), that     *)
(* rows are handed out in order (RowOrder), and what a deletion knows of    *)
(* its snapshot (SnapshotOK); and the two row invariants themselves.        *)
(*                                                                         *)
(* That no service of a deleted application is left holds while requests    *)
(* are served one at a time; Pipeline_lateDeploy.cfg shows what overlapping *)
(* ones do.                                                                 *)
(***************************************************************************)
EXTENDS DeploymentPipeline, PhaseRunner, TLAPS

\* A request in flight is at a step of its procedure.
ProcedureOK ==
    \A q \in Requests : req[q].kind # "none" => req[q].pc \in 1..Len(Program[req[q].kind])

BeforeInsert == {"idle", "mark", "find", "prepare", "insert"}
AfterRow == {"appDone", "notify", "failApp", "catch", "finish"}

\* A busy worker holds an active job; it has no row before the insertion; a row
\* it has finished with is no longer running; it fails only for a reason; and
\* it is idle unless the process has started.
WorkerOK ==
    /\ worker.pc # "idle" => worker.job \in JobIds /\ jobs[worker.job].state = "active"
    /\ worker.pc \in BeforeInsert => worker.row = 0
    /\ worker.pc \in AfterRow => \A r \in RowIds : worker.row = r => rows[r].state # "running"
    /\ worker.pc = "failRow" => worker.result # "ok"
    /\ server # "ready" => worker = IdleWorker

\* Rows that somebody holds have been inserted.
KnownRows ==
    \A r \in RowIds : rows[r].state = "none" => worker.row # r /\ \A q \in Requests : req[q].row # r

\* Rows are inserted in the order of their numbers, and none is running when
\* the next one of the same application is inserted.
RowOrder ==
    /\ \A r, s \in RowIds : r < s /\ rows[r].state = "none" => rows[s].state = "none"
    /\ worker.pc = "insert" => RunningRows(WorkerApp) = {}

\* From its snapshot on, a deletion only has jobs of it left that it is about
\* to remove from the queue.
SnapshotOK ==
    \A q \in Requests :
        req[q].kind = "delete" /\ req[q].pc >= 5 =>
            \A j \in req[q].seen : jobs[j].state = "ended" \/ (req[q].pc = 5 /\ j \in req[q].jobs)

IInv ==
    /\ TypeOK /\ ProcedureOK /\ WorkerOK /\ KnownRows /\ RowOrder /\ SnapshotOK
    /\ OnlyTheNewestRowRuns /\ NoAbandonedRunningRow

-----------------------------------------------------------------------------
(* The procedures.                                                         *)

\* What the table of procedures says of the steps the proofs distinguish: no
\* procedure has more than eight, skipping a cancellation (find) stays within
\* it, and only a deletion takes a snapshot and uses it.
LEMMA ProgramSteps ==
    ASSUME NEW kind \in Kinds, NEW i \in 1..Len(Program[kind])
    PROVE  /\ Len(Program[kind]) \in 1..8
           /\ Program[kind][i] = "find" => i + 5 <= Len(Program[kind])
           /\ kind = "delete" =>
                /\ Len(Program[kind]) = 7
                /\ Program[kind][i] = "unqueue" <=> i \in {2, 5}
                /\ Program[kind][i] = "list" <=> i = 1
                /\ Program[kind][i] = "snapshot" <=> i = 4
           /\ Program[kind][i] \in {"snapshot", "service", "dbDelete"} => kind = "delete"
           /\ Program[kind][i] \in {"service", "dbDelete"} => i \in {6, 7}
  <1>1. kind \in {"deploy", "cleanQueues", "cancelDeployment", "killBuild",
                  "killProcess", "reload", "start", "stop", "markRunning", "delete"}
    BY PipelineAssumption DEF Program
  <1>2. CASE kind = "deploy"  BY <1>2 DEF Program
  <1>3. CASE kind = "cleanQueues"  BY <1>3 DEF Program
  <1>4. CASE kind = "cancelDeployment"  BY <1>4 DEF Program
  <1>5. CASE kind = "killBuild"  BY <1>5 DEF Program
  <1>6. CASE kind = "killProcess"  BY <1>6 DEF Program
  <1>7. CASE kind = "reload"  BY <1>7 DEF Program
  <1>8. CASE kind = "delete"  BY <1>8 DEF Program
  <1>9. CASE kind = "start"  BY <1>9 DEF Program
  <1>10. CASE kind = "stop"  BY <1>10 DEF Program
  <1>11. CASE kind = "markRunning"  BY <1>11 DEF Program
  <1> QED  BY <1>1, <1>2, <1>3, <1>4, <1>5, <1>6, <1>7, <1>8, <1>9, <1>10, <1>11

\* Every procedure has at least one step and at most eight.
LEMMA ProcedureLength ==
    ASSUME NEW kind \in Kinds
    PROVE  Len(Program[kind]) \in 1..8
  BY PipelineAssumption DEF Program

\* Skipping a cancellation leads to a later step of the same procedure.
LEMMA SkipStays ==
    ASSUME NEW kind \in Kinds, NEW i \in 1..Len(Program[kind]), Program[kind][i] = "find"
    PROVE  i + 5 \in 1..Len(Program[kind]) /\ i + 5 \in 0..8
  <1>1. Len(Program[kind]) \in 1..8 /\ i + 5 <= Len(Program[kind])
    BY ProgramSteps
  <1>2. \A n \in 1..8 : i + 5 <= n => i + 5 \in 1..n /\ i + 5 \in 0..8
    <2>1. i \in Nat
      BY ProcedureLength
    <2> QED
      BY <2>1
  <1> QED
    BY <1>1, <1>2, Zenon

-----------------------------------------------------------------------------
(* Types.                                                                  *)

\* The conditional updates of an application's status and of a row's state keep
\* the types of both tables.
LEMMA UpdateTypes ==
    ASSUME TypeOK
    PROVE  /\ \A a : \A status \in Statuses : WithStatus(a, status) \in [Apps -> AppRecords]
           /\ \A r : \A state \in RowStates : WithRowState(r, state) \in [RowIds -> Rows]
  BY DEF TypeOK, WithStatus, WithRowState, AppRecords, Rows

\* Going on with a procedure keeps the request well-formed.
LEMMA AfterType ==
    ASSUME NEW r \in RequestStates, r.kind # "none", r.pc \in 1..Len(Program[r.kind])
    PROVE  /\ After(r) \in RequestStates
           /\ After(r) # NoRequest =>
                /\ After(r) = [r EXCEPT !.pc = r.pc + 1]
                /\ r.pc + 1 \in 1..Len(Program[r.kind])
  <1>1. Len(Program[r.kind]) \in 1..8
    BY ProgramSteps DEF RequestStates
  <1>2. CASE r.pc = Len(Program[r.kind])
    BY <1>2, PipelineAssumption DEF After, NoRequest, RequestStates
  <1>3. CASE r.pc # Len(Program[r.kind])
    <2>1. r.pc + 1 \in 1..Len(Program[r.kind]) /\ r.pc + 1 \in 0..8
      <3>1. \A n \in 1..8 : \A i \in 1..n : i # n => i + 1 \in 1..n /\ i + 1 \in 0..8
        OBVIOUS
      <3> QED
        BY <1>1, <1>3, <3>1, Zenon
    <2>2. [r EXCEPT !.pc = r.pc + 1] \in RequestStates
      BY <2>1 DEF RequestStates
    <2> QED
      BY <1>3, <2>1, <2>2 DEF After
  <1> QED
    BY <1>2, <1>3

\* A step that goes on with a request, or gives it up, keeps the requests
\* well-formed.
LEMMA RequestTypes ==
    ASSUME TypeOK, ProcedureOK, NEW q \in Requests,
           NEW r \in RequestStates, r.kind # "none", r.pc \in 1..Len(Program[r.kind]),
           \/ req' = [req EXCEPT ![q] = r]
           \/ req' = [req EXCEPT ![q] = After(r)]
           \/ req' = [req EXCEPT ![q] = NoRequest]
    PROVE  req' \in [Requests -> RequestStates] /\ ProcedureOK'
  <1>1. NoRequest \in RequestStates /\ NoRequest.kind = "none"
    BY PipelineAssumption DEF NoRequest, RequestStates
  <1>2. /\ After(r) \in RequestStates
        /\ After(r).kind # "none" => After(r).pc \in 1..Len(Program[After(r).kind])
    BY <1>1, AfterType DEF RequestStates
  <1>3. PICK new \in RequestStates :
            /\ req' = [req EXCEPT ![q] = new]
            /\ new.kind # "none" => new.pc \in 1..Len(Program[new.kind])
    BY <1>1, <1>2
  <1> QED
    BY <1>3 DEF TypeOK, ProcedureOK

\* A request that is at a step is in flight.
LEMMA InFlight ==
    ASSUME TypeOK, ProcedureOK, NEW q \in Requests, NEW step, At(q, step)
    PROVE  /\ req[q] \in RequestStates
           /\ req[q].kind # "none" /\ req[q].kind \in Kinds
           /\ req[q].pc \in 1..Len(Program[req[q].kind])
           /\ Program[req[q].kind][req[q].pc] = step
  BY DEF TypeOK, ProcedureOK, At, RequestStates

\* Every step of the worker keeps the types.
LEMMA WorkerTypes ==
    ASSUME TypeOK, ProcedureOK, WorkerOK, Worker
    PROVE  TypeOK'
  <1> USE DEF Goto, Throw
  <1> DEFINE Typed == /\ jobs' \in [JobIds -> Jobs] /\ rows' \in [RowIds -> Rows]
                      /\ app' \in [Apps -> AppRecords] /\ worker' \in WorkerStates
                      /\ UNCHANGED <<req, stale, server, crashes>>
  <1>0. /\ jobs \in [JobIds -> Jobs] /\ rows \in [RowIds -> Rows]
        /\ app \in [Apps -> AppRecords] /\ worker \in WorkerStates
    BY DEF TypeOK
  <1>1. TakeJob => Typed
    <2> HAVE TakeJob
    <2>1. jobs' \in [JobIds -> Jobs]
      BY <1>0 DEF TakeJob, Jobs
    <2>2. worker' \in WorkerStates
      <3>1. PICK j \in JobIds : worker' = [IdleWorker EXCEPT !.pc = "mark", !.job = j]
        BY DEF TakeJob
      <3>2. IdleWorker \in WorkerStates /\ j \in 0..MaxJobs
        BY PipelineAssumption DEF IdleWorker, WorkerStates, Steps, JobIds
      <3> QED
        BY <3>1, <3>2 DEF WorkerStates, Steps
    <2>3. UNCHANGED <<rows, app, req, stale, server, crashes>>
      BY DEF TakeJob
    <2> QED
      BY <1>0, <2>1, <2>2, <2>3
  <1>2. MarkRunning => Typed
    <2> HAVE MarkRunning
    <2>1. app' \in [Apps -> AppRecords]
      BY <1>0, UpdateTypes DEF MarkRunning, Statuses
    <2>2. worker' \in WorkerStates
      BY <1>0 DEF MarkRunning, WorkerStates, Steps
    <2>3. UNCHANGED <<jobs, rows, req, stale, server, crashes>>
      BY DEF MarkRunning
    <2> QED
      BY <1>0, <2>1, <2>2, <2>3
  <1>3. FindApplication => Typed
    <2> HAVE FindApplication
    <2>1. worker' \in WorkerStates
      BY <1>0 DEF FindApplication, WorkerStates, Steps
    <2>2. UNCHANGED <<jobs, rows, app, req, stale, server, crashes>>
      BY DEF FindApplication
    <2> QED
      BY <1>0, <2>1, <2>2
  <1>4. PrepareRow => Typed
    <2> HAVE PrepareRow
    <2>1. rows' \in [RowIds -> Rows]
      <3>1. CASE UNCHANGED rows
        BY <1>0, <3>1
      <3>2. ASSUME NEW hit,
                   rows' = [r \in RowIds |->
                     [rows[r] EXCEPT !.state = IF r \in Outdated(WorkerApp) THEN "removed"
                                               ELSE IF r \in RunningRows(WorkerApp) THEN "cancelled"
                                               ELSE @,
                                     !.mark = @ \/ r \in hit, !.child = @ /\ r \notin hit]]
            PROVE  rows' \in [RowIds -> Rows]
        <4> SUFFICES ASSUME NEW r \in RowIds PROVE rows'[r] \in Rows
          BY <3>2
        <4>1. PICK state \in RowStates, mark \in BOOLEAN, child \in BOOLEAN :
                 rows'[r] = [rows[r] EXCEPT !.state = state, !.mark = mark, !.child = child]
          BY <1>0, <3>2 DEF Rows, RowStates
        <4> QED
          BY <1>0, <4>1 DEF Rows
      <3> QED
        BY <3>1, <3>2 DEF PrepareRow
    <2>2. worker' \in WorkerStates
      BY <1>0 DEF PrepareRow, WorkerStates, Steps
    <2>3. UNCHANGED <<jobs, app, req, stale, server, crashes>>
      BY DEF PrepareRow
    <2> QED
      BY <1>0, <2>1, <2>2, <2>3
  <1>5. InsertRow => Typed
    <2> HAVE InsertRow
    <2>1. rows' \in [RowIds -> Rows]
      <3>1. WorkerApp \in Apps \cup {None}
        BY <1>0 DEF InsertRow, WorkerOK, WorkerApp, Jobs
      <3> QED
        BY <1>0, <3>1 DEF InsertRow, Rows, RowStates
    <2>2. app' \in [Apps -> AppRecords]
      BY <1>0, UpdateTypes DEF InsertRow, Statuses
    <2>3. worker' \in WorkerStates
      <3>1. CASE \E r \in RowIds : worker' = [worker EXCEPT !.pc = "check", !.row = r, !.group = 1]
        <4>1. RowIds \subseteq 0..(MaxJobs + MaxCrashes) /\ 1 \in 0..Groups
          BY PipelineAssumption DEF RowIds
        <4> QED
          BY <1>0, <3>1, <4>1 DEF WorkerStates, Steps
      <3>2. CASE Throw("error", "catch")
        BY <1>0, <3>2 DEF WorkerStates, Steps
      <3> QED
        BY <3>1, <3>2 DEF InsertRow
    <2>4. UNCHANGED <<jobs, req, stale, server, crashes>>
      BY DEF InsertRow
    <2> QED
      BY <1>0, <2>1, <2>2, <2>3, <2>4
  <1>6. StartRunner => Typed
    <2> HAVE StartRunner
    <2>1. rows' \in [RowIds -> Rows]
      <3>1. \/ rows' = [rows EXCEPT ![worker.row].child = TRUE]
            \/ UNCHANGED rows
        BY DEF StartRunner
      <3> QED
        BY <1>0, <3>1 DEF Rows
    <2>2. worker' \in WorkerStates
      BY <1>0 DEF StartRunner, WorkerStates, Steps
    <2>3. UNCHANGED <<jobs, app, req, stale, server, crashes>>
      BY DEF StartRunner
    <2> QED
      BY <1>0, <2>1, <2>2, <2>3
  <1>7. RunnerExits => Typed
    <2> HAVE RunnerExits
    <2>1. rows' \in [RowIds -> Rows]
      BY <1>0 DEF RunnerExits, Rows
    <2>2. worker' \in WorkerStates
      BY <1>0 DEF RunnerExits, WorkerStates, Steps
    <2>3. UNCHANGED <<jobs, app, req, stale, server, crashes>>
      BY DEF RunnerExits
    <2> QED
      BY <1>0, <2>1, <2>2, <2>3
  <1>8. JudgeFailure => Typed
    <2> HAVE JudgeFailure
    <2>1. worker' \in WorkerStates
      BY <1>0 DEF JudgeFailure, WorkerStates, Steps
    <2>2. UNCHANGED <<jobs, rows, app, req, stale, server, crashes>>
      BY DEF JudgeFailure
    <2> QED
      BY <1>0, <2>1, <2>2
  <1>9. CleanupGroup => Typed
    <2> HAVE CleanupGroup
    <2>1. rows' \in [RowIds -> Rows]
      <3>1. PICK reached : rows' = [rows EXCEPT ![worker.row].mark = @ /\ ~ reached]
        BY DEF CleanupGroup, NextStep
      <3>2. PICK mark \in BOOLEAN : rows' = [rows EXCEPT ![worker.row].mark = mark]
        BY <3>1
      <3> QED
        BY <1>0, <3>2 DEF Rows
    <2>2. worker' \in WorkerStates
      <3>1. (IF worker.group < Groups THEN worker.group + 1 ELSE worker.group) \in 0..Groups
        BY <1>0, PipelineAssumption DEF WorkerStates
      <3>2. (IF worker.result # "ok" THEN "failRow"
             ELSE IF worker.group < Groups THEN "check" ELSE "deploy") \in Steps
        BY DEF Steps
      <3> QED
        BY <1>0, <3>1, <3>2 DEF WorkerStates, CleanupGroup, NextStep
    <2>3. UNCHANGED <<jobs, app, req, stale, server, crashes>>
      BY DEF CleanupGroup, NextStep
    <2> QED
      BY <1>0, <2>1, <2>2, <2>3
  <1>10. DeployService => Typed
    <2> HAVE DeployService
    <2>1. app' \in [Apps -> AppRecords]
      BY <1>0 DEF DeployService, AppRecords
    <2>2. worker' \in WorkerStates
      BY <1>0 DEF DeployService, WorkerStates, Steps
    <2>3. UNCHANGED <<jobs, rows, req, stale, server, crashes>>
      BY DEF DeployService
    <2> QED
      BY <1>0, <2>1, <2>2, <2>3
  <1>11. RowDone => Typed
    <2> HAVE RowDone
    <2>1. rows' \in [RowIds -> Rows]
      BY <1>0, UpdateTypes DEF RowDone, RowStates
    <2>2. worker' \in WorkerStates
      BY <1>0 DEF RowDone, WorkerStates, Steps
    <2>3. UNCHANGED <<jobs, app, req, stale, server, crashes>>
      BY DEF RowDone
    <2> QED
      BY <1>0, <2>1, <2>2, <2>3
  <1>12. AppDone => Typed
    <2> HAVE AppDone
    <2>1. app' \in [Apps -> AppRecords]
      BY <1>0, UpdateTypes DEF AppDone, Statuses
    <2>2. worker' \in WorkerStates
      BY <1>0 DEF AppDone, WorkerStates, Steps
    <2>3. UNCHANGED <<jobs, rows, req, stale, server, crashes>>
      BY DEF AppDone
    <2> QED
      BY <1>0, <2>1, <2>2, <2>3
  <1>13. Notify => Typed
    <2> HAVE Notify
    <2>1. worker' \in WorkerStates
      BY <1>0 DEF Notify, WorkerStates, Steps
    <2>2. UNCHANGED <<jobs, rows, app, req, stale, server, crashes>>
      BY DEF Notify
    <2> QED
      BY <1>0, <2>1, <2>2
  <1>14. FailRow => Typed
    <2> HAVE FailRow
    <2>1. rows' \in [RowIds -> Rows]
      <3>1. worker.result \in RowStates
        BY <1>0 DEF FailRow, WorkerOK, WorkerStates, RowStates
      <3> QED
        BY <3>1, UpdateTypes DEF FailRow
    <2>2. worker' \in WorkerStates
      BY <1>0 DEF FailRow, WorkerStates, Steps
    <2>3. UNCHANGED <<jobs, app, req, stale, server, crashes>>
      BY DEF FailRow
    <2> QED
      BY <1>0, <2>1, <2>2, <2>3
  <1>15. FailApp => Typed
    <2> HAVE FailApp
    <2>1. app' \in [Apps -> AppRecords]
      <3>1. PICK status \in Statuses : app' = WithStatus(WorkerApp, status)
        BY DEF FailApp, Statuses
      <3> QED
        BY <3>1, UpdateTypes
    <2>2. worker' \in WorkerStates
      BY <1>0 DEF FailApp, WorkerStates, Steps
    <2>3. UNCHANGED <<jobs, rows, req, stale, server, crashes>>
      BY DEF FailApp
    <2> QED
      BY <1>0, <2>1, <2>2, <2>3
  <1>16. FinishJob => Typed
    <2> HAVE FinishJob
    <2>1. jobs' \in [JobIds -> Jobs]
      BY <1>0 DEF FinishJob, Jobs
    <2>2. worker' \in WorkerStates
      BY <1>0, PipelineAssumption DEF FinishJob, IdleWorker, WorkerStates, Steps
    <2>3. UNCHANGED <<rows, app, req, stale, server, crashes>>
      BY DEF FinishJob
    <2> QED
      BY <1>0, <2>1, <2>2, <2>3
  <1> HIDE DEF Typed
  <1>17. Typed
    BY <1>1, <1>2, <1>3, <1>4, <1>5, <1>6, <1>7, <1>8, <1>9, <1>10, <1>11,
       <1>12, <1>13, <1>14, <1>15, <1>16 DEF Worker
  <1> QED
    BY <1>17 DEF TypeOK, Typed

\* A request that goes on to its next step, or gives up, keeps its type.
LEMMA ProceedTypes ==
    ASSUME TypeOK, ProcedureOK, NEW q \in Requests, NEW step, At(q, step),
           Continue(q) \/ Abort(q)
    PROVE  req' \in [Requests -> RequestStates] /\ ProcedureOK'
  <1>1. /\ req[q] \in RequestStates /\ req[q].kind # "none"
        /\ req[q].pc \in 1..Len(Program[req[q].kind])
    BY InFlight
  <1>2. \/ req' = [req EXCEPT ![q] = After(req[q])]
        \/ req' = [req EXCEPT ![q] = NoRequest]
    BY DEF Continue, Abort
  <1> QED
    BY <1>1, <1>2, RequestTypes

\* Every step of a request keeps the types and stays within its procedure.
LEMMA RequestStepTypes ==
    ASSUME TypeOK, ProcedureOK, NEW q \in Requests, Call(q) \/ Serve(q)
    PROVE  TypeOK' /\ ProcedureOK'
  <1> DEFINE Typed == /\ jobs' \in [JobIds -> Jobs] /\ rows' \in [RowIds -> Rows]
                      /\ app' \in [Apps -> AppRecords]
                      /\ req' \in [Requests -> RequestStates] /\ ProcedureOK'
                      /\ UNCHANGED <<worker, stale, server, crashes>>
  <1>0. /\ jobs \in [JobIds -> Jobs] /\ rows \in [RowIds -> Rows]
        /\ app \in [Apps -> AppRecords] /\ req \in [Requests -> RequestStates]
    BY DEF TypeOK
  <1>1. Call(q) => Typed
    <2> HAVE Call(q)
    <2>1. PICK kind \in Kinds, a \in Apps, r \in 0..(MaxJobs + MaxCrashes) :
            req' = [req EXCEPT ![q] = [NoRequest EXCEPT !.kind = kind, !.pc = 1, !.app = a, !.row = r]]
      <3>1. PICK kind \in Kinds, a \in Apps : \E r \in IF kind = "killProcess" THEN RowsOf(a) ELSE {0} :
            req' = [req EXCEPT ![q] = [NoRequest EXCEPT !.kind = kind, !.pc = 1, !.app = a, !.row = r]]
        BY DEF Call
      <3>2. RowsOf(a) \subseteq 0..(MaxJobs + MaxCrashes) /\ 0 \in 0..(MaxJobs + MaxCrashes)
        BY PipelineAssumption DEF RowsOf, RowIds
      <3> QED
        BY <3>1, <3>2
    <2> DEFINE new == [NoRequest EXCEPT !.kind = kind, !.pc = 1, !.app = a, !.row = r]
    <2>2. new \in RequestStates /\ new.kind = kind /\ new.pc = 1
      <3>1. NoRequest \in RequestStates
        BY PipelineAssumption DEF NoRequest, RequestStates
      <3>2. 1 \in 0..8
        OBVIOUS
      <3> QED
        BY <3>1, <3>2 DEF RequestStates
    <2>3. new.kind # "none" /\ new.pc \in 1..Len(Program[new.kind])
      <3>1. kind # "none"
        BY PipelineAssumption DEF Program
      <3>2. Len(Program[kind]) \in 1..8
        BY ProcedureLength
      <3>3. \A n \in 1..8 : 1 \in 1..n
        OBVIOUS
      <3> QED
        BY <2>2, <3>1, <3>2, <3>3, Zenon
    <2> HIDE DEF new
    <2>4. req' \in [Requests -> RequestStates] /\ ProcedureOK'
      BY <2>1, <2>2, <2>3, RequestTypes DEF new
    <2> QED
      BY <1>0, <2>4 DEF Call
  <1>2. AddJob(q) => Typed
    <2> HAVE AddJob(q)
    <2>1. req' \in [Requests -> RequestStates] /\ ProcedureOK'
      BY ProceedTypes DEF AddJob
    <2>2. jobs' \in [JobIds -> Jobs]
      <3>1. req[q].app \in Apps \cup {None}
        BY <1>0 DEF RequestStates
      <3> QED
        <4>1. \/ \E j \in JobIds :
                    jobs' = [jobs EXCEPT ![j].app = req[q].app, ![j].state = "waiting"]
              \/ UNCHANGED jobs
          BY DEF AddJob
        <4> QED
          <5>1. ASSUME NEW j \in JobIds,
                       jobs' = [jobs EXCEPT ![j].app = req[q].app, ![j].state = "waiting"]
                PROVE  jobs' \in [JobIds -> Jobs]
            <6>1. [jobs[j] EXCEPT !.app = req[q].app, !.state = "waiting"] \in Jobs
              BY <1>0, <3>1 DEF Jobs
            <6>2. jobs' = [jobs EXCEPT ![j] = [jobs[j] EXCEPT !.app = req[q].app, !.state = "waiting"]]
              BY <1>0, <5>1
            <6> QED
              BY <1>0, <6>1, <6>2
          <5> QED
            BY <1>0, <4>1, <5>1
    <2> QED
      BY <1>0, <2>1, <2>2 DEF AddJob
  <1>3. ListQueued(q) => Typed
    <2> HAVE ListQueued(q)
    <2>1. [req[q] EXCEPT !.jobs = Queued(req[q].app)] \in RequestStates
      BY <1>0 DEF RequestStates, Queued
    <2>2. req' \in [Requests -> RequestStates] /\ ProcedureOK'
      <3> DEFINE r == [req[q] EXCEPT !.jobs = Queued(req[q].app)]
      <3>1. r.kind = req[q].kind /\ r.pc = req[q].pc
        BY <1>0 DEF RequestStates
      <3>2. req' = [req EXCEPT ![q] = After(r)]
        BY DEF ListQueued
      <3> HIDE DEF r
      <3> QED
        BY <2>1, <3>1, <3>2, InFlight, RequestTypes DEF ListQueued, r
    <2> QED
      BY <1>0, <2>2 DEF ListQueued
  <1>4. Unqueue(q) => Typed
    <2> HAVE Unqueue(q)
    <2>1. req' \in [Requests -> RequestStates] /\ ProcedureOK'
      <3>1. CASE UNCHANGED req
        BY <1>0, <3>1 DEF ProcedureOK
      <3>2. CASE Continue(q) \/ Abort(q)
        BY <3>2, ProceedTypes DEF Unqueue
      <3> QED
        BY <3>1, <3>2 DEF Unqueue
    <2>2. jobs' \in [JobIds -> Jobs]
      BY <1>0 DEF Unqueue, Jobs
    <2> QED
      BY <1>0, <2>1, <2>2 DEF Unqueue
  <1>5. FindRunning(q) => Typed
    <2> HAVE FindRunning(q)
    <2>1. /\ req[q] \in RequestStates /\ req[q].kind # "none" /\ req[q].kind \in Kinds
          /\ req[q].pc \in 1..Len(Program[req[q].kind])
          /\ Program[req[q].kind][req[q].pc] = "find"
      BY InFlight DEF FindRunning
    <2>2. ASSUME NEW r \in RowIds, req' = [req EXCEPT ![q] = After([req[q] EXCEPT !.row = r])]
          PROVE  req' \in [Requests -> RequestStates] /\ ProcedureOK'
      <3> DEFINE new == [req[q] EXCEPT !.row = r]
      <3>1. r \in 0..(MaxJobs + MaxCrashes)
        BY PipelineAssumption DEF RowIds
      <3>2. new \in RequestStates /\ new.kind = req[q].kind /\ new.pc = req[q].pc
        BY <2>1, <3>1 DEF RequestStates
      <3> HIDE DEF new
      <3> QED
        BY <2>1, <2>2, <3>2, RequestTypes DEF new
    <2>3. ASSUME req' = [req EXCEPT ![q].pc = @ + 5]
          PROVE  req' \in [Requests -> RequestStates] /\ ProcedureOK'
      <3> DEFINE new == [req[q] EXCEPT !.pc = req[q].pc + 5]
      <3>1. req[q].pc + 5 \in 1..Len(Program[req[q].kind]) /\ req[q].pc + 5 \in 0..8
        BY <2>1, SkipStays
      <3>2. new \in RequestStates /\ new.kind = req[q].kind /\ new.pc = req[q].pc + 5
        BY <2>1, <3>1 DEF RequestStates
      <3>3. req' = [req EXCEPT ![q] = new]
        BY <1>0, <2>3
      <3> HIDE DEF new
      <3> QED
        BY <2>1, <3>1, <3>2, <3>3, RequestTypes
    <2>4. req' \in [Requests -> RequestStates] /\ ProcedureOK'
      BY <2>2, <2>3 DEF FindRunning, RunningRows, RowsOf
    <2> QED
      BY <1>0, <2>4 DEF FindRunning
  <1>6. TouchMark(q) => Typed
    <2> HAVE TouchMark(q)
    <2>1. req' \in [Requests -> RequestStates] /\ ProcedureOK'
      BY ProceedTypes DEF TouchMark
    <2>2. rows' \in [RowIds -> Rows]
      <3>1. rows' = [rows EXCEPT ![req[q].row].mark = TRUE] \/ UNCHANGED rows
        BY DEF TouchMark
      <3> QED
        BY <1>0, <3>1 DEF Rows
    <2> QED
      BY <1>0, <2>1, <2>2 DEF TouchMark
  <1>7. KillChild(q) => Typed
    <2> HAVE KillChild(q)
    <2>1. req' \in [Requests -> RequestStates] /\ ProcedureOK'
      BY ProceedTypes DEF KillChild
    <2>2. rows' \in [RowIds -> Rows]
      <3>1. \/ \E gone : rows' = [rows EXCEPT ![req[q].row].child = @ /\ ~ gone]
            \/ UNCHANGED rows
        BY DEF KillChild
      <3>2. (\E child \in BOOLEAN : rows' = [rows EXCEPT ![req[q].row].child = child]) \/ UNCHANGED rows
        BY <3>1
      <3> QED
        BY <1>0, <3>2 DEF Rows
    <2> QED
      BY <1>0, <2>1, <2>2 DEF KillChild
  <1>8. MarkCancelled(q) => Typed
    <2> HAVE MarkCancelled(q)
    <2>1. req' \in [Requests -> RequestStates] /\ ProcedureOK'
      BY ProceedTypes DEF MarkCancelled
    <2>2. rows' \in [RowIds -> Rows]
      BY UpdateTypes DEF MarkCancelled, RowStates
    <2> QED
      BY <1>0, <2>1, <2>2 DEF MarkCancelled
  <1>9. SetStatus(q) => Typed
    <2> HAVE SetStatus(q)
    <2>1. PICK status \in {"idle", "done", "running"} : At(q, status) /\ app' = WithStatus(req[q].app, status)
      BY DEF SetStatus
    <2>2. req' \in [Requests -> RequestStates] /\ ProcedureOK'
      BY <2>1, ProceedTypes DEF SetStatus
    <2>3. app' \in [Apps -> AppRecords]
      BY <2>1, UpdateTypes DEF Statuses
    <2> QED
      BY <1>0, <2>2, <2>3 DEF SetStatus
  <1>10. Reload(q) => Typed
    <2> HAVE Reload(q)
    <2>1. req' \in [Requests -> RequestStates] /\ ProcedureOK'
      BY ProceedTypes DEF Reload
    <2>2. app' \in [Apps -> AppRecords]
      <3>1. CASE app' = [app EXCEPT ![req[q].app].service = TRUE]
        BY <1>0, <3>1 DEF AppRecords
      <3>2. CASE app' = WithStatus(req[q].app, "error")
        BY <3>2, UpdateTypes DEF Statuses
      <3> QED
        BY <3>1, <3>2 DEF Reload
    <2> QED
      BY <1>0, <2>1, <2>2 DEF Reload
  <1>11. CheckNotRunning(q) \/ ScaleService(q) => Typed
    <2> HAVE CheckNotRunning(q) \/ ScaleService(q)
    <2>1. req' \in [Requests -> RequestStates] /\ ProcedureOK'
      BY ProceedTypes DEF CheckNotRunning, ScaleService
    <2> QED
      BY <1>0, <2>1 DEF CheckNotRunning, ScaleService
  <1>12. SnapshotJobs(q) => Typed
    <2> HAVE SnapshotJobs(q)
    <2>1. ASSUME NEW mine \in SUBSET JobIds, NEW all \in SUBSET JobIds,
                 req' = [req EXCEPT ![q] = After([req[q] EXCEPT !.jobs = mine, !.seen = all])]
          PROVE  req' \in [Requests -> RequestStates] /\ ProcedureOK'
      <3> DEFINE new == [req[q] EXCEPT !.jobs = mine, !.seen = all]
      <3>1. new \in RequestStates /\ new.kind = req[q].kind /\ new.pc = req[q].pc
        BY <1>0 DEF RequestStates
      <3> HIDE DEF new
      <3> QED
        <4>1. /\ req[q].kind # "none" /\ req[q].pc \in 1..Len(Program[req[q].kind])
              /\ req' = [req EXCEPT ![q] = After(new)]
          BY <2>1, InFlight DEF SnapshotJobs, new
        <4> QED
          BY <3>1, <4>1, RequestTypes
    <2>2. ASSUME Abort(q)
          PROVE  req' \in [Requests -> RequestStates] /\ ProcedureOK'
      <3>1. At(q, "snapshot")
        BY DEF SnapshotJobs
      <3> QED
        BY <2>2, <3>1, ProceedTypes
    <2>3. req' \in [Requests -> RequestStates] /\ ProcedureOK'
      BY <2>1, <2>2 DEF SnapshotJobs, Queued, Unfinished
    <2> QED
      BY <1>0, <2>3 DEF SnapshotJobs
  <1>13. RemoveService(q) => Typed
    <2> HAVE RemoveService(q)
    <2>1. req' \in [Requests -> RequestStates] /\ ProcedureOK'
      BY ProceedTypes DEF RemoveService
    <2>2. app' \in [Apps -> AppRecords]
      <3>1. app' = [app EXCEPT ![req[q].app].service = FALSE] \/ UNCHANGED app
        BY DEF RemoveService
      <3> QED
        BY <1>0, <3>1 DEF AppRecords
    <2> QED
      BY <1>0, <2>1, <2>2 DEF RemoveService
  <1>14. DeleteApplication(q) => Typed
    <2> HAVE DeleteApplication(q)
    <2>1. req' \in [Requests -> RequestStates] /\ ProcedureOK'
      BY ProceedTypes DEF DeleteApplication
    <2>2. app' \in [Apps -> AppRecords]
      BY <1>0 DEF DeleteApplication, AppRecords
    <2>3. rows' \in [RowIds -> Rows]
      BY <1>0 DEF DeleteApplication, Rows, RowStates
    <2> QED
      BY <1>0, <2>1, <2>2, <2>3 DEF DeleteApplication
  <1> HIDE DEF Typed
  <1>15. Typed
    BY <1>1, <1>2, <1>3, <1>4, <1>5, <1>6, <1>7, <1>8, <1>9, <1>10, <1>11, <1>12, <1>13, <1>14
    DEF Serve
  <1> QED
    BY <1>15 DEF TypeOK, Typed

\* The watchdog, crashes, the start-up and the queue's own recovery.
Recovery ==
    \/ ExpireRows \/ MarkOwnerErroredIfIdle \/ Crash \/ Listen \/ StartWorker
    \/ Stall \/ OrphanExits

\* The watchdog, crashes, start-up and stalled jobs keep the types.
LEMMA RecoveryTypes ==
    ASSUME TypeOK, Recovery
    PROVE  TypeOK'
  <1>0. /\ jobs \in [JobIds -> Jobs] /\ rows \in [RowIds -> Rows]
        /\ app \in [Apps -> AppRecords] /\ stale \in SUBSET (RowIds \X {"expired", "idle"})
    BY DEF TypeOK
  <1>1. CASE ExpireRows
    <2>1. rows' \in [RowIds -> Rows] /\ stale' \in SUBSET (RowIds \X {"expired", "idle"})
      BY <1>0, <1>1 DEF ExpireRows, Rows, RowStates
    <2> QED
      BY <1>1, <2>1 DEF ExpireRows, TypeOK
  <1>2. CASE MarkOwnerErroredIfIdle
    <2>1. app' \in [Apps -> AppRecords] /\ stale' \in SUBSET (RowIds \X {"expired", "idle"})
      BY <1>0, <1>2, UpdateTypes DEF MarkOwnerErroredIfIdle, Statuses
    <2> QED
      BY <1>2, <2>1 DEF MarkOwnerErroredIfIdle, TypeOK
  <1>3. CASE Crash
    <2>1. IdleWorker \in WorkerStates /\ NoRequest \in RequestStates
      BY PipelineAssumption DEF IdleWorker, WorkerStates, Steps, NoRequest, RequestStates
    <2>2. crashes' \in 0..MaxCrashes
      BY <1>3, PipelineAssumption DEF Crash, TypeOK
    <2> QED
      BY <1>3, <2>1, <2>2 DEF Crash, TypeOK
  <1>4. CASE Listen
    BY <1>4 DEF Listen, TypeOK
  <1>5. CASE StartWorker
    <2>1. rows' \in [RowIds -> Rows]
      BY <1>0, <1>5 DEF StartWorker, Rows, RowStates
    <2> QED
      BY <1>5, <2>1 DEF StartWorker, TypeOK
  <1>6. CASE Stall
    <2>1. jobs' \in [JobIds -> Jobs]
      <3>1. PICK j \in JobIds, state \in {"waiting", "ended"} :
              jobs' = [jobs EXCEPT ![j].state = state, ![j].stalls = 1]
        BY <1>6 DEF Stall
      <3>2. [jobs[j] EXCEPT !.state = state, !.stalls = 1] \in Jobs
        <4>1. 1 \in 0..1 /\ jobs[j] \in Jobs
          BY <1>0
        <4> QED
          BY <4>1 DEF Jobs
      <3> QED
        BY <1>0, <3>1, <3>2
    <2> QED
      BY <1>6, <2>1 DEF Stall, TypeOK
  <1>7. CASE OrphanExits
    <2>1. rows' \in [RowIds -> Rows]
      BY <1>0, <1>7 DEF OrphanExits, Rows
    <2> QED
      BY <1>7, <2>1 DEF OrphanExits, TypeOK
  <1> QED
    BY <1>1, <1>2, <1>3, <1>4, <1>5, <1>6, <1>7 DEF Recovery

\* A step is the worker's, a recovery step, or a request's.
LEMMA NextCases ==
    Next => Worker \/ Recovery \/ \E q \in Requests : Call(q) \/ Serve(q)
  BY DEF Next, Recovery

-----------------------------------------------------------------------------
(* What a step does to jobs and rows.                                      *)

\* Only the insertion creates a row or sets one running, and a removed row
\* stays removed.
RowsShrink ==
    \A r \in RowIds :
        /\ rows'[r].app = rows[r].app
        /\ rows'[r].state = "running" => rows[r].state = "running"
        /\ rows'[r].state = "none" <=> rows[r].state = "none"
        /\ rows[r].state = "removed" => rows'[r].state = "removed"

\* Every step but the insertion lets rows shrink.
LEMMA RowsStep ==
    ASSUME TypeOK, KnownRows, [Next]_vars, ~ InsertRow
    PROVE  RowsShrink
  <1>0. rows \in [RowIds -> Rows]
    BY DEF TypeOK
  <1>1. CASE UNCHANGED rows
    BY <1>1 DEF RowsShrink
  <1>2. CASE PrepareRow
    <2>1. ASSUME NEW hit,
                 rows' = [r \in RowIds |->
                   [rows[r] EXCEPT !.state = IF r \in Outdated(WorkerApp) THEN "removed"
                                             ELSE IF r \in RunningRows(WorkerApp) THEN "cancelled"
                                             ELSE @,
                                   !.mark = @ \/ r \in hit, !.child = @ /\ r \notin hit]]
          PROVE  RowsShrink
      <3> SUFFICES ASSUME NEW r \in RowIds
                   PROVE  /\ rows'[r].app = rows[r].app
                          /\ rows'[r].state = "running" => rows[r].state = "running"
                          /\ rows'[r].state = "none" <=> rows[r].state = "none"
                          /\ rows[r].state = "removed" => rows'[r].state = "removed"
        BY DEF RowsShrink
      <3>1. /\ rows'[r].app = rows[r].app
            /\ rows'[r].state = IF r \in Outdated(WorkerApp) THEN "removed"
                                ELSE IF r \in RunningRows(WorkerApp) THEN "cancelled"
                                ELSE rows[r].state
        BY <1>0, <2>1 DEF Rows
      <3> QED
        BY <3>1 DEF Outdated, RunningRows, RowsOf
    <2> QED
      BY <1>1, <1>2, <2>1 DEF PrepareRow
  <1>3. CASE StartRunner \/ RunnerExits
    BY <1>0, <1>3 DEF StartRunner, RunnerExits, RowsShrink, Rows
  <1>4. CASE CleanupGroup
    BY <1>0, <1>4 DEF CleanupGroup, RowsShrink, Rows
  <1>5. CASE RowDone
    BY <1>0, <1>5 DEF RowDone, WithRowState, RowsShrink, Rows, KnownRows
  <1>6. CASE FailRow
    BY <1>0, <1>6 DEF FailRow, WithRowState, RowsShrink, Rows, KnownRows, TypeOK, WorkerStates
  <1>7. ASSUME NEW q \in Requests, TouchMark(q) \/ KillChild(q)
        PROVE  RowsShrink
    BY <1>0, <1>7 DEF TouchMark, KillChild, RowsShrink, Rows
  <1>8. ASSUME NEW q \in Requests, MarkCancelled(q)
        PROVE  RowsShrink
    BY <1>0, <1>8 DEF MarkCancelled, WithRowState, RowsShrink, Rows, KnownRows
  <1>9. ASSUME NEW q \in Requests, DeleteApplication(q)
        PROVE  RowsShrink
    BY <1>0, <1>9 DEF DeleteApplication, RowsShrink, Rows, RowsOf
  <1>10. CASE ExpireRows
    BY <1>0, <1>10 DEF ExpireRows, RowsShrink, Rows
  <1>11. CASE StartWorker
    BY <1>0, <1>11 DEF StartWorker, RowsShrink, Rows
  <1>12. CASE OrphanExits
    BY <1>0, <1>12 DEF OrphanExits, RowsShrink, Rows
  <1>13. CASE Worker
    BY <1>1, <1>2, <1>3, <1>4, <1>5, <1>6, <1>13
    DEF Worker, TakeJob, MarkRunning, FindApplication, JudgeFailure, DeployService, AppDone,
        Notify, FailApp, FinishJob
  <1>14. ASSUME NEW q \in Requests, Call(q) \/ Serve(q)
         PROVE  RowsShrink
    BY <1>1, <1>7, <1>8, <1>9, <1>14
    DEF Call, Serve, AddJob, ListQueued, Unqueue, FindRunning, SetStatus, Reload, ScaleService,
        CheckNotRunning, SnapshotJobs, RemoveService
  <1>15. CASE Recovery
    BY <1>1, <1>10, <1>11, <1>12, <1>15 DEF Recovery, MarkOwnerErroredIfIdle, Crash, Listen, Stall
  <1> QED
    BY <1>1, <1>13, <1>14, <1>15, NextCases DEF vars

\* A job that has ended stays so, a job keeps its application, and the worker's
\* job stays active until the worker ends it.
JobsGoOn ==
    \A j \in JobIds :
        /\ jobs[j].state = "ended" => jobs'[j].state = "ended"
        /\ jobs[j].state # "none" => jobs'[j].app = jobs[j].app
        /\ jobs[j].state = "active" /\ worker.job = j /\ ~ FinishJob => jobs'[j].state = "active"

\* Every step lets jobs go on.
LEMMA JobsStep ==
    ASSUME TypeOK, [Next]_vars
    PROVE  JobsGoOn
  <1>0. jobs \in [JobIds -> Jobs]
    BY DEF TypeOK
  <1>1. CASE UNCHANGED jobs
    BY <1>1 DEF JobsGoOn
  <1>2. CASE TakeJob
    BY <1>0, <1>2 DEF TakeJob, JobsGoOn, Jobs
  <1>3. CASE FinishJob
    BY <1>0, <1>3 DEF FinishJob, JobsGoOn, Jobs
  <1>4. ASSUME NEW q \in Requests, AddJob(q)
        PROVE  JobsGoOn
    <2>1. CASE \E j \in JobIds : /\ jobs[j].state = "none"
                               /\ jobs' = [jobs EXCEPT ![j].app = req[q].app, ![j].state = "waiting"]
      BY <1>0, <2>1 DEF JobsGoOn, Jobs
    <2> QED
      BY <1>1, <1>4, <2>1 DEF AddJob
  <1>5. ASSUME NEW q \in Requests, Unqueue(q)
        PROVE  JobsGoOn
    BY <1>0, <1>1, <1>5 DEF Unqueue, JobsGoOn, Jobs
  <1>6. CASE Stall
    <2>1. PICK j \in JobIds, state \in {"waiting", "ended"} :
            /\ jobs[j].state = "active" /\ worker.job # j
            /\ jobs' = [jobs EXCEPT ![j].state = state, ![j].stalls = 1]
      BY <1>6 DEF Stall
    <2> QED
      BY <1>0, <2>1 DEF JobsGoOn, Jobs
  <1>7. CASE Worker
    BY <1>1, <1>2, <1>3, <1>7
    DEF Worker, MarkRunning, FindApplication, PrepareRow, InsertRow, StartRunner, RunnerExits,
        JudgeFailure, CleanupGroup, DeployService, RowDone, AppDone, Notify, FailRow, FailApp
  <1>8. ASSUME NEW q \in Requests, Call(q) \/ Serve(q)
         PROVE  JobsGoOn
    BY <1>1, <1>4, <1>5, <1>8
    DEF Call, Serve, ListQueued, FindRunning, TouchMark, KillChild, MarkCancelled, SetStatus,
        Reload, ScaleService, CheckNotRunning, SnapshotJobs, RemoveService, DeleteApplication
  <1>9. CASE Recovery
    BY <1>1, <1>6, <1>9
    DEF Recovery, ExpireRows, MarkOwnerErroredIfIdle, Crash, Listen, StartWorker, OrphanExits
  <1> QED
    BY <1>1, <1>7, <1>8, <1>9, NextCases DEF vars

-----------------------------------------------------------------------------
(* The worker and the rows it holds.                                       *)

\* What the worker's state may become in a step that is not its own.
LEMMA OtherSteps ==
    ASSUME [Next]_vars, ~ Worker
    PROVE  \/ UNCHANGED <<worker, server>>
           \/ worker' = IdleWorker /\ server' # "ready"
           \/ UNCHANGED worker /\ server # "ready"
  <1>1. ASSUME NEW q \in Requests, Call(q) \/ Serve(q)
        PROVE  UNCHANGED <<worker, server>>
    BY <1>1
    DEF Call, Serve, AddJob, ListQueued, Unqueue, FindRunning, TouchMark, KillChild, MarkCancelled,
        SetStatus, Reload, ScaleService, CheckNotRunning, SnapshotJobs, RemoveService, DeleteApplication
  <1>2. CASE Recovery
    BY <1>2 DEF Recovery, ExpireRows, MarkOwnerErroredIfIdle, Crash, Listen, StartWorker,
                Stall, OrphanExits
  <1>3. CASE UNCHANGED vars
    BY <1>3 DEF vars
  <1> QED
    BY <1>1, <1>2, <1>3, NextCases

\* What the worker's steps other than taking a job, inserting a row and ending
\* the job do to what it holds.
LEMMA WorkerMoves ==
    ASSUME TypeOK, KnownRows, WorkerOK, Worker, ~ TakeJob, ~ InsertRow, ~ FinishJob
    PROVE  /\ worker.pc # "idle"
           /\ worker'.job = worker.job /\ worker'.row = worker.row /\ UNCHANGED server
           /\ worker'.pc \in BeforeInsert => worker.pc \in BeforeInsert
           /\ worker'.pc \in AfterRow =>
                \/ worker.pc \in BeforeInsert \cup AfterRow
                \/ \A r \in RowIds : worker.row = r => rows'[r].state # "running"
           /\ worker'.pc = "failRow" => worker'.result # "ok"
           /\ worker'.pc = "insert" => PrepareRow
  <1> USE DEF Goto, Throw, BeforeInsert, AfterRow
  <1>0. rows \in [RowIds -> Rows] /\ worker \in WorkerStates
    BY DEF TypeOK
  <1>1. CASE MarkRunning
    BY <1>0, <1>1 DEF MarkRunning, WorkerStates
  <1>2. CASE FindApplication
    BY <1>0, <1>2 DEF FindApplication, WorkerStates
  <1>3. CASE PrepareRow
    BY <1>0, <1>3 DEF PrepareRow, WorkerStates
  <1>4. CASE StartRunner
    BY <1>0, <1>4 DEF StartRunner, WorkerStates
  <1>5. CASE RunnerExits
    BY <1>0, <1>5 DEF RunnerExits, WorkerStates
  <1>6. CASE JudgeFailure
    BY <1>0, <1>6 DEF JudgeFailure, WorkerStates
  <1>7. CASE CleanupGroup
    BY <1>0, <1>7 DEF CleanupGroup, NextStep, WorkerStates
  <1>8. CASE DeployService
    BY <1>0, <1>8 DEF DeployService, WorkerStates
  <1>9. CASE RowDone
    BY <1>0, <1>9 DEF RowDone, WithRowState, WorkerStates, Rows
  <1>10. CASE AppDone
    BY <1>0, <1>10 DEF AppDone, WorkerStates
  <1>11. CASE Notify
    BY <1>0, <1>11 DEF Notify, WorkerStates
  <1>12. CASE FailRow
    BY <1>0, <1>12 DEF FailRow, WithRowState, WorkerStates, Rows
  <1>13. CASE FailApp
    BY <1>0, <1>13 DEF FailApp, WorkerStates
  <1> QED
    BY <1>1, <1>2, <1>3, <1>4, <1>5, <1>6, <1>7, <1>8, <1>9, <1>10, <1>11, <1>12, <1>13
    DEF Worker

\* Every step keeps what the worker holds.
LEMMA WorkerStep ==
    ASSUME TypeOK, KnownRows, WorkerOK, [Next]_vars
    PROVE  WorkerOK'
  <1>0. /\ jobs \in [JobIds -> Jobs] /\ rows \in [RowIds -> Rows] /\ worker \in WorkerStates
    BY DEF TypeOK
  <1>1. JobsGoOn
    BY JobsStep
  <1>2. ASSUME UNCHANGED worker, server' = server \/ server # "ready", ~ InsertRow, ~ FinishJob
        PROVE  WorkerOK'
    <2>1. RowsShrink
      BY <1>2, RowsStep
    <2> QED
      BY <1>1, <1>2, <2>1 DEF WorkerOK, JobsGoOn, RowsShrink
  <1>3. CASE worker' = IdleWorker
    BY <1>3 DEF WorkerOK, IdleWorker, BeforeInsert, AfterRow
  <1>4. CASE ~ Worker
    BY <1>2, <1>3, <1>4, OtherSteps DEF Worker
  <1>5. CASE TakeJob
    BY <1>0, <1>5 DEF TakeJob, IdleWorker, WorkerOK, BeforeInsert, AfterRow, Jobs
  <1>6. CASE InsertRow
    <2>1. \/ worker'.pc = "check"
          \/ worker'.pc = "catch" /\ worker'.row = worker.row
      BY <1>0, <1>6 DEF InsertRow, Throw, WorkerStates
    <2>2. worker'.job = worker.job /\ UNCHANGED server /\ worker.pc = "insert"
      BY <1>0, <1>6 DEF InsertRow, Throw, WorkerStates
    <2>3. 0 \notin RowIds
      BY DEF RowIds
    <2>4. worker'.job \in JobIds /\ jobs'[worker'.job].state = "active"
      BY <1>1, <2>2 DEF WorkerOK, JobsGoOn, FinishJob
    <2>5. worker.row = 0 /\ server' = "ready"
      BY <2>2 DEF WorkerOK, BeforeInsert, IdleWorker
    <2> QED
      BY <2>1, <2>3, <2>4, <2>5 DEF WorkerOK, BeforeInsert, AfterRow
  <1>7. CASE FinishJob
    BY <1>3, <1>7 DEF FinishJob
  <1>8. CASE Worker /\ ~ TakeJob /\ ~ InsertRow /\ ~ FinishJob
    <2>1. RowsShrink
      BY <1>8, RowsStep
    <2>2. 0 \notin RowIds
      BY DEF RowIds
    <2>3. worker'.pc \in AfterRow => \A r \in RowIds : worker'.row = r => rows'[r].state # "running"
      BY <1>8, <2>1, <2>2, WorkerMoves DEF WorkerOK, RowsShrink
    <2>4. worker'.job \in JobIds /\ jobs'[worker'.job].state = "active"
      BY <1>1, <1>8, WorkerMoves DEF WorkerOK, JobsGoOn
    <2> QED
      BY <1>8, <2>3, <2>4, WorkerMoves DEF WorkerOK, IdleWorker
  <1> QED
    BY <1>4, <1>5, <1>6, <1>7, <1>8

\* The row an insertion creates is the first free one; until then the worker
\* has none.
LEMMA Insertion ==
    ASSUME TypeOK, WorkerOK, InsertRow
    PROVE  /\ worker.pc = "insert" /\ worker.row = 0 /\ server = "ready" /\ UNCHANGED <<jobs, req, server>>
           /\ worker'.job = worker.job
           /\ \/ UNCHANGED rows /\ worker'.row = 0 /\ worker'.pc = "catch"
              \/ \E r \in RowIds, state \in {"running", "error"} :
                    /\ rows[r].state = "none" /\ \A s \in 1..(r - 1) : rows[s].state # "none"
                    /\ rows' = [rows EXCEPT ![r].app = WorkerApp, ![r].state = state]
                    /\ \/ state = "running" /\ worker'.row = r /\ worker'.pc = "check"
                       \/ state = "error" /\ worker'.row = 0 /\ worker'.pc = "catch"
  <1>1. worker \in WorkerStates
    BY DEF TypeOK
  <1>2. /\ worker.pc = "insert" /\ worker.row = 0 /\ server = "ready"
        /\ UNCHANGED <<jobs, req, server>>
    BY DEF InsertRow, WorkerOK, BeforeInsert, IdleWorker
  <1>3. PICK r \in RowIds :
          /\ rows[r].state = "none" /\ \A s \in 1..(r - 1) : rows[s].state # "none"
          /\ \/ /\ rows' = [rows EXCEPT ![r].app = WorkerApp, ![r].state = "running"]
                /\ worker' = [worker EXCEPT !.pc = "check", !.row = r, !.group = 1]
             \/ /\ \/ rows' = [rows EXCEPT ![r].app = WorkerApp, ![r].state = "error"]
                   \/ UNCHANGED rows
                /\ worker' = [worker EXCEPT !.pc = "catch", !.result = "error"]
    BY DEF InsertRow, Throw
  <1>4. /\ worker'.job = worker.job
        /\ \/ worker'.row = r /\ worker'.pc = "check"
              /\ rows' = [rows EXCEPT ![r].app = WorkerApp, ![r].state = "running"]
           \/ /\ worker'.row = 0 /\ worker'.pc = "catch"
              /\ \/ rows' = [rows EXCEPT ![r].app = WorkerApp, ![r].state = "error"]
                 \/ UNCHANGED rows
    BY <1>1, <1>2, <1>3 DEF WorkerStates
  <1> QED
    BY <1>2, <1>3, <1>4

\* What a step does to the row a request holds.
LEMMA RequestRow ==
    ASSUME TypeOK, NEW q \in Requests, Call(q) \/ Serve(q), NEW p \in Requests
    PROVE  \/ req'[p].row \in {0, req[p].row}
           \/ \E r \in RowIds : req'[p].row = r /\ rows[r].state # "none"
  <1>0. req \in [Requests -> RequestStates]
    BY DEF TypeOK
  <1>1. \A r \in RequestStates : After(r).row \in {0, r.row}
    BY DEF After, NoRequest, RequestStates
  <1>2. ASSUME Continue(q) \/ Abort(q) \/ UNCHANGED req
        PROVE  req'[p].row \in {0, req[p].row}
    BY <1>0, <1>1, <1>2 DEF Continue, Abort, NoRequest
  <1>3. CASE Call(q)
    <2>1. PICK kind \in Kinds, a \in Apps : \E r \in IF kind = "killProcess" THEN RowsOf(a) ELSE {0} :
            req' = [req EXCEPT ![q] = [NoRequest EXCEPT !.kind = kind, !.pc = 1, !.app = a, !.row = r]]
      BY <1>3 DEF Call
    <2>2. PICK r : /\ r = 0 \/ (r \in RowIds /\ rows[r].state # "none")
                   /\ req' = [req EXCEPT ![q] = [NoRequest EXCEPT !.kind = kind, !.pc = 1, !.app = a, !.row = r]]
      BY <2>1 DEF RowsOf
    <2>3. req'[q].row = r
      BY <1>0, <2>2 DEF NoRequest
    <2> QED
      BY <1>0, <2>2, <2>3
  <1>4. CASE ListQueued(q)
    <2>1. [req[q] EXCEPT !.jobs = Queued(req[q].app)] \in RequestStates
      BY <1>0 DEF RequestStates, Queued
    <2> QED
      BY <1>0, <1>1, <1>4, <2>1 DEF ListQueued, RequestStates
  <1>5. CASE FindRunning(q)
    <2>1. ASSUME NEW r \in RowIds, rows[r].state # "none",
                 req' = [req EXCEPT ![q] = After([req[q] EXCEPT !.row = r])]
          PROVE  \/ req'[p].row \in {0, req[p].row} \/ req'[p].row = r
      <3>1. r \in 0..(MaxJobs + MaxCrashes)
        BY PipelineAssumption DEF RowIds
      <3>2. [req[q] EXCEPT !.row = r] \in RequestStates /\ [req[q] EXCEPT !.row = r].row = r
        BY <1>0, <3>1 DEF RequestStates
      <3> QED
        BY <1>0, <1>1, <2>1, <3>2
    <2>2. CASE req' = [req EXCEPT ![q].pc = @ + 5]
      BY <1>0, <2>2 DEF RequestStates
    <2> QED
      BY <1>5, <2>1, <2>2 DEF FindRunning, RunningRows, RowsOf
  <1>6. CASE SnapshotJobs(q)
    <2>1. ASSUME NEW mine \in SUBSET JobIds, NEW all \in SUBSET JobIds,
                 req' = [req EXCEPT ![q] = After([req[q] EXCEPT !.jobs = mine, !.seen = all])]
          PROVE  req'[p].row \in {0, req[p].row}
      <3>1. /\ [req[q] EXCEPT !.jobs = mine, !.seen = all] \in RequestStates
            /\ [req[q] EXCEPT !.jobs = mine, !.seen = all].row = req[q].row
        BY <1>0 DEF RequestStates
      <3> QED
        BY <1>0, <1>1, <2>1, <3>1
    <2> QED
      BY <1>2, <1>6, <2>1 DEF SnapshotJobs, Queued, Unfinished
  <1> QED
    BY <1>2, <1>3, <1>4, <1>5, <1>6
    DEF Serve, AddJob, Unqueue, TouchMark, KillChild, MarkCancelled,
        SetStatus, Reload, ScaleService, CheckNotRunning, RemoveService, DeleteApplication

\* Every step keeps the rows that somebody holds known.
LEMMA KnownRowsStep ==
    ASSUME TypeOK, KnownRows, WorkerOK, [Next]_vars
    PROVE  KnownRows'
  <1>0. /\ rows \in [RowIds -> Rows] /\ req \in [Requests -> RequestStates]
        /\ worker \in WorkerStates /\ 0 \notin RowIds
    BY DEF TypeOK, RowIds
  <1>1. CASE InsertRow
    <2>1. CASE UNCHANGED rows /\ worker'.row = 0
      <3>1. UNCHANGED req
        BY <1>1, Insertion
      <3> QED
        BY <1>0, <2>1, <3>1 DEF KnownRows
    <2>2. ASSUME NEW r \in RowIds, NEW state \in {"running", "error"},
                 rows' = [rows EXCEPT ![r].app = WorkerApp, ![r].state = state],
                 worker'.row \in {0, r}
          PROVE  KnownRows'
      <3>1. rows'[r].state # "none" /\ \A s \in RowIds \ {r} : rows'[s] = rows[s]
        BY <1>0, <2>2 DEF Rows
      <3>2. UNCHANGED req
        BY <1>1, Insertion
      <3> QED
        BY <1>0, <2>2, <3>1, <3>2 DEF KnownRows
    <2> QED
      BY <1>1, <2>1, <2>2, Insertion
  <1>2. ASSUME ~ InsertRow, worker'.row \in {0, worker.row},
               \A q \in Requests : \/ req'[q].row \in {0, req[q].row}
                                   \/ \E r \in RowIds : req'[q].row = r /\ rows[r].state # "none"
        PROVE  KnownRows'
    <2>1. RowsShrink
      BY <1>2, RowsStep
    <2> QED
      BY <1>0, <1>2, <2>1 DEF KnownRows, RowsShrink
  <1>3. CASE Worker /\ ~ InsertRow
    <2>1. UNCHANGED req
      BY <1>3 DEF Worker, TakeJob, MarkRunning, FindApplication, PrepareRow, StartRunner,
         RunnerExits, JudgeFailure, CleanupGroup, DeployService, RowDone, AppDone, Notify,
         FailRow, FailApp, FinishJob
    <2>2. worker'.row \in {0, worker.row}
      <3>1. CASE TakeJob
        BY <3>1 DEF TakeJob, IdleWorker
      <3>2. CASE FinishJob
        BY <3>2 DEF FinishJob, IdleWorker
      <3>3. CASE ~ TakeJob /\ ~ FinishJob
        BY <1>3, <3>3, WorkerMoves
      <3> QED
        BY <3>1, <3>2, <3>3
    <2> QED
      BY <1>2, <1>3, <2>1, <2>2
  <1>4. CASE ~ Worker
    <2>1. worker'.row \in {0, worker.row}
      BY <1>4, OtherSteps DEF IdleWorker
    <2>2. CASE \E q \in Requests : Call(q) \/ Serve(q)
      BY <1>2, <1>4, <2>1, <2>2, RequestRow DEF Worker
    <2>3. CASE Recovery \/ UNCHANGED vars
      <3>1. UNCHANGED req \/ req' = [q \in Requests |-> NoRequest]
        BY <2>3 DEF Recovery, ExpireRows, MarkOwnerErroredIfIdle, Crash, Listen, StartWorker,
                    Stall, OrphanExits, vars
      <3> QED
        BY <1>2, <1>4, <2>1, <3>1 DEF Worker, NoRequest
    <2> QED
      BY <1>4, <2>2, <2>3, NextCases
  <1> QED
    BY <1>1, <1>3, <1>4

-----------------------------------------------------------------------------
(* The order of rows, and who may be running.                              *)

\* While the worker keeps its job, it works for the same application.
LEMMA SameApplication ==
    ASSUME TypeOK, WorkerOK, [Next]_vars, worker'.job = worker.job, worker.pc # "idle"
    PROVE  WorkerApp' = WorkerApp
  BY JobsStep DEF WorkerApp, WorkerOK, JobsGoOn

\* When rows shrink, so does the set of an application's running rows.
LEMMA FewerRunning ==
    ASSUME RowsShrink, NEW a
    PROVE  RunningRows(a)' \subseteq RunningRows(a)
  BY DEF RowsShrink, RunningRows, RowsOf

\* Preparing a row leaves no row of the application running.
LEMMA PrepareCloses ==
    ASSUME TypeOK, WorkerOK, PrepareRow, worker'.pc = "insert"
    PROVE  RunningRows(WorkerApp)' = {}
  <1>0. rows \in [RowIds -> Rows] /\ worker \in WorkerStates
    BY DEF TypeOK
  <1>1. PICK hit :
          /\ worker' = [worker EXCEPT !.pc = "insert"]
          /\ rows' = [r \in RowIds |->
                [rows[r] EXCEPT !.state = IF r \in Outdated(WorkerApp) THEN "removed"
                                          ELSE IF r \in RunningRows(WorkerApp) THEN "cancelled"
                                          ELSE @,
                                !.mark = @ \/ r \in hit, !.child = @ /\ r \notin hit]]
    BY <1>0 DEF PrepareRow, Goto, Throw, WorkerStates
  <1>2. WorkerApp' = WorkerApp
    BY <1>0, <1>1 DEF PrepareRow, WorkerApp, WorkerStates
  <1>3. \A r \in RowIds : /\ rows'[r].app = rows[r].app
                         /\ rows'[r].state = IF r \in Outdated(WorkerApp) THEN "removed"
                                             ELSE IF r \in RunningRows(WorkerApp) THEN "cancelled"
                                             ELSE rows[r].state
    BY <1>0, <1>1 DEF Rows
  <1> QED
    BY <1>2, <1>3 DEF RunningRows, RowsOf

\* Every step keeps the rows in order and the insertion point free of running
\* rows.
LEMMA RowOrderStep ==
    ASSUME TypeOK, KnownRows, WorkerOK, RowOrder, [Next]_vars
    PROVE  RowOrder'
  <1>0. rows \in [RowIds -> Rows] /\ worker \in WorkerStates
    BY DEF TypeOK
  <1>1. CASE InsertRow
    <2>1. worker'.pc # "insert"
      BY <1>1, Insertion
    <2>2. CASE UNCHANGED rows
      BY <2>1, <2>2 DEF RowOrder
    <2>3. ASSUME NEW r \in RowIds, NEW state \in {"running", "error"},
                 \A s \in 1..(r - 1) : rows[s].state # "none",
                 rows' = [rows EXCEPT ![r].app = WorkerApp, ![r].state = state]
          PROVE  RowOrder'
      <3>1. rows'[r].state # "none" /\ \A s \in RowIds \ {r} : rows'[s] = rows[s]
        BY <1>0, <2>3 DEF Rows
      <3>2. \A s \in RowIds : s < r => rows[s].state # "none"
        BY <2>3 DEF RowIds
      <3>3. ASSUME NEW s \in RowIds, NEW t \in RowIds, s < t, rows'[s].state = "none"
            PROVE  rows'[t].state = "none"
        <4>1. s # r /\ rows[s].state = "none"
          BY <3>1, <3>3
        <4>2. r < s
          BY <3>2, <4>1 DEF RowIds
        <4>3. t # r
          BY <3>3, <4>2 DEF RowIds
        <4> QED
          BY <3>1, <3>3, <4>1, <4>3 DEF RowOrder
      <3> QED
        BY <2>1, <3>3 DEF RowOrder
    <2> QED
      BY <1>1, <2>2, <2>3, Insertion
  <1>2. CASE ~ InsertRow
    <2>1. RowsShrink
      BY <1>2, RowsStep
    <2>2. ASSUME worker'.pc = "insert"
          PROVE  RunningRows(WorkerApp)' = {}
      <3>1. CASE PrepareRow
        BY <2>2, <3>1, PrepareCloses
      <3>2. CASE UNCHANGED worker
        <4>1. WorkerApp' = WorkerApp
          BY <2>2, <3>2, SameApplication
        <4>2. RunningRows(WorkerApp) = {}
          BY <2>2, <3>2 DEF RowOrder
        <4> QED
          BY <2>1, <4>1, <4>2, FewerRunning DEF RowsShrink, RunningRows, RowsOf
      <3>3. CASE TakeJob \/ FinishJob
        <4>1. TakeJob => worker'.pc = "mark"
          BY DEF TakeJob, IdleWorker
        <4>2. FinishJob => worker'.pc = "idle"
          BY DEF FinishJob, IdleWorker
        <4> QED
          BY <2>2, <3>3, <4>1, <4>2
      <3>4. CASE Worker /\ ~ TakeJob /\ ~ FinishJob
        BY <1>2, <2>2, <3>1, <3>4, WorkerMoves
      <3> QED
        BY <2>2, <3>2, <3>3, <3>4, OtherSteps DEF IdleWorker
    <2> QED
      BY <2>1, <2>2 DEF RowOrder, RowsShrink
  <1> QED
    BY <1>1, <1>2

\* Inserting a row makes it the newest; nothing else makes one run.
LEMMA NewestStep ==
    ASSUME TypeOK, KnownRows, WorkerOK, RowOrder, OnlyTheNewestRowRuns, [Next]_vars
    PROVE  OnlyTheNewestRowRuns'
  <1>0. rows \in [RowIds -> Rows]
    BY DEF TypeOK
  <1>1. CASE InsertRow
    <2>1. CASE UNCHANGED rows
      BY <2>1 DEF OnlyTheNewestRowRuns, RunningRows, RowsOf
    <2>2. ASSUME NEW r \in RowIds, NEW state \in {"running", "error"},
                 rows[r].state = "none",
                 rows' = [rows EXCEPT ![r].app = WorkerApp, ![r].state = state]
          PROVE  OnlyTheNewestRowRuns'
      <3>1. /\ rows'[r].app = WorkerApp /\ rows'[r].state = state
            /\ \A s \in RowIds \ {r} : rows'[s] = rows[s]
        BY <1>0, <2>2 DEF Rows
      <3>2. \A s \in RowIds : r < s => rows[s].state = "none"
        BY <2>2 DEF RowOrder
      <3>3. RunningRows(WorkerApp) = {}
        BY <1>1, Insertion DEF RowOrder
      <3>4. ASSUME NEW a \in Apps, NEW t \in RunningRows(a)', NEW s \in RowsOf(a)'
            PROVE  s <= t
        <4>1. /\ s \in RowIds /\ rows'[s].app = a /\ rows'[s].state \notin {"none", "removed"}
              /\ t \in RowIds /\ rows'[t].app = a /\ rows'[t].state = "running"
          BY <3>4 DEF RunningRows, RowsOf
        <4>2. CASE t = r
          <5>1. ~ (r < s)
            BY <3>1, <3>2, <4>1, <4>2 DEF RowIds
          <5> QED
            BY <4>1, <4>2, <5>1 DEF RowIds
        <4>3. CASE t # r
          <5>1. t \in RunningRows(a)
            BY <3>1, <4>1, <4>3 DEF RunningRows, RowsOf
          <5>2. a # WorkerApp
            BY <3>3, <5>1
          <5>3. s # r
            BY <3>1, <4>1, <5>2
          <5>4. s \in RowsOf(a)
            BY <3>1, <4>1, <5>3 DEF RowsOf
          <5> QED
            BY <5>1, <5>4 DEF OnlyTheNewestRowRuns
        <4> QED
          BY <4>2, <4>3
      <3> QED
        BY <3>4 DEF OnlyTheNewestRowRuns
    <2> QED
      BY <1>1, <2>1, <2>2, Insertion
  <1>2. CASE ~ InsertRow
    <2>1. RowsShrink
      BY <1>2, RowsStep
    <2>2. \A a : RunningRows(a)' \subseteq RunningRows(a) /\ RowsOf(a)' \subseteq RowsOf(a)
      BY <2>1 DEF RowsShrink, RunningRows, RowsOf
    <2> QED
      BY <2>2 DEF OnlyTheNewestRowRuns
  <1> QED
    BY <1>1, <1>2

\* A row is running only in the worker's hands, or until the start-up closes it.
LEMMA AbandonedStep ==
    ASSUME TypeOK, KnownRows, WorkerOK, NoAbandonedRunningRow, [Next]_vars
    PROVE  NoAbandonedRunningRow'
  <1> SUFFICES ASSUME Production, server' = "ready", NEW r \in RowIds, rows'[r].state = "running"
               PROVE  worker'.row = r
    BY DEF NoAbandonedRunningRow
  <1>0. rows \in [RowIds -> Rows] /\ worker \in WorkerStates /\ 0 \notin RowIds
    BY DEF TypeOK, RowIds
  <1>1. CASE InsertRow
    <2>1. \A s \in RowIds : rows[s].state # "running"
      BY <1>0, <1>1, Insertion DEF NoAbandonedRunningRow
    <2>2. CASE UNCHANGED rows
      BY <2>1, <2>2
    <2>3. ASSUME NEW s \in RowIds, NEW state \in {"running", "error"},
                 rows' = [rows EXCEPT ![s].app = WorkerApp, ![s].state = state],
                 state = "running" => worker'.row = s
          PROVE  worker'.row = r
      <3>1. rows'[s].state = state /\ \A t \in RowIds \ {s} : rows'[t] = rows[t]
        BY <1>0, <2>3 DEF Rows
      <3> QED
        BY <2>1, <2>3, <3>1
    <2> QED
      BY <1>1, <2>2, <2>3, Insertion
  <1>2. CASE ~ InsertRow
    <2>1. rows[r].state = "running"
      BY <1>2, RowsStep DEF RowsShrink
    <2>2. CASE server = "ready"
      <3>1. worker.row = r
        BY <2>1, <2>2 DEF NoAbandonedRunningRow
      <3>2. CASE TakeJob \/ FinishJob
        BY <1>0, <2>1, <3>1, <3>2 DEF TakeJob, FinishJob, WorkerOK, BeforeInsert, AfterRow
      <3>3. CASE Worker /\ ~ TakeJob /\ ~ FinishJob
        BY <1>2, <3>1, <3>3, WorkerMoves
      <3>4. CASE ~ Worker
        BY <2>2, <3>1, <3>4, OtherSteps
      <3> QED
        BY <3>2, <3>3, <3>4
    <2>3. CASE server # "ready"
      <3>1. ~ Worker
        BY <2>3 DEF WorkerOK, IdleWorker, Worker, TakeJob, MarkRunning, FindApplication, PrepareRow,
           InsertRow, StartRunner, RunnerExits, JudgeFailure, CleanupGroup, DeployService, RowDone,
           AppDone, Notify, FailRow, FailApp, FinishJob
      <3>2. StartWorker
        BY <2>3, <3>1, NextCases
        DEF Recovery, ExpireRows, MarkOwnerErroredIfIdle, Crash, Listen, Stall, OrphanExits, vars,
            Call, Serve, AddJob, ListQueued, Unqueue, FindRunning, TouchMark, KillChild, MarkCancelled,
            SetStatus, Reload, ScaleService, CheckNotRunning, SnapshotJobs, RemoveService, DeleteApplication
      <3> QED
        BY <1>0, <3>2 DEF StartWorker, Rows
    <2> QED
      BY <2>2, <2>3
  <1> QED
    BY <1>1, <1>2

-----------------------------------------------------------------------------
(* Deletions.                                                              *)

\* The steps of a deletion, by number.
LEMMA DeletionSteps ==
    ASSUME TypeOK, ProcedureOK, NEW q \in Requests, req[q].kind = "delete", NEW step, At(q, step)
    PROVE  \/ step = "list" /\ req[q].pc = 1
           \/ step = "unqueue" /\ req[q].pc \in {2, 5}
           \/ step = "status" /\ req[q].pc = 3
           \/ step = "snapshot" /\ req[q].pc = 4
           \/ step = "service" /\ req[q].pc = 6
           \/ step = "dbDelete" /\ req[q].pc = 7
  <1>1. /\ req[q].pc \in 1..Len(Program["delete"])
        /\ Program["delete"][req[q].pc] = step
    BY InFlight
  <1>2. \A i \in 1..Len(Program["delete"]) :
          \/ Program["delete"][i] = "list" /\ i = 1
          \/ Program["delete"][i] = "unqueue" /\ i \in {2, 5}
          \/ Program["delete"][i] = "status" /\ i = 3
          \/ Program["delete"][i] = "snapshot" /\ i = 4
          \/ Program["delete"][i] = "service" /\ i = 6
          \/ Program["delete"][i] = "dbDelete" /\ i = 7
    BY DEF Program
  <1> QED
    BY <1>1, <1>2

\* Every step keeps what a deletion knows of its snapshot.
LEMMA SnapshotStep ==
    ASSUME TypeOK, ProcedureOK, SnapshotOK, [Next]_vars
    PROVE  SnapshotOK'
  <1>0. /\ jobs \in [JobIds -> Jobs] /\ req \in [Requests -> RequestStates]
        /\ \A j \in JobIds : jobs[j].state = "ended" => jobs'[j].state = "ended"
    BY JobsStep DEF TypeOK, JobsGoOn
  <1> DEFINE Kept(p) ==
         req'[p].kind = "delete" /\ req'[p].pc >= 5 =>
            \A j \in req'[p].seen :
                jobs'[j].state = "ended" \/ (req'[p].pc = 5 /\ j \in req'[p].jobs)
  <1>1. ASSUME NEW p \in Requests, req'[p] = req[p]
        PROVE  Kept(p)
    <2>1. req[p].seen \subseteq JobIds
      BY <1>0 DEF RequestStates
    <2> QED
      BY <1>0, <1>1, <2>1 DEF SnapshotOK
  <1>2. ASSUME NEW q \in Requests, Call(q) \/ Serve(q)
        PROVE  Kept(q)
    <2> DEFINE Onward(r) == \/ req'[q] = NoRequest
                            \/ req'[q] = [r EXCEPT !.pc = req[q].pc + 1]
    <2>0. req[q] \in RequestStates /\ req[q].seen \subseteq JobIds
      BY <1>0 DEF RequestStates
    <2>1. ASSUME NEW r \in RequestStates, r.kind = req[q].kind, r.pc = req[q].pc,
                 NEW step, At(q, step), req' = [req EXCEPT ![q] = After(r)]
          PROVE  Onward(r)
      <3>1. r.kind # "none" /\ r.pc \in 1..Len(Program[r.kind])
        BY <2>1, InFlight
      <3>2. After(r) = NoRequest \/ After(r) = [r EXCEPT !.pc = r.pc + 1]
        BY <3>1, AfterType
      <3> QED
        BY <1>0, <2>1, <3>2
    <2>2. ASSUME NEW step, At(q, step), Continue(q) \/ Abort(q)
          PROVE  Onward(req[q])
      <3>1. CASE Continue(q)
        BY <2>0, <2>1, <2>2, <3>1 DEF Continue
      <3>2. CASE Abort(q)
        BY <1>0, <3>2 DEF Abort
      <3> QED
        BY <2>2, <3>1, <3>2
    <2>3. CASE req'[q] = NoRequest
      BY <2>3 DEF NoRequest
    <2>4. ASSUME NEW r \in RequestStates, r.kind = req[q].kind, r.pc = req[q].pc, Onward(r),
                 r.kind # "delete" \/ r.pc < 4
          PROVE  Kept(q)
      BY <2>3, <2>4 DEF RequestStates
    <2>5. ASSUME Onward(req[q]), req[q].kind = "delete" => req[q].pc \in {3, 6, 7}
          PROVE  Kept(q)
      <3>1. CASE req[q].kind # "delete" \/ req[q].pc = 3
        BY <2>0, <2>4, <2>5, <3>1
      <3>2. CASE /\ req[q].kind = "delete" /\ req[q].pc \in {6, 7}
                 /\ req'[q] = [req[q] EXCEPT !.pc = req[q].pc + 1]
        <4>1. \A j \in req[q].seen : jobs[j].state = "ended"
          BY <3>2 DEF SnapshotOK
        <4>2. req'[q].seen = req[q].seen
          BY <2>0, <3>2 DEF RequestStates
        <4> QED
          BY <1>0, <2>0, <4>1, <4>2
      <3> QED
        BY <2>3, <2>5, <3>1, <3>2
    <2>6. CASE Call(q)
      BY <1>0, <2>6 DEF Call, NoRequest
    <2>7. CASE ListQueued(q)
      <3> DEFINE r == [req[q] EXCEPT !.jobs = Queued(req[q].app)]
      <3>1. r \in RequestStates /\ r.kind = req[q].kind /\ r.pc = req[q].pc
        BY <2>0 DEF RequestStates, Queued
      <3>2. At(q, "list") /\ req' = [req EXCEPT ![q] = After(r)]
        BY <2>7 DEF ListQueued
      <3>3. req[q].kind = "delete" => req[q].pc = 1
        BY <3>2, DeletionSteps
      <3> HIDE DEF r
      <3>4. Onward(r)
        BY <2>1, <3>1, <3>2
      <3>5. r.kind # "delete" \/ r.pc < 4
        BY <3>1, <3>3
      <3> QED
        BY <2>4, <3>1, <3>4, <3>5
    <2>8. CASE Unqueue(q)
      <3>1. CASE UNCHANGED req
        BY <1>1, <3>1
      <3>2. CASE Abort(q)
        BY <1>0, <2>3, <3>2 DEF Abort
      <3>3. CASE Continue(q) /\ \A j \in req[q].jobs : jobs[j].state = "ended"
        <4>1. At(q, "unqueue") /\ Onward(req[q])
          BY <2>2, <2>8, <3>3 DEF Unqueue
        <4>2. req[q].kind = "delete" => req[q].pc \in {2, 5}
          BY <4>1, DeletionSteps
        <4>3. CASE req[q].kind # "delete" \/ req[q].pc = 2
          BY <2>0, <2>4, <4>1, <4>3
        <4>4. CASE /\ req[q].kind = "delete" /\ req[q].pc = 5
                   /\ req'[q] = [req[q] EXCEPT !.pc = req[q].pc + 1]
          <5>1. \A j \in req[q].seen : jobs[j].state = "ended"
            BY <3>3, <4>4 DEF SnapshotOK
          <5>2. req'[q].seen = req[q].seen
            BY <2>0, <4>4 DEF RequestStates
          <5> QED
            BY <1>0, <2>0, <5>1, <5>2
        <4> QED
          BY <2>3, <4>1, <4>2, <4>3, <4>4
      <3> QED
        BY <2>8, <3>1, <3>2, <3>3 DEF Unqueue
    <2>9. CASE FindRunning(q)
      <3>1. req[q].kind # "delete"
        BY <2>9, DeletionSteps DEF FindRunning
      <3>2. ASSUME NEW n \in RowIds, req' = [req EXCEPT ![q] = After([req[q] EXCEPT !.row = n])]
            PROVE  Kept(q)
        <4> DEFINE r == [req[q] EXCEPT !.row = n]
        <4>1. n \in 0..(MaxJobs + MaxCrashes)
          BY PipelineAssumption DEF RowIds
        <4>2. r \in RequestStates /\ r.kind = req[q].kind /\ r.pc = req[q].pc
          BY <2>0, <4>1 DEF RequestStates
        <4>3. req' = [req EXCEPT ![q] = After(r)] /\ At(q, "find")
          BY <2>9, <3>2 DEF FindRunning
        <4> HIDE DEF r
        <4> QED
          BY <2>1, <2>4, <3>1, <4>2, <4>3
      <3>3. CASE req' = [req EXCEPT ![q].pc = @ + 5]
        BY <1>0, <3>1, <3>3 DEF RequestStates
      <3> QED
        BY <2>9, <3>2, <3>3 DEF FindRunning, RunningRows, RowsOf
    <2>10. CASE SnapshotJobs(q)
      <3>1. At(q, "snapshot")
        BY <2>10 DEF SnapshotJobs
      <3>2. CASE Abort(q)
        BY <1>0, <2>3, <3>2 DEF Abort
      <3>3. ASSUME NEW all \in SUBSET JobIds,
                   req' = [req EXCEPT ![q] = After([req[q] EXCEPT !.jobs = all, !.seen = all])]
            PROVE  Kept(q)
        <4> DEFINE r == [req[q] EXCEPT !.jobs = all, !.seen = all]
        <4>1. /\ r \in RequestStates /\ r.kind = req[q].kind /\ r.pc = req[q].pc
              /\ r.jobs = all /\ r.seen = all
          BY <2>0 DEF RequestStates
        <4>2. req' = [req EXCEPT ![q] = After(r)]
          BY <3>3
        <4>3. req[q].kind = "delete" => req[q].pc = 4
          BY <3>1, DeletionSteps
        <4> HIDE DEF r
        <4>4. Onward(r)
          BY <2>1, <3>1, <4>1, <4>2
        <4>5. CASE r.kind # "delete"
          BY <2>4, <4>1, <4>4, <4>5
        <4>6. CASE r.kind = "delete" /\ req'[q] = [r EXCEPT !.pc = req[q].pc + 1]
          <5>1. req'[q].pc = 5 /\ req'[q].jobs = all /\ req'[q].seen = all
            BY <4>1, <4>3, <4>6 DEF RequestStates
          <5> QED
            BY <5>1
        <4> QED
          BY <2>3, <4>4, <4>5, <4>6
      <3> QED
        BY <2>10, <3>2, <3>3 DEF SnapshotJobs, Queued, Unfinished
    <2>11. CASE CheckNotRunning(q)
      <3>1. At(q, "status") /\ (Continue(q) \/ Abort(q))
        BY <2>11 DEF CheckNotRunning
      <3> QED
        BY <2>2, <2>5, <3>1, DeletionSteps
    <2>12. CASE RemoveService(q)
      <3>1. At(q, "service") /\ (Continue(q) \/ Abort(q))
        BY <2>12 DEF RemoveService
      <3> QED
        BY <2>2, <2>5, <3>1, DeletionSteps
    <2>13. CASE DeleteApplication(q)
      <3>1. At(q, "dbDelete") /\ (Continue(q) \/ Abort(q))
        BY <2>13 DEF DeleteApplication
      <3> QED
        BY <2>2, <2>5, <3>1, DeletionSteps
    <2>14. CASE \/ AddJob(q) \/ TouchMark(q) \/ KillChild(q) \/ MarkCancelled(q) \/ SetStatus(q)
                \/ Reload(q) \/ ScaleService(q)
      <3>1. PICK step \in {"add", "touch", "kill", "mark", "idle", "done", "running", "mechanize", "scale"} :
              At(q, step) /\ (Continue(q) \/ Abort(q))
        BY <2>14 DEF AddJob, TouchMark, KillChild, MarkCancelled, SetStatus, Reload, ScaleService
      <3>2. req[q].kind # "delete"
        BY <3>1, DeletionSteps
      <3> QED
        BY <2>2, <2>5, <3>1, <3>2
    <2> QED
      BY <1>2, <2>6, <2>7, <2>8, <2>9, <2>10, <2>11, <2>12, <2>13, <2>14 DEF Serve
  <1>3. CASE \E q \in Requests : Call(q) \/ Serve(q)
    <2>1. PICK q \in Requests : Call(q) \/ Serve(q)
      BY <1>3
    <2>2. \A p \in Requests \ {q} : req'[p] = req[p]
      BY <1>0, <2>1
      DEF Call, Serve, AddJob, ListQueued, Unqueue, FindRunning, TouchMark, KillChild, MarkCancelled,
          SetStatus, Reload, ScaleService, CheckNotRunning, SnapshotJobs, RemoveService, DeleteApplication,
          Continue, Abort
    <2> QED
      BY <1>1, <1>2, <2>1, <2>2 DEF SnapshotOK
  <1>4. CASE Worker
    BY <1>1, <1>4
    DEF SnapshotOK, Worker, TakeJob, MarkRunning, FindApplication, PrepareRow, InsertRow, StartRunner,
        RunnerExits, JudgeFailure, CleanupGroup, DeployService, RowDone, AppDone, Notify,
        FailRow, FailApp, FinishJob
  <1>5. CASE Recovery \/ UNCHANGED vars
    <2>1. UNCHANGED req \/ req' = [q \in Requests |-> NoRequest]
      BY <1>5 DEF Recovery, ExpireRows, MarkOwnerErroredIfIdle, Crash, Listen, StartWorker,
                  Stall, OrphanExits, vars
    <2> QED
      BY <1>1, <2>1 DEF SnapshotOK, NoRequest
  <1> QED
    BY <1>3, <1>4, <1>5, NextCases

-----------------------------------------------------------------------------
(* The invariant and the theorems.                                         *)

\* The invariant holds when nothing has been queued.
LEMMA InitInvariant == Init => IInv
  <1> SUFFICES ASSUME Init PROVE IInv
    OBVIOUS
  <1>1. TypeOK
    BY PipelineAssumption
    DEF Init, TypeOK, Jobs, Rows, RowStates, AppRecords, Statuses, WorkerStates, Steps, IdleWorker,
        RequestStates, NoRequest
  <1>2. ProcedureOK /\ SnapshotOK
    BY DEF Init, NoRequest, ProcedureOK, SnapshotOK
  <1>3. WorkerOK
    BY DEF Init, IdleWorker, WorkerOK, BeforeInsert, AfterRow
  <1>4. KnownRows
    BY DEF Init, IdleWorker, NoRequest, KnownRows, RowIds
  <1>5. RowOrder /\ OnlyTheNewestRowRuns /\ NoAbandonedRunningRow
    BY DEF Init, IdleWorker, RowOrder, OnlyTheNewestRowRuns, NoAbandonedRunningRow, RunningRows, RowsOf
  <1> QED
    BY <1>1, <1>2, <1>3, <1>4, <1>5 DEF IInv

\* Every step keeps the invariant.
LEMMA NextInvariant == IInv /\ [Next]_vars => IInv'
  <1> SUFFICES ASSUME IInv, [Next]_vars PROVE IInv'
    OBVIOUS
  <1> USE DEF IInv
  <1>1. TypeOK' /\ ProcedureOK'
    <2>1. CASE Worker
      <3>1. UNCHANGED req
        BY <2>1 DEF Worker, TakeJob, MarkRunning, FindApplication, PrepareRow, InsertRow, StartRunner,
           RunnerExits, JudgeFailure, CleanupGroup, DeployService, RowDone, AppDone, Notify,
           FailRow, FailApp, FinishJob
      <3> QED
        BY <2>1, <3>1, WorkerTypes DEF ProcedureOK
    <2>2. CASE Recovery
      <3>1. UNCHANGED req \/ req' = [q \in Requests |-> NoRequest]
        BY <2>2 DEF Recovery, ExpireRows, MarkOwnerErroredIfIdle, Crash, Listen, StartWorker,
                    Stall, OrphanExits
      <3> QED
        BY <2>2, <3>1, RecoveryTypes DEF ProcedureOK, NoRequest
    <2>3. CASE \E q \in Requests : Call(q) \/ Serve(q)
      BY <2>3, RequestStepTypes
    <2>4. CASE UNCHANGED vars
      BY <2>4 DEF vars, TypeOK, ProcedureOK
    <2> QED
      BY <2>1, <2>2, <2>3, <2>4, NextCases
  <1>2. WorkerOK' /\ KnownRows'
    BY WorkerStep, KnownRowsStep
  <1>3. RowOrder' /\ OnlyTheNewestRowRuns' /\ NoAbandonedRunningRow'
    BY RowOrderStep, NewestStep, AbandonedStep
  <1>4. SnapshotOK'
    BY SnapshotStep
  <1> QED
    BY <1>1, <1>2, <1>3, <1>4

\* The inductive invariant holds in every reachable state, for every value of
\* the constants.
THEOREM Invariance == Spec => []IInv
  BY InitInvariant, NextInvariant, PTL DEF Spec

\* Every variable keeps its type; in particular no row or application is ever
\* given the result of a run that succeeded as its status.
THEOREM TypeCorrect == Spec => []TypeOK
  <1>1. IInv => TypeOK
    BY DEF IInv
  <1> QED
    BY <1>1, Invariance, PTL

\* At most one deployment row of an application is running, and it is the
\* newest (cancelPreviousRunningDeployments within createDeployment).
THEOREM NewestRowOnly == Spec => []OnlyTheNewestRowRuns
  <1>1. IInv => OnlyTheNewestRowRuns
    BY DEF IInv
  <1> QED
    BY <1>1, Invariance, PTL

\* In production no row is left running without a worker: not by an error path,
\* not by a crash (initCancelDeployments before deploymentWorker.run).
THEOREM NoRowAbandoned == Spec => []NoAbandonedRunningRow
  <1>1. IInv => NoAbandonedRunningRow
    BY DEF IInv
  <1> QED
    BY <1>1, Invariance, PTL

\* A deletion removes the service and the parent row only after every job it
\* saw in the queue has left it (prepareDeploymentJobsForServiceDeletion).
THEOREM DeletionGuarded == Spec => []DeletionGuard
  <1>1. IInv => DeletionGuard
    <2> SUFFICES ASSUME IInv, NEW q \in Requests, At(q, "service") \/ At(q, "dbDelete")
                 PROVE  \A j \in req[q].seen : jobs[j].state = "ended"
      BY DEF DeletionGuard
    <2>1. TypeOK /\ ProcedureOK /\ SnapshotOK
      BY DEF IInv
    <2>2. req[q].kind = "delete" /\ req[q].pc \in {6, 7}
      BY <2>1, InFlight, ProgramSteps
    <2> QED
      BY <2>1, <2>2 DEF SnapshotOK
  <1> QED
    BY <1>1, Invariance, PTL

-----------------------------------------------------------------------------
(* No service without its application.                                      *)

\* A deleted application has no service, no job and no request.  A deletion has
\* seen all jobs of its application that are left, and its last step finds the
\* service removed.
Tracked ==
    /\ \A a \in Apps : ~ app[a].live => ~ app[a].service /\ Unfinished(a) = {}
    /\ \A q \in Requests : req[q].kind # "none" => req[q].app \in Apps /\ app[req[q].app].live
    /\ \A q \in Requests : req[q].kind = "delete" /\ req[q].pc >= 5 => Unfinished(req[q].app) \subseteq req[q].seen
    /\ \A q \in Requests : req[q].kind = "delete" /\ req[q].pc = 7 => ~ app[req[q].app].service

-----------------------------------------------------------------------------
(* Requests and applications.                                               *)

\* Going on with a procedure ends it or leads to its next step.
LEMMA AfterKeeps ==
    ASSUME NEW r \in RequestStates, r.kind # "none", r.pc \in 1..Len(Program[r.kind])
    PROVE  \/ After(r) = NoRequest
           \/ /\ After(r).kind = r.kind /\ After(r).app = r.app /\ After(r).seen = r.seen
              /\ After(r).pc = r.pc + 1
  <1>1. After(r) = NoRequest \/ After(r) = [r EXCEPT !.pc = r.pc + 1]
    BY AfterType
  <1> QED
    BY <1>1 DEF RequestStates

\* What a step of a request makes of it: a procedure keeps its application, and
\* a deletion, which skips no step, also its snapshot.
LEMMA ServeMoves ==
    ASSUME TypeOK, ProcedureOK, NEW q \in Requests, Serve(q)
    PROVE  /\ req[q].kind # "none" /\ \A p \in Requests \ {q} : req'[p] = req[p]
           /\ \/ req'[q] = NoRequest
              \/ /\ req'[q].kind = req[q].kind /\ req'[q].app = req[q].app
                 /\ req[q].kind = "delete" => req'[q].pc \in {req[q].pc, req[q].pc + 1}
                 /\ ~ SnapshotJobs(q) => req'[q].seen = req[q].seen
  <1>0. req \in [Requests -> RequestStates] /\ req[q] \in RequestStates
    BY DEF TypeOK
  <1> DEFINE Moves == /\ req[q].kind # "none" /\ \A p \in Requests \ {q} : req'[p] = req[p]
                      /\ \/ req'[q] = NoRequest
                         \/ /\ req'[q].kind = req[q].kind /\ req'[q].app = req[q].app
                            /\ req[q].kind = "delete" => req'[q].pc \in {req[q].pc, req[q].pc + 1}
                            /\ ~ SnapshotJobs(q) => req'[q].seen = req[q].seen
  <1>1. ASSUME NEW r \in RequestStates, r.kind = req[q].kind, r.pc = req[q].pc, r.app = req[q].app,
               r.seen = req[q].seen \/ SnapshotJobs(q),
               NEW step, At(q, step), req' = [req EXCEPT ![q] = After(r)]
        PROVE  Moves
    <2>1. r.kind # "none" /\ r.pc \in 1..Len(Program[r.kind])
      BY <1>1, InFlight
    <2>2. req'[q] = After(r) /\ \A p \in Requests \ {q} : req'[p] = req[p]
      BY <1>0, <1>1
    <2> QED
      BY <1>1, <2>1, <2>2, AfterKeeps
  <1>2. ASSUME NEW step, At(q, step), Continue(q) \/ Abort(q) \/ UNCHANGED req
        PROVE  Moves
    <2>1. req[q].kind # "none"
      BY <1>2 DEF At
    <2>2. CASE Continue(q)
      BY <1>0, <1>1, <1>2, <2>2 DEF Continue
    <2>3. CASE Abort(q)
      BY <1>0, <2>1, <2>3 DEF Abort
    <2>4. CASE UNCHANGED req
      BY <2>1, <2>4
    <2> QED
      BY <1>2, <2>2, <2>3, <2>4
  <1>3. CASE ListQueued(q)
    <2> DEFINE r == [req[q] EXCEPT !.jobs = Queued(req[q].app)]
    <2>1. r \in RequestStates /\ r.kind = req[q].kind /\ r.pc = req[q].pc /\ r.app = req[q].app /\ r.seen = req[q].seen
      BY <1>0 DEF RequestStates, Queued
    <2>2. At(q, "list") /\ req' = [req EXCEPT ![q] = After(r)]
      BY <1>3 DEF ListQueued
    <2> HIDE DEF r
    <2> QED
      BY <1>1, <2>1, <2>2
  <1>4. CASE FindRunning(q)
    <2>1. ASSUME NEW n \in RowIds, req' = [req EXCEPT ![q] = After([req[q] EXCEPT !.row = n])]
          PROVE  Moves
      <3> DEFINE r == [req[q] EXCEPT !.row = n]
      <3>1. n \in 0..(MaxJobs + MaxCrashes)
        BY PipelineAssumption DEF RowIds
      <3>2. r \in RequestStates /\ r.kind = req[q].kind /\ r.pc = req[q].pc /\ r.app = req[q].app /\ r.seen = req[q].seen
        BY <1>0, <3>1 DEF RequestStates
      <3>3. At(q, "find") /\ req' = [req EXCEPT ![q] = After(r)]
        BY <1>4, <2>1 DEF FindRunning
      <3> HIDE DEF r
      <3> QED
        BY <1>1, <3>2, <3>3
    <2>2. CASE req' = [req EXCEPT ![q].pc = @ + 5]
      <3>1. req[q].kind # "delete" /\ req[q].kind # "none"
        BY <1>4, DeletionSteps DEF FindRunning, At
      <3> QED
        BY <1>0, <2>2, <3>1 DEF RequestStates
    <2> QED
      BY <1>4, <2>1, <2>2 DEF FindRunning, RunningRows, RowsOf
  <1>5. CASE SnapshotJobs(q)
    <2>1. ASSUME NEW all \in SUBSET JobIds,
                 req' = [req EXCEPT ![q] = After([req[q] EXCEPT !.jobs = all, !.seen = all])]
          PROVE  Moves
      <3> DEFINE r == [req[q] EXCEPT !.jobs = all, !.seen = all]
      <3>1. r \in RequestStates /\ r.kind = req[q].kind /\ r.pc = req[q].pc /\ r.app = req[q].app
        BY <1>0 DEF RequestStates
      <3>2. At(q, "snapshot") /\ req' = [req EXCEPT ![q] = After(r)]
        BY <1>5, <2>1 DEF SnapshotJobs
      <3> HIDE DEF r
      <3> QED
        BY <1>1, <1>5, <3>1, <3>2
    <2> QED
      BY <1>2, <1>5, <2>1 DEF SnapshotJobs, Queued, Unfinished
  <1>6. CASE \/ AddJob(q) \/ Unqueue(q) \/ TouchMark(q) \/ KillChild(q) \/ MarkCancelled(q) \/ SetStatus(q)
             \/ Reload(q) \/ ScaleService(q) \/ CheckNotRunning(q) \/ RemoveService(q) \/ DeleteApplication(q)
    <2>1. \E step : At(q, step) /\ (Continue(q) \/ Abort(q) \/ UNCHANGED req)
      BY <1>6 DEF AddJob, Unqueue, TouchMark, KillChild, MarkCancelled, SetStatus, Reload, ScaleService,
                  CheckNotRunning, RemoveService, DeleteApplication
    <2> QED
      BY <1>2, <2>1
  <1> QED
    BY <1>3, <1>4, <1>5, <1>6 DEF Serve

\* A new request is about an application that is there.
LEMMA CallMoves ==
    ASSUME TypeOK, NEW q \in Requests, Call(q)
    PROVE  /\ \A p \in Requests \ {q} : req'[p] = req[p]
           /\ req'[q].app \in Apps /\ app[req'[q].app].live /\ req'[q].pc = 1
           /\ UNCHANGED <<jobs, rows, app, worker>>
  <1>1. PICK kind \in Kinds, a \in Apps :
          /\ app[a].live
          /\ \E r : req' = [req EXCEPT ![q] = [NoRequest EXCEPT !.kind = kind, !.pc = 1, !.app = a, !.row = r]]
    BY DEF Call
  <1> QED
    BY <1>1 DEF TypeOK, NoRequest, Call

\* Requests survive every other step, or the process dies and they with it.
LEMMA OtherRequests ==
    ASSUME [Next]_vars, ~ \E q \in Requests : Call(q) \/ Serve(q)
    PROVE  UNCHANGED req \/ (req' = [q \in Requests |-> NoRequest] /\ UNCHANGED <<jobs, rows, app>>)
  <1>1. CASE Worker
    BY <1>1 DEF Worker, TakeJob, MarkRunning, FindApplication, PrepareRow, InsertRow, StartRunner,
       RunnerExits, JudgeFailure, CleanupGroup, DeployService, RowDone, AppDone, Notify,
       FailRow, FailApp, FinishJob
  <1>2. CASE Recovery \/ UNCHANGED vars
    BY <1>2 DEF Recovery, ExpireRows, MarkOwnerErroredIfIdle, Crash, Listen, StartWorker,
                Stall, OrphanExits, vars
  <1> QED
    BY <1>1, <1>2, NextCases

\* Only a deletion deletes an application, and nothing brings it back.
LEMMA LiveStep ==
    ASSUME TypeOK, [Next]_vars, NEW a \in Apps
    PROVE  /\ app'[a].live => app[a].live
           /\ app[a].live => app'[a].live \/ \E q \in Requests : DeleteApplication(q) /\ req[q].app = a
  <1>0. app \in [Apps -> AppRecords]
    BY DEF TypeOK
  <1> DEFINE Kept == app'[a].live = app[a].live
  <1>1. ASSUME NEW b, NEW status, app' = WithStatus(b, status)
        PROVE  Kept
    BY <1>0, <1>1 DEF WithStatus, AppRecords
  <1>2. ASSUME NEW b, NEW service, app' = [app EXCEPT ![b].service = service]
        PROVE  Kept
    BY <1>0, <1>2 DEF AppRecords
  <1>3. CASE UNCHANGED app
    BY <1>3
  <1> HIDE DEF Kept
  <1>4. CASE Worker
    BY <1>1, <1>2, <1>3, <1>4 DEF Worker, TakeJob, MarkRunning, FindApplication, PrepareRow, InsertRow, StartRunner,
       RunnerExits, JudgeFailure, CleanupGroup, DeployService, RowDone, AppDone, Notify, FailRow, FailApp,
       FinishJob, Kept
  <1>5. CASE Recovery \/ UNCHANGED vars
    BY <1>1, <1>3, <1>5 DEF Recovery, ExpireRows, MarkOwnerErroredIfIdle, Crash, Listen, StartWorker,
                Stall, OrphanExits, vars, Kept
  <1>6. ASSUME NEW q \in Requests, Call(q) \/ Serve(q), ~ DeleteApplication(q)
        PROVE  Kept
    BY <1>1, <1>2, <1>3, <1>6
    DEF Call, Serve, AddJob, ListQueued, Unqueue, FindRunning, TouchMark, KillChild, MarkCancelled, SetStatus,
        Reload, ScaleService, CheckNotRunning, SnapshotJobs, RemoveService, Kept
  <1>7. ASSUME NEW q \in Requests, DeleteApplication(q)
        PROVE  (app'[a].live => app[a].live) /\ (app[a].live => app'[a].live \/ req[q].app = a)
    BY <1>0, <1>7 DEF DeleteApplication, AppRecords
  <1> QED
    BY <1>4, <1>5, <1>6, <1>7, NextCases DEF Kept

\* Only the queueing of a job makes one.
LEMMA NewJob ==
    ASSUME TypeOK, WorkerOK, [Next]_vars, NEW j \in JobIds, jobs[j].state = "none", jobs'[j].state # "none"
    PROVE  \E q \in Requests : AddJob(q) /\ jobs'[j].app = req[q].app
  <1>0. jobs \in [JobIds -> Jobs]
    BY DEF TypeOK
  <1>1. ASSUME NEW i \in JobIds, jobs[i].state # "none", NEW state, NEW stalls,
               jobs' = [jobs EXCEPT ![i].state = state, ![i].stalls = stalls] \/ jobs' = [jobs EXCEPT ![i].state = state]
        PROVE  FALSE
    BY <1>0, <1>1
  <1>2. CASE Worker
    <2>1. jobs' # jobs => TakeJob \/ FinishJob
      BY <1>2 DEF Worker, MarkRunning, FindApplication, PrepareRow, InsertRow, StartRunner, RunnerExits,
         JudgeFailure, CleanupGroup, DeployService, RowDone, AppDone, Notify, FailRow, FailApp
    <2>2. CASE TakeJob
      BY <1>0, <2>2 DEF TakeJob
    <2>3. CASE FinishJob
      BY <1>0, <2>3 DEF FinishJob, WorkerOK
    <2> QED
      BY <2>1, <2>2, <2>3
  <1>3. CASE Recovery \/ UNCHANGED vars
    <2>1. jobs' # jobs => Stall
      BY <1>3 DEF Recovery, ExpireRows, MarkOwnerErroredIfIdle, Crash, Listen, StartWorker, OrphanExits, vars
    <2>2. CASE Stall
      <3>1. PICK i \in JobIds, state \in {"waiting", "ended"} :
              jobs[i].state = "active" /\ jobs' = [jobs EXCEPT ![i].state = state, ![i].stalls = 1]
        BY <2>2 DEF Stall
      <3> QED
        BY <1>1, <3>1
    <2> QED
      BY <2>1, <2>2
  <1>4. ASSUME NEW q \in Requests, Call(q) \/ Serve(q)
        PROVE  \E p \in Requests : AddJob(p) /\ jobs'[j].app = req[p].app
    <2>1. jobs' # jobs => AddJob(q) \/ Unqueue(q)
      BY <1>4 DEF Call, Serve, ListQueued, FindRunning, TouchMark, KillChild, MarkCancelled, SetStatus,
         Reload, ScaleService, CheckNotRunning, SnapshotJobs, RemoveService, DeleteApplication
    <2>2. CASE Unqueue(q)
      BY <1>0, <2>2 DEF Unqueue
    <2>3. CASE AddJob(q)
      <3>1. PICK i \in JobIds : jobs' = [jobs EXCEPT ![i].app = req[q].app, ![i].state = "waiting"]
        BY <2>3 DEF AddJob
      <3>2. i = j
        BY <1>0, <3>1
      <3> QED
        BY <1>0, <2>3, <3>1, <3>2 DEF Jobs
    <2> QED
      BY <2>1, <2>2, <2>3
  <1> QED
    BY <1>2, <1>3, <1>4, NextCases

-----------------------------------------------------------------------------
(* The processes of builds.                                                 *)

-----------------------------------------------------------------------------
(* Deletions and services.                                                  *)

\* An application only gets an unfinished job by a request for one.
LEMMA UnfinishedStep ==
    ASSUME TypeOK, WorkerOK, [Next]_vars, NEW a
    PROVE  Unfinished(a)' \subseteq Unfinished(a) \/ \E q \in Requests : AddJob(q) /\ req[q].app = a
  <1>1. SUFFICES ASSUME NEW j \in Unfinished(a)', j \notin Unfinished(a)
                 PROVE  \E q \in Requests : AddJob(q) /\ req[q].app = a
    OBVIOUS
  <1>2. j \in JobIds /\ jobs'[j].app = a /\ jobs'[j].state \in {"waiting", "active"}
    BY <1>1 DEF Unfinished
  <1>3. jobs[j].state = "none"
    <2>1. JobsGoOn /\ jobs[j].state \in {"none", "waiting", "active", "ended"}
      BY <1>2, JobsStep DEF TypeOK, Jobs
    <2> QED
      BY <1>1, <1>2, <2>1 DEF JobsGoOn, Unfinished
  <1> QED
    BY <1>2, <1>3, NewJob

\* An application only gets a service from its deployment or from a reload.
LEMMA ServiceStep ==
    ASSUME TypeOK, [Next]_vars, NEW a \in Apps, ~ app[a].service, app'[a].service
    PROVE  \/ DeployService /\ WorkerApp = a
           \/ \E q \in Requests : Reload(q) /\ req[q].app = a
  <1>0. app \in [Apps -> AppRecords]
    BY DEF TypeOK
  <1>1. ASSUME NEW b, NEW status, app' = WithStatus(b, status)
        PROVE  FALSE
    BY <1>0, <1>1 DEF WithStatus, AppRecords
  <1>2. ASSUME NEW b, app' = [app EXCEPT ![b].service = TRUE]
        PROVE  b = a
    BY <1>0, <1>2 DEF AppRecords
  <1>3. app' # app
    OBVIOUS
  <1>4. CASE Worker
    BY <1>1, <1>2, <1>3, <1>4 DEF Worker, TakeJob, MarkRunning, FindApplication, PrepareRow, InsertRow, StartRunner,
       RunnerExits, JudgeFailure, CleanupGroup, DeployService, RowDone, AppDone, Notify, FailRow, FailApp,
       FinishJob
  <1>5. CASE Recovery \/ UNCHANGED vars
    BY <1>1, <1>3, <1>5 DEF Recovery, ExpireRows, MarkOwnerErroredIfIdle, Crash, Listen, StartWorker,
                Stall, OrphanExits, vars
  <1>6. ASSUME NEW q \in Requests, Call(q) \/ Serve(q)
        PROVE  Reload(q) /\ req[q].app = a
    <2>1. ~ RemoveService(q)
      BY <1>0, <1>3 DEF RemoveService, AppRecords
    <2>2. ~ DeleteApplication(q)
      BY <1>0 DEF DeleteApplication, AppRecords
    <2>3. Reload(q)
      BY <1>1, <1>3, <1>6, <2>1, <2>2
      DEF Call, Serve, AddJob, ListQueued, Unqueue, FindRunning, TouchMark, KillChild, MarkCancelled, SetStatus,
          ScaleService, CheckNotRunning, SnapshotJobs
    <2> QED
      BY <1>1, <1>2, <2>3 DEF Reload
  <1> QED
    BY <1>4, <1>5, <1>6, NextCases

\* The only request in flight, a deletion that has removed the queue's jobs,
\* finds none of its application.
LEMMA NoneUnfinished ==
    ASSUME TypeOK, SnapshotOK, Tracked, NEW q \in Requests, req[q].kind = "delete", req[q].pc \in {6, 7}
    PROVE  Unfinished(req[q].app) = {}
  <1>1. Unfinished(req[q].app) \subseteq req[q].seen
    BY DEF Tracked
  <1>2. \A j \in req[q].seen : jobs[j].state = "ended"
    BY DEF SnapshotOK
  <1> QED
    BY <1>1, <1>2 DEF Unfinished

\* The worker has an unfinished job of the application it works for.
LEMMA WorkerUnfinished ==
    ASSUME WorkerOK, worker.pc # "idle"
    PROVE  Unfinished(WorkerApp) # {}
  BY DEF WorkerOK, Unfinished, WorkerApp

\* The step with which a deletion deletes its application is its last.
LEMMA DeletionEnds ==
    ASSUME TypeOK, ProcedureOK, NEW q \in Requests, DeleteApplication(q)
    PROVE  /\ req[q].kind = "delete" /\ req[q].pc = 7 /\ req'[q] = NoRequest
           /\ UNCHANGED jobs /\ app' = [app EXCEPT ![req[q].app].live = FALSE]
  <1>1. At(q, "dbDelete") /\ Continue(q) /\ UNCHANGED jobs /\ app' = [app EXCEPT ![req[q].app].live = FALSE]
    BY DEF DeleteApplication
  <1>2. req[q].kind = "delete"
    BY <1>1, InFlight, ProgramSteps
  <1>3. req[q].pc = 7
    BY <1>1, <1>2, DeletionSteps
  <1>4. Len(Program["delete"]) = 7
    BY DEF Program
  <1> QED
    BY <1>1, <1>2, <1>3, <1>4 DEF Continue, After, TypeOK

\* What a deletion does at each of its steps.
LEMMA DeletionMoves ==
    ASSUME TypeOK, ProcedureOK, NEW q \in Requests, req[q].kind = "delete", Serve(q), req'[q] # NoRequest
    PROVE  /\ req[q].pc = 4 => UNCHANGED jobs /\ req'[q].seen = Unfinished(req[q].app)
           /\ req[q].pc = 6 => app' = [app EXCEPT ![req[q].app].service = FALSE]
           /\ req[q].pc \in 1..6
           /\ ~ AddJob(q) /\ ~ Reload(q)
  <1>0. req \in [Requests -> RequestStates] /\ req[q] \in RequestStates
    BY DEF TypeOK
  <1>1. ~ AddJob(q) /\ ~ Reload(q) /\ ~ FindRunning(q) /\ ~ TouchMark(q) /\ ~ KillChild(q) /\ ~ MarkCancelled(q)
        /\ ~ SetStatus(q) /\ ~ ScaleService(q)
    BY DeletionSteps DEF AddJob, Reload, FindRunning, TouchMark, KillChild, MarkCancelled, SetStatus, ScaleService
  <1>2. ~ DeleteApplication(q)
    BY DeletionEnds
  <1>3. CASE ListQueued(q) \/ Unqueue(q) \/ CheckNotRunning(q)
    <2>1. req[q].pc \in {1, 2, 3, 5}
      BY <1>3, DeletionSteps DEF ListQueued, Unqueue, CheckNotRunning
    <2> QED
      BY <1>1, <2>1
  <1>4. CASE RemoveService(q)
    <2>1. req[q].pc = 6 /\ ~ Abort(q)
      BY <1>0, <1>4, DeletionSteps DEF RemoveService, Abort
    <2> QED
      BY <1>1, <1>4, <2>1 DEF RemoveService
  <1>5. CASE SnapshotJobs(q)
    <2>1. req[q].pc = 4 /\ ~ Abort(q) /\ UNCHANGED jobs
      BY <1>0, <1>5, DeletionSteps DEF SnapshotJobs, Abort
    <2> DEFINE r == [req[q] EXCEPT !.jobs = Queued(req[q].app), !.seen = Unfinished(req[q].app)]
    <2>2. /\ r \in RequestStates /\ r.kind = req[q].kind /\ r.pc = req[q].pc
          /\ r.seen = Unfinished(req[q].app)
      BY <1>0 DEF RequestStates, Queued, Unfinished
    <2>3. req'[q] = After(r)
      BY <1>0, <1>5, <2>1 DEF SnapshotJobs
    <2> HIDE DEF r
    <2>4. r.pc \in 1..Len(Program[r.kind])
      BY <2>2 DEF ProcedureOK
    <2>5. req'[q].seen = Unfinished(req[q].app)
      BY <2>2, <2>3, <2>4, AfterKeeps
    <2> QED
      BY <1>1, <2>1, <2>5
  <1> QED
    BY <1>1, <1>2, <1>3, <1>4, <1>5 DEF Serve

\* One request at a time: whatever a step does, it is this one that does it.
Alone == \A p, q \in Requests : p = q

\* A step that is not a deletion's last keeps deleted applications without
\* services and jobs.
LEMMA GoneStaysGone ==
    ASSUME TypeOK, ProcedureOK, WorkerOK, Tracked, [Next]_vars, NEW a \in Apps, ~ app[a].live
    PROVE  ~ app'[a].service /\ Unfinished(a)' = {}
  <1>1. ~ app[a].service /\ Unfinished(a) = {}
    BY DEF Tracked
  <1>2. ASSUME NEW q \in Requests, AddJob(q) \/ Reload(q)
        PROVE  req[q].app # a
    BY <1>2 DEF Tracked, AddJob, Reload, At
  <1>3. DeployService => WorkerApp # a
    BY <1>1, WorkerUnfinished DEF DeployService
  <1> QED
    BY <1>1, <1>2, <1>3, UnfinishedStep, ServiceStep

\* With one request at a time, every step keeps the services tracked.
LEMMA TrackedStep ==
    ASSUME TypeOK, ProcedureOK, WorkerOK, SnapshotOK, Tracked, Alone, [Next]_vars
    PROVE  Tracked'
  <1>0. app \in [Apps -> AppRecords] /\ req \in [Requests -> RequestStates]
    BY DEF TypeOK
  <1>1. ASSUME NEW a \in Apps, ~ app'[a].live
        PROVE  ~ app'[a].service /\ Unfinished(a)' = {}
    <2>1. CASE ~ app[a].live
      BY <2>1, GoneStaysGone
    <2>2. CASE app[a].live
      <3>1. PICK q \in Requests : DeleteApplication(q) /\ req[q].app = a
        BY <1>1, <2>2, LiveStep
      <3>2. req[q].kind = "delete" /\ req[q].pc = 7 /\ UNCHANGED jobs /\ app' = [app EXCEPT ![a].live = FALSE]
        BY <3>1, DeletionEnds
      <3>3. ~ app[a].service /\ Unfinished(a) = {}
        BY <3>1, <3>2, NoneUnfinished DEF Tracked
      <3> QED
        BY <1>0, <3>2, <3>3 DEF Unfinished, AppRecords
    <2> QED
      BY <2>1, <2>2
  <1>2. ASSUME NEW p \in Requests, req'[p].kind # "none"
        PROVE  req'[p].app \in Apps /\ app'[req'[p].app].live
    <2>1. ~ \E q \in Requests : DeleteApplication(q)
      <3>1. ASSUME NEW q \in Requests, DeleteApplication(q)
            PROVE  FALSE
        <4>1. p = q
          BY DEF Alone
        <4>2. req'[q] = NoRequest
          BY <3>1, DeletionEnds
        <4> QED
          BY <1>2, <4>1, <4>2 DEF NoRequest
      <3> QED
        BY <3>1
    <2>2. req'[p].app \in Apps /\ app[req'[p].app].live
      <3>1. ASSUME NEW q \in Requests, Call(q)
            PROVE  req'[p].app \in Apps /\ app[req'[p].app].live
        BY <3>1, CallMoves DEF Alone
      <3>2. ASSUME NEW q \in Requests, Serve(q)
            PROVE  req'[p].app \in Apps /\ app[req'[p].app].live
        BY <1>2, <3>2, ServeMoves DEF Alone, NoRequest, Tracked
      <3>3. CASE ~ \E q \in Requests : Call(q) \/ Serve(q)
        BY <1>2, <3>3, OtherRequests DEF NoRequest, Tracked
      <3> QED
        BY <3>1, <3>2, <3>3
    <2> QED
      BY <2>1, <2>2, LiveStep
  <1>3. ASSUME NEW p \in Requests, req'[p].kind = "delete", req'[p].pc >= 5
        PROVE  (Unfinished(req[p].app) \subseteq req[p].seen)' /\ (req'[p].pc = 7 => ~ app'[req'[p].app].service)
    <2>1. req'[p] # NoRequest
      BY <1>3 DEF NoRequest
    <2>2. ~ \E q \in Requests : Call(q)
      BY <1>3, CallMoves DEF Alone
    <2>3. /\ req[p].kind = "delete" /\ req'[p].app = req[p].app
          /\ Serve(p) \/ UNCHANGED req
      <3>1. CASE \E q \in Requests : Serve(q)
        BY <1>3, <2>1, <3>1, ServeMoves DEF Alone
      <3>2. CASE ~ \E q \in Requests : Serve(q)
        BY <1>3, <2>1, <2>2, <3>2, OtherRequests
      <3> QED
        BY <3>1, <3>2
    <2>4. PICK a \in Apps : a = req[p].app /\ a = req'[p].app
      BY <2>3 DEF Tracked
    <2>5. ~ \E q \in Requests : AddJob(q) \/ Reload(q)
      <3>1. ASSUME NEW q \in Requests, AddJob(q) \/ Reload(q)
            PROVE  FALSE
        <4>1. q = p /\ Serve(p)
          BY <3>1 DEF Alone, Serve
        <4> QED
          BY <2>1, <2>3, <3>1, <4>1, DeletionMoves
      <3> QED
        BY <3>1
    <2>6. Unfinished(a)' \subseteq Unfinished(a)
      BY <2>5, UnfinishedStep
    <2>7. req[p].pc >= 6 /\ ~ app[a].service => ~ app'[a].service
      <3>1. ASSUME req[p].pc >= 6, DeployService
            PROVE  WorkerApp # a
        <4>1. req[p].pc \in {6, 7}
          <5>1. req[p].pc \in 1..Len(Program["delete"]) /\ Len(Program["delete"]) = 7
            BY <2>3 DEF ProcedureOK, Program
          <5> QED
            BY <3>1, <5>1
        <4> QED
          BY <2>3, <2>4, <3>1, <4>1, NoneUnfinished, WorkerUnfinished DEF DeployService
      <3> QED
        BY <2>4, <2>5, <3>1, ServiceStep
    <2>8. Unfinished(a)' \subseteq req'[p].seen /\ (req'[p].pc = 7 => ~ app'[a].service)
      <3>1. CASE UNCHANGED req
        BY <1>3, <2>3, <2>4, <2>6, <2>7, <3>1 DEF Tracked
      <3>2. CASE Serve(p)
        <4>1. req[p].pc \in 1..6 /\ req'[p].pc \in {req[p].pc, req[p].pc + 1}
          BY <2>1, <2>3, <3>2, DeletionMoves, ServeMoves
        <4>2. CASE req[p].pc = 4
          <5>1. req'[p].seen = Unfinished(a)
            BY <2>1, <2>3, <2>4, <3>2, <4>2, DeletionMoves
          <5> QED
            BY <2>6, <4>1, <4>2, <5>1
        <4>3. CASE req[p].pc \in {5, 6}
          <5>1. ~ SnapshotJobs(p)
            BY <2>3, <4>3, DeletionSteps DEF SnapshotJobs
          <5>2. req'[p].seen = req[p].seen
            BY <2>1, <2>3, <3>2, <5>1, ServeMoves
          <5>3. Unfinished(a) \subseteq req[p].seen
            BY <2>3, <2>4, <4>3 DEF Tracked
          <5>4. req[p].pc = 6 => app' = [app EXCEPT ![a].service = FALSE]
            BY <2>1, <2>3, <2>4, <3>2, DeletionMoves
          <5>5. req[p].pc = 6 => ~ app'[a].service
            BY <1>0, <5>4 DEF AppRecords
          <5> QED
            BY <2>6, <4>1, <4>3, <5>2, <5>3, <5>5
        <4> QED
          BY <1>3, <4>1, <4>2, <4>3
      <3> QED
        BY <2>3, <3>1, <3>2
    <2> QED
      BY <2>4, <2>8 DEF Unfinished
  <1>4. \A p \in Requests : (req'[p].kind = "delete" /\ req'[p].pc >= 5 => (Unfinished(req[p].app) \subseteq req[p].seen)')
    BY <1>3
  <1>5. \A p \in Requests : (req'[p].kind = "delete" /\ req'[p].pc = 7 => ~ app'[req'[p].app].service)
    BY <1>3
  <1> QED
    BY <1>1, <1>2, <1>4, <1>5 DEF Tracked

\* No deleted application has a service left on its server, as long as one
\* request is served at a time: crashes, stalled jobs, failing commands and the
\* watchdog change nothing about it (removeService before DELETE FROM application).
THEOREM ServicesTracked ==
    ASSUME Alone
    PROVE  Spec => []NoUntrackedService
  <1>1. Init => Tracked
    BY DEF Init, NoRequest, Tracked
  <1>2. IInv /\ Tracked /\ [Next]_vars => Tracked'
    BY TrackedStep DEF IInv
  <1>3. Tracked => NoUntrackedService
    BY DEF Tracked, NoUntrackedService
  <1> QED
    BY <1>1, <1>2, <1>3, Invariance, PTL DEF Spec

-----------------------------------------------------------------------------
(* The phases of one group.  What the pipeline's modules call a group is one   *)
(* call of runDeploymentPhases, whose runners, processes and files             *)
(* PhaseRunner has.  For any number of phases, attempts and lost connections:  *)
(* the attempts are bounded, and while no connection is lost no process of a  *)
(* phase outlives its attempt or the call.                                   *)

MaxRuns == Phases * MaxAttempts

\* The attempts the call has had so far: those of the phases before this one
\* and those of this one, the present one among them unless it is yet to begin.
\* An attempt is never begun beyond what the phase's policy allows.
AttemptsOK ==
    /\ node.attempt <= Attempts(node.phase)
    /\ node.run <= (node.phase - 1) * MaxAttempts + node.attempt
    /\ node.pc \in {"preflight", "prepare", "launch"} =>
          node.run < (node.phase - 1) * MaxAttempts + node.attempt
    /\ node.pc = "running" => node.run \in RunIds

\* A signal goes to a process whose pid was read.
TargetOK == cancel.pc \in {"term", "kill"} => cancel.target \in RunIds

RunTypes == PhaseTypeOK /\ AttemptsOK /\ TargetOK

\* While no connection is lost: a runner that has begun and not exited is the
\* one the caller waits for; a process lives only between its runner's spawn
\* and its final check; the caller has a result only when it has stopped waiting.
UnderWay(k) == runner[k].pc \notin {"none", "exited"}
Spawned(k) == runner[k].pc \in {"writePid", "wait"}
OneAtATime ==
    /\ node.result # "none" => node.pc \in {"cleanup", "returned", "leftover"}
    /\ drops = 0 => \A k \in RunIds :
          /\ UnderWay(k) => node.pc = "running" /\ node.run = k
          /\ runner[k].child = "alive" => Spawned(k)

RunInv == RunTypes /\ OneAtATime

-----------------------------------------------------------------------------
(* Attempts.                                                                *)

\* The attempts of the phases up to p are at most p * MaxAttempts.
LEMMA Products ==
  ASSUME NEW p \in 1..Phases
  PROVE  /\ (p - 1) * MaxAttempts \in Nat /\ (p - 1) * MaxAttempts + MaxAttempts = p * MaxAttempts
         /\ p * MaxAttempts \in Nat /\ p * MaxAttempts <= MaxRuns /\ MaxRuns \in Nat
         /\ (p + 1) - 1 = p
  <1>1. Phases \in Nat /\ MaxAttempts \in Nat /\ p \in Nat /\ p >= 1 /\ p <= Phases
    BY PhaseAssumption
  <1>2. \A m, n, k \in Nat : k >= 1 =>
          /\ (k - 1) * m \in Nat /\ (k - 1) * m + m = k * m
          /\ k * m \in Nat
          /\ k <= n => k * m <= n * m
    <2>1. \A m, k \in Nat : k * m \in Nat
      OBVIOUS
    <2>2. ASSUME NEW m \in Nat, NEW n \in Nat, NEW k \in Nat, k <= n PROVE k * m <= n * m
      <3>1. PICK d \in Nat : n = k + d
        <4>1. n - k \in Nat /\ n = k + (n - k)
          BY <2>2
        <4> QED BY <4>1
      <3>2. n * m = k * m + d * m
        BY <3>1
      <3> QED BY <2>1, <3>2
    <2>3. ASSUME NEW m \in Nat, NEW k \in Nat, k >= 1
          PROVE (k - 1) * m \in Nat /\ (k - 1) * m + m = k * m
      <3>1. k - 1 \in Nat
        BY <2>3
      <3>2. (k - 1) * m + m = k * m
        OBVIOUS
      <3> QED BY <2>1, <3>1, <3>2
    <2> QED BY <2>1, <2>2, <2>3
  <1> QED BY <1>1, <1>2 DEF MaxRuns

LEMMA AttemptsWithin ==
  ASSUME NEW p \in 1..Phases
  PROVE  Attempts(p) \in 1..MaxAttempts
  BY PhaseAssumption DEF Attempts

\* A call that is yet to begin its attempt has not used up its attempts.
LEMMA RoomToLaunch ==
  ASSUME RunTypes, node.pc = "launch"
  PROVE  node.run + 1 \in RunIds /\ node.run + 1 <= (node.phase - 1) * MaxAttempts + node.attempt
  <1>1. node.phase \in 1..Phases /\ node.attempt \in 1..MaxAttempts /\ node.run \in Nat
    BY DEF RunTypes, PhaseTypeOK
  <1>2. node.run < (node.phase - 1) * MaxAttempts + node.attempt
    BY DEF RunTypes, AttemptsOK
  <1>3. (node.phase - 1) * MaxAttempts \in Nat /\ MaxRuns \in Nat
        /\ (node.phase - 1) * MaxAttempts + MaxAttempts <= MaxRuns
    BY <1>1, Products
  <1>4. \A x, r, a, m, n \in Nat : a <= m /\ r < x + a /\ x + m <= n => r + 1 <= n /\ r + 1 <= x + a
    OBVIOUS
  <1>5. node.attempt \in Nat /\ MaxAttempts \in Nat /\ node.attempt <= MaxAttempts
    BY <1>1, PhaseAssumption
  <1>6. node.run + 1 <= MaxRuns /\ node.run + 1 <= (node.phase - 1) * MaxAttempts + node.attempt
    BY <1>1, <1>2, <1>3, <1>4, <1>5
  <1> QED BY <1>1, <1>3, <1>6 DEF RunIds, MaxRuns

-----------------------------------------------------------------------------
(* Types.                                                                   *)

NodeRecords ==
    [pc : {"preflight", "prepare", "launch", "running", "judge", "cleanup", "returned", "leftover"},
     phase : 1..Phases, attempt : 1..MaxAttempts, run : 0..MaxRuns,
     cause : {"none", "lost", "transient", "fatal", "cancelled"},
     result : {"none", "ok", "failed", "cancelled"}]
RunnerRecords ==
    [pc : {"none", "check", "spawn", "writePid", "wait", "exited"},
     child : {"none", "alive"} \cup Codes, code : {"none"} \cup Codes]

LEMMA RunTypesInit == PhaseInit => RunTypes
<1> SUFFICES ASSUME PhaseInit PROVE RunTypes
  OBVIOUS
<1>1. MaxRuns \in Nat /\ 1 \in 1..Phases /\ 1 \in 1..MaxAttempts /\ 0 \in 0..MaxRuns
  <2>1. 1 \in 1..Phases /\ 1 \in 1..MaxAttempts
    BY PhaseAssumption
  <2>2. MaxRuns \in Nat
    BY <2>1, Products
  <2> QED BY <2>1, <2>2
<1>2. PhaseTypeOK
  <2>1. node \in NodeRecords
    BY <1>1 DEF PhaseInit, NodeRecords
  <2>2. runner \in [RunIds -> RunnerRecords]
    BY DEF PhaseInit, RunnerRecords
  <2>3. pidFile \in 0..MaxRuns /\ cancelFile \in BOOLEAN /\ drops \in 0..MaxDrops
        /\ cancel \in [pc : {"touch", "read", "term", "kill", "rm", "done"}, target : 0..MaxRuns]
    <3>1. 0 \in 0..MaxDrops
      BY PhaseAssumption
    <3> QED BY <1>1, <3>1 DEF PhaseInit
  <2> QED BY <2>1, <2>2, <2>3 DEF PhaseTypeOK, NodeRecords, RunnerRecords, MaxRuns
<1>3. AttemptsOK
  <2>1. node.run = 0 /\ node.attempt = 1 /\ node.phase = 1 /\ node.pc = "preflight"
    BY DEF PhaseInit
  <2>2. Attempts(1) \in Nat /\ Attempts(1) >= 1 /\ (1 - 1) * MaxAttempts \in Nat
    BY <1>1, AttemptsWithin, Products, PhaseAssumption
  <2> QED BY <2>1, <2>2 DEF AttemptsOK
<1> QED BY <1>2, <1>3 DEF RunTypes, TargetOK, PhaseInit

\* A step of runner k, or of its process, changes runner k and the pid file.
LEMMA RunnerSteps ==
  ASSUME RunTypes, NEW k \in RunIds, Runner(k) \/ ChildExits(k)
  PROVE  /\ runner' \in [RunIds -> RunnerRecords] /\ pidFile' \in {pidFile, 0, k}
         /\ UNCHANGED <<node, cancelFile, cancel, drops>>
         /\ \A i \in RunIds \ {k} : runner'[i] = runner[i]
<1>1. runner \in [RunIds -> RunnerRecords]
  BY DEF RunTypes, PhaseTypeOK, RunnerRecords
<1>2. CASE RunnerCheck(k)
  BY <1>1, <1>2 DEF RunnerCheck, Exit, RunnerRecords, Codes
<1>3. CASE Spawn(k)
  BY <1>1, <1>3 DEF Spawn, RunnerRecords, Codes
<1>4. CASE WritePid(k)
  BY <1>1, <1>4 DEF WritePid, Exit, RunnerRecords, Codes
<1>5. CASE ChildExits(k)
  BY <1>1, <1>5 DEF ChildExits, RunnerRecords, Codes
<1>6. CASE FinalCheck(k)
  <2>1. PICK code \in {"none"} \cup Codes :
          runner' = [runner EXCEPT ![k].pc = "exited", ![k].code = code] /\ pidFile' = 0
    <3>1. runner[k].child \in {"none"} \cup Codes /\ "cancelled" \in Codes
      BY <1>1, <1>6 DEF FinalCheck, RunnerRecords, Codes
    <3> QED BY <1>6, <3>1 DEF FinalCheck, Exit
  <2> QED BY <1>1, <1>6, <2>1 DEF FinalCheck, RunnerRecords
<1> QED BY <1>2, <1>3, <1>4, <1>5, <1>6 DEF Runner

\* A step of the caller: where it goes, and that its counters keep their ranges.
LEMMA CallerTypes ==
  ASSUME RunTypes, Caller \/ Drop
  PROVE  /\ node' \in NodeRecords /\ runner' \in [RunIds -> RunnerRecords]
         /\ pidFile' \in {pidFile, 0} /\ cancelFile' \in BOOLEAN /\ drops' \in 0..MaxDrops
         /\ UNCHANGED cancel
         /\ AttemptsOK'
<1>1. node \in NodeRecords /\ runner \in [RunIds -> RunnerRecords] /\ drops \in 0..MaxDrops
      /\ cancelFile \in BOOLEAN
  BY DEF RunTypes, PhaseTypeOK, NodeRecords, RunnerRecords, MaxRuns
<1>2. node.phase \in 1..Phases /\ node.attempt \in 1..MaxAttempts /\ node.run \in Nat /\ AttemptsOK
  BY <1>1 DEF NodeRecords, RunTypes
<1>3. /\ (node.phase - 1) * MaxAttempts \in Nat /\ Attempts(node.phase) \in Nat
      /\ Attempts(node.phase) <= MaxAttempts
  BY <1>2, Products, AttemptsWithin, PhaseAssumption
<1>4. Lose \/ UNCHANGED drops => drops' \in 0..MaxDrops
  BY <1>1, PhaseAssumption DEF Lose
<1>5. CASE Preflight
  <2>1. node'.pc \in {"prepare", "cleanup"} /\ node' \in NodeRecords
        /\ UNCHANGED <<node.phase, node.attempt, node.run>>
    BY <1>1, <1>5 DEF Preflight, Return, NodeRecords
  <2> QED BY <1>1, <1>2, <1>4, <1>5, <2>1 DEF Preflight, AttemptsOK
<1>6. CASE Prepare
  <2>1. node'.pc \in {"launch", "cleanup"} /\ node' \in NodeRecords
        /\ UNCHANGED <<node.phase, node.attempt, node.run>>
    BY <1>1, <1>6 DEF Prepare, Return, NodeRecords
  <2> QED BY <1>1, <1>2, <1>4, <1>6, <2>1 DEF Prepare, AttemptsOK
<1>7. CASE Launch
  <2>1. node.run + 1 \in RunIds /\ node.run + 1 <= (node.phase - 1) * MaxAttempts + node.attempt
        /\ node.run + 1 \in 0..MaxRuns
    BY <1>7, RoomToLaunch DEF Launch, RunIds, MaxRuns
  <2>2. CASE Lose /\ Return("failed") /\ UNCHANGED runner
    <3>1. node'.pc = "cleanup" /\ node' \in NodeRecords /\ UNCHANGED <<node.phase, node.attempt, node.run>>
      BY <1>1, <2>2 DEF Return, NodeRecords
    <3> QED BY <1>1, <1>2, <1>4, <1>7, <2>2, <3>1 DEF Launch, AttemptsOK
  <2>3. CASE /\ node' = [node EXCEPT !.pc = "running", !.run = @ + 1]
             /\ runner' = [runner EXCEPT ![node.run + 1].pc = "check"] /\ UNCHANGED drops
    <3>1. node'.pc = "running" /\ node' \in NodeRecords /\ UNCHANGED <<node.phase, node.attempt>>
          /\ node'.run = node.run + 1
      BY <1>1, <2>1, <2>3 DEF NodeRecords
    <3>2. runner' \in [RunIds -> RunnerRecords]
      BY <1>1, <2>3 DEF RunnerRecords
    <3>3. AttemptsOK'
      BY <1>2, <2>1, <3>1 DEF AttemptsOK
    <3> QED BY <1>1, <1>4, <1>7, <2>3, <3>1, <3>2, <3>3 DEF Launch
  <2> QED BY <1>7, <2>2, <2>3 DEF Launch
<1>8. CASE Collect
  <2>1. CASE Return("ok") \/ \E cause \in {"none", "transient", "fatal", "cancelled"} : JudgeAttempt(cause)
    <3>1. node'.pc \in {"cleanup", "judge"} /\ node' \in NodeRecords
          /\ UNCHANGED <<node.phase, node.attempt, node.run>>
      BY <1>1, <2>1 DEF Return, JudgeAttempt, NodeRecords
    <3> QED BY <1>1, <1>2, <1>4, <1>8, <3>1 DEF Collect, AttemptsOK
  <2>2. CASE node.phase # Phases /\ node' = [node EXCEPT !.pc = "prepare", !.phase = @ + 1, !.attempt = 1]
    <3>1. node.phase + 1 \in 1..Phases /\ 1 \in 1..MaxAttempts
      BY <1>2, <2>2, PhaseAssumption
    <3>2. node' \in NodeRecords /\ node'.pc = "prepare" /\ node'.phase = node.phase + 1
          /\ node'.attempt = 1 /\ node'.run = node.run
      BY <1>1, <2>2, <3>1 DEF NodeRecords
    <3>3. node.run <= node.phase * MaxAttempts
      BY <1>2, <1>3, Products, PhaseAssumption DEF AttemptsOK
    <3>4. Attempts(node.phase + 1) >= 1 /\ node.phase * MaxAttempts \in Nat /\ (node.phase + 1) - 1 = node.phase
      BY <1>2, <3>1, AttemptsWithin, Products
    <3>5. AttemptsOK'
      <4>1. Attempts(node'.phase) = Attempts(node.phase + 1) /\ (node'.phase - 1) * MaxAttempts = node.phase * MaxAttempts
        BY <3>2, <3>4
      <4>2. node.run < node.phase * MaxAttempts + 1
        BY <1>2, <3>3, <3>4
      <4> QED BY <1>2, <3>2, <3>4, <4>1, <4>2 DEF AttemptsOK, Attempts
    <3> QED BY <1>1, <1>4, <1>8, <3>2, <3>5 DEF Collect
  <2>3. runner[node.run].code \in {"transient", "fatal", "cancelled", "ok", "none"}
    <3>1. node.run \in RunIds
      BY <1>2, <1>8 DEF Collect, AttemptsOK
    <3> QED BY <1>1, <3>1 DEF RunnerRecords, Codes
  <2> QED BY <1>8, <2>1, <2>2, <2>3 DEF Collect
<1>9. CASE Judge
  <2>1. CASE \E result \in {"cancelled", "failed"} : Return(result)
    <3>1. node'.pc = "cleanup" /\ node' \in NodeRecords /\ UNCHANGED <<node.phase, node.attempt, node.run>>
      BY <1>1, <2>1 DEF Return, NodeRecords
    <3> QED BY <1>1, <1>2, <1>4, <1>9, <3>1 DEF Judge, AttemptsOK
  <2>2. CASE node.attempt < Attempts(node.phase) /\ node' = [node EXCEPT !.pc = "launch", !.attempt = @ + 1]
    <3>1. node.attempt + 1 \in 1..MaxAttempts /\ node.attempt + 1 <= Attempts(node.phase)
      BY <1>2, <1>3, <2>2, PhaseAssumption
    <3>2. node' \in NodeRecords /\ node'.pc = "launch" /\ UNCHANGED <<node.phase, node.run>>
          /\ node'.attempt = node.attempt + 1
      BY <1>1, <2>2, <3>1 DEF NodeRecords
    <3> QED BY <1>1, <1>2, <1>3, <1>4, <1>9, <3>1, <3>2 DEF Judge, AttemptsOK
  <2> QED BY <1>9, <2>1, <2>2 DEF Judge
<1>10. CASE Cleanup
  <2>1. node'.pc \in {"returned", "leftover"} /\ node' \in NodeRecords
        /\ UNCHANGED <<node.phase, node.attempt, node.run>>
    BY <1>1, <1>10 DEF Cleanup, NodeRecords
  <2> QED BY <1>1, <1>2, <1>4, <1>10, <2>1 DEF Cleanup, AttemptsOK
<1>11. CASE Drop
  <2>1. node'.pc = "judge" /\ node' \in NodeRecords /\ UNCHANGED <<node.phase, node.attempt, node.run>>
    BY <1>1, <1>11 DEF Drop, JudgeAttempt, NodeRecords
  <2> QED BY <1>1, <1>2, <1>4, <1>11, <2>1 DEF Drop, AttemptsOK
<1> QED BY <1>5, <1>6, <1>7, <1>8, <1>9, <1>10, <1>11 DEF Caller

\* A step of the canceller: it signals the runner whose pid it has read.
LEMMA CancellerTypes ==
  ASSUME RunTypes, Touch \/ Canceller
  PROVE  /\ runner' \in [RunIds -> RunnerRecords]
         /\ \A k \in RunIds : runner'[k].pc = runner[k].pc
                              /\ (runner'[k].child = "alive" => runner[k].child = "alive")
         /\ pidFile' \in {pidFile, 0} /\ cancelFile' \in BOOLEAN
         /\ cancel' \in [pc : {"touch", "read", "term", "kill", "rm", "done"}, target : 0..MaxRuns]
         /\ TargetOK' /\ UNCHANGED <<node, drops>>
<1>1. /\ runner \in [RunIds -> RunnerRecords] /\ pidFile \in 0..MaxRuns /\ cancelFile \in BOOLEAN
      /\ cancel \in [pc : {"touch", "read", "term", "kill", "rm", "done"}, target : 0..MaxRuns]
      /\ TargetOK
  BY DEF RunTypes, PhaseTypeOK, RunnerRecords, MaxRuns
<1>2. CASE Touch
  BY <1>1, <1>2 DEF Touch, TargetOK
<1>3. CASE ReadPid
  <2>1. pidFile # 0 => pidFile \in RunIds
    BY <1>1 DEF RunIds, MaxRuns
  <2> QED BY <1>1, <1>3, <2>1 DEF ReadPid, TargetOK
<1>4. CASE Signal
  <2>1. cancel.target \in RunIds
    BY <1>1, <1>4 DEF Signal, TargetOK
  <2>2. PICK child \in {runner[cancel.target].child, "fatal"} :
          runner' = [runner EXCEPT ![cancel.target].child = child]
    BY <1>4 DEF Signal
  <2>3. runner' \in [RunIds -> RunnerRecords]
        /\ \A k \in RunIds : runner'[k].pc = runner[k].pc
                             /\ (runner'[k].child = "alive" => runner[k].child = "alive")
    BY <1>1, <2>1, <2>2 DEF RunnerRecords, Codes
  <2> QED BY <1>1, <1>4, <2>1, <2>3 DEF Signal, TargetOK
<1>5. CASE RemovePid
  BY <1>1, <1>5 DEF RemovePid, TargetOK
<1> QED BY <1>2, <1>3, <1>4, <1>5 DEF Canceller

\* Every step is one of the caller, of a lost connection, of the canceller, or of
\* a runner and its process.
LEMMA RunSteps ==
  ASSUME [PhaseNext]_phaseVars
  PROVE  Caller \/ Drop \/ Touch \/ Canceller \/ (\E k \in RunIds : Runner(k) \/ ChildExits(k)) \/ UNCHANGED phaseVars
  BY DEF PhaseNext

LEMMA RunTypesNext == RunTypes /\ [PhaseNext]_phaseVars => RunTypes'
<1> SUFFICES ASSUME RunTypes, [PhaseNext]_phaseVars PROVE RunTypes'
  OBVIOUS
<1> USE DEF NodeRecords, RunnerRecords, MaxRuns
<1>1. MaxRuns \in Nat /\ \A k \in RunIds : k \in 0..MaxRuns
  BY Products, PhaseAssumption DEF RunIds
<1>2. CASE Caller \/ Drop
  BY <1>1, <1>2, CallerTypes DEF RunTypes, PhaseTypeOK, TargetOK
<1>3. CASE Touch \/ Canceller
  BY <1>1, <1>3, CancellerTypes DEF RunTypes, PhaseTypeOK, AttemptsOK
<1>4. ASSUME NEW k \in RunIds, Runner(k) \/ ChildExits(k) PROVE RunTypes'
  BY <1>1, <1>4, RunnerSteps DEF RunTypes, PhaseTypeOK, AttemptsOK, TargetOK
<1>5. CASE UNCHANGED phaseVars
  BY <1>5 DEF phaseVars, RunTypes, PhaseTypeOK, AttemptsOK, TargetOK
<1> QED BY <1>2, <1>3, <1>4, <1>5, RunSteps

\* Types, for any number of phases and attempts: among the rest, no phase is
\* attempted more often than its retry policy allows, so that the call ends after
\* at most Phases * MaxAttempts runners.
THEOREM RunTypeCorrect == PhaseSpec => []PhaseTypeOK
<1>1. RunTypes => PhaseTypeOK
  BY DEF RunTypes
<1> QED BY <1>1, RunTypesInit, RunTypesNext, PTL DEF PhaseSpec

-----------------------------------------------------------------------------
(* No process is left behind.                                               *)

LEMMA InitAlone == PhaseInit => OneAtATime
  BY DEF PhaseInit, OneAtATime, UnderWay, Spawned

\* A runner's own step: it stays under way, or exits with its process ended; the
\* only exit with a living process is that of WritePid after the call returned.
LEMMA RunnerAlone ==
  ASSUME RunInv, NEW k \in RunIds, Runner(k) \/ ChildExits(k)
  PROVE  OneAtATime'
<1>1. /\ runner \in [RunIds -> RunnerRecords] /\ runner' \in [RunIds -> RunnerRecords]
      /\ UNCHANGED <<node, drops>>
      /\ \A i \in RunIds \ {k} : runner'[i] = runner[i]
  BY RunnerSteps DEF RunInv, RunTypes, PhaseTypeOK, RunnerRecords, MaxRuns
<1>2. SUFFICES ASSUME drops = 0
               PROVE  /\ UnderWay(k)' => node.pc = "running" /\ node.run = k
                      /\ runner'[k].child = "alive" => Spawned(k)'
  BY <1>1 DEF RunInv, OneAtATime, UnderWay, Spawned
<1>3. /\ UnderWay(k) => node.pc = "running" /\ node.run = k
      /\ runner[k].child = "alive" => Spawned(k)
  BY <1>2 DEF RunInv, OneAtATime
<1>4. CASE RunnerCheck(k)
  BY <1>1, <1>3, <1>4 DEF RunnerCheck, Exit, UnderWay, Spawned, RunnerRecords
<1>5. CASE Spawn(k)
  BY <1>1, <1>3, <1>5 DEF Spawn, UnderWay, Spawned, RunnerRecords
<1>6. CASE WritePid(k)
  BY <1>1, <1>3, <1>6 DEF WritePid, Exit, UnderWay, Spawned, RunnerRecords
<1>7. CASE ChildExits(k)
  BY <1>1, <1>3, <1>7 DEF ChildExits, UnderWay, Spawned, RunnerRecords
<1>8. CASE FinalCheck(k)
  BY <1>1, <1>3, <1>8 DEF FinalCheck, Exit, UnderWay, Spawned, RunnerRecords
<1> QED BY <1>4, <1>5, <1>6, <1>7, <1>8 DEF Runner

\* The caller begins an attempt only when it waits for no runner, and goes on
\* only when the runner it waited for has exited.
LEMMA CallerAlone ==
  ASSUME RunInv, Caller \/ Drop
  PROVE  OneAtATime'
<1>1. /\ runner \in [RunIds -> RunnerRecords] /\ node \in NodeRecords /\ drops \in Nat
      /\ node.pc = "running" => node.run \in RunIds
  BY PhaseAssumption DEF RunInv, RunTypes, PhaseTypeOK, AttemptsOK, NodeRecords, RunnerRecords, MaxRuns
<1>2. node'.result # "none" => node'.pc \in {"cleanup", "returned", "leftover"}
  BY <1>1 DEF RunInv, OneAtATime, Caller, Preflight, Prepare, Launch, Collect, Judge, Cleanup, Drop,
              Return, JudgeAttempt, NodeRecords
<1>3. SUFFICES ASSUME drops' = 0, NEW k \in RunIds
               PROVE  /\ UnderWay(k)' => node'.pc = "running" /\ node'.run = k
                      /\ runner'[k].child = "alive" => Spawned(k)'
  BY <1>2 DEF OneAtATime, UnderWay, Spawned
<1>4. drops = 0 /\ UNCHANGED drops
  BY <1>1, <1>3 DEF Caller, Preflight, Prepare, Launch, Collect, Judge, Cleanup, Drop, Lose
<1>5. /\ UnderWay(k) => node.pc = "running" /\ node.run = k
      /\ runner[k].child = "alive" => Spawned(k)
  BY <1>4 DEF RunInv, OneAtATime
<1>6. CASE Launch
  <2>1. node.run + 1 \in RunIds
    BY <1>6, RoomToLaunch DEF RunInv, Launch
  <2>2. \/ /\ runner' = [runner EXCEPT ![node.run + 1].pc = "check"]
           /\ node'.pc = "running" /\ node'.run = node.run + 1
        \/ UNCHANGED runner
    BY <1>1, <1>6 DEF Launch, NodeRecords
  <2> QED BY <1>1, <1>5, <1>6, <2>1, <2>2 DEF Launch, UnderWay, Spawned, RunnerRecords
<1>7. CASE Collect
  BY <1>1, <1>5, <1>7 DEF Collect, UnderWay, Spawned
<1>8. CASE Preflight \/ Prepare \/ Judge \/ Cleanup
  BY <1>1, <1>5, <1>8 DEF Preflight, Prepare, Judge, Cleanup, UnderWay, Spawned
<1>9. CASE Drop
  BY <1>1, <1>4, <1>9 DEF Drop, Lose
<1> QED BY <1>6, <1>7, <1>8, <1>9 DEF Caller

LEMMA NextAlone == RunInv /\ [PhaseNext]_phaseVars => OneAtATime'
<1> SUFFICES ASSUME RunInv, [PhaseNext]_phaseVars PROVE OneAtATime'
  OBVIOUS
<1>1. CASE Touch \/ Canceller
  BY <1>1, CancellerTypes DEF RunInv, OneAtATime, UnderWay, Spawned
<1>2. CASE UNCHANGED phaseVars
  BY <1>2 DEF phaseVars, RunInv, OneAtATime, UnderWay, Spawned
<1> QED BY <1>1, <1>2, RunSteps, RunnerAlone, CallerAlone

\* Only the process of the runner the caller waits for is alive.
LEMMA AloneSuffices == RunInv => NoProcessLeftBehind
<1> SUFFICES ASSUME RunInv, drops = 0
             PROVE  (\A j, k \in Alive : j = k) /\ (node.result # "none" => Alive = {})
  BY DEF NoProcessLeftBehind
<1>1. \A k \in Alive : node.pc = "running" /\ k = node.run
  BY DEF Alive, RunInv, OneAtATime, UnderWay, Spawned
<1> QED BY <1>1 DEF RunInv, OneAtATime

\* While no connection is lost, the processes of the phases never overlap and none
\* is left when the call has its result, whenever the cancellation comes.
THEOREM ProcessesEnd == PhaseSpec => []NoProcessLeftBehind
<1>1. PhaseInit => RunInv
  BY RunTypesInit, InitAlone DEF RunInv
<1>2. RunInv /\ [PhaseNext]_phaseVars => RunInv'
  BY RunTypesNext, NextAlone DEF RunInv
<1> QED BY <1>1, <1>2, AloneSuffices, PTL DEF PhaseSpec

=============================================================================
