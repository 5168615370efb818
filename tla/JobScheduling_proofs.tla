------------------------ MODULE JobScheduling_proofs ------------------------
(***************************************************************************)
(* Proofs about JobScheduling for any jobs, requests, patterns and zones: its *)
(* types, and that at most one timer has a name.                             *)
(***************************************************************************)
EXTENDS JobScheduling, FiniteSetTheorems, TLAPS

Constants == SchedulingAssumption /\ Jobs # {} /\ Patterns # {}

AllKinds == <<"backup", "schedule", "volume-backup">>
Loads == {AllKinds, <<"schedule", "volume-backup">>, <<"volume-backup">>, <<>>}

\* The kinds a load has yet to come to.
Left(load) == {load[i] : i \in 1..Len(load)}

Ops == {"none", "create", "update", "delete", "deleteOwner"}
Steps == {"idle", "read", "write", "reread", "rearm", "cancel", "cancelThenArm", "arm",
          "add", "remove", "lookup", "drop", "readd"}
Calls == [op : Ops, pc : Steps, job : Jobs, row : Row, found : Patterns]

\* At most one timer has a name.
Names == {{}} \cup {{t} : t \in Trigger}
Timers == [named : Names, strays : Nat]

Platforms == [up : BOOLEAN, load : Loads, arming : SUBSET Jobs]
Services == [up : BOOLEAN, cleaned : BOOLEAN, load : Loads, adding : SUBSET Key]

Types ==
    /\ rows \in [Jobs -> Row]
    /\ timers \in [Jobs -> Timers]
    /\ queue \subseteq Key
    /\ platform \in Platforms
    /\ service \in Services
    /\ req \in [Requests -> Calls]
    /\ calls \in Nat
    /\ starts \in [platform : Nat, service : Nat]

-----------------------------------------------------------------------------
(* What the operators return.                                               *)

LEMMA LoadTakes ==
  ASSUME NEW l \in Loads
  PROVE  /\ Left(<<>>) = {} /\ Left(AllKinds) = Kinds
         /\ l # <<>> => /\ Tail(l) \in Loads /\ Head(l) \in Kinds
                        /\ Left(l) = {Head(l)} \cup Left(Tail(l)) /\ Head(l) \notin Left(Tail(l))
                        /\ Tail(l) = <<>> <=> Head(l) = "volume-backup"
  <1>1. Left(<<>>) = {}
    BY DEF Left
  <1>2. Left(<<"volume-backup">>) = {"volume-backup"}
    BY DEF Left
  <1>3. Left(<<"schedule", "volume-backup">>) = {"schedule", "volume-backup"}
    BY DEF Left
  <1>4. Left(AllKinds) = Kinds
    BY DEF Left, AllKinds, Kinds
  <1>5. CASE l = AllKinds
    <2>1. Head(l) = "backup" /\ Tail(l) = <<"schedule", "volume-backup">>
      BY <1>5 DEF AllKinds
    <2> QED
      BY <1>1, <1>3, <1>4, <1>5, <2>1 DEF Loads, Kinds
  <1>6. CASE l = <<"schedule", "volume-backup">>
    <2>1. Head(l) = "schedule" /\ Tail(l) = <<"volume-backup">>
      BY <1>6
    <2> QED
      BY <1>1, <1>2, <1>3, <1>4, <1>6, <2>1 DEF Loads, Kinds
  <1>7. CASE l = <<"volume-backup">>
    <2>1. Head(l) = "volume-backup" /\ Tail(l) = <<>>
      BY <1>7
    <2> QED
      BY <1>1, <1>2, <1>4, <1>7, <2>1 DEF Loads, Kinds
  <1> QED
    BY <1>1, <1>4, <1>5, <1>6, <1>7 DEF Loads

LEMMA RowTypes ==
  ASSUME Constants
  PROVE  /\ NewRow \in Row /\ Idle \in Calls /\ NoTimers \in Timers
         /\ \A row \in Row : TriggerOf(row) \in Trigger /\ \A j \in Jobs : KeyOf(j, row) \in Key
         /\ \A j \in Jobs, p \in Patterns : RemovedKey(j, p) \in Key
  BY DEF Constants, SchedulingAssumption, NewRow, Row, Idle, Calls, Ops, Steps, NoTimers, Timers, Names,
         TriggerOf, Trigger, KeyOf, RemovedKey, Key

LEMMA TimerTypes ==
  ASSUME Constants, NEW t \in Timers, NEW row \in Row
  PROVE  Cancelled(t) \in Timers /\ Armed(t, row) \in Timers /\ Rearmed(t, row) \in Timers
  <1>1. \A n \in Names : Cardinality(n) \in Nat
    <2>1. Cardinality({}) \in Nat
      BY FS_EmptySet
    <2>2. \A x : Cardinality({x}) = 1
      BY FS_Singleton
    <2> QED
      BY <2>1, <2>2 DEF Names
  <1>2. Cancelled(t) \in Timers
    BY DEF Cancelled, Timers, Names
  <1>3. \A s \in Timers : Armed(s, row) \in Timers
    BY <1>1, RowTypes DEF Armed, Timers, Names
  <1> QED
    BY <1>2, <1>3 DEF Rearmed

LEMMA DispatchSteps ==
  ASSUME NEW op, NEW j, NEW row
  PROVE  Dispatch(op, j, row) \in Steps /\ AfterWrite(op, j, row) \in Steps
  BY DEF Dispatch, AfterWrite, Steps

\* What a procedure's step leaves of its call.
LEMMA Continues ==
  ASSUME Constants, Types, NEW r \in Requests, NEW pc \in Steps, NEW row \in Row, Continue(r, pc, row)
  PROVE  /\ req' \in [Requests -> Calls]
         /\ \A q \in Requests \ {r} : req'[q] = req[q]
         /\ req'[r].pc = pc
         /\ pc # "idle" => /\ req'[r].row = row /\ req'[r].op = req[r].op
                           /\ req'[r].job = req[r].job /\ req'[r].found = req[r].found
  <1>1. req[r] \in Calls /\ Idle \in Calls /\ Idle.pc = "idle"
    BY RowTypes DEF Types, Idle
  <1> DEFINE moved == [[req[r] EXCEPT !.pc = pc] EXCEPT !.row = row]
  <1>2. moved \in Calls /\ moved.pc = pc /\ moved.row = row
        /\ moved.op = req[r].op /\ moved.job = req[r].job /\ moved.found = req[r].found
    BY <1>1 DEF Calls
  <1>3. req' = [req EXCEPT ![r] = IF pc = "idle" THEN Idle ELSE moved]
    BY DEF Continue
  <1> HIDE DEF moved
  <1> QED
    BY <1>1, <1>2, <1>3 DEF Types

LEMMA Ends ==
  ASSUME Constants, Types, NEW r \in Requests, Done(r)
  PROVE  /\ req' \in [Requests -> Calls] /\ req'[r] = Idle /\ req'[r].pc = "idle"
         /\ \A q \in Requests \ {r} : req'[q] = req[q]
  <1>1. Idle \in Calls /\ Idle.pc = "idle"
    BY RowTypes DEF Idle
  <1> QED
    BY <1>1 DEF Done, Types

-----------------------------------------------------------------------------
(* Types.                                                                   *)

LEMMA TypesInit == ASSUME Constants, Init PROVE Types
  <1>1. AllKinds \in Loads /\ <<>> \in Loads
    BY DEF Loads
  <1> QED
    BY <1>1, RowTypes DEF Init, Types, Platforms, Services

LEMMA TypesBegin ==
  ASSUME Constants, Types, NEW r \in Requests, Begin(r)
  PROVE  /\ req' \in [Requests -> Calls] /\ calls' \in Nat
         /\ \A q \in Requests \ {r} : req'[q] = req[q]
  <1>1. \A op \in Ops, pc \in Steps, j \in Jobs :
            /\ [Idle EXCEPT !.op = op, !.pc = pc, !.job = j] \in Calls
            /\ \A row \in Row : [Idle EXCEPT !.op = op, !.pc = pc, !.job = j, !.row = row] \in Calls
    BY RowTypes DEF Calls
  <1>2. \A j \in Jobs : \A c \in InputOf(j) :
            [state |-> "live", enabled |-> c.enabled, pattern |-> c.pattern, zone |-> c.zone] \in Row
    BY DEF InputOf, Columns, Row
  <1>3. \E new \in Calls : req' = [req EXCEPT ![r] = new]
    <2> DEFINE row(c) == [state |-> "live", enabled |-> c.enabled, pattern |-> c.pattern, zone |-> c.zone]
    <2>1. PICK j \in Jobs :
              \/ \E c \in InputOf(j) :
                    req' = [req EXCEPT ![r] = [Idle EXCEPT !.op = "create", !.pc = "write", !.job = j, !.row = row(c)]]
              \/ \E c \in InputOf(j) :
                    req' = [req EXCEPT ![r] = [Idle EXCEPT !.op = "update", !.pc = "read", !.job = j, !.row = row(c)]]
              \/ \E op \in {"delete", "deleteOwner"} :
                    req' = [req EXCEPT ![r] = [Idle EXCEPT !.op = op, !.pc = "read", !.job = j]]
      BY Zenon DEF Begin
    <2>2. \A c \in InputOf(j) : row(c) \in Row
      BY <1>2
    <2> HIDE DEF row
    <2>3. \A op \in Ops, pc \in Steps : [Idle EXCEPT !.op = op, !.pc = pc, !.job = j] \in Calls
      BY <1>1
    <2>4. \A op \in Ops, pc \in Steps, c \in InputOf(j) :
              [Idle EXCEPT !.op = op, !.pc = pc, !.job = j, !.row = row(c)] \in Calls
      BY <1>1, <2>2
    <2>5. {"create", "update", "delete", "deleteOwner"} \subseteq Ops /\ {"read", "write"} \subseteq Steps
      BY DEF Ops, Steps
    <2> QED
      BY <2>1, <2>3, <2>4, <2>5, Zenon
  <1>4. req' \in [Requests -> Calls] /\ \A q \in Requests \ {r} : req'[q] = req[q]
    BY <1>3 DEF Types
  <1>5. calls' = calls + 1 /\ calls \in Nat
    BY Zenon DEF Begin, Types
  <1> QED
    BY <1>4, <1>5

LEMMA TypesNext == ASSUME Constants, Types, [Next]_vars PROVE Types'
  <1> USE DEF Types
  <1>0. /\ \A r \in Requests : /\ Job(r) \in Jobs /\ req[r].row \in Row /\ req[r].found \in Patterns
                               /\ req[r].op \in Ops /\ req[r].pc \in Steps
        /\ \A j \in Jobs : rows[j] \in Row /\ timers[j] \in Timers
        /\ \A r \in Requests, pc \in Steps, row \in Row : Continue(r, pc, row) => req' \in [Requests -> Calls]
        /\ \A r \in Requests : Done(r) => req' \in [Requests -> Calls]
    BY Continues, Ends DEF Job, Calls
  <1>1. ASSUME NEW r \in Requests, Procedure(r) PROVE Types'
    <2>1. CASE Begin(r)
      BY <2>1, TypesBegin DEF Begin
    <2>2. CASE Read(r)
      BY <2>2, <1>0 DEF Read, Steps
    <2>3. CASE Write(r)
      <3> DEFINE j == Job(r)
                 row == IF req[r].op = "delete" /\ Kind[j] = "backup" THEN rows[j] ELSE req[r].row
                 gone == [rows[j] EXCEPT !.state = "deleted"]
      <3>1. row \in Row /\ gone \in Row /\ j \in Jobs
        BY <1>0 DEF Row
      <3>2. \/ rows' = rows
            \/ rows' = [rows EXCEPT ![j] = gone]
            \/ rows' = [rows EXCEPT ![j] = row]
        BY <2>3 DEF Write
      <3>3. Done(r) \/ Continue(r, AfterWrite(req[r].op, j, row), row)
        BY <2>3 DEF Write
      <3>4. UNCHANGED <<timers, queue, platform, service, calls, starts>>
        BY <2>3 DEF Write
      <3> HIDE DEF j, row, gone
      <3>5. rows' \in [Jobs -> Row]
        BY <3>1, <3>2
      <3>6. req' \in [Requests -> Calls]
        BY <1>0, <3>1, <3>3, DispatchSteps
      <3> QED
        BY <3>4, <3>5, <3>6
    <2>4. CASE Reread(r)
      <3> DEFINE j == Job(r)
                 row == IF Kind[j] = "backup" THEN rows[j] ELSE req[r].row
      <3>1. row \in Row
        BY <1>0
      <3>2. Done(r) \/ Continue(r, Dispatch(req[r].op, j, row), row)
        BY <2>4 DEF Reread
      <3> HIDE DEF j, row
      <3> QED
        BY <1>0, <2>4, <3>1, <3>2, DispatchSteps DEF Reread
    <2>5. CASE Rearm(r)
      <3>1. Rearmed(timers[Job(r)], req[r].row) \in Timers
        BY <1>0, TimerTypes
      <3> QED
        BY <1>0, <2>5, <3>1 DEF Rearm
    <2>6. CASE Cancel(r)
      <3>1. Cancelled(timers[Job(r)]) \in Timers
        BY <1>0, TimerTypes
      <3>2. req' \in [Requests -> Calls]
        BY <1>0, <2>6 DEF Cancel, Steps
      <3> QED
        BY <2>6, <3>1, <3>2 DEF Cancel
    <2>7. CASE Arm(r)
      <3>1. \A row \in Row : Armed(timers[Job(r)], row) \in Timers
        BY <1>0, TimerTypes
      <3>2. timers' \in [Jobs -> Timers]
        BY <1>0, <2>7, <3>1 DEF Arm
      <3> QED
        BY <1>0, <2>7, <3>2 DEF Arm
    <2>8. CASE Add(r)
      BY <1>0, <2>8, RowTypes DEF Add
    <2>9. CASE Remove(r)
      BY <1>0, <2>9 DEF Remove, Steps
    <2>10. CASE Lookup(r)
      <3>1. \A k \in queue : [req[r] EXCEPT !.pc = "drop", !.found = k.pattern] \in Calls
        BY DEF Calls, Key, Steps
      <3>2. req' \in [Requests -> Calls]
        <4>1. CASE Continue(r, "readd", req[r].row)
          BY <1>0, <4>1 DEF Steps
        <4>2. CASE \E k \in queue : req' = [req EXCEPT ![r].pc = "drop", ![r].found = k.pattern]
          BY <3>1, <4>2
        <4> QED
          BY <2>10, <4>1, <4>2 DEF Lookup
      <3> QED
        BY <2>10, <3>2 DEF Lookup
    <2>11. CASE Drop(r)
      BY <1>0, <2>11 DEF Drop, Steps
    <2>12. CASE Refused(r)
      BY <1>0, <2>12 DEF Refused, Steps
    <2> QED
      BY <1>1, <2>1, <2>2, <2>3, <2>4, <2>5, <2>6, <2>7, <2>8, <2>9, <2>10, <2>11, <2>12 DEF Procedure
  <1>2. AllKinds \in Loads /\ <<>> \in Loads
    BY DEF Loads
  <1>3. CASE StartPlatform
    BY <1>2, <1>3 DEF StartPlatform, Platforms, AllKinds
  <1>4. CASE LoadTimers
    <2>1. Tail(platform.load) \in Loads
      BY <1>4, LoadTakes DEF LoadTimers, Platforms
    <2>2. platform' \in Platforms
      BY <1>4, <2>1 DEF LoadTimers, Platforms
    <2>3. \A j \in Jobs : Armed(timers[j], rows[j]) \in Timers
      BY <1>0, TimerTypes
    <2>4. timers' \in [Jobs -> Timers]
      BY <1>0, <1>4, <2>3 DEF LoadTimers
    <2> QED
      BY <1>4, <2>2, <2>4 DEF LoadTimers
  <1>5. CASE LoadVolumeBackup
    <2>1. PICK j \in platform.arming :
              /\ timers' = IF Live(j) THEN [timers EXCEPT ![j] = Armed(@, rows[j])] ELSE timers
              /\ platform' = [platform EXCEPT !.arming = @ \ {j}]
      BY <1>5 DEF LoadVolumeBackup
    <2>2. j \in Jobs
      BY DEF Platforms
    <2>3. Armed(timers[j], rows[j]) \in Timers
      BY <1>0, <2>2, TimerTypes
    <2>4. platform' \in Platforms
      BY <2>1 DEF Platforms
    <2>5. timers' \in [Jobs -> Timers]
      <3>1. CASE Live(j)
        BY <2>1, <2>2, <2>3, <3>1
      <3>2. CASE ~ Live(j)
        BY <2>1, <3>2
      <3> QED
        BY <3>1, <3>2
    <2> QED
      BY <1>5, <2>4, <2>5 DEF LoadVolumeBackup
  <1>6. CASE CrashPlatform
    BY <1>2, <1>6, RowTypes DEF CrashPlatform, Platforms
  <1>7. CASE StartService
    BY <1>2, <1>7 DEF StartService, Services, AllKinds
  <1>8. CASE CleanQueue
    BY <1>8 DEF CleanQueue, Services
  <1>9. CASE LoadRows
    <2>1. Tail(service.load) \in Loads
      BY <1>9, LoadTakes DEF LoadRows, Services
    <2>2. \A j \in Jobs : LoadedKey(j) \in Key
      <3>1. \A j \in Jobs : [rows[j] EXCEPT !.zone = UTC] \in Row
        BY <1>0 DEF Row, Constants, SchedulingAssumption
      <3> QED
        BY <3>1, RowTypes DEF LoadedKey
    <2>3. {LoadedKey(j) : j \in Loaded(Head(service.load))} \in SUBSET Key
      BY <2>2 DEF Loaded
    <2>4. service' \in Services
      BY <1>9, <2>1, <2>3 DEF LoadRows, Services
    <2> QED
      BY <1>9, <2>4 DEF LoadRows
  <1>10. CASE LoadJob
    BY <1>10 DEF LoadJob, Services
  <1>11. CASE CrashService
    BY <1>2, <1>11, RowTypes DEF CrashService, Services
  <1>12. CASE UNCHANGED vars
    BY <1>12 DEF vars
  <1> QED
    BY <1>1, <1>3, <1>4, <1>5, <1>6, <1>7, <1>8, <1>9, <1>10, <1>11, <1>12 DEF Next

LEMMA TypesAlways == ASSUME Constants PROVE Spec => []Types
  <1>1. Init => Types
    BY TypesInit
  <1>2. Types /\ [Next]_vars => Types'
    BY TypesNext
  <1> QED
    BY <1>1, <1>2, PTL DEF Spec

\* In every state every variable has its type; a name has at most one timer and every
\* procedure is at one of its steps.
THEOREM TypeCorrect == ASSUME Constants PROVE Spec => []TypeOK
  <1>1. ASSUME NEW n \in Names PROVE n \subseteq Trigger /\ Cardinality(n) <= 1
    <2>1. CASE n = {}
      <3>1. Cardinality(n) = 0
        BY <2>1, FS_EmptySet
      <3> QED
        BY <2>1, <3>1
    <2>2. CASE \E t \in Trigger : n = {t}
      <3>1. Cardinality(n) = 1
        BY <2>2, FS_Singleton
      <3> QED
        BY <2>2, <3>1
    <2> QED
      BY <2>1, <2>2 DEF Names
  <1>2. ASSUME Types PROVE TypeOK
    <2>1. \A j \in Jobs : timers[j].named \in Names /\ timers[j].strays \in Nat
      BY <1>2 DEF Types, Timers
    <2>2. service.adding \subseteq Key /\ platform.arming \subseteq Jobs
      BY <1>2 DEF Types, Services, Platforms
    <2>3. \A r \in Requests : /\ req[r].pc \in Steps /\ req[r].row \in Row
                              /\ req[r].job \in Jobs /\ req[r].found \in Patterns
      BY <1>2 DEF Types, Calls
    <2> QED
      BY <1>1, <1>2, <2>1, <2>2, <2>3 DEF Types, TypeOK, Steps
  <1> QED
    BY <1>2, TypesAlways, PTL
=============================================================================
