---------------------- MODULE ComposeLifecycle_proofs ----------------------
(***************************************************************************)
(* Proofs about ComposeLifecycle, for any number of domains and procedures:  *)
(* the status "running" is left whatever a run comes to; and a service that    *)
(* is deleted apart from deployments and new domains leaves nothing behind.   *)
(* (A new domain beside the deletion does leave something:                   *)
(* Compose_newDomain.cfg shows it.)                                          *)
(***************************************************************************)
EXTENDS ComposeLifecycle, TLAPS, SequenceTheorems, WellFoundedInduction

Steps == {"find", "enqueue", "idle", "rowDone", "listWaiting", "dequeue", "notRunning", "listAll", "notActive",
          "domains", "lock", "findLocked", "halt", "start", "status", "insert", "readDomain", "route", "record",
          "row", "undoRoute", "undoRecord", "undoRow", "restoreRecord", "remove", "unlock", "dropRow"}
Procedures == {"deploy", "cancelDeployment", "cleanQueues", "stop", "start", "addDomain", "removeDomain", "delete"}

\* What the theorems assume of the constants; NoOne and Worker are no procedures.
Constants ==
    /\ Domains # {} /\ Operations \subseteq Procedures
    /\ NoOne \notin Clients /\ Worker \notin Clients

\* The steps of a procedure that has the lock, and those of the worker.
Held == {"findLocked", "halt", "start", "status", "insert", "readDomain", "route", "record", "row", "undoRoute",
         "undoRecord", "undoRow", "restoreRecord", "remove", "unlock"}
WorkerHeld == {"find", "create", "build", "rowDone", "statusDone", "notify", "log", "rowError", "statusError"}
WorkerSteps == {"idle", "running", "lock", "mark", "end"} \cup WorkerHeld

\* Where a step can be: whose it is, how many steps there are to go, itself
\* included, and what follows it, "rest" after the last.  A deletion with five
\* steps to go takes the six of a removal in between.
Follows(op, step, n, next) ==
    CASE step = "find" -> \/ op = "deploy" /\ n = 2 /\ next = "enqueue"
                          \/ op = "cancelDeployment" /\ n = 5 /\ next = "idle"
                          \/ op = "delete" /\ n = 12 /\ next = "listWaiting"
      [] step = "enqueue" -> op = "deploy" /\ n = 1 /\ next = "rest"
      [] step = "idle" -> op = "cancelDeployment" /\ n = 4 /\ next = "rowDone"
      [] step = "rowDone" -> op = "cancelDeployment" /\ n = 3 /\ next = "listWaiting"
      [] step = "listWaiting" -> \/ op \in {"cancelDeployment", "cleanQueues"} /\ n = 2 /\ next = "dequeue"
                                 \/ op = "delete" /\ n = 11 /\ next = "dequeue"
      [] step = "dequeue" -> \/ op \in {"cancelDeployment", "cleanQueues"} /\ n = 1 /\ next = "rest"
                             \/ op = "delete" /\ n = 10 /\ next = "notRunning"
                             \/ op = "delete" /\ n = 6 /\ next = "domains"
      [] step = "notRunning" -> op = "delete" /\ n = 9 /\ next = "listAll"
      [] step = "listAll" -> op = "delete" /\ n = 8 /\ next = "notActive"
      [] step = "notActive" -> op = "delete" /\ n = 7 /\ next = "dequeue"
      [] step = "domains" -> op = "delete" /\ n = 5 /\ next = "lock"
      [] step = "lock" -> \/ op \in {"stop", "start"} /\ n = 5 /\ next = "findLocked"
                          \/ op = "addDomain" /\ n = 6 /\ next = "findLocked"
                          \/ op = "removeDomain" /\ n = 6 /\ next = "readDomain"
                          \/ op = "delete" /\ n = 11 /\ next = "readDomain"
                          \/ op = "delete" /\ n = 4 /\ next = "remove"
      [] step = "findLocked" -> \/ op = "stop" /\ n = 4 /\ next = "halt"
                                \/ op = "start" /\ n = 4 /\ next = "start"
                                \/ op = "addDomain" /\ n = 5 /\ next = "insert"
      [] step = "halt" -> op = "stop" /\ n = 3 /\ next = "status"
      [] step = "start" -> op = "start" /\ n = 3 /\ next = "status"
      [] step = "status" -> op \in {"stop", "start"} /\ n = 2 /\ next = "unlock"
      [] step = "insert" -> op = "addDomain" /\ n = 4 /\ next = "route"
      [] step = "readDomain" -> \/ op = "removeDomain" /\ n = 5 /\ next = "route"
                                \/ op = "delete" /\ n = 10 /\ next = "route"
      [] step = "route" -> \/ op = "addDomain" /\ n = 3 /\ next = "record"
                           \/ op = "removeDomain" /\ n = 4 /\ next = "record"
                           \/ op = "delete" /\ n = 9 /\ next = "record"
      [] step = "record" -> \/ op = "addDomain" /\ n = 2 /\ next = "unlock"
                            \/ op = "removeDomain" /\ n = 3 /\ next = "row"
                            \/ op = "delete" /\ n = 8 /\ next = "row"
      [] step = "row" -> \/ op = "removeDomain" /\ n = 2 /\ next = "unlock"
                         \/ op = "delete" /\ n = 7 /\ next = "unlock"
      [] step = "undoRoute" -> \/ op = "addDomain" /\ n = 4 /\ next = "undoRecord"
                               \/ op \in {"removeDomain", "delete"} /\ n = 3 /\ next = "restoreRecord"
                               \/ op \in {"removeDomain", "delete"} /\ n = 2 /\ next = "unlock"
      [] step = "undoRecord" -> op = "addDomain" /\ n = 3 /\ next = "undoRow"
      [] step = "undoRow" -> op = "addDomain" /\ n = 2 /\ next = "unlock"
      [] step = "restoreRecord" -> op \in {"removeDomain", "delete"} /\ n = 2 /\ next = "unlock"
      [] step = "remove" -> op = "delete" /\ n = 3 /\ next = "unlock"
      [] step = "unlock" -> \/ op \in {"stop", "start", "addDomain", "removeDomain", "delete"} /\ n = 1 /\ next = "rest"
                            \/ op = "delete" /\ n = 6 /\ next = "domains"
                            \/ op = "delete" /\ n = 2 /\ next = "dropRow"
      [] step = "dropRow" -> op = "delete" /\ n = 1 /\ next = "rest"
      [] OTHER -> FALSE

Path(op, todo) ==
    /\ todo \in Seq(Steps)
    /\ \A i \in 1..Len(todo) :
        Follows(op, todo[i], Len(todo) - i + 1, IF i < Len(todo) THEN todo[i + 1] ELSE "rest")

\* Where a procedure is, and how many steps it has to go.
Place(c) == IF req[c].todo = <<>> THEN "rest" ELSE Head(req[c].todo)
Ahead(c) == Len(req[c].todo)

Requests ==
    [op : Operations \cup {"none"}, todo : Seq(Steps), domain : Domains, read : SUBSET Domains,
     left : SUBSET Domains, seen : SUBSET Nat, write : {"idle", "done", "error"}, applied : BOOLEAN,
     failed : BOOLEAN]
Files == [present : BOOLEAN, routes : SUBSET Domains]
Stacks == [state : {"none", "up", "stopped"}, routes : SUBSET Domains]
Runs == [pc : WorkerSteps, job : Nat, routes : SUBSET Domains, row : Nat]

Data ==
    /\ service \in [exists : BOOLEAN, status : Statuses]
    /\ deployments \in Seq({"running", "done", "error", "cancelled"})
    /\ jobs \in Seq({"waiting", "active", "ended"})
    /\ lock \in Clients \cup {NoOne, Worker}
    /\ domains \subseteq Domains /\ records \subseteq Domains
    /\ file \in Files /\ stack \in Stacks /\ worker \in Runs
    /\ calls \in Nat
Types == Data /\ req \in [Clients -> Requests]

Paths ==
    \A c \in Clients :
        /\ Path(req[c].op, req[c].todo)
        /\ req[c].todo = <<>> => req[c] = Rest
        /\ req[c].seen \subseteq DOMAIN jobs

\* The lock is had by whoever is between taking and releasing it.
Locked ==
    /\ \A c \in Clients : lock = c <=> Place(c) \in Held
    /\ lock = Worker <=> worker.pc \in WorkerHeld

Shape == Types /\ Paths /\ Locked

-----------------------------------------------------------------------------
(* The inductive invariants.                                                *)

\* The status is "running" only from the worker's first step to the one that writes
\* the outcome.
StatusInv ==
    /\ service.status = "running" => worker.pc \notin {"idle", "running", "notify", "end"}
    /\ ~ service.exists => service.status # "running"

\* The worker's job is the one that is active.
JobOfWorker ==
    /\ worker.pc # "idle" => worker.job \in DOMAIN jobs /\ jobs[worker.job] = "active"
    /\ \A i \in DOMAIN jobs : jobs[i] = "active" => worker.pc # "idle" /\ worker.job = i

\* A deletion keeps clear of deployments and new domains, and so does what follows it.
Apart ==
    \A c \in Clients :
        req[c].op \in {"deploy", "addDomain"} => service.exists /\ ~ Deleting

\* From the second removal of jobs on a deletion has no unfinished one.
Emptied(c) == req[c].op = "delete" /\ Place(c) \in Held \cup {"domains", "lock", "dropRow"}
NoJobs ==
    /\ ~ service.exists \/ (\E c \in Clients : Emptied(c)) => Unfinished = {}
    /\ \A c \in Clients :
        Place(c) = "notActive" \/ (Place(c) = "dequeue" /\ Ahead(c) = 6) => Unfinished \subseteq req[c].seen

\* What a deletion has still to remove of the domains, and that it has removed the rest.
Removing(c) ==
    \/ Place(c) \in {"listAll", "notActive", "domains"}
    \/ Place(c) \in {"dequeue", "unlock"} /\ Ahead(c) = 6
Within(c) == req[c].op = "delete" /\ Ahead(c) \in 7..11 /\ Place(c) \in {"lock", "readDomain", "route", "record", "row"}
Cleared(c) == \/ req[c].op = "delete" /\ Place(c) \in {"lock", "remove"} /\ Ahead(c) \in {3, 4}
              \/ Place(c) = "unlock" /\ Ahead(c) = 2
              \/ Place(c) = "dropRow"
DomainsLeft ==
    /\ ~ service.exists => domains = {}
    /\ \A c \in Clients :
        /\ Removing(c) => domains \subseteq req[c].left
        /\ Within(c) => domains \subseteq req[c].left \cup {req[c].domain}
        /\ Cleared(c) => domains = {}

\* A record has its domain's row: who holds the lock sees to that.
RecordsKept ==
    /\ records \subseteq domains
    /\ \A c \in Clients :
        /\ Place(c) \in {"route", "record", "row", "undoRoute", "restoreRecord", "undoRecord", "undoRow"} =>
              req[c].domain \in domains
        /\ Place(c) = "row" => req[c].domain \notin records
        /\ Place(c) = "undoRow" => req[c].failed \/ req[c].domain \notin records

\* When the containers are removed they stay so.
Gone == stack = Down /\ file = Missing
StackGone == ~ service.exists \/ (\E c \in Clients : Place(c) = "dropRow" \/ (Place(c) = "unlock" /\ Ahead(c) = 2)) => Gone

DeletionInv == JobOfWorker /\ Apart /\ NoJobs /\ DomainsLeft /\ RecordsKept /\ StackGone

-----------------------------------------------------------------------------
(* Procedures and their steps.                                              *)

\* A procedure that has more to do goes on with what may follow its step.
LEMMA TailPath ==
    ASSUME NEW op, NEW todo, Path(op, todo), todo # <<>>
    PROVE  /\ Path(op, Tail(todo)) /\ Head(todo) \in Steps
           /\ Follows(op, Head(todo), Len(todo), IF Tail(todo) = <<>> THEN "rest" ELSE Head(Tail(todo)))
           /\ Len(todo) \in Nat \ {0} /\ Len(Tail(todo)) = Len(todo) - 1
  <1>1. /\ todo \in Seq(Steps) /\ Len(todo) \in Nat \ {0} /\ Head(todo) = todo[1] /\ todo[1] \in Steps
        /\ Tail(todo) \in Seq(Steps) /\ Len(Tail(todo)) = Len(todo) - 1
        /\ \A i \in 1..Len(Tail(todo)) : Tail(todo)[i] = todo[i + 1]
    BY EmptySeq, HeadTailProperties, ElementOfSeq DEF Path
  <1>2. Len(todo) \in Int /\ Len(Tail(todo)) = Len(todo) - 1
    BY <1>1
  <1>3. \A i \in 1..Len(todo) :
            Follows(op, todo[i], Len(todo) - i + 1, IF i < Len(todo) THEN todo[i + 1] ELSE "rest")
    BY DEF Path
  <1>4. Path(op, Tail(todo))
    <2> SUFFICES ASSUME NEW i \in 1..Len(Tail(todo))
                 PROVE  Follows(op, Tail(todo)[i], Len(Tail(todo)) - i + 1,
                                IF i < Len(Tail(todo)) THEN Tail(todo)[i + 1] ELSE "rest")
      BY <1>1 DEF Path
    <2>1. PICK k \in 1..Len(todo) : k = i + 1
      BY <1>2
    <2>2. Tail(todo)[i] = todo[k] /\ Len(Tail(todo)) - i + 1 = Len(todo) - k + 1
      BY <1>1, <2>1
    <2>3. Follows(op, todo[k], Len(todo) - k + 1, IF k < Len(todo) THEN todo[k + 1] ELSE "rest")
      BY <1>3
    <2>4. CASE k < Len(todo)
      <3>1. i < Len(Tail(todo)) /\ i + 1 \in 1..Len(Tail(todo)) /\ i + 1 = k
        BY <1>2, <2>1, <2>4
      <3>2. Tail(todo)[i + 1] = todo[k + 1]
        BY <1>1, <3>1
      <3> QED
        BY <2>2, <2>3, <2>4, <3>1, <3>2
    <2>5. CASE ~ (k < Len(todo))
      <3>1. ~ (i < Len(Tail(todo)))
        BY <1>2, <2>1, <2>5
      <3> QED
        BY <2>2, <2>3, <2>5, <3>1
    <2> QED
      BY <2>4, <2>5
  <1>5. Follows(op, todo[1], Len(todo), IF 1 < Len(todo) THEN todo[2] ELSE "rest")
    <2>1. 1 \in 1..Len(todo) /\ 1 + 1 = 2 /\ Len(todo) - 1 + 1 = Len(todo)
      BY <1>1
    <2>2. Follows(op, todo[1], Len(todo) - 1 + 1, IF 1 < Len(todo) THEN todo[1 + 1] ELSE "rest")
      BY <1>3, <2>1
    <2> QED
      BY <2>1, <2>2
  <1>6. CASE 1 < Len(todo)
    <2>1. 1 \in 1..Len(Tail(todo)) /\ 1 + 1 = 2 /\ Len(Tail(todo)) # 0
      BY <1>2, <1>6
    <2>2. Tail(todo) # <<>> /\ Head(Tail(todo)) = Tail(todo)[1] /\ Tail(todo)[1] = todo[2]
      BY <1>1, <2>1, EmptySeq
    <2> QED
      BY <1>1, <1>4, <1>5, <1>6, <2>2
  <1>7. CASE ~ (1 < Len(todo))
    <2>1. Len(Tail(todo)) = 0
      BY <1>1, <1>2, <1>7
    <2>2. Tail(todo) = <<>>
      BY <1>1, <2>1, EmptySeq
    <2> QED
      BY <1>1, <1>4, <1>5, <1>7, <2>2
  <1> QED
    BY <1>6, <1>7

\* A procedure with nothing to do.
LEMMA NoPath == \A op : Path(op, <<>>)
  BY DEF Path

\* Short sequences of steps.
LEMMA Path1 ==
    ASSUME NEW op, NEW a \in Steps, Follows(op, a, 1, "rest")
    PROVE  Path(op, <<a>>) /\ <<a>> # <<>> /\ Head(<<a>>) = a /\ Len(<<a>>) = 1
  <1> DEFINE todo == <<a>>
  <1>1. todo \in Seq(Steps) /\ Len(todo) = 1 /\ todo # <<>> /\ Head(todo) = a /\ todo[1] = a
    OBVIOUS
  <1> HIDE DEF todo
  <1>2. Path(op, todo)
    BY <1>1 DEF Path
  <1> QED
    BY <1>1, <1>2 DEF todo

LEMMA Path2 ==
    ASSUME NEW op, NEW a \in Steps, NEW b \in Steps, Follows(op, a, 2, b), Follows(op, b, 1, "rest")
    PROVE  Path(op, <<a, b>>) /\ <<a, b>> # <<>> /\ Head(<<a, b>>) = a /\ Len(<<a, b>>) = 2
  <1> DEFINE todo == <<a, b>>
  <1>1. /\ todo \in Seq(Steps) /\ Len(todo) = 2 /\ todo # <<>> /\ Head(todo) = a
        /\ todo[1] = a /\ todo[2] = b
    OBVIOUS
  <1> HIDE DEF todo
  <1>2. Path(op, todo)
    BY <1>1 DEF Path
  <1> QED
    BY <1>1, <1>2 DEF todo

LEMMA Path3 ==
    ASSUME NEW op, NEW a \in Steps, NEW b \in Steps, NEW c \in Steps,
           Follows(op, a, 3, b), Follows(op, b, 2, c), Follows(op, c, 1, "rest")
    PROVE  Path(op, <<a, b, c>>) /\ <<a, b, c>> # <<>> /\ Head(<<a, b, c>>) = a /\ Len(<<a, b, c>>) = 3
  <1> DEFINE todo == <<a, b, c>>
  <1>1. /\ todo \in Seq(Steps) /\ Len(todo) = 3 /\ todo # <<>> /\ Head(todo) = a
        /\ todo[1] = a /\ todo[2] = b /\ todo[3] = c
    OBVIOUS
  <1> HIDE DEF todo
  <1>2. Path(op, todo)
    BY <1>1 DEF Path
  <1> QED
    BY <1>1, <1>2 DEF todo

LEMMA Path4 ==
    ASSUME NEW op, NEW a \in Steps, NEW b \in Steps, NEW c \in Steps, NEW d \in Steps,
           Follows(op, a, 4, b), Follows(op, b, 3, c), Follows(op, c, 2, d), Follows(op, d, 1, "rest")
    PROVE  Path(op, <<a, b, c, d>>) /\ <<a, b, c, d>> # <<>> /\ Head(<<a, b, c, d>>) = a /\ Len(<<a, b, c, d>>) = 4
  <1> DEFINE todo == <<a, b, c, d>>
  <1>1. /\ todo \in Seq(Steps) /\ Len(todo) = 4 /\ todo # <<>> /\ Head(todo) = a
        /\ todo[1] = a /\ todo[2] = b /\ todo[3] = c /\ todo[4] = d
    OBVIOUS
  <1> HIDE DEF todo
  <1>2. Path(op, todo)
    BY <1>1 DEF Path
  <1> QED
    BY <1>1, <1>2 DEF todo

LEMMA Path5 ==
    ASSUME NEW op, NEW a \in Steps, NEW b \in Steps, NEW c \in Steps, NEW d \in Steps, NEW e \in Steps,
           Follows(op, a, 5, b), Follows(op, b, 4, c), Follows(op, c, 3, d), Follows(op, d, 2, e),
           Follows(op, e, 1, "rest")
    PROVE  Path(op, <<a, b, c, d, e>>) /\ <<a, b, c, d, e>> # <<>> /\ Head(<<a, b, c, d, e>>) = a
           /\ Len(<<a, b, c, d, e>>) = 5
  <1> DEFINE todo == <<a, b, c, d, e>>
  <1>1. /\ todo \in Seq(Steps) /\ Len(todo) = 5 /\ todo # <<>> /\ Head(todo) = a
        /\ todo[1] = a /\ todo[2] = b /\ todo[3] = c /\ todo[4] = d /\ todo[5] = e
    OBVIOUS
  <1> HIDE DEF todo
  <1>2. Path(op, todo)
    BY <1>1 DEF Path
  <1> QED
    BY <1>1, <1>2 DEF todo

LEMMA Path6 ==
    ASSUME NEW op, NEW a \in Steps, NEW b \in Steps, NEW c \in Steps, NEW d \in Steps, NEW e \in Steps, NEW f \in Steps,
           Follows(op, a, 6, b), Follows(op, b, 5, c), Follows(op, c, 4, d), Follows(op, d, 3, e),
           Follows(op, e, 2, f), Follows(op, f, 1, "rest")
    PROVE  Path(op, <<a, b, c, d, e, f>>) /\ <<a, b, c, d, e, f>> # <<>> /\ Head(<<a, b, c, d, e, f>>) = a
           /\ Len(<<a, b, c, d, e, f>>) = 6
  <1> DEFINE todo == <<a, b, c, d, e, f>>
  <1>1. /\ todo \in Seq(Steps) /\ Len(todo) = 6 /\ todo # <<>> /\ Head(todo) = a
        /\ todo[1] = a /\ todo[2] = b /\ todo[3] = c /\ todo[4] = d /\ todo[5] = e /\ todo[6] = f
    OBVIOUS
  <1> HIDE DEF todo
  <1>2. Path(op, todo)
    BY <1>1 DEF Path
  <1> QED
    BY <1>1, <1>2 DEF todo

\* The steps of a deletion are in order.
LEMMA DeletePath == Path("delete", Program("delete")) /\ Program("delete") # <<>>
                    /\ Head(Program("delete")) = "find" /\ Len(Program("delete")) = 12
  <1> DEFINE todo == <<"find", "listWaiting", "dequeue", "notRunning", "listAll", "notActive", "dequeue",
                       "domains", "lock", "remove", "unlock", "dropRow">>
  <1>1. todo \in Seq(Steps)
    BY DEF Steps
  <1>2. /\ Len(todo) = 12 /\ todo # <<>> /\ Head(todo) = "find"
        /\ todo[1] = "find" /\ todo[2] = "listWaiting" /\ todo[3] = "dequeue" /\ todo[4] = "notRunning"
        /\ todo[5] = "listAll" /\ todo[6] = "notActive" /\ todo[7] = "dequeue" /\ todo[8] = "domains"
        /\ todo[9] = "lock" /\ todo[10] = "remove" /\ todo[11] = "unlock" /\ todo[12] = "dropRow"
    OBVIOUS
  <1>3. Program("delete") = todo
    BY DEF Program
  <1> HIDE DEF todo
  <1>4. ASSUME NEW i \in 1..12
        PROVE  Follows("delete", todo[i], 12 - i + 1, IF i < 12 THEN todo[i + 1] ELSE "rest")
    <2>1. i \in {1, 2, 3, 4, 5, 6, 7, 8, 9, 10, 11, 12}
      OBVIOUS
    <2>2. CASE i \in {1, 2, 3, 4}
      BY <1>2, <2>2 DEF Follows
    <2>3. CASE i \in {5, 6, 7, 8}
      BY <1>2, <2>3 DEF Follows
    <2>4. CASE i \in {9, 10, 11, 12}
      BY <1>2, <2>4 DEF Follows
    <2> QED
      BY <2>1, <2>2, <2>3, <2>4
  <1>5. Path("delete", todo)
    BY <1>1, <1>2, <1>4 DEF Path
  <1> QED
    BY <1>2, <1>3, <1>5

\* So are those of every procedure.
LEMMA ProgramPath ==
    ASSUME NEW op \in Procedures
    PROVE  /\ Path(op, Program(op)) /\ Program(op) # <<>>
           /\ Head(Program(op)) \in {"find", "lock", "listWaiting"}
           /\ op \in {"deploy", "cancelDeployment", "delete"} => Head(Program(op)) = "find"
           /\ op = "cleanQueues" => Head(Program(op)) = "listWaiting"
           /\ op \in {"stop", "start", "addDomain", "removeDomain"} => Head(Program(op)) = "lock"
  <1>1. CASE op = "deploy"
    BY <1>1, Path2 DEF Program, Follows, Steps
  <1>2. CASE op = "cancelDeployment"
    <2>1. /\ Follows("cancelDeployment", "find", 5, "idle")
          /\ Follows("cancelDeployment", "idle", 4, "rowDone")
          /\ Follows("cancelDeployment", "rowDone", 3, "listWaiting")
          /\ Follows("cancelDeployment", "listWaiting", 2, "dequeue")
          /\ Follows("cancelDeployment", "dequeue", 1, "rest")
      BY DEF Follows
    <2>2. {"find", "idle", "rowDone", "listWaiting", "dequeue"} \subseteq Steps
      BY DEF Steps
    <2>3. Path("cancelDeployment", <<"find", "idle", "rowDone", "listWaiting", "dequeue">>) /\ <<"find", "idle", "rowDone", "listWaiting", "dequeue">> # <<>> /\ Head(<<"find", "idle", "rowDone", "listWaiting", "dequeue">>) = "find"
      BY <2>1, <2>2, Path5
    <2>4. Program("cancelDeployment") = <<"find", "idle", "rowDone", "listWaiting", "dequeue">>
      BY DEF Program, RemovalSteps
    <2> QED
      BY <1>2, <2>3, <2>4
  <1>3. CASE op = "cleanQueues"
    BY <1>3, Path2 DEF Program, Follows, Steps
  <1>4. CASE op = "stop"
    <2>1. /\ Follows("stop", "lock", 5, "findLocked")
          /\ Follows("stop", "findLocked", 4, "halt")
          /\ Follows("stop", "halt", 3, "status")
          /\ Follows("stop", "status", 2, "unlock")
          /\ Follows("stop", "unlock", 1, "rest")
      BY DEF Follows
    <2>2. {"lock", "findLocked", "halt", "status", "unlock"} \subseteq Steps
      BY DEF Steps
    <2>3. Path("stop", <<"lock", "findLocked", "halt", "status", "unlock">>) /\ <<"lock", "findLocked", "halt", "status", "unlock">> # <<>> /\ Head(<<"lock", "findLocked", "halt", "status", "unlock">>) = "lock"
      BY <2>1, <2>2, Path5
    <2>4. Program("stop") = <<"lock", "findLocked", "halt", "status", "unlock">>
      BY DEF Program, RemovalSteps
    <2> QED
      BY <1>4, <2>3, <2>4
  <1>5. CASE op = "start"
    <2>1. /\ Follows("start", "lock", 5, "findLocked")
          /\ Follows("start", "findLocked", 4, "start")
          /\ Follows("start", "start", 3, "status")
          /\ Follows("start", "status", 2, "unlock")
          /\ Follows("start", "unlock", 1, "rest")
      BY DEF Follows
    <2>2. {"lock", "findLocked", "start", "status", "unlock"} \subseteq Steps
      BY DEF Steps
    <2>3. Path("start", <<"lock", "findLocked", "start", "status", "unlock">>) /\ <<"lock", "findLocked", "start", "status", "unlock">> # <<>> /\ Head(<<"lock", "findLocked", "start", "status", "unlock">>) = "lock"
      BY <2>1, <2>2, Path5
    <2>4. Program("start") = <<"lock", "findLocked", "start", "status", "unlock">>
      BY DEF Program, RemovalSteps
    <2> QED
      BY <1>5, <2>3, <2>4
  <1>6. CASE op = "addDomain"
    <2>1. /\ Follows("addDomain", "lock", 6, "findLocked")
          /\ Follows("addDomain", "findLocked", 5, "insert")
          /\ Follows("addDomain", "insert", 4, "route")
          /\ Follows("addDomain", "route", 3, "record")
          /\ Follows("addDomain", "record", 2, "unlock")
          /\ Follows("addDomain", "unlock", 1, "rest")
      BY DEF Follows
    <2>2. {"lock", "findLocked", "insert", "route", "record", "unlock"} \subseteq Steps
      BY DEF Steps
    <2>3. Path("addDomain", <<"lock", "findLocked", "insert", "route", "record", "unlock">>) /\ <<"lock", "findLocked", "insert", "route", "record", "unlock">> # <<>> /\ Head(<<"lock", "findLocked", "insert", "route", "record", "unlock">>) = "lock"
      BY <2>1, <2>2, Path6
    <2>4. Program("addDomain") = <<"lock", "findLocked", "insert", "route", "record", "unlock">>
      BY DEF Program, RemovalSteps
    <2> QED
      BY <1>6, <2>3, <2>4
  <1>7. CASE op = "removeDomain"
    <2>1. /\ Follows("removeDomain", "lock", 6, "readDomain")
          /\ Follows("removeDomain", "readDomain", 5, "route")
          /\ Follows("removeDomain", "route", 4, "record")
          /\ Follows("removeDomain", "record", 3, "row")
          /\ Follows("removeDomain", "row", 2, "unlock")
          /\ Follows("removeDomain", "unlock", 1, "rest")
      BY DEF Follows
    <2>2. {"lock", "readDomain", "route", "record", "row", "unlock"} \subseteq Steps
      BY DEF Steps
    <2>3. Path("removeDomain", <<"lock", "readDomain", "route", "record", "row", "unlock">>) /\ <<"lock", "readDomain", "route", "record", "row", "unlock">> # <<>> /\ Head(<<"lock", "readDomain", "route", "record", "row", "unlock">>) = "lock"
      BY <2>1, <2>2, Path6
    <2>4. Program("removeDomain") = <<"lock", "readDomain", "route", "record", "row", "unlock">>
      BY DEF Program, RemovalSteps
    <2> QED
      BY <1>7, <2>3, <2>4
  <1>8. CASE op = "delete"
    BY <1>8, DeletePath
  <1> QED
    BY <1>1, <1>2, <1>3, <1>4, <1>5, <1>6, <1>7, <1>8 DEF Procedures

\* A deletion takes the steps of a removal in between.
LEMMA RemovalPath ==
    ASSUME NEW todo, Path("delete", todo), todo # <<>>, Head(todo) = "domains", Len(todo) = 5
    PROVE  LET longer == RemovalSteps \o todo
           IN  Path("delete", longer) /\ longer # <<>> /\ Head(longer) = "lock" /\ Len(longer) = 11
  <1> DEFINE longer == RemovalSteps \o todo
  <1>1. todo \in Seq(Steps) /\ todo[1] = "domains"
    BY DEF Path
  <1>2. /\ RemovalSteps \in Seq(Steps) /\ Len(RemovalSteps) = 6
        /\ RemovalSteps[1] = "lock" /\ RemovalSteps[2] = "readDomain" /\ RemovalSteps[3] = "route"
        /\ RemovalSteps[4] = "record" /\ RemovalSteps[5] = "row" /\ RemovalSteps[6] = "unlock"
    BY DEF RemovalSteps, Steps
  <1>3. /\ longer \in Seq(Steps) /\ Len(longer) = 11
        /\ \A i \in 1..11 : longer[i] = IF i <= 6 THEN RemovalSteps[i] ELSE todo[i - 6]
    <2>1. /\ longer \in Seq(Steps) /\ Len(longer) = Len(RemovalSteps) + Len(todo)
          /\ \A i \in 1..Len(RemovalSteps) + Len(todo) :
                longer[i] = IF i <= Len(RemovalSteps) THEN RemovalSteps[i] ELSE todo[i - Len(RemovalSteps)]
      BY <1>1, <1>2, ConcatProperties
    <2>2. Len(RemovalSteps) + Len(todo) = 11
      BY <1>2
    <2> QED
      BY <1>2, <2>1, <2>2
  <1> HIDE DEF longer
  <1>4. /\ longer[1] = "lock" /\ longer[2] = "readDomain" /\ longer[3] = "route" /\ longer[4] = "record"
        /\ longer[5] = "row" /\ longer[6] = "unlock" /\ longer[7] = "domains"
    BY <1>1, <1>2, <1>3
  <1>5. ASSUME NEW i \in 1..11
        PROVE  Follows("delete", longer[i], 11 - i + 1, IF i < 11 THEN longer[i + 1] ELSE "rest")
    <2>1. CASE i \in {1, 2, 3, 4, 5, 6}
      BY <1>4, <2>1 DEF Follows
    <2>2. CASE i >= 7
      <3>1. PICK k \in 1..5 : k = i - 6
        BY <2>2
      <3>2. longer[i] = todo[k] /\ 11 - i + 1 = 5 - k + 1
        BY <1>3, <2>2, <3>1
      <3>3. Follows("delete", todo[k], 5 - k + 1, IF k < 5 THEN todo[k + 1] ELSE "rest")
        BY DEF Path
      <3>4. CASE k < 5
        <4>1. i + 1 \in 1..11 /\ ~ (i + 1 <= 6) /\ (i + 1) - 6 = k + 1 /\ i < 11
          BY <3>1, <3>4
        <4>2. longer[i + 1] = todo[k + 1]
          BY <1>3, <4>1
        <4> QED
          BY <3>2, <3>3, <3>4, <4>1, <4>2
      <3>5. CASE ~ (k < 5)
        <4>1. ~ (i < 11)
          BY <3>1, <3>5
        <4> QED
          BY <3>2, <3>3, <3>5, <4>1
      <3> QED
        BY <3>4, <3>5
    <2> QED
      BY <2>1, <2>2
  <1>6. Path("delete", longer)
    BY <1>3, <1>5 DEF Path
  <1>7. longer # <<>> /\ Head(longer) = "lock"
    <2>1. longer # <<>>
      <3>1. longer \in Seq(Steps) /\ Len(longer) # 0
        BY <1>3
      <3> QED
        BY <3>1, EmptySeq
    <2>2. Head(longer) = longer[1]
      BY <1>3
    <2> QED
      BY <1>4, <2>1, <2>2
  <1> QED
    BY <1>3, <1>6, <1>7 DEF longer

-----------------------------------------------------------------------------
(* What a step of a procedure does to the procedures.                        *)

\* The procedure goes on as r, at the step next with n steps to go.
Moved(c, r, next, n) ==
    /\ req' \in [Clients -> Requests]
    /\ \A q \in Clients \ {c} : req'[q] = req[q] /\ Place(q)' = Place(q) /\ Ahead(q)' = Ahead(q)
    /\ Place(c)' = next /\ Ahead(c)' = n
    /\ Path(req'[c].op, req'[c].todo) /\ (req'[c].todo = <<>> => req'[c] = Rest)
    /\ IF next = "rest" THEN req'[c] = Rest
       ELSE /\ req'[c].op = r.op /\ req'[c].domain = r.domain /\ req'[c].read = r.read
            /\ req'[c].left = r.left /\ req'[c].seen = r.seen /\ req'[c].write = r.write
            /\ req'[c].applied = r.applied /\ req'[c].failed = r.failed

LEMMA RestType ==
    ASSUME Constants
    PROVE  /\ Rest \in Requests /\ Rest.op = "none" /\ Rest.todo = <<>> /\ Rest.seen = {} /\ Rest.left = {}
           /\ Rest.write = "idle" /\ Rest.domain \in Domains
  <1>1. (CHOOSE d \in Domains : TRUE) \in Domains
    BY DEF Constants
  <1>2. <<>> \in Seq(Steps)
    OBVIOUS
  <1> QED
    BY <1>1, <1>2 DEF Rest, Requests

LEMMA JumpMoves ==
    ASSUME Constants, Types, NEW c \in Clients, NEW r \in Requests, NEW todo, Path(r.op, todo), todo # <<>>,
           Jump(c, r, todo)
    PROVE  Moved(c, r, Head(todo), Len(todo))
  <1> DEFINE s == [r EXCEPT !.todo = todo]
  <1>1. req \in [Clients -> Requests] /\ todo \in Seq(Steps) /\ Len(todo) \in Nat \ {0} /\ Head(todo) \in Steps
    BY TailPath DEF Types, Path
  <1>2. /\ s \in Requests /\ s.todo = todo /\ s.op = r.op /\ s.domain = r.domain /\ s.read = r.read
        /\ s.left = r.left /\ s.seen = r.seen /\ s.write = r.write /\ s.applied = r.applied /\ s.failed = r.failed
    BY <1>1 DEF Requests
  <1> HIDE DEF s
  <1>3. req' = [req EXCEPT ![c] = s]
    BY <1>2 DEF Jump, Set, s
  <1>4. req'[c] = s /\ req' \in [Clients -> Requests] /\ \A q \in Clients \ {c} : req'[q] = req[q]
    BY <1>1, <1>2, <1>3
  <1>5. Place(c)' = Head(todo) /\ Ahead(c)' = Len(todo)
    BY <1>2, <1>4 DEF Place, Ahead
  <1>6. \A q \in Clients \ {c} : Place(q)' = Place(q) /\ Ahead(q)' = Ahead(q)
    BY <1>4 DEF Place, Ahead
  <1>7. Head(todo) # "rest"
    BY <1>1 DEF Steps
  <1> QED
    BY <1>2, <1>4, <1>5, <1>6, <1>7 DEF Moved

\* It throws without having the lock.
LEMMA ThrowMoves ==
    ASSUME Constants, Types, NEW c \in Clients, NEW r \in Requests, Jump(c, r, <<>>)
    PROVE  Moved(c, r, "rest", 0)
  <1> DEFINE s == [r EXCEPT !.todo = <<>>]
  <1>1. req \in [Clients -> Requests] /\ Rest \in Requests /\ Rest.op = "none" /\ Rest.todo = <<>>
    BY RestType DEF Types
  <1>2. s.todo = <<>>
    BY DEF Requests
  <1>3. req' = [req EXCEPT ![c] = Rest]
    BY <1>2 DEF Jump, Set
  <1>4. req'[c] = Rest /\ req' \in [Clients -> Requests] /\ \A q \in Clients \ {c} : req'[q] = req[q]
    BY <1>1, <1>3
  <1>5. Place(c)' = "rest" /\ Ahead(c)' = 0
    BY <1>1, <1>4 DEF Place, Ahead
  <1>6. \A q \in Clients \ {c} : Place(q)' = Place(q) /\ Ahead(q)' = Ahead(q)
    BY <1>4 DEF Place, Ahead
  <1>7. Path(req'[c].op, req'[c].todo)
    BY <1>1, <1>4, NoPath
  <1> QED
    BY <1>4, <1>5, <1>6, <1>7 DEF Moved

LEMMA GoMoves ==
    ASSUME Constants, Types, NEW c \in Clients, NEW r \in Requests, Path(r.op, r.todo), r.todo # <<>>, Go(c, r)
    PROVE  \E next : Follows(r.op, Head(r.todo), Len(r.todo), next) /\ Moved(c, r, next, Len(r.todo) - 1)
  <1>1. /\ Path(r.op, Tail(r.todo)) /\ Len(Tail(r.todo)) = Len(r.todo) - 1 /\ Len(r.todo) \in Nat \ {0}
        /\ Follows(r.op, Head(r.todo), Len(r.todo), IF Tail(r.todo) = <<>> THEN "rest" ELSE Head(Tail(r.todo)))
    BY TailPath
  <1>2. Jump(c, r, Tail(r.todo))
    <2>1. [r EXCEPT !.todo = Tail(@)] = [r EXCEPT !.todo = Tail(r.todo)]
      BY DEF Requests
    <2> QED
      BY <2>1 DEF Go, Jump
  <1>3. CASE Tail(r.todo) = <<>>
    <2>1. Moved(c, r, "rest", 0) /\ Len(r.todo) - 1 = 0
      BY <1>1, <1>2, <1>3, ThrowMoves
    <2> QED
      BY <1>1, <1>3, <2>1
  <1>4. CASE Tail(r.todo) # <<>>
    <2>1. Moved(c, r, Head(Tail(r.todo)), Len(Tail(r.todo)))
      BY <1>1, <1>2, <1>4, JumpMoves
    <2> QED
      BY <1>1, <1>4, <2>1
  <1> QED
    BY <1>3, <1>4

\* It stays where it is.
LEMMA SetMoves ==
    ASSUME Constants, Types, NEW c \in Clients, NEW r \in Requests, Path(r.op, r.todo), r.todo # <<>>,
           r.todo = req[c].todo, Set(c, r)
    PROVE  Moved(c, r, Place(c), Ahead(c))
  <1>1. Jump(c, r, r.todo)
    <2>1. [r EXCEPT !.todo = r.todo] = r
      BY DEF Requests
    <2> QED
      BY <2>1 DEF Jump
  <1>2. Moved(c, r, Head(r.todo), Len(r.todo))
    BY <1>1, JumpMoves
  <1>3. Place(c) = Head(r.todo) /\ Ahead(c) = Len(r.todo)
    BY DEF Place, Ahead
  <1> QED
    BY <1>2, <1>3

\* A procedure at a step, and what it does when it throws.
LEMMA AtStep ==
    ASSUME Shape, NEW c \in Clients, NEW step, At(c, step)
    PROVE  /\ Place(c) = step /\ Ahead(c) \in Nat \ {0} /\ req[c] \in Requests /\ Path(req[c].op, req[c].todo)
           /\ req[c].todo # <<>> /\ Head(req[c].todo) = step /\ Len(req[c].todo) = Ahead(c) /\ step \in Steps
           /\ \E next : Follows(req[c].op, step, Ahead(c), next)
  <1>1. req[c] \in Requests /\ Path(req[c].op, req[c].todo) /\ req[c].todo # <<>> /\ Head(req[c].todo) = step
    BY DEF Shape, Types, Paths, At
  <1> QED
    BY <1>1, TailPath DEF Place, Ahead

LEMMA AbortMoves ==
    ASSUME Constants, Shape, NEW c \in Clients, NEW step, At(c, step), Abort(c)
    PROVE  /\ step \in Held => Moved(c, req[c], "unlock", 1)
           /\ step \notin Held => Moved(c, req[c], "rest", 0)
  <1>1. /\ Place(c) = step /\ req[c] \in Requests /\ step \in Steps /\ Types
        /\ \E next : Follows(req[c].op, step, Ahead(c), next)
        /\ lock = c <=> Place(c) \in Held
    BY AtStep DEF Shape, Locked
  <1>2. CASE step \in Held
    <2>1. req[c].op \in {"stop", "start", "addDomain", "removeDomain", "delete"}
      BY <1>1, <1>2 DEF Held, Follows
    <2>2. Follows(req[c].op, "unlock", 1, "rest") /\ "unlock" \in Steps
      BY <2>1 DEF Follows, Steps
    <2>3. Path(req[c].op, <<"unlock">>) /\ <<"unlock">> # <<>> /\ Head(<<"unlock">>) = "unlock" /\ Len(<<"unlock">>) = 1
      BY <2>2, Path1
    <2>4. Jump(c, req[c], <<"unlock">>)
      BY <1>1, <1>2 DEF Abort
    <2>5. Moved(c, req[c], Head(<<"unlock">>), Len(<<"unlock">>))
      BY <1>1, <2>3, <2>4, JumpMoves
    <2> QED
      BY <1>2, <2>3, <2>5
  <1>3. CASE step \notin Held
    <2>1. Jump(c, req[c], <<>>)
      BY <1>1, <1>3 DEF Abort
    <2> QED
      BY <1>1, <1>3, <2>1, ThrowMoves
  <1> QED
    BY <1>2, <1>3

\* It goes on with its record changed.
LEMMA StepMoves ==
    ASSUME Constants, Shape, NEW c \in Clients, NEW step, At(c, step), NEW r \in Requests,
           r.op = req[c].op, r.todo = req[c].todo, Go(c, r)
    PROVE  \E next : Follows(req[c].op, step, Ahead(c), next) /\ Moved(c, r, next, Ahead(c) - 1)
  <1>1. /\ Types /\ Path(r.op, r.todo) /\ r.todo # <<>> /\ Head(r.todo) = step /\ Len(r.todo) = Ahead(c)
    BY AtStep DEF Shape
  <1>2. \E next : Follows(r.op, Head(r.todo), Len(r.todo), next) /\ Moved(c, r, next, Len(r.todo) - 1)
    BY <1>1, GoMoves
  <1> QED
    BY <1>1, <1>2

LEMMA ContinueMoves ==
    ASSUME Constants, Shape, NEW c \in Clients, NEW step, At(c, step), Continue(c)
    PROVE  \E next : Follows(req[c].op, step, Ahead(c), next) /\ Moved(c, req[c], next, Ahead(c) - 1)
  <1>1. req[c] \in Requests /\ Go(c, req[c])
    BY AtStep DEF Continue
  <1> QED
    BY <1>1, StepMoves

-----------------------------------------------------------------------------
(* Every step keeps the shape of the state.                                  *)

\* Who has the lock goes on holding it, or takes it, or gives it back.
Handed(c, next) ==
    \/ lock' = lock /\ (next \in Held <=> Place(c) \in Held)
    \/ lock = NoOne /\ lock' = c /\ next \in Held
    \/ Place(c) \in Held /\ lock' = NoOne /\ next \notin Held

LEMMA ShapeStep ==
    ASSUME Constants, Shape, NEW c \in Clients, NEW r, NEW next, NEW n, Moved(c, r, next, n),
           Data', Handed(c, next), worker'.pc = worker.pc,
           DOMAIN jobs \subseteq DOMAIN jobs', r.seen \subseteq DOMAIN jobs
    PROVE  Shape'
  <1>1. req' \in [Clients -> Requests] /\ Types'
    BY DEF Moved, Types
  <1>2. Paths'
    <2> SUFFICES ASSUME NEW q \in Clients
                 PROVE  /\ Path(req'[q].op, req'[q].todo) /\ (req'[q].todo = <<>> => req'[q] = Rest)
                        /\ req'[q].seen \subseteq DOMAIN jobs'
      BY DEF Paths
    <2>1. CASE q = c
      <3>1. req'[c].seen = r.seen \/ req'[c].seen = {}
        BY RestType DEF Moved
      <3> QED
        BY <2>1, <3>1 DEF Moved
    <2>2. CASE q # c
      BY <2>2 DEF Moved, Shape, Paths
    <2> QED
      BY <2>1, <2>2
  <1>3. Locked'
    <2>1. c # NoOne /\ c # Worker /\ NoOne # Worker
      BY DEF Constants, NoOne, Worker
    <2>2. /\ Place(c)' = next /\ \A q \in Clients \ {c} : Place(q)' = Place(q)
          /\ \A q \in Clients : lock = q <=> Place(q) \in Held
          /\ lock = Worker <=> worker.pc \in WorkerHeld
      BY DEF Moved, Shape, Locked
    <2>3. \A q \in Clients : lock' = q <=> Place(q)' \in Held
      <3> SUFFICES ASSUME NEW q \in Clients PROVE lock' = q <=> Place(q)' \in Held
        OBVIOUS
      <3>1. q # NoOne
        BY DEF Constants
      <3>2. CASE q = c
        BY <2>1, <2>2, <3>1, <3>2 DEF Handed
      <3>3. CASE q # c
        BY <2>1, <2>2, <3>1, <3>3 DEF Handed
      <3> QED
        BY <3>2, <3>3
    <2>4. lock' = Worker <=> worker.pc' \in WorkerHeld
      BY <2>1, <2>2 DEF Handed
    <2> QED
      BY <2>3, <2>4 DEF Locked
  <1> QED
    BY <1>1, <1>2, <1>3 DEF Shape

\* The steps between taking and releasing the lock are those that need it.
LEMMA HeldFollows ==
    ASSUME NEW op, NEW step, NEW n, NEW next, Follows(op, step, n, next)
    PROVE  /\ step \in Steps \ {"lock", "unlock"} => (next \in Held <=> step \in Held)
           /\ step = "lock" => next \in Held
           /\ step = "unlock" => next \notin Held
  <1>1. CASE step \in {"find", "enqueue", "idle", "rowDone", "listWaiting", "dequeue", "notRunning", "listAll", "notActive",
                       "domains", "dropRow"}
    BY <1>1 DEF Follows, Held
  <1>2. CASE step \in {"lock", "unlock"}
    BY <1>2 DEF Follows, Held
  <1>3. CASE step \in {"findLocked", "halt", "start", "status", "insert", "readDomain", "route", "record"}
    BY <1>3 DEF Follows, Held
  <1>4. CASE step \in {"row", "undoRoute", "undoRecord", "undoRow", "restoreRecord", "remove"}
    BY <1>4 DEF Follows, Held
  <1> QED
    BY <1>1, <1>2, <1>3, <1>4 DEF Steps

\* Going on, throwing and turning back keep the shape.
LEMMA GoShape ==
    ASSUME Constants, Shape, NEW c \in Clients, NEW step, At(c, step), step \notin {"lock", "unlock"},
           NEW r \in Requests, r.op = req[c].op, r.todo = req[c].todo, Go(c, r),
           Data', lock' = lock, worker'.pc = worker.pc, DOMAIN jobs \subseteq DOMAIN jobs', r.seen \subseteq DOMAIN jobs
    PROVE  Shape'
  <1>1. PICK next : Follows(req[c].op, step, Ahead(c), next) /\ Moved(c, r, next, Ahead(c) - 1)
    BY StepMoves
  <1>2. Place(c) = step /\ step \in Steps
    BY AtStep
  <1>3. Handed(c, next)
    BY <1>1, <1>2, HeldFollows DEF Handed
  <1> QED
    BY <1>1, <1>3, ShapeStep

LEMMA ContinueShape ==
    ASSUME Constants, Shape, NEW c \in Clients, NEW step, At(c, step), step \notin {"lock", "unlock"}, Continue(c),
           Data', lock' = lock, worker'.pc = worker.pc, DOMAIN jobs \subseteq DOMAIN jobs'
    PROVE  Shape'
  <1>1. req[c] \in Requests /\ Go(c, req[c]) /\ req[c].seen \subseteq DOMAIN jobs
    BY AtStep DEF Continue, Shape, Paths
  <1> QED
    BY <1>1, GoShape

LEMMA AbortShape ==
    ASSUME Constants, Shape, NEW c \in Clients, NEW step, At(c, step), step # "unlock", Abort(c),
           Data', lock' = lock, worker'.pc = worker.pc, DOMAIN jobs \subseteq DOMAIN jobs'
    PROVE  Shape'
  <1>1. Place(c) = step /\ req[c].seen \subseteq DOMAIN jobs
    BY AtStep DEF Shape, Paths
  <1>2. CASE step \in Held
    <2>1. Moved(c, req[c], "unlock", 1) /\ Handed(c, "unlock")
      BY <1>1, <1>2, AbortMoves DEF Handed, Held
    <2> QED
      BY <1>1, <2>1, ShapeStep
  <1>3. CASE step \notin Held
    <2>1. Moved(c, req[c], "rest", 0) /\ Handed(c, "rest")
      BY <1>1, <1>3, AbortMoves DEF Handed, Held
    <2> QED
      BY <1>1, <2>1, ShapeStep
  <1> QED
    BY <1>2, <1>3

LEMMA JumpShape ==
    ASSUME Constants, Shape, NEW c \in Clients, NEW step, At(c, step),
           NEW r \in Requests, NEW todo, Path(r.op, todo), todo # <<>>, Jump(c, r, todo),
           step \in Held <=> Head(todo) \in Held,
           Data', lock' = lock, worker'.pc = worker.pc, DOMAIN jobs \subseteq DOMAIN jobs', r.seen \subseteq DOMAIN jobs
    PROVE  Shape'
  <1>1. Moved(c, r, Head(todo), Len(todo))
    BY JumpMoves DEF Shape
  <1>2. Handed(c, Head(todo))
    BY AtStep DEF Handed
  <1> QED
    BY <1>1, <1>2, ShapeStep

LEMMA UndoPaths ==
    /\ /\ Path("addDomain", UndoAdding) /\ UndoAdding # <<>> /\ Head(UndoAdding) = "undoRoute" /\ Len(UndoAdding) = 4
    /\ \A op \in {"removeDomain", "delete"} :
        /\ LET todo == <<"undoRoute", "unlock">>
           IN  Path(op, todo) /\ todo # <<>> /\ Head(todo) = "undoRoute" /\ Len(todo) = 2
        /\ LET todo == <<"undoRoute", "restoreRecord", "unlock">>
           IN  Path(op, todo) /\ todo # <<>> /\ Head(todo) = "undoRoute" /\ Len(todo) = 3
  <1>1. {"undoRoute", "undoRecord", "undoRow", "restoreRecord", "unlock"} \subseteq Steps
    BY DEF Steps
  <1>2. /\ Follows("addDomain", "undoRoute", 4, "undoRecord") /\ Follows("addDomain", "undoRecord", 3, "undoRow")
        /\ Follows("addDomain", "undoRow", 2, "unlock") /\ Follows("addDomain", "unlock", 1, "rest")
    BY DEF Follows
  <1>3. /\ Path("addDomain", <<"undoRoute", "undoRecord", "undoRow", "unlock">>)
        /\ <<"undoRoute", "undoRecord", "undoRow", "unlock">> # <<>>
        /\ Head(<<"undoRoute", "undoRecord", "undoRow", "unlock">>) = "undoRoute"
        /\ Len(<<"undoRoute", "undoRecord", "undoRow", "unlock">>) = 4
    BY <1>1, <1>2, Path4
  <1>4. ASSUME NEW op \in {"removeDomain", "delete"}
        PROVE  /\ Path(op, <<"undoRoute", "unlock">>) /\ <<"undoRoute", "unlock">> # <<>>
               /\ Head(<<"undoRoute", "unlock">>) = "undoRoute" /\ Len(<<"undoRoute", "unlock">>) = 2
    <2>1. Follows(op, "undoRoute", 2, "unlock") /\ Follows(op, "unlock", 1, "rest")
      BY DEF Follows
    <2> QED
      BY <1>1, <2>1, Path2
  <1>5. ASSUME NEW op \in {"removeDomain", "delete"}
        PROVE  /\ Path(op, <<"undoRoute", "restoreRecord", "unlock">>)
               /\ <<"undoRoute", "restoreRecord", "unlock">> # <<>>
               /\ Head(<<"undoRoute", "restoreRecord", "unlock">>) = "undoRoute"
               /\ Len(<<"undoRoute", "restoreRecord", "unlock">>) = 3
    <2>1. /\ Follows(op, "undoRoute", 3, "restoreRecord") /\ Follows(op, "restoreRecord", 2, "unlock")
          /\ Follows(op, "unlock", 1, "rest")
      BY DEF Follows
    <2> QED
      BY <1>1, <2>1, Path3
  <1> QED
    BY <1>3, <1>4, <1>5 DEF UndoAdding

LEMMA BeginCallShape ==
    ASSUME Constants, Shape, NEW c \in Clients, BeginCall(c)
    PROVE  Shape'
  <1>1. PICK op \in Operations, d \in Domains : Jump(c, [Rest EXCEPT !.op = op, !.domain = d], Program(op))
    BY DEF BeginCall
  <1> DEFINE r == [Rest EXCEPT !.op = op, !.domain = d]
  <1>2. r \in Requests /\ r.op = op /\ r.seen = {}
    BY RestType DEF Requests, Constants, Rest
  <1> HIDE DEF r
  <1>3. /\ Path(op, Program(op)) /\ Program(op) # <<>>
        /\ Head(Program(op)) \in {"find", "lock", "listWaiting"}
    BY ProgramPath DEF Constants
  <1>4. Moved(c, r, Head(Program(op)), Len(Program(op)))
    BY <1>1, <1>2, <1>3, JumpMoves DEF Shape, r
  <1>5. Place(c) = "rest" /\ lock' = lock /\ worker' = worker /\ jobs' = jobs
    BY DEF BeginCall, Place
  <1>6. Handed(c, Head(Program(op)))
    BY <1>3, <1>5 DEF Handed, Held
  <1>7. Data'
    BY DEF BeginCall, Shape, Types, Data
  <1> QED
    BY <1>2, <1>4, <1>5, <1>6, <1>7, ShapeStep

LEMMA LockShape ==
    ASSUME Constants, Shape, NEW c \in Clients, Lock(c) \/ Unlock(c)
    PROVE  Shape'
  <1>1. req[c].seen \subseteq DOMAIN jobs /\ jobs' = jobs /\ worker' = worker
    BY DEF Shape, Paths, Lock, Unlock
  <1>2. Data'
    BY DEF Lock, Unlock, Shape, Types, Data
  <1>3. CASE Lock(c)
    <2>1. PICK next : Follows(req[c].op, "lock", Ahead(c), next) /\ Moved(c, req[c], next, Ahead(c) - 1)
      BY <1>3, ContinueMoves DEF Lock
    <2>2. Handed(c, next)
      BY <1>3, <2>1, HeldFollows DEF Lock, Handed
    <2> QED
      BY <1>1, <1>2, <2>1, <2>2, ShapeStep
  <1>4. CASE Unlock(c)
    <2>1. PICK next : Follows(req[c].op, "unlock", Ahead(c), next) /\ Moved(c, req[c], next, Ahead(c) - 1)
      BY <1>4, ContinueMoves DEF Unlock
    <2>2. Place(c) = "unlock"
      BY <1>4, AtStep DEF Unlock
    <2>3. Handed(c, next)
      BY <1>4, <2>1, <2>2, HeldFollows DEF Unlock, Handed, Held
    <2> QED
      BY <1>1, <1>2, <2>1, <2>3, ShapeStep
  <1> QED
    BY <1>3, <1>4

LEMMA FindServiceShape ==
    ASSUME Constants, Shape, NEW c \in Clients, FindService(c)
    PROVE  Shape'
  <1>1. Data' /\ lock' = lock /\ worker'.pc = worker.pc /\ DOMAIN jobs \subseteq DOMAIN jobs'
    BY DEF FindService, Shape, Types, Data
  <1>2. PICK step \in {"find", "findLocked"} : At(c, step)
    BY DEF FindService
  <1>3. req[c] \in Requests /\ req[c].seen \subseteq DOMAIN jobs
    BY DEF Shape, Types, Paths
  <1>4. Go(c, [req[c] EXCEPT !.read = domains]) \/ Abort(c)
    BY DEF FindService
  <1>5. CASE Go(c, [req[c] EXCEPT !.read = domains])
    <2>1. [req[c] EXCEPT !.read = domains] \in Requests /\ ([req[c] EXCEPT !.read = domains]).op = req[c].op /\ ([req[c] EXCEPT !.read = domains]).todo = req[c].todo /\ ([req[c] EXCEPT !.read = domains]).seen \subseteq DOMAIN jobs
      BY <1>3 DEF Requests, Shape, Types, Data
    <2> QED
      BY <1>1, <1>2, <1>5, <2>1, GoShape
  <1>6. CASE Abort(c)
    BY <1>1, <1>2, <1>3, <1>6, AbortShape
  <1> QED
    BY <1>4, <1>5, <1>6

LEMMA EnqueueShape ==
    ASSUME Constants, Shape, NEW c \in Clients, Enqueue(c)
    PROVE  Shape'
  <1>1. Data' /\ lock' = lock /\ worker'.pc = worker.pc /\ DOMAIN jobs \subseteq DOMAIN jobs'
    BY DEF Enqueue, Shape, Types, Data, Enqueue
  <1>2. At(c, "enqueue")
    BY DEF Enqueue
  <1>3. req[c] \in Requests /\ req[c].seen \subseteq DOMAIN jobs
    BY DEF Shape, Types, Paths
  <1>4. Continue(c)
    BY DEF Enqueue
  <1>5. CASE Continue(c)
    BY <1>1, <1>2, <1>3, <1>5, ContinueShape
  <1> QED
    BY <1>4, <1>5

LEMMA MarkIdleShape ==
    ASSUME Constants, Shape, NEW c \in Clients, MarkIdle(c)
    PROVE  Shape'
  <1>1. Data' /\ lock' = lock /\ worker'.pc = worker.pc /\ DOMAIN jobs \subseteq DOMAIN jobs'
    BY DEF MarkIdle, Shape, Types, Data, Statuses
  <1>2. At(c, "idle")
    BY DEF MarkIdle
  <1>3. req[c] \in Requests /\ req[c].seen \subseteq DOMAIN jobs
    BY DEF Shape, Types, Paths
  <1>4. Continue(c)
    BY DEF MarkIdle
  <1>5. CASE Continue(c)
    BY <1>1, <1>2, <1>3, <1>5, ContinueShape
  <1> QED
    BY <1>4, <1>5

LEMMA MarkRowDoneShape ==
    ASSUME Constants, Shape, NEW c \in Clients, MarkRowDone(c)
    PROVE  Shape'
  <1>1. Data' /\ lock' = lock /\ worker'.pc = worker.pc /\ DOMAIN jobs \subseteq DOMAIN jobs'
    BY DEF MarkRowDone, Shape, Types, Data
  <1>2. At(c, "rowDone")
    BY DEF MarkRowDone
  <1>3. req[c] \in Requests /\ req[c].seen \subseteq DOMAIN jobs
    BY DEF Shape, Types, Paths
  <1>4. Continue(c)
    BY DEF MarkRowDone
  <1>5. CASE Continue(c)
    BY <1>1, <1>2, <1>3, <1>5, ContinueShape
  <1> QED
    BY <1>4, <1>5

LEMMA CheckNotRunningShape ==
    ASSUME Constants, Shape, NEW c \in Clients, CheckNotRunning(c)
    PROVE  Shape'
  <1>1. Data' /\ lock' = lock /\ worker'.pc = worker.pc /\ DOMAIN jobs \subseteq DOMAIN jobs'
    BY DEF CheckNotRunning, Shape, Types, Data
  <1>2. At(c, "notRunning")
    BY DEF CheckNotRunning
  <1>3. req[c] \in Requests /\ req[c].seen \subseteq DOMAIN jobs
    BY DEF Shape, Types, Paths
  <1>4. Go(c, [req[c] EXCEPT !.left = domains]) \/ Abort(c)
    BY DEF CheckNotRunning
  <1>5. CASE Go(c, [req[c] EXCEPT !.left = domains])
    <2>1. [req[c] EXCEPT !.left = domains] \in Requests /\ ([req[c] EXCEPT !.left = domains]).op = req[c].op /\ ([req[c] EXCEPT !.left = domains]).todo = req[c].todo /\ ([req[c] EXCEPT !.left = domains]).seen \subseteq DOMAIN jobs
      BY <1>3 DEF Requests, Shape, Types, Data
    <2> QED
      BY <1>1, <1>2, <1>5, <2>1, GoShape
  <1>6. CASE Abort(c)
    BY <1>1, <1>2, <1>3, <1>6, AbortShape
  <1> QED
    BY <1>4, <1>5, <1>6

LEMMA HaltShape ==
    ASSUME Constants, Shape, NEW c \in Clients, Halt(c)
    PROVE  Shape'
  <1>1. Data' /\ lock' = lock /\ worker'.pc = worker.pc /\ DOMAIN jobs \subseteq DOMAIN jobs'
    BY DEF Halt, Shape, Types, Data, Stacks
  <1>2. At(c, "halt")
    BY DEF Halt
  <1>3. req[c] \in Requests /\ req[c].seen \subseteq DOMAIN jobs
    BY DEF Shape, Types, Paths
  <1>4. Go(c, [req[c] EXCEPT !.write = "idle"]) \/ Go(c, [req[c] EXCEPT !.write = "error"])
    BY DEF Halt
  <1>5. CASE Go(c, [req[c] EXCEPT !.write = "idle"])
    <2>1. [req[c] EXCEPT !.write = "idle"] \in Requests /\ ([req[c] EXCEPT !.write = "idle"]).op = req[c].op /\ ([req[c] EXCEPT !.write = "idle"]).todo = req[c].todo /\ ([req[c] EXCEPT !.write = "idle"]).seen \subseteq DOMAIN jobs
      BY <1>3 DEF Requests, Shape, Types, Data
    <2> QED
      BY <1>1, <1>2, <1>5, <2>1, GoShape
  <1>6. CASE Go(c, [req[c] EXCEPT !.write = "error"])
    <2>1. [req[c] EXCEPT !.write = "error"] \in Requests /\ ([req[c] EXCEPT !.write = "error"]).op = req[c].op /\ ([req[c] EXCEPT !.write = "error"]).todo = req[c].todo /\ ([req[c] EXCEPT !.write = "error"]).seen \subseteq DOMAIN jobs
      BY <1>3 DEF Requests, Shape, Types, Data
    <2> QED
      BY <1>1, <1>2, <1>6, <2>1, GoShape
  <1> QED
    BY <1>4, <1>5, <1>6

LEMMA StartStackShape ==
    ASSUME Constants, Shape, NEW c \in Clients, StartStack(c)
    PROVE  Shape'
  <1>1. Data' /\ lock' = lock /\ worker'.pc = worker.pc /\ DOMAIN jobs \subseteq DOMAIN jobs'
    BY DEF StartStack, Shape, Types, Data, Stacks
  <1>2. At(c, "start")
    BY DEF StartStack
  <1>3. req[c] \in Requests /\ req[c].seen \subseteq DOMAIN jobs
    BY DEF Shape, Types, Paths
  <1>4. Go(c, [req[c] EXCEPT !.write = "done"]) \/ Go(c, [req[c] EXCEPT !.write = "idle"])
    BY DEF StartStack
  <1>5. CASE Go(c, [req[c] EXCEPT !.write = "done"])
    <2>1. [req[c] EXCEPT !.write = "done"] \in Requests /\ ([req[c] EXCEPT !.write = "done"]).op = req[c].op /\ ([req[c] EXCEPT !.write = "done"]).todo = req[c].todo /\ ([req[c] EXCEPT !.write = "done"]).seen \subseteq DOMAIN jobs
      BY <1>3 DEF Requests, Shape, Types, Data
    <2> QED
      BY <1>1, <1>2, <1>5, <2>1, GoShape
  <1>6. CASE Go(c, [req[c] EXCEPT !.write = "idle"])
    <2>1. [req[c] EXCEPT !.write = "idle"] \in Requests /\ ([req[c] EXCEPT !.write = "idle"]).op = req[c].op /\ ([req[c] EXCEPT !.write = "idle"]).todo = req[c].todo /\ ([req[c] EXCEPT !.write = "idle"]).seen \subseteq DOMAIN jobs
      BY <1>3 DEF Requests, Shape, Types, Data
    <2> QED
      BY <1>1, <1>2, <1>6, <2>1, GoShape
  <1> QED
    BY <1>4, <1>5, <1>6

LEMMA WriteStatusShape ==
    ASSUME Constants, Shape, NEW c \in Clients, WriteStatus(c)
    PROVE  Shape'
  <1>1. Data' /\ lock' = lock /\ worker'.pc = worker.pc /\ DOMAIN jobs \subseteq DOMAIN jobs'
    BY DEF WriteStatus, Shape, Types, Data, Requests, Statuses
  <1>2. At(c, "status")
    BY DEF WriteStatus
  <1>3. req[c] \in Requests /\ req[c].seen \subseteq DOMAIN jobs
    BY DEF Shape, Types, Paths
  <1>4. Continue(c)
    BY DEF WriteStatus
  <1>5. CASE Continue(c)
    BY <1>1, <1>2, <1>3, <1>5, ContinueShape
  <1> QED
    BY <1>4, <1>5

LEMMA InsertDomainShape ==
    ASSUME Constants, Shape, NEW c \in Clients, InsertDomain(c)
    PROVE  Shape'
  <1>1. Data' /\ lock' = lock /\ worker'.pc = worker.pc /\ DOMAIN jobs \subseteq DOMAIN jobs'
    BY DEF InsertDomain, Shape, Types, Data, Requests
  <1>2. At(c, "insert")
    BY DEF InsertDomain
  <1>3. req[c] \in Requests /\ req[c].seen \subseteq DOMAIN jobs
    BY DEF Shape, Types, Paths
  <1>4. Continue(c) \/ Abort(c)
    BY DEF InsertDomain
  <1>5. CASE Continue(c)
    BY <1>1, <1>2, <1>3, <1>5, ContinueShape
  <1>6. CASE Abort(c)
    BY <1>1, <1>2, <1>3, <1>6, AbortShape
  <1> QED
    BY <1>4, <1>5, <1>6

LEMMA ReadDomainShape ==
    ASSUME Constants, Shape, NEW c \in Clients, ReadDomain(c)
    PROVE  Shape'
  <1>1. Data' /\ lock' = lock /\ worker'.pc = worker.pc /\ DOMAIN jobs \subseteq DOMAIN jobs'
    BY DEF ReadDomain, Shape, Types, Data
  <1>2. At(c, "readDomain")
    BY DEF ReadDomain
  <1>3. req[c] \in Requests /\ req[c].seen \subseteq DOMAIN jobs
    BY DEF Shape, Types, Paths
  <1>4. Go(c, [req[c] EXCEPT !.read = domains]) \/ Abort(c)
    BY DEF ReadDomain
  <1>5. CASE Go(c, [req[c] EXCEPT !.read = domains])
    <2>1. [req[c] EXCEPT !.read = domains] \in Requests /\ ([req[c] EXCEPT !.read = domains]).op = req[c].op /\ ([req[c] EXCEPT !.read = domains]).todo = req[c].todo /\ ([req[c] EXCEPT !.read = domains]).seen \subseteq DOMAIN jobs
      BY <1>3 DEF Requests, Shape, Types, Data
    <2> QED
      BY <1>1, <1>2, <1>5, <2>1, GoShape
  <1>6. CASE Abort(c)
    BY <1>1, <1>2, <1>3, <1>6, AbortShape
  <1> QED
    BY <1>4, <1>5, <1>6

LEMMA RestoreRecordShape ==
    ASSUME Constants, Shape, NEW c \in Clients, RestoreRecord(c)
    PROVE  Shape'
  <1>1. Data' /\ lock' = lock /\ worker'.pc = worker.pc /\ DOMAIN jobs \subseteq DOMAIN jobs'
    BY DEF RestoreRecord, Shape, Types, Data, Requests
  <1>2. At(c, "restoreRecord")
    BY DEF RestoreRecord
  <1>3. req[c] \in Requests /\ req[c].seen \subseteq DOMAIN jobs
    BY DEF Shape, Types, Paths
  <1>4. Continue(c)
    BY DEF RestoreRecord
  <1>5. CASE Continue(c)
    BY <1>1, <1>2, <1>3, <1>5, ContinueShape
  <1> QED
    BY <1>4, <1>5

LEMMA UndoRecordShape ==
    ASSUME Constants, Shape, NEW c \in Clients, UndoRecord(c)
    PROVE  Shape'
  <1>1. Data' /\ lock' = lock /\ worker'.pc = worker.pc /\ DOMAIN jobs \subseteq DOMAIN jobs'
    BY DEF UndoRecord, Shape, Types, Data, Requests
  <1>2. At(c, "undoRecord")
    BY DEF UndoRecord
  <1>3. req[c] \in Requests /\ req[c].seen \subseteq DOMAIN jobs
    BY DEF Shape, Types, Paths
  <1>4. Continue(c) \/ Go(c, [req[c] EXCEPT !.failed = TRUE])
    BY DEF UndoRecord
  <1>5. CASE Continue(c)
    BY <1>1, <1>2, <1>3, <1>5, ContinueShape
  <1>6. CASE Go(c, [req[c] EXCEPT !.failed = TRUE])
    <2>1. [req[c] EXCEPT !.failed = TRUE] \in Requests /\ ([req[c] EXCEPT !.failed = TRUE]).op = req[c].op /\ ([req[c] EXCEPT !.failed = TRUE]).todo = req[c].todo /\ ([req[c] EXCEPT !.failed = TRUE]).seen \subseteq DOMAIN jobs
      BY <1>3 DEF Requests, Shape, Types, Data
    <2> QED
      BY <1>1, <1>2, <1>6, <2>1, GoShape
  <1> QED
    BY <1>4, <1>5, <1>6

LEMMA UndoRowShape ==
    ASSUME Constants, Shape, NEW c \in Clients, UndoRow(c)
    PROVE  Shape'
  <1>1. Data' /\ lock' = lock /\ worker'.pc = worker.pc /\ DOMAIN jobs \subseteq DOMAIN jobs'
    BY DEF UndoRow, Shape, Types, Data, Requests
  <1>2. At(c, "undoRow")
    BY DEF UndoRow
  <1>3. req[c] \in Requests /\ req[c].seen \subseteq DOMAIN jobs
    BY DEF Shape, Types, Paths
  <1>4. Continue(c)
    BY DEF UndoRow
  <1>5. CASE Continue(c)
    BY <1>1, <1>2, <1>3, <1>5, ContinueShape
  <1> QED
    BY <1>4, <1>5

LEMMA RemoveStackShape ==
    ASSUME Constants, Shape, NEW c \in Clients, RemoveStack(c)
    PROVE  Shape'
  <1>1. lock' = lock /\ worker'.pc = worker.pc /\ DOMAIN jobs \subseteq DOMAIN jobs'
    BY DEF RemoveStack
  <1>2. Missing \in Files /\ Down \in Stacks
    BY DEF Missing, Down, Files, Stacks
  <1>3. file' \in Files /\ stack' \in Stacks
    BY <1>2 DEF RemoveStack, Shape, Types, Data
  <1>4. Data'
    BY <1>3 DEF RemoveStack, Shape, Types, Data
  <1>5. At(c, "remove") /\ (Continue(c) \/ Abort(c))
    BY DEF RemoveStack
  <1> QED
    BY <1>1, <1>4, <1>5, ContinueShape, AbortShape

LEMMA DropRowShape ==
    ASSUME Constants, Shape, NEW c \in Clients, DropRow(c)
    PROVE  Shape'
  <1>1. lock' = lock /\ worker'.pc = worker.pc /\ DOMAIN jobs \subseteq DOMAIN jobs'
    BY DEF DropRow
  <1>2. Missing \in Files
    BY DEF Missing, Files
  <1>3. file' \in Files
    BY <1>2 DEF DropRow, Shape, Types, Data
  <1>4. service' \in [exists : BOOLEAN, status : Statuses] /\ domains' \subseteq Domains
    BY DEF DropRow, Statuses
  <1>5. deployments' \in Seq({"running", "done", "error", "cancelled"})
    BY DEF DropRow
  <1>6. Data'
    BY <1>3, <1>4, <1>5 DEF DropRow, Shape, Types, Data
  <1>7. At(c, "dropRow") /\ Continue(c)
    BY DEF DropRow
  <1> QED
    BY <1>1, <1>6, <1>7, ContinueShape

LEMMA ListJobsShape ==
    ASSUME Constants, Shape, NEW c \in Clients, ListJobs(c)
    PROVE  Shape'
  <1>1. Data' /\ lock' = lock /\ worker'.pc = worker.pc /\ DOMAIN jobs \subseteq DOMAIN jobs'
    BY DEF ListJobs, Shape, Types, Data
  <1>2. PICK seen \in {Waiting, Unfinished}, step \in {"listWaiting", "listAll"} :
            At(c, step) /\ Go(c, [req[c] EXCEPT !.seen = seen])
    BY DEF ListJobs
  <1>3. seen \subseteq DOMAIN jobs /\ seen \subseteq Nat
    <2>1. DOMAIN jobs = 1..Len(jobs) /\ Len(jobs) \in Nat
      BY DEF Shape, Types, Data
    <2> QED
      BY <2>1 DEF Waiting, Unfinished
  <1>4. LET r == [req[c] EXCEPT !.seen = seen]
        IN  r \in Requests /\ r.op = req[c].op /\ r.todo = req[c].todo /\ r.seen = seen
    BY <1>3 DEF Shape, Types, Requests
  <1> QED
    BY <1>1, <1>2, <1>3, <1>4, GoShape

LEMMA CheckNotActiveShape ==
    ASSUME Constants, Shape, NEW c \in Clients, CheckNotActive(c)
    PROVE  Shape'
  <1>1. Data' /\ lock' = lock /\ worker'.pc = worker.pc /\ DOMAIN jobs \subseteq DOMAIN jobs'
    BY DEF CheckNotActive, Shape, Types, Data
  <1>2. At(c, "notActive") /\ (Abort(c) \/ Go(c, [req[c] EXCEPT !.seen = @ \cap Waiting]))
    BY DEF CheckNotActive
  <1>3. LET r == [req[c] EXCEPT !.seen = @ \cap Waiting]
        IN  r \in Requests /\ r.op = req[c].op /\ r.todo = req[c].todo /\ r.seen \subseteq DOMAIN jobs
    BY DEF Shape, Types, Paths, Requests
  <1> QED
    BY <1>1, <1>2, <1>3, GoShape, AbortShape

\* What a step does to the jobs that it removes.
LEMMA JobsRemoved ==
    ASSUME Shape, NEW i, jobs' = [jobs EXCEPT ![i] = "ended"]
    PROVE  /\ jobs' \in Seq({"waiting", "active", "ended"}) /\ DOMAIN jobs' = DOMAIN jobs
           /\ \A k \in DOMAIN jobs : jobs'[k] = IF k = i THEN "ended" ELSE jobs[k]
  <1> DEFINE JobStates == {"waiting", "active", "ended"}
  <1>1. jobs \in Seq(JobStates) /\ jobs \in [1..Len(jobs) -> JobStates] /\ DOMAIN jobs = 1..Len(jobs)
    BY DEF Shape, Types, Data
  <1>2. DOMAIN jobs' = DOMAIN jobs /\ \A k \in DOMAIN jobs : jobs'[k] = IF k = i THEN "ended" ELSE jobs[k]
    BY <1>1
  <1>3. CASE i \in 1..Len(jobs)
    BY <1>1, <1>2, <1>3, ExceptSeq
  <1>4. CASE i \notin 1..Len(jobs)
    <2>1. jobs' \in [1..Len(jobs) -> JobStates] /\ \A k \in 1..Len(jobs) : jobs'[k] = jobs[k]
      BY <1>1, <1>2, <1>4
    <2>2. jobs' = jobs
      BY <1>1, <2>1
    <2> QED
      BY <1>1, <1>2, <2>2
  <1> QED
    BY <1>3, <1>4

LEMMA DequeueShape ==
    ASSUME Constants, Shape, NEW c \in Clients, Dequeue(c)
    PROVE  Shape'
  <1>1. lock' = lock /\ worker'.pc = worker.pc /\ At(c, "dequeue")
    BY DEF Dequeue
  <1>2. CASE Continue(c) /\ UNCHANGED jobs
    <2>1. Data'
      BY <1>2 DEF Dequeue, Shape, Types, Data
    <2> QED
      BY <1>1, <1>2, <2>1, ContinueShape
  <1>3. CASE Abort(c) /\ UNCHANGED jobs
    <2>1. Data'
      BY <1>3 DEF Dequeue, Shape, Types, Data
    <2> QED
      BY <1>1, <1>3, <2>1, AbortShape
  <1>4. ASSUME NEW i \in req[c].seen, jobs' = [jobs EXCEPT ![i] = "ended"],
               Set(c, [req[c] EXCEPT !.seen = @ \ {i}])
        PROVE  Shape'
    <2>1. Data' /\ DOMAIN jobs' = DOMAIN jobs
      <3>1. jobs' \in Seq({"waiting", "active", "ended"}) /\ DOMAIN jobs' = DOMAIN jobs
        BY <1>4, JobsRemoved
      <3> QED
        BY <3>1 DEF Dequeue, Shape, Types, Data
    <2> DEFINE r == [req[c] EXCEPT !.seen = @ \ {i}]
    <2>2. r \in Requests /\ r.op = req[c].op /\ r.todo = req[c].todo /\ r.seen \subseteq DOMAIN jobs
      BY DEF Shape, Types, Paths, Requests
    <2>3. Set(c, r)
      BY <1>4
    <2> HIDE DEF r
    <2>4. Moved(c, r, Place(c), Ahead(c))
      BY <1>1, <2>2, <2>3, AtStep, SetMoves DEF Shape
    <2>5. Handed(c, Place(c))
      BY <1>1 DEF Handed
    <2> QED
      BY <1>1, <2>1, <2>2, <2>4, <2>5, ShapeStep
  <1> QED
    BY <1>2, <1>3, <1>4 DEF Dequeue

\* Who removes a domain.
LEMMA RouteOp ==
    ASSUME Shape, NEW c \in Clients, NEW step \in {"route", "record", "row", "undoRoute", "restoreRecord"}, At(c, step)
    PROVE  /\ req[c].op \in {"addDomain", "removeDomain", "delete"}
           /\ step \in {"row", "restoreRecord"} => req[c].op # "addDomain"
  <1>1. \E next : Follows(req[c].op, step, Ahead(c), next)
    BY AtStep
  <1> QED
    BY <1>1 DEF Follows

LEMMA ReconciledTypes ==
    ASSUME Shape, NEW routes \in SUBSET Domains, NEW outcome, Reconciled(routes, outcome)
    PROVE  file' \in Files /\ stack' \in Stacks
  <1>1. FileWith(routes) \in Files /\ UpWith(routes) \in Stacks /\ file \in Files /\ stack \in Stacks
    BY DEF Shape, Types, Data, FileWith, UpWith, Files, Stacks
  <1>2. UpWith(file.routes) \in Stacks
    BY <1>1 DEF UpWith, Files, Stacks
  <1>3. file' \in Files
    BY <1>1 DEF Reconciled
  <1>4. stack' \in Stacks
    BY <1>1, <1>2 DEF Reconciled
  <1> QED
    BY <1>3, <1>4

LEMMA RouteDomainShape ==
    ASSUME Constants, Shape, NEW c \in Clients, RouteDomain(c)
    PROVE  Shape'
  <1>1. At(c, "route") /\ lock' = lock /\ worker'.pc = worker.pc /\ DOMAIN jobs \subseteq DOMAIN jobs'
    BY DEF RouteDomain
  <1>2. req[c] \in Requests /\ req[c].seen \subseteq DOMAIN jobs
    BY DEF Shape, Types, Paths
  <1>3. PICK outcome :
            /\ Reconciled(Desired(c), outcome)
            /\ IF outcome # "failed" THEN Go(c, [req[c] EXCEPT !.applied = outcome = "applied"])
               ELSE IF req[c].op = "addDomain" THEN Jump(c, [req[c] EXCEPT !.applied = FALSE], UndoAdding)
               ELSE Abort(c)
    BY DEF RouteDomain
  <1>4. Desired(c) \in SUBSET Domains
    BY <1>2 DEF Desired, Requests
  <1>5. Data'
    <2>1. file' \in Files /\ stack' \in Stacks
      BY <1>3, <1>4, ReconciledTypes
    <2> QED
      BY <2>1 DEF RouteDomain, Shape, Types, Data
  <1>6. CASE outcome # "failed"
    <2> DEFINE r == [req[c] EXCEPT !.applied = outcome = "applied"]
    <2>1. r \in Requests /\ r.op = req[c].op /\ r.todo = req[c].todo /\ r.seen \subseteq DOMAIN jobs
      BY <1>2 DEF Requests
    <2> QED
      BY <1>1, <1>3, <1>5, <1>6, <2>1, GoShape
  <1>7. CASE outcome = "failed" /\ req[c].op = "addDomain"
    <2> DEFINE r == [req[c] EXCEPT !.applied = FALSE]
    <2>1. r \in Requests /\ r.op = req[c].op /\ r.seen \subseteq DOMAIN jobs
      BY <1>2 DEF Requests
    <2>2. Jump(c, r, UndoAdding)
      BY <1>3, <1>7
    <2>3. Path(r.op, UndoAdding) /\ UndoAdding # <<>> /\ Head(UndoAdding) = "undoRoute"
      BY <1>7, <2>1, UndoPaths
    <2>4. "route" \in Held <=> Head(UndoAdding) \in Held
      BY <2>3 DEF Held
    <2> HIDE DEF r
    <2> QED
      BY <1>1, <1>5, <2>1, <2>2, <2>3, <2>4, JumpShape
  <1>8. CASE outcome = "failed" /\ req[c].op # "addDomain"
    BY <1>1, <1>3, <1>5, <1>8, AbortShape
  <1> QED
    BY <1>6, <1>7, <1>8

LEMMA RecordShape ==
    ASSUME Constants, Shape, NEW c \in Clients, Record(c)
    PROVE  Shape'
  <1>1. /\ At(c, "record") /\ lock' = lock /\ worker'.pc = worker.pc /\ DOMAIN jobs \subseteq DOMAIN jobs'
        /\ req[c] \in Requests /\ req[c].seen \subseteq DOMAIN jobs
    BY DEF Record, Shape, Types, Paths
  <1>2. Data'
    <2>1. records' \subseteq Domains
      BY <1>1 DEF Record, Shape, Types, Data, Requests
    <2> QED
      BY <2>1 DEF Record, Shape, Types, Data
  <1>3. \/ Continue(c)
        \/ Jump(c, req[c], IF req[c].op = "addDomain" THEN UndoAdding ELSE <<"undoRoute", "unlock">>)
    BY DEF Record
  <1>4. CASE Continue(c)
    BY <1>1, <1>2, <1>4, ContinueShape
  <1>5. CASE Jump(c, req[c], UndoAdding) /\ req[c].op = "addDomain"
    <2>1. "record" \in Held <=> Head(UndoAdding) \in Held
      BY UndoPaths DEF Held
    <2> QED
      BY <1>1, <1>2, <1>5, <2>1, UndoPaths, JumpShape
  <1>6. CASE Jump(c, req[c], <<"undoRoute", "unlock">>) /\ req[c].op # "addDomain"
    <2>1. req[c].op \in {"removeDomain", "delete"}
      BY <1>1, <1>6, RouteOp
    <2>2. PICK todo : todo = <<"undoRoute", "unlock">>
      OBVIOUS
    <2>3. Path(req[c].op, todo) /\ todo # <<>> /\ Head(todo) = "undoRoute" /\ Jump(c, req[c], todo)
      BY <1>6, <2>1, <2>2, UndoPaths
    <2>4. "record" \in Held <=> Head(todo) \in Held
      BY <2>3 DEF Held
    <2> QED
      BY <1>1, <1>2, <2>3, <2>4, JumpShape
  <1> QED
    BY <1>3, <1>4, <1>5, <1>6

LEMMA DeleteDomainRowShape ==
    ASSUME Constants, Shape, NEW c \in Clients, DeleteDomainRow(c)
    PROVE  Shape'
  <1>1. /\ At(c, "row") /\ lock' = lock /\ worker'.pc = worker.pc /\ DOMAIN jobs \subseteq DOMAIN jobs'
        /\ req[c] \in Requests /\ req[c].seen \subseteq DOMAIN jobs
    BY DEF DeleteDomainRow, Shape, Types, Paths
  <1>2. Data'
    <2>1. domains' \subseteq Domains
      BY <1>1 DEF DeleteDomainRow, Shape, Types, Data, Requests
    <2> QED
      BY <2>1 DEF DeleteDomainRow, Shape, Types, Data
  <1>3. CASE Continue(c)
    BY <1>1, <1>2, <1>3, ContinueShape
  <1>4. CASE Jump(c, req[c], <<"undoRoute", "restoreRecord", "unlock">>)
    <2>1. req[c].op \in {"removeDomain", "delete"}
      BY <1>1, RouteOp
    <2>2. PICK todo : todo = <<"undoRoute", "restoreRecord", "unlock">>
      OBVIOUS
    <2>3. Path(req[c].op, todo) /\ todo # <<>> /\ Head(todo) = "undoRoute" /\ Jump(c, req[c], todo)
      BY <1>4, <2>1, <2>2, UndoPaths
    <2>4. "row" \in Held <=> Head(todo) \in Held
      BY <2>3 DEF Held
    <2> QED
      BY <1>1, <1>2, <2>3, <2>4, JumpShape
  <1> QED
    BY <1>3, <1>4 DEF DeleteDomainRow

LEMMA UndoRouteShape ==
    ASSUME Constants, Shape, NEW c \in Clients, UndoRoute(c)
    PROVE  Shape'
  <1>1. /\ At(c, "undoRoute") /\ lock' = lock /\ worker'.pc = worker.pc /\ DOMAIN jobs \subseteq DOMAIN jobs'
        /\ req[c] \in Requests /\ req[c].seen \subseteq DOMAIN jobs
    BY DEF UndoRoute, Shape, Types, Paths
  <1>2. CASE Continue(c) /\ UNCHANGED <<file, stack>>
    <2>1. Data'
      BY <1>2 DEF UndoRoute, Shape, Types, Data
    <2> QED
      BY <1>1, <1>2, <2>1, ContinueShape
  <1>3. ASSUME NEW outcome, Reconciled(req[c].read, outcome),
               Go(c, [req[c] EXCEPT !.failed = @ \/ outcome = "failed"])
        PROVE  Shape'
    <2>1. Data'
      <3>1. file' \in Files /\ stack' \in Stacks
        BY <1>1, <1>3, ReconciledTypes DEF Requests
      <3> QED
        BY <3>1 DEF UndoRoute, Shape, Types, Data
    <2> DEFINE r == [req[c] EXCEPT !.failed = @ \/ outcome = "failed"]
    <2>2. r \in Requests /\ r.op = req[c].op /\ r.todo = req[c].todo /\ r.seen \subseteq DOMAIN jobs
      BY <1>1 DEF Requests
    <2> QED
      BY <1>1, <1>3, <2>1, <2>2, GoShape
  <1> QED
    BY <1>2, <1>3 DEF UndoRoute

LEMMA RemoveDomainsShape ==
    ASSUME Constants, Shape, NEW c \in Clients, RemoveDomains(c)
    PROVE  Shape'
  <1>1. /\ At(c, "domains") /\ lock' = lock /\ worker'.pc = worker.pc /\ DOMAIN jobs \subseteq DOMAIN jobs'
        /\ req[c] \in Requests /\ req[c].seen \subseteq DOMAIN jobs
    BY DEF RemoveDomains, Shape, Types, Paths
  <1>2. Data'
    BY DEF RemoveDomains, Shape, Types, Data
  <1>3. CASE Continue(c)
    BY <1>1, <1>2, <1>3, ContinueShape
  <1>4. ASSUME NEW d \in req[c].left, Jump(c, [req[c] EXCEPT !.domain = d, !.left = @ \ {d}], RemovalSteps \o req[c].todo)
        PROVE  Shape'
    <2> DEFINE r == [req[c] EXCEPT !.domain = d, !.left = @ \ {d}]
    <2>1. r \in Requests /\ r.op = req[c].op /\ r.seen \subseteq DOMAIN jobs
      BY <1>1 DEF Requests
    <2>2. /\ req[c].op = "delete" /\ Path(req[c].op, req[c].todo) /\ req[c].todo # <<>>
          /\ Head(req[c].todo) = "domains" /\ Len(req[c].todo) = 5
      <3>1. /\ \E next : Follows(req[c].op, "domains", Ahead(c), next)
            /\ Len(req[c].todo) = Ahead(c)
        BY <1>1, AtStep
      <3>2. req[c].op = "delete" /\ Len(req[c].todo) = 5
        BY <3>1 DEF Follows
      <3> QED
        BY <1>1, <3>2, AtStep
    <2>3. PICK todo : todo = RemovalSteps \o req[c].todo
      OBVIOUS
    <2>4. Path(r.op, todo) /\ todo # <<>> /\ Head(todo) = "lock"
      BY <2>1, <2>2, <2>3, RemovalPath
    <2>5. "domains" \in Held <=> Head(todo) \in Held
      BY <2>4 DEF Held
    <2>6. Jump(c, r, todo)
      BY <1>4, <2>3
    <2> HIDE DEF r
    <2> QED
      BY <1>1, <1>2, <2>1, <2>4, <2>5, <2>6, JumpShape
  <1> QED
    BY <1>3, <1>4 DEF RemoveDomains

-----------------------------------------------------------------------------
(* The worker's steps keep the shape of the state too.                       *)

LEMMA WorkerShape ==
    ASSUME Constants, Shape, Data', req' = req, DOMAIN jobs \subseteq DOMAIN jobs',
           \/ lock' = lock /\ (worker'.pc \in WorkerHeld <=> worker.pc \in WorkerHeld)
           \/ lock = NoOne /\ lock' = Worker /\ worker'.pc \in WorkerHeld
           \/ lock = Worker /\ lock' = NoOne /\ worker'.pc \notin WorkerHeld
    PROVE  Shape' /\ \A c \in Clients : Place(c)' = Place(c) /\ Ahead(c)' = Ahead(c)
  <1>1. Types' /\ \A c \in Clients : Place(c)' = Place(c) /\ Ahead(c)' = Ahead(c)
    BY DEF Shape, Types, Place, Ahead
  <1>2. Paths'
    BY DEF Shape, Paths
  <1>3. Locked'
    <2>1. /\ \A c \in Clients : lock = c <=> Place(c) \in Held
          /\ \A c \in Clients : c # NoOne /\ c # Worker
          /\ NoOne # Worker /\ (lock = Worker <=> worker.pc \in WorkerHeld)
      BY DEF Shape, Locked, Constants, NoOne, Worker
    <2>2. \A c \in Clients : lock' = c <=> Place(c)' \in Held
      BY <1>1, <2>1
    <2>3. lock' = Worker <=> worker.pc' \in WorkerHeld
      BY <2>1
    <2> QED
      BY <2>2, <2>3 DEF Locked
  <1> QED
    BY <1>1, <1>2, <1>3 DEF Shape

\* Whether the worker has the lock, and what it does with it when it leaves.
LEMMA WorkerLock ==
    ASSUME Shape
    PROVE  lock = Worker <=> worker.pc \in WorkerHeld
  BY DEF Shape, Locked

\* A set of numbers that is not empty has a least one.
Below == {ss \in Nat \X Nat : ss[1] < ss[2]}

LEMMA BelowWellFounded == IsWellFoundedOn(Below, Nat)
  <1>1. OpToRel(<, Nat) = Below
    BY DEF OpToRel, Below
  <1> QED
    BY <1>1, NatLessThanWellFounded

LEMMA LeastMember ==
    ASSUME NEW S \in SUBSET Nat, S # {}
    PROVE  \E i \in S : \A k \in S : i <= k
  <1>1. \E i \in S : \A k \in S : ~ (<<k, i>> \in Below)
    BY BelowWellFounded, WFMin
  <1>2. PICK i \in S : \A k \in S : ~ (<<k, i>> \in Below)
    BY <1>1
  <1>3. ASSUME NEW k \in S PROVE i <= k
    <2>1. k \in Nat /\ i \in Nat /\ <<k, i>> \notin Below
      BY <1>2
    <2>2. k < i => <<k, i>> \in Below
      BY <2>1 DEF Below
    <2> QED
      BY <2>1, <2>2
  <1> QED
    BY <1>3

\* The job that is taken is one that waits.

LEMMA Taken ==
    ASSUME Shape, TakeJob
    PROVE  \E i \in DOMAIN jobs :
              /\ jobs[i] = "waiting" /\ jobs' = [jobs EXCEPT ![i] = "active"]
              /\ jobs' \in Seq({"waiting", "active", "ended"}) /\ DOMAIN jobs' = DOMAIN jobs
              /\ \A k \in DOMAIN jobs : jobs'[k] = IF k = i THEN "active" ELSE jobs[k]
              /\ worker' = [NoRun EXCEPT !.pc = "running", !.job = i]
  <1> DEFINE First(i) == \A k \in Waiting : i <= k
  <1>1. jobs \in Seq({"waiting", "active", "ended"}) /\ DOMAIN jobs = 1..Len(jobs) /\ Len(jobs) \in Nat
    BY DEF Shape, Types, Data
  <1>2. Waiting # {} /\ Waiting \subseteq 1..Len(jobs)
    BY <1>1 DEF TakeJob, Waiting
  <1>3. PICK i \in Waiting : i = CHOOSE j \in Waiting : First(j)
    <2>1. Waiting \in SUBSET Nat
      BY <1>1, <1>2
    <2>2. \E j \in Waiting : First(j)
      BY <1>2, <2>1, LeastMember
    <2> QED
      BY <2>2
  <1>4. jobs' = [jobs EXCEPT ![i] = "active"] /\ worker' = [NoRun EXCEPT !.pc = "running", !.job = i]
    BY <1>3 DEF TakeJob
  <1>5. i \in 1..Len(jobs) /\ jobs[i] = "waiting"
    BY <1>2 DEF Waiting
  <1>6. /\ jobs' \in Seq({"waiting", "active", "ended"}) /\ DOMAIN jobs' = DOMAIN jobs
        /\ \A k \in DOMAIN jobs : jobs'[k] = IF k = i THEN "active" ELSE jobs[k]
    BY <1>1, <1>4, <1>5, ExceptSeq
  <1> QED
    BY <1>1, <1>4, <1>5, <1>6

LEMMA TakeJobShape ==
    ASSUME Constants, Shape, TakeJob
    PROVE  Shape' /\ \A c \in Clients : Place(c)' = Place(c) /\ Ahead(c)' = Ahead(c)
  <1>1. Data' /\ DOMAIN jobs \subseteq DOMAIN jobs'
    <2>1. PICK i \in DOMAIN jobs :
              /\ jobs' \in Seq({"waiting", "active", "ended"}) /\ DOMAIN jobs' = DOMAIN jobs
              /\ worker' = [NoRun EXCEPT !.pc = "running", !.job = i]
      BY Taken
    <2>2. i \in Nat
      BY DEF Shape, Types, Data
    <2>3. worker' \in Runs
      BY <2>1, <2>2 DEF Runs, NoRun, WorkerSteps
    <2> QED
      BY <2>1, <2>3 DEF TakeJob, Shape, Types, Data
  <1>2. \/ lock' = lock /\ (worker'.pc \in WorkerHeld <=> worker.pc \in WorkerHeld)
        \/ lock = NoOne /\ lock' = Worker /\ worker'.pc \in WorkerHeld
        \/ lock = Worker /\ lock' = NoOne /\ worker'.pc \notin WorkerHeld
    BY WorkerLock DEF TakeJob, Shape, Types, Data, Runs, WorkerAt, WorkerTo, Leave, WorkerHeld, NoRun
  <1> QED
    BY <1>1, <1>2, WorkerShape DEF TakeJob

LEMMA MarkRunningShape ==
    ASSUME Constants, Shape, MarkRunning
    PROVE  Shape' /\ \A c \in Clients : Place(c)' = Place(c) /\ Ahead(c)' = Ahead(c)
  <1>1. Data' /\ DOMAIN jobs \subseteq DOMAIN jobs'
    BY DEF MarkRunning, Shape, Types, Data, Runs, WorkerAt, WorkerTo, WorkerSteps, WorkerHeld, Status, Statuses
  <1>2. \/ lock' = lock /\ (worker'.pc \in WorkerHeld <=> worker.pc \in WorkerHeld)
        \/ lock = NoOne /\ lock' = Worker /\ worker'.pc \in WorkerHeld
        \/ lock = Worker /\ lock' = NoOne /\ worker'.pc \notin WorkerHeld
    BY WorkerLock DEF MarkRunning, Shape, Types, Data, Runs, WorkerAt, WorkerTo, Leave, WorkerHeld, NoRun
  <1> QED
    BY <1>1, <1>2, WorkerShape DEF MarkRunning

LEMMA RunLockedShape ==
    ASSUME Constants, Shape, RunLocked
    PROVE  Shape' /\ \A c \in Clients : Place(c)' = Place(c) /\ Ahead(c)' = Ahead(c)
  <1>1. Data' /\ DOMAIN jobs \subseteq DOMAIN jobs'
    BY DEF RunLocked, Shape, Types, Data, Runs, WorkerAt, WorkerTo, WorkerSteps, WorkerHeld, Worker
  <1>2. \/ lock' = lock /\ (worker'.pc \in WorkerHeld <=> worker.pc \in WorkerHeld)
        \/ lock = NoOne /\ lock' = Worker /\ worker'.pc \in WorkerHeld
        \/ lock = Worker /\ lock' = NoOne /\ worker'.pc \notin WorkerHeld
    BY WorkerLock DEF RunLocked, Shape, Types, Data, Runs, WorkerAt, WorkerTo, Leave, WorkerHeld, NoRun
  <1> QED
    BY <1>1, <1>2, WorkerShape DEF RunLocked

LEMMA ReadServiceShape ==
    ASSUME Constants, Shape, ReadService
    PROVE  Shape' /\ \A c \in Clients : Place(c)' = Place(c) /\ Ahead(c)' = Ahead(c)
  <1>1. Data' /\ DOMAIN jobs \subseteq DOMAIN jobs'
    BY DEF ReadService, Shape, Types, Data, Runs, WorkerAt, WorkerTo, WorkerSteps, WorkerHeld, Leave, NoOne
  <1>2. \/ lock' = lock /\ (worker'.pc \in WorkerHeld <=> worker.pc \in WorkerHeld)
        \/ lock = NoOne /\ lock' = Worker /\ worker'.pc \in WorkerHeld
        \/ lock = Worker /\ lock' = NoOne /\ worker'.pc \notin WorkerHeld
    BY WorkerLock DEF ReadService, Shape, Types, Data, Runs, WorkerAt, WorkerTo, Leave, WorkerHeld, NoRun
  <1> QED
    BY <1>1, <1>2, WorkerShape DEF ReadService

LEMMA CreateDeploymentShape ==
    ASSUME Constants, Shape, CreateDeployment
    PROVE  Shape' /\ \A c \in Clients : Place(c)' = Place(c) /\ Ahead(c)' = Ahead(c)
  <1> DEFINE Rows == {"running", "done", "error", "cancelled"}
             closed == [i \in DOMAIN deployments |-> IF deployments[i] = "running" THEN "cancelled" ELSE deployments[i]]
  <1>1. Data' /\ DOMAIN jobs \subseteq DOMAIN jobs'
    <2>1. closed \in Seq(Rows) /\ Len(closed) + 1 \in Nat
      <3>1. deployments \in Seq(Rows)
        BY DEF Shape, Types, Data
      <3>2. Len(deployments) \in Nat /\ DOMAIN deployments = 1..Len(deployments) /\ \A i \in DOMAIN deployments : deployments[i] \in Rows
        BY <3>1
      <3>3. closed \in [1..Len(deployments) -> Rows]
        BY <3>2
      <3>4. closed \in Seq(Rows)
        BY <3>2, <3>3
      <3> QED
        BY <3>4
    <2>2. closed \in Seq(Rows) => Append(closed, "running") \in Seq(Rows) /\ Append(closed, "error") \in Seq(Rows)
      OBVIOUS
    <2>3. PICK n \in Nat : n = Len(closed) + 1
      BY <2>1
    <2>4. deployments' \in Seq(Rows)
      BY <2>1, <2>2 DEF CreateDeployment, Shape, Types, Data
    <2>5. \/ worker' = [worker EXCEPT !.pc = "mark"]
          \/ worker' = [worker EXCEPT !.pc = "build", !.row = n]
      BY <2>3 DEF CreateDeployment, Leave, WorkerTo
    <2>6. worker' \in Runs
      BY <2>5 DEF Shape, Types, Data, Runs, WorkerSteps, WorkerHeld
    <2> HIDE DEF closed
    <2>7. service' \in [exists : BOOLEAN, status : Statuses] /\ lock' \in Clients \cup {NoOne, Worker}
      BY DEF CreateDeployment, Status, Statuses, Leave, Shape, Types, Data
    <2> QED
      BY <2>4, <2>6, <2>7 DEF CreateDeployment, Shape, Types, Data
  <1>2. \/ lock' = lock /\ (worker'.pc \in WorkerHeld <=> worker.pc \in WorkerHeld)
        \/ lock = NoOne /\ lock' = Worker /\ worker'.pc \in WorkerHeld
        \/ lock = Worker /\ lock' = NoOne /\ worker'.pc \notin WorkerHeld
    BY WorkerLock DEF CreateDeployment, Shape, Types, Data, Runs, WorkerAt, WorkerTo, Leave, WorkerHeld, NoRun
  <1> QED
    BY <1>1, <1>2, WorkerShape DEF CreateDeployment

LEMMA BuildShape ==
    ASSUME Constants, Shape, Build
    PROVE  Shape' /\ \A c \in Clients : Place(c)' = Place(c) /\ Ahead(c)' = Ahead(c)
  <1>1. Data' /\ DOMAIN jobs \subseteq DOMAIN jobs'
    <2>1. worker.routes \subseteq Domains /\ file \in Files /\ stack \in Stacks /\ worker \in Runs
      BY DEF Shape, Types, Data, Runs
    <2>2. FileWith(worker.routes) \in Files /\ UpWith(worker.routes) \in Stacks /\ Missing \in Files /\ FileWith({}) \in Files
      BY <2>1 DEF FileWith, UpWith, Missing, Files, Stacks
    <2>3. file' \in Files /\ stack' \in Stacks
      BY <2>1, <2>2 DEF Build
    <2>4. worker' \in Runs
      BY <2>1 DEF Build, WorkerTo, Runs, WorkerSteps, WorkerHeld
    <2> QED
      BY <2>3, <2>4 DEF Build, Shape, Types, Data
  <1>2. \/ lock' = lock /\ (worker'.pc \in WorkerHeld <=> worker.pc \in WorkerHeld)
        \/ lock = NoOne /\ lock' = Worker /\ worker'.pc \in WorkerHeld
        \/ lock = Worker /\ lock' = NoOne /\ worker'.pc \notin WorkerHeld
    BY WorkerLock DEF Build, Shape, Types, Data, Runs, WorkerAt, WorkerTo, Leave, WorkerHeld, NoRun
  <1> QED
    BY <1>1, <1>2, WorkerShape DEF Build

LEMMA Resulted ==
    ASSUME Shape, NEW s \in {"done", "error"}, Result(s)
    PROVE  deployments' \in Seq({"running", "done", "error", "cancelled"})
  <1> DEFINE Rows == {"running", "done", "error", "cancelled"}
  <1>1. deployments \in Seq(Rows)
    BY DEF Shape, Types, Data
  <1>2. Len(deployments) \in Nat /\ DOMAIN deployments = 1..Len(deployments) /\ \A i \in DOMAIN deployments : deployments[i] \in Rows
    BY <1>1
  <1>3. deployments' \in [1..Len(deployments) -> Rows]
    BY <1>2 DEF Result
  <1> QED
    BY <1>2, <1>3

LEMMA MarkDeploymentDoneShape ==
    ASSUME Constants, Shape, MarkDeploymentDone
    PROVE  Shape' /\ \A c \in Clients : Place(c)' = Place(c) /\ Ahead(c)' = Ahead(c)
  <1>1. Data' /\ DOMAIN jobs \subseteq DOMAIN jobs'
    <2>1. deployments' \in Seq({"running", "done", "error", "cancelled"})
      BY Resulted DEF MarkDeploymentDone
    <2>2. worker' \in Runs
      BY DEF MarkDeploymentDone, Shape, Types, Data, WorkerTo, Runs, WorkerSteps, WorkerHeld
    <2> QED
      BY <2>1, <2>2 DEF MarkDeploymentDone, Shape, Types, Data
  <1>2. \/ lock' = lock /\ (worker'.pc \in WorkerHeld <=> worker.pc \in WorkerHeld)
        \/ lock = NoOne /\ lock' = Worker /\ worker'.pc \in WorkerHeld
        \/ lock = Worker /\ lock' = NoOne /\ worker'.pc \notin WorkerHeld
    BY WorkerLock DEF MarkDeploymentDone, Shape, Types, Data, Runs, WorkerAt, WorkerTo, Leave, WorkerHeld, NoRun
  <1> QED
    BY <1>1, <1>2, WorkerShape DEF MarkDeploymentDone

LEMMA MarkServiceDoneShape ==
    ASSUME Constants, Shape, MarkServiceDone
    PROVE  Shape' /\ \A c \in Clients : Place(c)' = Place(c) /\ Ahead(c)' = Ahead(c)
  <1>1. Data' /\ DOMAIN jobs \subseteq DOMAIN jobs'
    BY DEF MarkServiceDone, Shape, Types, Data, Runs, WorkerAt, WorkerTo, WorkerSteps, WorkerHeld, Status, Statuses
  <1>2. \/ lock' = lock /\ (worker'.pc \in WorkerHeld <=> worker.pc \in WorkerHeld)
        \/ lock = NoOne /\ lock' = Worker /\ worker'.pc \in WorkerHeld
        \/ lock = Worker /\ lock' = NoOne /\ worker'.pc \notin WorkerHeld
    BY WorkerLock DEF MarkServiceDone, Shape, Types, Data, Runs, WorkerAt, WorkerTo, Leave, WorkerHeld, NoRun
  <1> QED
    BY <1>1, <1>2, WorkerShape DEF MarkServiceDone

LEMMA NotifyShape ==
    ASSUME Constants, Shape, Notify
    PROVE  Shape' /\ \A c \in Clients : Place(c)' = Place(c) /\ Ahead(c)' = Ahead(c)
  <1>1. Data' /\ DOMAIN jobs \subseteq DOMAIN jobs'
    BY DEF Notify, Shape, Types, Data, Runs, WorkerAt, WorkerTo, WorkerSteps, WorkerHeld, Leave, NoOne
  <1>2. \/ lock' = lock /\ (worker'.pc \in WorkerHeld <=> worker.pc \in WorkerHeld)
        \/ lock = NoOne /\ lock' = Worker /\ worker'.pc \in WorkerHeld
        \/ lock = Worker /\ lock' = NoOne /\ worker'.pc \notin WorkerHeld
    BY WorkerLock DEF Notify, Shape, Types, Data, Runs, WorkerAt, WorkerTo, Leave, WorkerHeld, NoRun
  <1> QED
    BY <1>1, <1>2, WorkerShape DEF Notify

LEMMA LogFailureShape ==
    ASSUME Constants, Shape, LogFailure
    PROVE  Shape' /\ \A c \in Clients : Place(c)' = Place(c) /\ Ahead(c)' = Ahead(c)
  <1>1. Data' /\ DOMAIN jobs \subseteq DOMAIN jobs'
    BY DEF LogFailure, Shape, Types, Data, Runs, WorkerAt, WorkerTo, WorkerSteps, WorkerHeld, Leave, NoOne
  <1>2. \/ lock' = lock /\ (worker'.pc \in WorkerHeld <=> worker.pc \in WorkerHeld)
        \/ lock = NoOne /\ lock' = Worker /\ worker'.pc \in WorkerHeld
        \/ lock = Worker /\ lock' = NoOne /\ worker'.pc \notin WorkerHeld
    BY WorkerLock DEF LogFailure, Shape, Types, Data, Runs, WorkerAt, WorkerTo, Leave, WorkerHeld, NoRun
  <1> QED
    BY <1>1, <1>2, WorkerShape DEF LogFailure

LEMMA MarkDeploymentErrorShape ==
    ASSUME Constants, Shape, MarkDeploymentError
    PROVE  Shape' /\ \A c \in Clients : Place(c)' = Place(c) /\ Ahead(c)' = Ahead(c)
  <1>1. Data' /\ DOMAIN jobs \subseteq DOMAIN jobs'
    <2>1. deployments' \in Seq({"running", "done", "error", "cancelled"})
      BY Resulted DEF MarkDeploymentError
    <2>2. worker' \in Runs
      BY DEF MarkDeploymentError, Shape, Types, Data, WorkerTo, Runs, WorkerSteps, WorkerHeld
    <2> QED
      BY <2>1, <2>2 DEF MarkDeploymentError, Shape, Types, Data
  <1>2. \/ lock' = lock /\ (worker'.pc \in WorkerHeld <=> worker.pc \in WorkerHeld)
        \/ lock = NoOne /\ lock' = Worker /\ worker'.pc \in WorkerHeld
        \/ lock = Worker /\ lock' = NoOne /\ worker'.pc \notin WorkerHeld
    BY WorkerLock DEF MarkDeploymentError, Shape, Types, Data, Runs, WorkerAt, WorkerTo, Leave, WorkerHeld, NoRun
  <1> QED
    BY <1>1, <1>2, WorkerShape DEF MarkDeploymentError

LEMMA MarkServiceErrorShape ==
    ASSUME Constants, Shape, MarkServiceError
    PROVE  Shape' /\ \A c \in Clients : Place(c)' = Place(c) /\ Ahead(c)' = Ahead(c)
  <1>1. Data' /\ DOMAIN jobs \subseteq DOMAIN jobs'
    BY DEF MarkServiceError, Shape, Types, Data, Runs, WorkerAt, WorkerTo, WorkerSteps, WorkerHeld, Status, Statuses, Leave, NoOne
  <1>2. \/ lock' = lock /\ (worker'.pc \in WorkerHeld <=> worker.pc \in WorkerHeld)
        \/ lock = NoOne /\ lock' = Worker /\ worker'.pc \in WorkerHeld
        \/ lock = Worker /\ lock' = NoOne /\ worker'.pc \notin WorkerHeld
    BY WorkerLock DEF MarkServiceError, Shape, Types, Data, Runs, WorkerAt, WorkerTo, Leave, WorkerHeld, NoRun
  <1> QED
    BY <1>1, <1>2, WorkerShape DEF MarkServiceError

LEMMA MarkJobErroredShape ==
    ASSUME Constants, Shape, MarkJobErrored
    PROVE  Shape' /\ \A c \in Clients : Place(c)' = Place(c) /\ Ahead(c)' = Ahead(c)
  <1>1. Data' /\ DOMAIN jobs \subseteq DOMAIN jobs'
    BY DEF MarkJobErrored, Shape, Types, Data, Runs, WorkerAt, WorkerTo, WorkerSteps, WorkerHeld, Status, Statuses
  <1>2. \/ lock' = lock /\ (worker'.pc \in WorkerHeld <=> worker.pc \in WorkerHeld)
        \/ lock = NoOne /\ lock' = Worker /\ worker'.pc \in WorkerHeld
        \/ lock = Worker /\ lock' = NoOne /\ worker'.pc \notin WorkerHeld
    BY WorkerLock DEF MarkJobErrored, Shape, Types, Data, Runs, WorkerAt, WorkerTo, Leave, WorkerHeld, NoRun
  <1> QED
    BY <1>1, <1>2, WorkerShape DEF MarkJobErrored

LEMMA EndJobShape ==
    ASSUME Constants, Shape, EndJob
    PROVE  Shape' /\ \A c \in Clients : Place(c)' = Place(c) /\ Ahead(c)' = Ahead(c)
  <1>1. Data' /\ DOMAIN jobs \subseteq DOMAIN jobs'
    <2>1. jobs' \in Seq({"waiting", "active", "ended"}) /\ DOMAIN jobs' = DOMAIN jobs
      BY JobsRemoved DEF EndJob
    <2>2. worker' \in Runs
      BY DEF EndJob, NoRun, Runs, WorkerSteps
    <2> QED
      BY <2>1, <2>2 DEF EndJob, Shape, Types, Data
  <1>2. \/ lock' = lock /\ (worker'.pc \in WorkerHeld <=> worker.pc \in WorkerHeld)
        \/ lock = NoOne /\ lock' = Worker /\ worker'.pc \in WorkerHeld
        \/ lock = Worker /\ lock' = NoOne /\ worker'.pc \notin WorkerHeld
    BY WorkerLock DEF EndJob, Shape, Types, Data, Runs, WorkerAt, WorkerTo, Leave, WorkerHeld, NoRun
  <1> QED
    BY <1>1, <1>2, WorkerShape DEF EndJob

\* In the initial state nothing is under way.
LEMMA InitShape == ASSUME Constants, Init PROVE Shape
  <1>1. Data
    <2>1. Rest \in Requests /\ Missing \in Files /\ Down \in Stacks
      BY RestType DEF Missing, Down, Files, Stacks
    <2>2. NoRun \in Runs
      BY DEF NoRun, Runs, WorkerSteps
    <2>3. <<>> \in Seq({"running", "done", "error", "cancelled"}) /\ <<>> \in Seq({"waiting", "active", "ended"})
      OBVIOUS
    <2> QED
      BY <2>1, <2>2, <2>3 DEF Init, Data, Statuses
  <1>2. Types
    BY <1>1, RestType DEF Init, Types
  <1>3. \A c \in Clients : req[c] = Rest /\ Place(c) = "rest"
    BY RestType DEF Init, Place
  <1>4. Paths
    BY <1>3, RestType, NoPath DEF Paths
  <1>5. Locked
    BY <1>3 DEF Init, Locked, Held, WorkerHeld, NoRun, Constants, NoOne, Worker
  <1> QED
    BY <1>2, <1>4, <1>5 DEF Shape

LEMMA NextShape == ASSUME Constants, Shape, [Next]_lifecycle PROVE Shape'
  <1>1. CASE UNCHANGED lifecycle
    BY <1>1 DEF lifecycle, Shape, Types, Data, Paths, Locked, Place
  <1>2. CASE Run
    BY <1>2, TakeJobShape, MarkRunningShape, RunLockedShape, ReadServiceShape, CreateDeploymentShape, BuildShape, MarkDeploymentDoneShape, MarkServiceDoneShape, NotifyShape, LogFailureShape, MarkDeploymentErrorShape, MarkServiceErrorShape, MarkJobErroredShape, EndJobShape DEF Run
  <1>3. ASSUME NEW c \in Clients, Procedure(c)
        PROVE  Shape'
    BY <1>3, BeginCallShape, LockShape, FindServiceShape, EnqueueShape, ListJobsShape, CheckNotActiveShape, DequeueShape, MarkIdleShape, MarkRowDoneShape, CheckNotRunningShape, HaltShape, StartStackShape, WriteStatusShape, InsertDomainShape, ReadDomainShape, RouteDomainShape, RecordShape, DeleteDomainRowShape, RestoreRecordShape, UndoRouteShape, UndoRecordShape, UndoRowShape, RemoveDomainsShape, RemoveStackShape, DropRowShape DEF Procedure
  <1> QED
    BY <1>1, <1>2, <1>3 DEF Next

\* In every state every variable has its type, every procedure is on its path, and
\* whoever is inside a transaction has the lock.
THEOREM ShapeKept == ASSUME Constants PROVE Spec => []Shape
  <1>1. Init => Shape
    BY InitShape
  <1>2. Shape /\ [Next]_lifecycle => Shape'
    BY NextShape
  <1> QED
    BY <1>1, <1>2, PTL DEF Spec

\* The type invariant that the runs check.
LEMMA ShapeTypes == ASSUME Constants, Shape PROVE TypeOK
  <1>1. Data /\ Paths /\ req \in [Clients -> Requests]
    BY DEF Shape, Types
  <1>2. /\ \A i \in DOMAIN deployments : deployments[i] \in {"running", "done", "error", "cancelled"}
        /\ \A i \in DOMAIN jobs : jobs[i] \in {"waiting", "active", "ended"}
    BY <1>1, ElementOfSeq DEF Data
  <1>3. \A c \in Clients : req[c].left \subseteq Domains /\ req[c].seen \subseteq DOMAIN jobs
    BY <1>1 DEF Requests, Paths
  <1> QED
    BY <1>1, <1>2, <1>3 DEF TypeOK, Data, Files, Stacks

\* In particular every variable has its type.
THEOREM TypesKept == ASSUME Constants PROVE Spec => []TypeOK
  <1>1. Shape => TypeOK
    BY ShapeTypes
  <1> QED
    BY <1>1, ShapeKept, PTL

-----------------------------------------------------------------------------
(* The status.                                                              *)

\* A procedure leaves the worker alone, and sets no status to "running".
LEMMA ProcedureStatus ==
    ASSUME Shape, NEW c \in Clients, Procedure(c)
    PROVE  /\ worker' = worker
           /\ service' = service \/ service'.status # "running"
  <1>1. CASE MarkIdle(c)
    BY <1>1 DEF MarkIdle, Shape, Types, Data
  <1>2. CASE WriteStatus(c)
    BY <1>2 DEF WriteStatus, Shape, Types, Data, Requests
  <1>3. CASE DropRow(c)
    BY <1>3 DEF DropRow
  <1>4. CASE BeginCall(c) \/ Lock(c) \/ Unlock(c) \/ FindService(c) \/ Enqueue(c) \/ ListJobs(c) \/ CheckNotActive(c) \/ Dequeue(c) \/ MarkRowDone(c) \/ CheckNotRunning(c) \/ Halt(c)
    BY <1>4 DEF BeginCall, Lock, Unlock, FindService, Enqueue, ListJobs, CheckNotActive, Dequeue, MarkRowDone, CheckNotRunning, Halt
  <1>5. CASE StartStack(c) \/ InsertDomain(c) \/ ReadDomain(c) \/ RouteDomain(c) \/ Record(c) \/ DeleteDomainRow(c) \/ RestoreRecord(c) \/ UndoRoute(c) \/ UndoRecord(c) \/ UndoRow(c) \/ RemoveDomains(c) \/ RemoveStack(c)
    BY <1>5 DEF StartStack, InsertDomain, ReadDomain, RouteDomain, Record, DeleteDomainRow, RestoreRecord, UndoRoute, UndoRecord, UndoRow, RemoveDomains, RemoveStack
  <1> QED
    BY <1>1, <1>2, <1>3, <1>4, <1>5 DEF Procedure

LEMMA NextStatus == ASSUME Constants, Shape, StatusInv, [Next]_lifecycle PROVE StatusInv'
  <1>1. CASE UNCHANGED lifecycle
    BY <1>1 DEF lifecycle, StatusInv
  <1>2. ASSUME NEW c \in Clients, Procedure(c)
        PROVE  StatusInv'
    BY <1>2, ProcedureStatus DEF StatusInv
  <1>3. worker \in Runs /\ service \in [exists : BOOLEAN, status : Statuses]
    BY DEF Shape, Types, Data
  <1>4. CASE TakeJob
    <2>1. worker'.pc = "running" /\ service' = service /\ worker.pc = "idle"
      BY <1>4, Taken DEF TakeJob, NoRun, WorkerAt
    <2> QED
      BY <2>1 DEF StatusInv
  <1>5. CASE MarkRunning
    BY <1>3, <1>5 DEF MarkRunning, StatusInv, Status, WorkerAt, WorkerTo, Leave, Runs
  <1>6. CASE RunLocked
    BY <1>3, <1>6 DEF RunLocked, StatusInv, Status, WorkerAt, WorkerTo, Leave, Runs
  <1>7. CASE ReadService
    BY <1>3, <1>7 DEF ReadService, StatusInv, Status, WorkerAt, WorkerTo, Leave, Runs
  <1>8. CASE CreateDeployment
    BY <1>3, <1>8 DEF CreateDeployment, StatusInv, Status, WorkerAt, WorkerTo, Leave, Runs
  <1>9. CASE Build
    BY <1>3, <1>9 DEF Build, StatusInv, Status, WorkerAt, WorkerTo, Leave, Runs
  <1>10. CASE MarkDeploymentDone
    BY <1>3, <1>10 DEF MarkDeploymentDone, StatusInv, Status, WorkerAt, WorkerTo, Leave, Runs
  <1>11. CASE MarkServiceDone
    BY <1>3, <1>11 DEF MarkServiceDone, StatusInv, Status, WorkerAt, WorkerTo, Leave, Runs
  <1>12. CASE Notify
    BY <1>3, <1>12 DEF Notify, StatusInv, Status, WorkerAt, WorkerTo, Leave, Runs
  <1>13. CASE LogFailure
    BY <1>3, <1>13 DEF LogFailure, StatusInv, Status, WorkerAt, WorkerTo, Leave, Runs
  <1>14. CASE MarkDeploymentError
    BY <1>3, <1>14 DEF MarkDeploymentError, StatusInv, Status, WorkerAt, WorkerTo, Leave, Runs
  <1>15. CASE MarkServiceError
    BY <1>3, <1>15 DEF MarkServiceError, StatusInv, Status, WorkerAt, WorkerTo, Leave, Runs
  <1>16. CASE MarkJobErrored
    BY <1>3, <1>16 DEF MarkJobErrored, StatusInv, Status, WorkerAt, WorkerTo, Leave, Runs
  <1>17. CASE EndJob
    BY <1>3, <1>17 DEF EndJob, StatusInv, Status, WorkerAt, WorkerTo, Leave, Runs, NoRun
  <1>18. CASE Run
    BY <1>18, <1>4, <1>5, <1>6, <1>7, <1>8, <1>9, <1>10, <1>11, <1>12, <1>13, <1>14, <1>15, <1>16, <1>17 DEF Run
  <1> QED
    BY <1>1, <1>2, <1>18 DEF Next

\* While the status says that a deployment is running, one is.
THEOREM RunningIsRun == ASSUME Constants PROVE Spec => []RunningMeansRun
  <1>1. Init => StatusInv
    BY DEF Init, StatusInv, NoRun
  <1>2. Shape /\ StatusInv /\ [Next]_lifecycle => StatusInv'
    BY NextStatus
  <1>3. StatusInv => RunningMeansRun
    BY DEF StatusInv, RunningMeansRun, WorkerAt
  <1> QED
    BY <1>1, <1>2, <1>3, ShapeKept, PTL DEF Spec

-----------------------------------------------------------------------------
(* What a step of a procedure can do: where it can go from where it is, what   *)
(* it may learn there, and what it may change.                               *)

Turns(c, next, n) ==
    \/ Follows(req[c].op, Place(c), Ahead(c), next) /\ n = Ahead(c) - 1
    \/ Place(c) \in {"findLocked", "insert", "readDomain", "route", "remove"} /\ next = "unlock" /\ n = 1
    \/ Place(c) \in {"find", "notActive", "dequeue", "notRunning"} /\ next = "rest" /\ n = 0
    \/ Place(c) = "dequeue" /\ next = "dequeue" /\ n = Ahead(c)
    \/ req[c].op = "delete" /\ Place(c) = "domains" /\ next = "lock" /\ n = 11
    \/ req[c].op = "addDomain" /\ Place(c) \in {"route", "record"} /\ next = "undoRoute" /\ n = 4
    \/ req[c].op \in {"removeDomain", "delete"} /\ Place(c) \in {"record", "row"} /\ next = "undoRoute" /\ n \in {2, 3}

Keeps(c, r) ==
    /\ r.op = req[c].op
    /\ Place(c) \notin {"find", "findLocked", "readDomain"} => r.read = req[c].read
    /\ Place(c) \notin {"notRunning", "domains"} => r.left = req[c].left
    /\ Place(c) # "domains" => r.domain = req[c].domain
    /\ Place(c) \notin {"listWaiting", "listAll", "notActive", "dequeue"} => r.seen = req[c].seen
    /\ Place(c) \notin {"halt", "start"} => r.write = req[c].write
    /\ Place(c) # "route" => r.applied = req[c].applied
    /\ Place(c) \notin {"undoRoute", "undoRecord"} => r.failed = req[c].failed

Turned(c) == \E r, next, n : Moved(c, r, next, n) /\ Turns(c, next, n) /\ Keeps(c, r)

Frame(c) ==
    /\ Place(c) \notin {"idle", "status", "dropRow"} => service' = service
    /\ Place(c) \notin {"enqueue", "dequeue"} => jobs' = jobs
    /\ Place(c) \notin {"insert", "row", "undoRow", "dropRow"} => domains' = domains
    /\ Place(c) \notin {"record", "restoreRecord", "undoRecord"} => records' = records
    /\ Place(c) \notin {"route", "undoRoute", "remove", "dropRow"} => file' = file
    /\ Place(c) \notin {"halt", "start", "route", "undoRoute", "remove"} => stack' = stack
    /\ Place(c) \notin {"lock", "unlock"} => lock' = lock
    /\ worker' = worker

LEMMA GoTurns ==
    ASSUME Constants, Shape, NEW c \in Clients, NEW step, At(c, step), NEW r \in Requests,
           r.todo = req[c].todo, Keeps(c, r), Go(c, r)
    PROVE  Turned(c)
  <1>1. PICK next : Follows(req[c].op, step, Ahead(c), next) /\ Moved(c, r, next, Ahead(c) - 1)
    BY StepMoves DEF Keeps
  <1>2. Place(c) = step
    BY AtStep
  <1>3. Turns(c, next, Ahead(c) - 1)
    BY <1>1, <1>2 DEF Turns
  <1> QED
    BY <1>1, <1>3 DEF Turned

LEMMA ContinueTurns ==
    ASSUME Constants, Shape, NEW c \in Clients, NEW step, At(c, step), Continue(c)
    PROVE  Turned(c)
  <1>1. req[c] \in Requests /\ Go(c, req[c]) /\ Keeps(c, req[c])
    BY AtStep DEF Continue, Keeps
  <1> QED
    BY <1>1, GoTurns

LEMMA AbortTurns ==
    ASSUME Constants, Shape, NEW c \in Clients,
           NEW step \in {"findLocked", "insert", "readDomain", "route", "remove", "find", "notActive", "dequeue",
                         "notRunning"},
           At(c, step), Abort(c)
    PROVE  Turned(c)
  <1>1. Place(c) = step /\ Keeps(c, req[c])
    BY AtStep DEF Keeps
  <1>2. CASE step \in Held
    <2>1. Moved(c, req[c], "unlock", 1) /\ Turns(c, "unlock", 1)
      BY <1>1, <1>2, AbortMoves DEF Turns, Held
    <2> QED
      BY <1>1, <2>1 DEF Turned
  <1>3. CASE step \notin Held
    <2>1. Moved(c, req[c], "rest", 0) /\ Turns(c, "rest", 0)
      BY <1>1, <1>3, AbortMoves DEF Turns, Held
    <2> QED
      BY <1>1, <2>1 DEF Turned
  <1> QED
    BY <1>2, <1>3

LEMMA JumpTurns ==
    ASSUME Constants, Shape, NEW c \in Clients, NEW r \in Requests, NEW todo, Path(r.op, todo), todo # <<>>,
           Jump(c, r, todo), Turns(c, Head(todo), Len(todo)), Keeps(c, r)
    PROVE  Turned(c)
  <1>1. Moved(c, r, Head(todo), Len(todo))
    BY JumpMoves DEF Shape
  <1> QED
    BY <1>1 DEF Turned

LEMMA LockTurns ==
    ASSUME Constants, Shape, NEW c \in Clients, Lock(c)
    PROVE  Turned(c) /\ Frame(c)
  <1>1. At(c, "lock")
    BY DEF Lock
  <1>2. Place(c) = "lock" /\ req[c] \in Requests
    BY <1>1, AtStep
  <1>3. Frame(c)
    BY <1>2 DEF Frame, Lock
  <1> QED
    BY <1>1, <1>3, ContinueTurns DEF Lock

LEMMA UnlockTurns ==
    ASSUME Constants, Shape, NEW c \in Clients, Unlock(c)
    PROVE  Turned(c) /\ Frame(c)
  <1>1. At(c, "unlock")
    BY DEF Unlock
  <1>2. Place(c) = "unlock" /\ req[c] \in Requests
    BY <1>1, AtStep
  <1>3. Frame(c)
    BY <1>2 DEF Frame, Unlock
  <1> QED
    BY <1>1, <1>3, ContinueTurns DEF Unlock

LEMMA FindServiceTurns ==
    ASSUME Constants, Shape, NEW c \in Clients, FindService(c)
    PROVE  Turned(c) /\ Frame(c)
  <1>1. PICK step \in {"find", "findLocked"} : At(c, step)
    BY DEF FindService
  <1>2. Place(c) = step /\ req[c] \in Requests
    BY <1>1, AtStep
  <1>3. Frame(c)
    BY <1>2 DEF Frame, FindService
  <1>4. CASE Go(c, [req[c] EXCEPT !.read = domains])
    <2>1. [req[c] EXCEPT !.read = domains] \in Requests /\ ([req[c] EXCEPT !.read = domains]).todo = req[c].todo /\ Keeps(c, [req[c] EXCEPT !.read = domains])
      BY <1>2 DEF Requests, Keeps, Shape, Types, Data
    <2> QED
      BY <1>1, <1>3, <1>4, <2>1, GoTurns
  <1>5. CASE Abort(c)
    BY <1>1, <1>3, <1>5, AbortTurns
  <1> QED
    BY <1>4, <1>5 DEF FindService

LEMMA EnqueueTurns ==
    ASSUME Constants, Shape, NEW c \in Clients, Enqueue(c)
    PROVE  Turned(c) /\ Frame(c)
  <1>1. At(c, "enqueue")
    BY DEF Enqueue
  <1>2. Place(c) = "enqueue" /\ req[c] \in Requests
    BY <1>1, AtStep
  <1>3. Frame(c)
    BY <1>2 DEF Frame, Enqueue
  <1> QED
    BY <1>1, <1>3, ContinueTurns DEF Enqueue

LEMMA ListJobsTurns ==
    ASSUME Constants, Shape, NEW c \in Clients, ListJobs(c)
    PROVE  Turned(c) /\ Frame(c)
  <1>1. PICK seen \in {Waiting, Unfinished}, step \in {"listWaiting", "listAll"} :
            At(c, step) /\ Go(c, [req[c] EXCEPT !.seen = seen])
    BY DEF ListJobs
  <1>2. Place(c) = step /\ req[c] \in Requests
    BY <1>1, AtStep
  <1>3. Frame(c)
    BY <1>2 DEF Frame, ListJobs
  <1>4. seen \subseteq Nat
    BY DEF Shape, Types, Data, Waiting, Unfinished
  <1>5. [req[c] EXCEPT !.seen = seen] \in Requests /\ [req[c] EXCEPT !.seen = seen].todo = req[c].todo
        /\ Keeps(c, [req[c] EXCEPT !.seen = seen])
    BY <1>2, <1>4 DEF Requests, Keeps
  <1> QED
    BY <1>1, <1>3, <1>5, GoTurns

LEMMA CheckNotActiveTurns ==
    ASSUME Constants, Shape, NEW c \in Clients, CheckNotActive(c)
    PROVE  Turned(c) /\ Frame(c)
  <1>1. At(c, "notActive")
    BY DEF CheckNotActive
  <1>2. Place(c) = "notActive" /\ req[c] \in Requests
    BY <1>1, AtStep
  <1>3. Frame(c)
    BY <1>2 DEF Frame, CheckNotActive
  <1>4. CASE Abort(c)
    BY <1>1, <1>3, <1>4, AbortTurns
  <1>5. CASE Go(c, [req[c] EXCEPT !.seen = @ \cap Waiting])
    <2>1. [req[c] EXCEPT !.seen = @ \cap Waiting] \in Requests /\ ([req[c] EXCEPT !.seen = @ \cap Waiting]).todo = req[c].todo /\ Keeps(c, [req[c] EXCEPT !.seen = @ \cap Waiting])
      BY <1>2 DEF Requests, Keeps, Shape, Types, Data
    <2> QED
      BY <1>1, <1>3, <1>5, <2>1, GoTurns
  <1> QED
    BY <1>4, <1>5 DEF CheckNotActive

LEMMA DequeueTurns ==
    ASSUME Constants, Shape, NEW c \in Clients, Dequeue(c)
    PROVE  Turned(c) /\ Frame(c)
  <1>1. At(c, "dequeue")
    BY DEF Dequeue
  <1>2. Place(c) = "dequeue" /\ req[c] \in Requests /\ Path(req[c].op, req[c].todo) /\ req[c].todo # <<>>
    BY <1>1, AtStep
  <1>3. Frame(c)
    BY <1>2 DEF Frame, Dequeue
  <1>4. CASE Continue(c)
    BY <1>1, <1>3, <1>4, ContinueTurns
  <1>5. CASE Abort(c)
    BY <1>1, <1>3, <1>5, AbortTurns
  <1>6. ASSUME NEW i, Set(c, [req[c] EXCEPT !.seen = @ \ {i}])
        PROVE  Turned(c)
    <2> DEFINE r == [req[c] EXCEPT !.seen = @ \ {i}]
    <2>1. r \in Requests /\ r.op = req[c].op /\ r.todo = req[c].todo /\ Keeps(c, r) /\ Set(c, r)
      BY <1>2, <1>6 DEF Requests, Keeps
    <2> HIDE DEF r
    <2>2. Moved(c, r, "dequeue", Ahead(c))
      BY <1>2, <2>1, SetMoves DEF Shape
    <2>3. Turns(c, "dequeue", Ahead(c))
      BY <1>2 DEF Turns
    <2> QED
      BY <2>1, <2>2, <2>3 DEF Turned
  <1> QED
    BY <1>3, <1>4, <1>5, <1>6 DEF Dequeue

LEMMA MarkIdleTurns ==
    ASSUME Constants, Shape, NEW c \in Clients, MarkIdle(c)
    PROVE  Turned(c) /\ Frame(c)
  <1>1. At(c, "idle")
    BY DEF MarkIdle
  <1>2. Place(c) = "idle" /\ req[c] \in Requests
    BY <1>1, AtStep
  <1>3. Frame(c)
    BY <1>2 DEF Frame, MarkIdle
  <1> QED
    BY <1>1, <1>3, ContinueTurns DEF MarkIdle

LEMMA MarkRowDoneTurns ==
    ASSUME Constants, Shape, NEW c \in Clients, MarkRowDone(c)
    PROVE  Turned(c) /\ Frame(c)
  <1>1. At(c, "rowDone")
    BY DEF MarkRowDone
  <1>2. Place(c) = "rowDone" /\ req[c] \in Requests
    BY <1>1, AtStep
  <1>3. Frame(c)
    BY <1>2 DEF Frame, MarkRowDone
  <1> QED
    BY <1>1, <1>3, ContinueTurns DEF MarkRowDone

LEMMA CheckNotRunningTurns ==
    ASSUME Constants, Shape, NEW c \in Clients, CheckNotRunning(c)
    PROVE  Turned(c) /\ Frame(c)
  <1>1. At(c, "notRunning")
    BY DEF CheckNotRunning
  <1>2. Place(c) = "notRunning" /\ req[c] \in Requests
    BY <1>1, AtStep
  <1>3. Frame(c)
    BY <1>2 DEF Frame, CheckNotRunning
  <1>4. CASE Go(c, [req[c] EXCEPT !.left = domains])
    <2>1. [req[c] EXCEPT !.left = domains] \in Requests /\ ([req[c] EXCEPT !.left = domains]).todo = req[c].todo /\ Keeps(c, [req[c] EXCEPT !.left = domains])
      BY <1>2 DEF Requests, Keeps, Shape, Types, Data
    <2> QED
      BY <1>1, <1>3, <1>4, <2>1, GoTurns
  <1>5. CASE Abort(c)
    BY <1>1, <1>3, <1>5, AbortTurns
  <1> QED
    BY <1>4, <1>5 DEF CheckNotRunning

LEMMA HaltTurns ==
    ASSUME Constants, Shape, NEW c \in Clients, Halt(c)
    PROVE  Turned(c) /\ Frame(c)
  <1>1. At(c, "halt")
    BY DEF Halt
  <1>2. Place(c) = "halt" /\ req[c] \in Requests
    BY <1>1, AtStep
  <1>3. Frame(c)
    BY <1>2 DEF Frame, Halt
  <1>4. CASE Go(c, [req[c] EXCEPT !.write = "idle"])
    <2>1. [req[c] EXCEPT !.write = "idle"] \in Requests /\ ([req[c] EXCEPT !.write = "idle"]).todo = req[c].todo /\ Keeps(c, [req[c] EXCEPT !.write = "idle"])
      BY <1>2 DEF Requests, Keeps, Shape, Types, Data
    <2> QED
      BY <1>1, <1>3, <1>4, <2>1, GoTurns
  <1>5. CASE Go(c, [req[c] EXCEPT !.write = "error"])
    <2>1. [req[c] EXCEPT !.write = "error"] \in Requests /\ ([req[c] EXCEPT !.write = "error"]).todo = req[c].todo /\ Keeps(c, [req[c] EXCEPT !.write = "error"])
      BY <1>2 DEF Requests, Keeps, Shape, Types, Data
    <2> QED
      BY <1>1, <1>3, <1>5, <2>1, GoTurns
  <1> QED
    BY <1>4, <1>5 DEF Halt

LEMMA StartStackTurns ==
    ASSUME Constants, Shape, NEW c \in Clients, StartStack(c)
    PROVE  Turned(c) /\ Frame(c)
  <1>1. At(c, "start")
    BY DEF StartStack
  <1>2. Place(c) = "start" /\ req[c] \in Requests
    BY <1>1, AtStep
  <1>3. Frame(c)
    BY <1>2 DEF Frame, StartStack
  <1>4. CASE Go(c, [req[c] EXCEPT !.write = "done"])
    <2>1. [req[c] EXCEPT !.write = "done"] \in Requests /\ ([req[c] EXCEPT !.write = "done"]).todo = req[c].todo /\ Keeps(c, [req[c] EXCEPT !.write = "done"])
      BY <1>2 DEF Requests, Keeps, Shape, Types, Data
    <2> QED
      BY <1>1, <1>3, <1>4, <2>1, GoTurns
  <1>5. CASE Go(c, [req[c] EXCEPT !.write = "idle"])
    <2>1. [req[c] EXCEPT !.write = "idle"] \in Requests /\ ([req[c] EXCEPT !.write = "idle"]).todo = req[c].todo /\ Keeps(c, [req[c] EXCEPT !.write = "idle"])
      BY <1>2 DEF Requests, Keeps, Shape, Types, Data
    <2> QED
      BY <1>1, <1>3, <1>5, <2>1, GoTurns
  <1> QED
    BY <1>4, <1>5 DEF StartStack

LEMMA WriteStatusTurns ==
    ASSUME Constants, Shape, NEW c \in Clients, WriteStatus(c)
    PROVE  Turned(c) /\ Frame(c)
  <1>1. At(c, "status")
    BY DEF WriteStatus
  <1>2. Place(c) = "status" /\ req[c] \in Requests
    BY <1>1, AtStep
  <1>3. Frame(c)
    BY <1>2 DEF Frame, WriteStatus
  <1> QED
    BY <1>1, <1>3, ContinueTurns DEF WriteStatus

LEMMA InsertDomainTurns ==
    ASSUME Constants, Shape, NEW c \in Clients, InsertDomain(c)
    PROVE  Turned(c) /\ Frame(c)
  <1>1. At(c, "insert")
    BY DEF InsertDomain
  <1>2. Place(c) = "insert" /\ req[c] \in Requests
    BY <1>1, AtStep
  <1>3. Frame(c)
    BY <1>2 DEF Frame, InsertDomain
  <1>4. CASE Continue(c)
    BY <1>1, <1>3, <1>4, ContinueTurns
  <1>5. CASE Abort(c)
    BY <1>1, <1>3, <1>5, AbortTurns
  <1> QED
    BY <1>4, <1>5 DEF InsertDomain

LEMMA ReadDomainTurns ==
    ASSUME Constants, Shape, NEW c \in Clients, ReadDomain(c)
    PROVE  Turned(c) /\ Frame(c)
  <1>1. At(c, "readDomain")
    BY DEF ReadDomain
  <1>2. Place(c) = "readDomain" /\ req[c] \in Requests
    BY <1>1, AtStep
  <1>3. Frame(c)
    BY <1>2 DEF Frame, ReadDomain
  <1>4. CASE Go(c, [req[c] EXCEPT !.read = domains])
    <2>1. [req[c] EXCEPT !.read = domains] \in Requests /\ ([req[c] EXCEPT !.read = domains]).todo = req[c].todo /\ Keeps(c, [req[c] EXCEPT !.read = domains])
      BY <1>2 DEF Requests, Keeps, Shape, Types, Data
    <2> QED
      BY <1>1, <1>3, <1>4, <2>1, GoTurns
  <1>5. CASE Abort(c)
    BY <1>1, <1>3, <1>5, AbortTurns
  <1> QED
    BY <1>4, <1>5 DEF ReadDomain

LEMMA RouteDomainTurns ==
    ASSUME Constants, Shape, NEW c \in Clients, RouteDomain(c)
    PROVE  Turned(c) /\ Frame(c)
  <1>1. At(c, "route")
    BY DEF RouteDomain
  <1>2. Place(c) = "route" /\ req[c] \in Requests
    BY <1>1, AtStep
  <1>3. Frame(c)
    BY <1>2 DEF Frame, RouteDomain
  <1>4. PICK outcome :
            IF outcome # "failed" THEN Go(c, [req[c] EXCEPT !.applied = outcome = "applied"])
            ELSE IF req[c].op = "addDomain" THEN Jump(c, [req[c] EXCEPT !.applied = FALSE], UndoAdding)
            ELSE Abort(c)
    BY DEF RouteDomain
  <1>5. CASE outcome # "failed"
    <2>1. [req[c] EXCEPT !.applied = outcome = "applied"] \in Requests
          /\ [req[c] EXCEPT !.applied = outcome = "applied"].todo = req[c].todo
          /\ Keeps(c, [req[c] EXCEPT !.applied = outcome = "applied"])
      BY <1>2 DEF Requests, Keeps
    <2> QED
      BY <1>1, <1>3, <1>4, <1>5, <2>1, GoTurns
  <1>6. CASE outcome = "failed" /\ req[c].op = "addDomain"
    <2> DEFINE r == [req[c] EXCEPT !.applied = FALSE]
    <2>1. r \in Requests /\ r.op = "addDomain" /\ Keeps(c, r) /\ Jump(c, r, UndoAdding)
      BY <1>2, <1>4, <1>6 DEF Requests, Keeps
    <2> HIDE DEF r
    <2>2. Turns(c, Head(UndoAdding), Len(UndoAdding))
      BY <1>2, <1>6, UndoPaths DEF Turns
    <2> QED
      BY <1>3, <2>1, <2>2, UndoPaths, JumpTurns
  <1>7. CASE outcome = "failed" /\ req[c].op # "addDomain"
    BY <1>1, <1>3, <1>4, <1>7, AbortTurns
  <1> QED
    BY <1>5, <1>6, <1>7

\* How a mutation turns back.
LEMMA BackTurns ==
    ASSUME Constants, Shape, NEW c \in Clients, req[c].op \in {"removeDomain", "delete"}, Place(c) \in {"record", "row"},
           NEW todo \in {<<"undoRoute", "unlock">>, <<"undoRoute", "restoreRecord", "unlock">>},
           Jump(c, req[c], todo)
    PROVE  Turned(c)
  <1>1. Path(req[c].op, todo) /\ todo # <<>> /\ Head(todo) = "undoRoute" /\ Len(todo) \in {2, 3}
    BY UndoPaths
  <1>2. Turns(c, Head(todo), Len(todo)) /\ Keeps(c, req[c]) /\ req[c] \in Requests
    BY <1>1 DEF Turns, Keeps, Shape, Types
  <1> QED
    BY <1>1, <1>2, JumpTurns

LEMMA RecordTurns ==
    ASSUME Constants, Shape, NEW c \in Clients, Record(c)
    PROVE  Turned(c) /\ Frame(c)
  <1>1. At(c, "record")
    BY DEF Record
  <1>2. Place(c) = "record" /\ req[c] \in Requests /\ req[c].op \in {"addDomain", "removeDomain", "delete"}
    BY <1>1, AtStep, RouteOp
  <1>3. Frame(c)
    BY <1>2 DEF Frame, Record
  <1>4. CASE Continue(c)
    BY <1>1, <1>3, <1>4, ContinueTurns
  <1>5. CASE Jump(c, req[c], UndoAdding) /\ req[c].op = "addDomain"
    <2>1. Turns(c, Head(UndoAdding), Len(UndoAdding)) /\ Keeps(c, req[c])
      BY <1>2, <1>5, UndoPaths DEF Turns, Keeps
    <2> QED
      BY <1>2, <1>3, <1>5, <2>1, UndoPaths, JumpTurns
  <1>6. CASE Jump(c, req[c], <<"undoRoute", "unlock">>) /\ req[c].op # "addDomain"
    BY <1>2, <1>3, <1>6, BackTurns
  <1> QED
    BY <1>4, <1>5, <1>6 DEF Record

LEMMA DeleteDomainRowTurns ==
    ASSUME Constants, Shape, NEW c \in Clients, DeleteDomainRow(c)
    PROVE  Turned(c) /\ Frame(c)
  <1>1. At(c, "row")
    BY DEF DeleteDomainRow
  <1>2. Place(c) = "row" /\ req[c].op \in {"removeDomain", "delete"}
    BY <1>1, AtStep, RouteOp
  <1>3. Frame(c)
    BY <1>2 DEF Frame, DeleteDomainRow
  <1>4. CASE Continue(c)
    BY <1>1, <1>3, <1>4, ContinueTurns
  <1>5. CASE Jump(c, req[c], <<"undoRoute", "restoreRecord", "unlock">>)
    BY <1>2, <1>3, <1>5, BackTurns
  <1> QED
    BY <1>4, <1>5 DEF DeleteDomainRow

LEMMA RestoreRecordTurns ==
    ASSUME Constants, Shape, NEW c \in Clients, RestoreRecord(c)
    PROVE  Turned(c) /\ Frame(c)
  <1>1. At(c, "restoreRecord")
    BY DEF RestoreRecord
  <1>2. Place(c) = "restoreRecord" /\ req[c] \in Requests
    BY <1>1, AtStep
  <1>3. Frame(c)
    BY <1>2 DEF Frame, RestoreRecord
  <1> QED
    BY <1>1, <1>3, ContinueTurns DEF RestoreRecord

LEMMA UndoRouteTurns ==
    ASSUME Constants, Shape, NEW c \in Clients, UndoRoute(c)
    PROVE  Turned(c) /\ Frame(c)
  <1>1. At(c, "undoRoute")
    BY DEF UndoRoute
  <1>2. Place(c) = "undoRoute" /\ req[c] \in Requests
    BY <1>1, AtStep
  <1>3. Frame(c)
    BY <1>2 DEF Frame, UndoRoute
  <1>4. CASE Continue(c)
    BY <1>1, <1>3, <1>4, ContinueTurns
  <1>5. ASSUME NEW outcome, Go(c, [req[c] EXCEPT !.failed = @ \/ outcome = "failed"])
        PROVE  Turned(c)
    <2>1. [req[c] EXCEPT !.failed = @ \/ outcome = "failed"] \in Requests
          /\ [req[c] EXCEPT !.failed = @ \/ outcome = "failed"].todo = req[c].todo
          /\ Keeps(c, [req[c] EXCEPT !.failed = @ \/ outcome = "failed"])
      BY <1>2 DEF Requests, Keeps
    <2> QED
      BY <1>1, <1>5, <2>1, GoTurns
  <1> QED
    BY <1>3, <1>4, <1>5 DEF UndoRoute

LEMMA UndoRecordTurns ==
    ASSUME Constants, Shape, NEW c \in Clients, UndoRecord(c)
    PROVE  Turned(c) /\ Frame(c)
  <1>1. At(c, "undoRecord")
    BY DEF UndoRecord
  <1>2. Place(c) = "undoRecord" /\ req[c] \in Requests
    BY <1>1, AtStep
  <1>3. Frame(c)
    BY <1>2 DEF Frame, UndoRecord
  <1>4. CASE Continue(c)
    BY <1>1, <1>3, <1>4, ContinueTurns
  <1>5. CASE Go(c, [req[c] EXCEPT !.failed = TRUE])
    <2>1. [req[c] EXCEPT !.failed = TRUE] \in Requests /\ ([req[c] EXCEPT !.failed = TRUE]).todo = req[c].todo /\ Keeps(c, [req[c] EXCEPT !.failed = TRUE])
      BY <1>2 DEF Requests, Keeps, Shape, Types, Data
    <2> QED
      BY <1>1, <1>3, <1>5, <2>1, GoTurns
  <1> QED
    BY <1>4, <1>5 DEF UndoRecord

LEMMA UndoRowTurns ==
    ASSUME Constants, Shape, NEW c \in Clients, UndoRow(c)
    PROVE  Turned(c) /\ Frame(c)
  <1>1. At(c, "undoRow")
    BY DEF UndoRow
  <1>2. Place(c) = "undoRow" /\ req[c] \in Requests
    BY <1>1, AtStep
  <1>3. Frame(c)
    BY <1>2 DEF Frame, UndoRow
  <1> QED
    BY <1>1, <1>3, ContinueTurns DEF UndoRow

LEMMA RemoveDomainsTurns ==
    ASSUME Constants, Shape, NEW c \in Clients, RemoveDomains(c)
    PROVE  Turned(c) /\ Frame(c)
  <1>1. At(c, "domains")
    BY DEF RemoveDomains
  <1>2. /\ Place(c) = "domains" /\ req[c] \in Requests /\ Path(req[c].op, req[c].todo) /\ req[c].todo # <<>>
        /\ Head(req[c].todo) = "domains" /\ Len(req[c].todo) = 5 /\ req[c].op = "delete"
    <2>1. \E next : Follows(req[c].op, "domains", Ahead(c), next)
      BY <1>1, AtStep
    <2>2. req[c].op = "delete" /\ Ahead(c) = 5
      BY <2>1 DEF Follows
    <2> QED
      BY <1>1, <2>2, AtStep
  <1>3. Frame(c)
    BY <1>2 DEF Frame, RemoveDomains
  <1>4. CASE Continue(c)
    BY <1>1, <1>3, <1>4, ContinueTurns
  <1>5. ASSUME NEW d \in req[c].left, Jump(c, [req[c] EXCEPT !.domain = d, !.left = @ \ {d}], RemovalSteps \o req[c].todo)
        PROVE  Turned(c)
    <2> DEFINE r == [req[c] EXCEPT !.domain = d, !.left = @ \ {d}]
    <2>1. r \in Requests /\ r.op = req[c].op /\ Keeps(c, r)
      BY <1>2 DEF Requests, Keeps
    <2>2. PICK todo : todo = RemovalSteps \o req[c].todo
      OBVIOUS
    <2>3. Path(r.op, todo) /\ todo # <<>> /\ Head(todo) = "lock" /\ Len(todo) = 11
      BY <1>2, <2>1, <2>2, RemovalPath
    <2>4. Jump(c, r, todo)
      BY <1>5, <2>2
    <2> HIDE DEF r
    <2>5. Turns(c, Head(todo), Len(todo))
      BY <1>2, <2>3 DEF Turns
    <2> QED
      BY <2>1, <2>3, <2>4, <2>5, JumpTurns
  <1> QED
    BY <1>3, <1>4, <1>5 DEF RemoveDomains

LEMMA RemoveStackTurns ==
    ASSUME Constants, Shape, NEW c \in Clients, RemoveStack(c)
    PROVE  Turned(c) /\ Frame(c)
  <1>1. At(c, "remove")
    BY DEF RemoveStack
  <1>2. Place(c) = "remove" /\ req[c] \in Requests
    BY <1>1, AtStep
  <1>3. Frame(c)
    BY <1>2 DEF Frame, RemoveStack
  <1>4. CASE Continue(c)
    BY <1>1, <1>3, <1>4, ContinueTurns
  <1>5. CASE Abort(c)
    BY <1>1, <1>3, <1>5, AbortTurns
  <1> QED
    BY <1>4, <1>5 DEF RemoveStack

LEMMA DropRowTurns ==
    ASSUME Constants, Shape, NEW c \in Clients, DropRow(c)
    PROVE  Turned(c) /\ Frame(c)
  <1>1. At(c, "dropRow")
    BY DEF DropRow
  <1>2. Place(c) = "dropRow" /\ req[c] \in Requests
    BY <1>1, AtStep
  <1>3. Frame(c)
    BY <1>2 DEF Frame, DropRow
  <1> QED
    BY <1>1, <1>3, ContinueTurns DEF DropRow

\* Every step but the first of a procedure, and the first.
LEMMA ProcedureTurns ==
    ASSUME Constants, Shape, NEW c \in Clients, Procedure(c), ~ BeginCall(c)
    PROVE  Turned(c) /\ Frame(c)
  BY LockTurns, UnlockTurns, FindServiceTurns, EnqueueTurns, ListJobsTurns, CheckNotActiveTurns, DequeueTurns, MarkIdleTurns, MarkRowDoneTurns, CheckNotRunningTurns, HaltTurns, StartStackTurns, WriteStatusTurns, InsertDomainTurns, ReadDomainTurns, RouteDomainTurns, RecordTurns, DeleteDomainRowTurns, RestoreRecordTurns, UndoRouteTurns, UndoRecordTurns, UndoRowTurns, RemoveDomainsTurns, RemoveStackTurns, DropRowTurns DEF Procedure

LEMMA BeginMoves ==
    ASSUME Constants, Shape, NEW c \in Clients, BeginCall(c)
    PROVE  \E op \in Operations : \E r, next, n :
              /\ Moved(c, r, next, n) /\ Clear(op) /\ Place(c) = "rest"
              /\ r.op = op /\ r.left = {} /\ r.seen = {} /\ r.write = "idle" /\ ~ r.applied /\ ~ r.failed
              /\ next \in {"find", "lock", "listWaiting"}
              /\ next = "lock" => op \in {"stop", "start", "addDomain", "removeDomain"}
              /\ op = "addDomain" => r.domain \notin domains /\ \A q \in Clients : req[q].op = op => req[q].domain # r.domain
  <1>1. PICK op \in Operations, d \in Domains :
            /\ Clear(op) /\ Jump(c, [Rest EXCEPT !.op = op, !.domain = d], Program(op))
            /\ op = "addDomain" => d \notin domains /\ \A q \in Clients : req[q].op = op => req[q].domain # d
    BY DEF BeginCall
  <1> DEFINE r == [Rest EXCEPT !.op = op, !.domain = d]
  <1>2. /\ r \in Requests /\ r.op = op /\ r.domain = d /\ r.left = {} /\ r.seen = {} /\ r.write = "idle"
        /\ ~ r.applied /\ ~ r.failed
    BY RestType DEF Requests, Rest
  <1> HIDE DEF r
  <1>3. op \in Procedures
    BY DEF Constants
  <1>4. /\ Path(op, Program(op)) /\ Program(op) # <<>> /\ Head(Program(op)) \in {"find", "lock", "listWaiting"}
        /\ Head(Program(op)) = "lock" => op \in {"stop", "start", "addDomain", "removeDomain"}
    BY <1>3, ProgramPath DEF Procedures
  <1>5. Jump(c, r, Program(op))
    BY <1>1 DEF r
  <1>6. Moved(c, r, Head(Program(op)), Len(Program(op)))
    BY <1>2, <1>4, <1>5, JumpMoves DEF Shape
  <1>7. Place(c) = "rest"
    BY DEF BeginCall, Place
  <1> QED
    BY <1>1, <1>2, <1>4, <1>6, <1>7

\* Which action a step is.
LEMMA StepAction ==
    ASSUME Shape, NEW c \in Clients, Procedure(c)
    PROVE  /\ Place(c) = "rest" => BeginCall(c)
           /\ Place(c) = "lock" => Lock(c)
           /\ Place(c) = "unlock" => Unlock(c)
           /\ Place(c) = "enqueue" => Enqueue(c)
           /\ Place(c) = "notActive" => CheckNotActive(c)
           /\ Place(c) = "dequeue" => Dequeue(c)
           /\ Place(c) = "idle" => MarkIdle(c)
           /\ Place(c) = "rowDone" => MarkRowDone(c)
           /\ Place(c) = "notRunning" => CheckNotRunning(c)
           /\ Place(c) = "halt" => Halt(c)
           /\ Place(c) = "start" => StartStack(c)
           /\ Place(c) = "status" => WriteStatus(c)
           /\ Place(c) = "insert" => InsertDomain(c)
           /\ Place(c) = "readDomain" => ReadDomain(c)
           /\ Place(c) = "route" => RouteDomain(c)
           /\ Place(c) = "record" => Record(c)
           /\ Place(c) = "row" => DeleteDomainRow(c)
           /\ Place(c) = "restoreRecord" => RestoreRecord(c)
           /\ Place(c) = "undoRoute" => UndoRoute(c)
           /\ Place(c) = "undoRecord" => UndoRecord(c)
           /\ Place(c) = "undoRow" => UndoRow(c)
           /\ Place(c) = "domains" => RemoveDomains(c)
           /\ Place(c) = "remove" => RemoveStack(c)
           /\ Place(c) = "dropRow" => DropRow(c)
           /\ Place(c) \in {"find", "findLocked"} => FindService(c)
           /\ Place(c) \in {"listWaiting", "listAll"} => ListJobs(c)
  <1>1. CASE BeginCall(c)
    BY <1>1 DEF BeginCall, Place
  <1>2. CASE Lock(c)
    <2>1. Place(c) = "lock"
      BY <1>2, AtStep DEF Lock
    <2> QED
      BY <1>2, <2>1
  <1>3. CASE Unlock(c)
    <2>1. Place(c) = "unlock"
      BY <1>3, AtStep DEF Unlock
    <2> QED
      BY <1>3, <2>1
  <1>4. CASE Enqueue(c)
    <2>1. Place(c) = "enqueue"
      BY <1>4, AtStep DEF Enqueue
    <2> QED
      BY <1>4, <2>1
  <1>5. CASE CheckNotActive(c)
    <2>1. Place(c) = "notActive"
      BY <1>5, AtStep DEF CheckNotActive
    <2> QED
      BY <1>5, <2>1
  <1>6. CASE Dequeue(c)
    <2>1. Place(c) = "dequeue"
      BY <1>6, AtStep DEF Dequeue
    <2> QED
      BY <1>6, <2>1
  <1>7. CASE MarkIdle(c)
    <2>1. Place(c) = "idle"
      BY <1>7, AtStep DEF MarkIdle
    <2> QED
      BY <1>7, <2>1
  <1>8. CASE MarkRowDone(c)
    <2>1. Place(c) = "rowDone"
      BY <1>8, AtStep DEF MarkRowDone
    <2> QED
      BY <1>8, <2>1
  <1>9. CASE CheckNotRunning(c)
    <2>1. Place(c) = "notRunning"
      BY <1>9, AtStep DEF CheckNotRunning
    <2> QED
      BY <1>9, <2>1
  <1>10. CASE Halt(c)
    <2>1. Place(c) = "halt"
      BY <1>10, AtStep DEF Halt
    <2> QED
      BY <1>10, <2>1
  <1>11. CASE StartStack(c)
    <2>1. Place(c) = "start"
      BY <1>11, AtStep DEF StartStack
    <2> QED
      BY <1>11, <2>1
  <1>12. CASE WriteStatus(c)
    <2>1. Place(c) = "status"
      BY <1>12, AtStep DEF WriteStatus
    <2> QED
      BY <1>12, <2>1
  <1>13. CASE InsertDomain(c)
    <2>1. Place(c) = "insert"
      BY <1>13, AtStep DEF InsertDomain
    <2> QED
      BY <1>13, <2>1
  <1>14. CASE ReadDomain(c)
    <2>1. Place(c) = "readDomain"
      BY <1>14, AtStep DEF ReadDomain
    <2> QED
      BY <1>14, <2>1
  <1>15. CASE RouteDomain(c)
    <2>1. Place(c) = "route"
      BY <1>15, AtStep DEF RouteDomain
    <2> QED
      BY <1>15, <2>1
  <1>16. CASE Record(c)
    <2>1. Place(c) = "record"
      BY <1>16, AtStep DEF Record
    <2> QED
      BY <1>16, <2>1
  <1>17. CASE DeleteDomainRow(c)
    <2>1. Place(c) = "row"
      BY <1>17, AtStep DEF DeleteDomainRow
    <2> QED
      BY <1>17, <2>1
  <1>18. CASE RestoreRecord(c)
    <2>1. Place(c) = "restoreRecord"
      BY <1>18, AtStep DEF RestoreRecord
    <2> QED
      BY <1>18, <2>1
  <1>19. CASE UndoRoute(c)
    <2>1. Place(c) = "undoRoute"
      BY <1>19, AtStep DEF UndoRoute
    <2> QED
      BY <1>19, <2>1
  <1>20. CASE UndoRecord(c)
    <2>1. Place(c) = "undoRecord"
      BY <1>20, AtStep DEF UndoRecord
    <2> QED
      BY <1>20, <2>1
  <1>21. CASE UndoRow(c)
    <2>1. Place(c) = "undoRow"
      BY <1>21, AtStep DEF UndoRow
    <2> QED
      BY <1>21, <2>1
  <1>22. CASE RemoveDomains(c)
    <2>1. Place(c) = "domains"
      BY <1>22, AtStep DEF RemoveDomains
    <2> QED
      BY <1>22, <2>1
  <1>23. CASE RemoveStack(c)
    <2>1. Place(c) = "remove"
      BY <1>23, AtStep DEF RemoveStack
    <2> QED
      BY <1>23, <2>1
  <1>24. CASE DropRow(c)
    <2>1. Place(c) = "dropRow"
      BY <1>24, AtStep DEF DropRow
    <2> QED
      BY <1>24, <2>1
  <1>25. CASE FindService(c)
    <2>1. Place(c) \in {"find", "findLocked"}
      BY <1>25, AtStep DEF FindService
    <2> QED
      BY <1>25, <2>1
  <1>26. CASE ListJobs(c)
    <2>1. Place(c) \in {"listWaiting", "listAll"}
      BY <1>26, AtStep DEF ListJobs
    <2> QED
      BY <1>26, <2>1
  <1> QED
    BY <1>1, <1>2, <1>3, <1>4, <1>5, <1>6, <1>7, <1>8, <1>9, <1>10, <1>11, <1>12, <1>13, <1>14, <1>15, <1>16, <1>17, <1>18, <1>19, <1>20, <1>21, <1>22, <1>23, <1>24, <1>25, <1>26 DEF Procedure
-----------------------------------------------------------------------------
(* What a deletion leaves.                                                  *)

\* Where a procedure is says which it is.
LEMMA PlaceFollows ==
    ASSUME Shape, NEW c \in Clients
    PROVE  \/ Place(c) = "rest" /\ req[c] = Rest /\ Ahead(c) = 0
           \/ \E next : Follows(req[c].op, Place(c), Ahead(c), next)
  <1>1. CASE req[c].todo = <<>>
    BY <1>1 DEF Shape, Paths, Place, Ahead
  <1>2. CASE req[c].todo # <<>>
    <2>1. At(c, Place(c))
      BY <1>2 DEF At, Place
    <2> QED
      BY <2>1, AtStep
  <1> QED
    BY <1>1, <1>2

LEMMA PlaceOp ==
    ASSUME Shape, NEW c \in Clients
    PROVE  /\ Place(c) \in {"listAll", "notActive", "notRunning", "domains", "remove", "dropRow"} => req[c].op = "delete"
           /\ Place(c) = "dequeue" /\ Ahead(c) = 6 => req[c].op = "delete"
           /\ Place(c) = "unlock" /\ Ahead(c) \in {2, 6} => req[c].op = "delete"
           /\ Place(c) = "enqueue" => req[c].op = "deploy"
           /\ Place(c) \in {"insert", "undoRecord", "undoRow"} => req[c].op = "addDomain"
           /\ Place(c) \in {"readDomain", "row", "restoreRecord"} => req[c].op \in {"removeDomain", "delete"}
           /\ Place(c) \in {"route", "record", "undoRoute"} => req[c].op \in {"addDomain", "removeDomain", "delete"}
           /\ Place(c) \in {"lock", "remove"} /\ Ahead(c) \in {3, 4} => req[c].op = "delete"
           /\ req[c].op = "delete" /\ Place(c) = "route" => Ahead(c) = 9
           /\ req[c].op = "delete" /\ Place(c) = "record" => Ahead(c) = 8
           /\ req[c].op = "delete" /\ Place(c) = "row" => Ahead(c) = 7
  <1>1. CASE Place(c) = "rest"
    BY <1>1
  <1>2. PICK next : Place(c) # "rest" => Follows(req[c].op, Place(c), Ahead(c), next)
    BY PlaceFollows
  <1>3. CASE Place(c) \in {"listAll", "notActive", "notRunning", "domains", "remove", "dropRow", "dequeue", "unlock", "enqueue"}
    BY <1>2, <1>3 DEF Follows
  <1>4. CASE Place(c) \in {"insert", "undoRecord", "undoRow", "readDomain", "row", "restoreRecord", "route", "record",
                           "undoRoute", "lock"}
    BY <1>2, <1>4 DEF Follows
  <1> QED
    BY <1>1, <1>3, <1>4

\* Only one procedure has the lock, and then the worker has not.
LEMMA OneHolder ==
    ASSUME Constants, Shape, NEW c \in Clients, Place(c) \in Held
    PROVE  /\ \A q \in Clients \ {c} : Place(q) \notin Held
           /\ worker.pc \notin WorkerHeld
  BY DEF Shape, Locked, Constants

\* The worker's job is active, and no other is.
LEMMA NextJobOfWorker == ASSUME Constants, Shape, JobOfWorker, [Next]_lifecycle PROVE JobOfWorker'
  <1>1. CASE UNCHANGED lifecycle
    BY <1>1 DEF lifecycle, JobOfWorker
  <1>2. jobs \in Seq({"waiting", "active", "ended"}) /\ DOMAIN jobs = 1..Len(jobs) /\ Len(jobs) \in Nat /\ worker \in Runs
    BY DEF Shape, Types, Data
  <1>3. ASSUME NEW c \in Clients, Procedure(c)
        PROVE  JobOfWorker'
    <2>1. CASE Enqueue(c)
      <3>1. /\ worker' = worker /\ DOMAIN jobs \subseteq DOMAIN jobs'
            /\ \A i \in DOMAIN jobs : jobs'[i] = jobs[i]
            /\ \A i \in DOMAIN jobs' \ DOMAIN jobs : jobs'[i] = "waiting"
        BY <1>2, <2>1 DEF Enqueue
      <3> QED
        BY <3>1 DEF JobOfWorker
    <2>2. CASE Dequeue(c)
      <3>1. worker' = worker
        BY <2>2 DEF Dequeue
      <3>2. CASE jobs' = jobs
        BY <3>1, <3>2 DEF JobOfWorker
      <3>3. ASSUME NEW i, jobs[i] # "active", jobs' = [jobs EXCEPT ![i] = "ended"]
            PROVE  JobOfWorker'
        <4>1. /\ DOMAIN jobs' = DOMAIN jobs
              /\ \A k \in DOMAIN jobs : jobs'[k] = IF k = i THEN "ended" ELSE jobs[k]
          BY <3>3, JobsRemoved
        <4> QED
          BY <3>1, <3>3, <4>1 DEF JobOfWorker
      <3> QED
        BY <2>2, <3>2, <3>3 DEF Dequeue
    <2>3. CASE BeginCall(c)
      BY <2>3 DEF BeginCall, JobOfWorker
    <2>4. CASE ~ Enqueue(c) /\ ~ Dequeue(c) /\ ~ BeginCall(c)
      <3>1. Place(c) \notin {"enqueue", "dequeue"}
        BY <1>3, <2>4, StepAction
      <3>2. jobs' = jobs /\ worker' = worker
        BY <1>3, <2>4, <3>1, ProcedureTurns DEF Frame
      <3> QED
        BY <3>2 DEF JobOfWorker
    <2> QED
      BY <2>1, <2>2, <2>3, <2>4
  <1>4. CASE TakeJob
    <2>1. PICK i \in DOMAIN jobs :
              /\ DOMAIN jobs' = DOMAIN jobs /\ \A k \in DOMAIN jobs : jobs'[k] = IF k = i THEN "active" ELSE jobs[k]
              /\ worker' = [NoRun EXCEPT !.pc = "running", !.job = i]
      BY <1>4, Taken
    <2>2. worker'.pc = "running" /\ worker'.job = i
      BY <2>1 DEF NoRun
    <2>3. \A k \in DOMAIN jobs : jobs[k] # "active"
      BY <1>4 DEF JobOfWorker, TakeJob, WorkerAt
    <2> QED
      BY <2>1, <2>2, <2>3 DEF JobOfWorker
  <1>5. CASE EndJob
    <2>1. /\ DOMAIN jobs' = DOMAIN jobs /\ worker'.pc = "idle"
          /\ \A k \in DOMAIN jobs : jobs'[k] = IF k = worker.job THEN "ended" ELSE jobs[k]
      BY <1>5, JobsRemoved DEF EndJob, NoRun
    <2>2. \A k \in DOMAIN jobs : jobs'[k] # "active"
      BY <1>5, <2>1 DEF JobOfWorker
    <2> QED
      BY <2>1, <2>2 DEF JobOfWorker
  <1>6. CASE MarkRunning \/ RunLocked \/ ReadService \/ CreateDeployment \/ Build \/ MarkDeploymentDone \/ MarkServiceDone \/ Notify \/ LogFailure \/ MarkDeploymentError \/ MarkServiceError \/ MarkJobErrored
    <2>1. jobs' = jobs /\ worker'.job = worker.job /\ worker'.pc # "idle" /\ worker.pc # "idle"
      BY <1>2, <1>6 DEF MarkRunning, RunLocked, ReadService, CreateDeployment, Build, MarkDeploymentDone, MarkServiceDone, Notify, LogFailure, MarkDeploymentError, MarkServiceError, MarkJobErrored, WorkerAt, WorkerTo, Leave, Runs
    <2> QED
      BY <2>1 DEF JobOfWorker
  <1>7. CASE Run
    BY <1>4, <1>5, <1>6, <1>7 DEF Run
  <1> QED
    BY <1>1, <1>3, <1>7 DEF Next

\* A step of the worker leaves the procedures and the domains alone, and no job begins.
LEMMA RunFrame ==
    ASSUME Constants, Shape, Run
    PROVE  /\ req' = req /\ domains' = domains /\ records' = records /\ service'.exists = service.exists
           /\ \A c \in Clients : Place(c)' = Place(c) /\ Ahead(c)' = Ahead(c)
           /\ Unfinished' \subseteq Unfinished
           /\ Build \/ (file' = file /\ stack' = stack)
  <1>1. \A c \in Clients : Place(c)' = Place(c) /\ Ahead(c)' = Ahead(c)
    BY TakeJobShape, MarkRunningShape, RunLockedShape, ReadServiceShape, CreateDeploymentShape, BuildShape, MarkDeploymentDoneShape, MarkServiceDoneShape, NotifyShape, LogFailureShape, MarkDeploymentErrorShape, MarkServiceErrorShape, MarkJobErroredShape, EndJobShape DEF Run
  <1>2. service \in [exists : BOOLEAN, status : Statuses]
    BY DEF Shape, Types, Data
  <1>3. CASE TakeJob
    <2>1. PICK i \in DOMAIN jobs :
              /\ DOMAIN jobs' = DOMAIN jobs /\ \A k \in DOMAIN jobs : jobs'[k] = IF k = i THEN "active" ELSE jobs[k]
              /\ jobs[i] = "waiting"
      BY <1>3, Taken
    <2>2. Unfinished' \subseteq Unfinished
      BY <2>1 DEF Unfinished
    <2> QED
      BY <1>1, <1>3, <2>2 DEF TakeJob
  <1>4. CASE EndJob
    <2>1. /\ DOMAIN jobs' = DOMAIN jobs
          /\ \A k \in DOMAIN jobs : jobs'[k] = IF k = worker.job THEN "ended" ELSE jobs[k]
      BY <1>4, JobsRemoved DEF EndJob
    <2>2. Unfinished' \subseteq Unfinished
      BY <2>1 DEF Unfinished
    <2> QED
      BY <1>1, <1>4, <2>2 DEF EndJob
  <1>5. CASE MarkRunning \/ RunLocked \/ ReadService \/ CreateDeployment \/ Build \/ MarkDeploymentDone \/ MarkServiceDone \/ Notify \/ LogFailure \/ MarkDeploymentError \/ MarkServiceError \/ MarkJobErrored
    <2>1. /\ jobs' = jobs /\ req' = req /\ domains' = domains /\ records' = records
          /\ Build \/ (file' = file /\ stack' = stack)
      BY <1>5 DEF MarkRunning, RunLocked, ReadService, CreateDeployment, Build, MarkDeploymentDone, MarkServiceDone, Notify, LogFailure, MarkDeploymentError, MarkServiceError, MarkJobErrored
    <2>2. service'.exists = service.exists
      BY <1>2, <1>5 DEF MarkRunning, RunLocked, ReadService, CreateDeployment, Build, MarkDeploymentDone, MarkServiceDone, Notify, LogFailure, MarkDeploymentError, MarkServiceError, MarkJobErrored, Status
    <2>3. Unfinished' = Unfinished
      BY <2>1 DEF Unfinished
    <2> QED
      BY <1>1, <2>1, <2>2, <2>3
  <1> QED
    BY <1>3, <1>4, <1>5 DEF Run

\* The row is deleted by the last step of a deletion, and no other.
LEMMA RowStays ==
    ASSUME Constants, Shape, NEW c \in Clients, Procedure(c)
    PROVE  IF Place(c) = "dropRow" THEN ~ service'.exists /\ req[c].op = "delete" ELSE service'.exists = service.exists
  <1>1. CASE Place(c) = "dropRow"
    <2>1. DropRow(c)
      BY <1>1, StepAction
    <2> QED
      BY <1>1, <2>1, PlaceOp DEF DropRow
  <1>2. CASE Place(c) = "rest"
    <2>1. BeginCall(c)
      BY <1>2, StepAction
    <2> QED
      BY <1>2, <2>1 DEF BeginCall
  <1>3. CASE Place(c) \in {"idle", "status"}
    <2>1. MarkIdle(c) \/ WriteStatus(c)
      BY <1>3, StepAction
    <2>2. service \in [exists : BOOLEAN, status : Statuses]
      BY DEF Shape, Types, Data
    <2> QED
      BY <1>3, <2>1, <2>2 DEF MarkIdle, WriteStatus
  <1>4. CASE Place(c) \notin {"dropRow", "rest", "idle", "status"}
    <2>1. ~ BeginCall(c)
      BY <1>4 DEF BeginCall, Place
    <2> QED
      BY <1>4, <2>1, ProcedureTurns DEF Frame
  <1> QED
    BY <1>1, <1>2, <1>3, <1>4

\* A deletion and a deployment or a new domain are not under way together.
LEMMA NextApart == ASSUME Constants, Exclusive, Shape, Apart, [Next]_lifecycle PROVE Apart'
  <1>1. CASE UNCHANGED lifecycle
    BY <1>1 DEF lifecycle, Apart, Deleting
  <1>2. CASE Run
    BY <1>2, RunFrame DEF Apart, Deleting
  <1>3. ASSUME NEW c \in Clients, BeginCall(c)
        PROVE  Apart'
    <2>1. PICK op, r, next, n : op \in Operations /\ Moved(c, r, next, n) /\ Clear(op) /\ r.op = op /\ next # "rest"
      BY <1>3, BeginMoves
    <2>2. req'[c].op = op /\ \A q \in Clients \ {c} : req'[q] = req[q]
      BY <2>1 DEF Moved
    <2>3. service' = service /\ service.exists
      BY <1>3 DEF BeginCall
    <2>4. op \in {"deploy", "addDomain"} => ~ Deleting
      BY <2>1 DEF Clear
    <2>5. op = "delete" => \A q \in Clients : req[q].op \notin {"deploy", "addDomain"}
      BY <2>1 DEF Clear
    <2> QED
      BY <2>2, <2>3, <2>4, <2>5 DEF Apart, Deleting
  <1>4. ASSUME NEW c \in Clients, Procedure(c), ~ BeginCall(c)
        PROVE  Apart'
    <2>1. PICK r, next, n : Moved(c, r, next, n) /\ Keeps(c, r)
      BY <1>4, ProcedureTurns DEF Turned
    <2>2. req'[c].op \in {req[c].op, "none"} /\ \A q \in Clients \ {c} : req'[q] = req[q]
      BY <2>1, RestType DEF Moved, Keeps
    <2>3. CASE Place(c) = "dropRow"
      <3>1. Deleting
        BY <1>4, <2>3, RowStays DEF Deleting
      <3>2. \A q \in Clients : req[q].op \notin {"deploy", "addDomain"}
        BY <3>1 DEF Apart
      <3> QED
        BY <2>2, <3>2 DEF Apart
    <2>4. CASE Place(c) # "dropRow"
      <3>1. service'.exists = service.exists
        BY <1>4, <2>4, RowStays
      <3> QED
        BY <2>2, <3>1 DEF Apart, Deleting
    <2> QED
      BY <2>3, <2>4
  <1> QED
    BY <1>1, <1>2, <1>3, <1>4 DEF Next

-----------------------------------------------------------------------------
(* Where the steps lead that say more than where they are.                   *)

LEMMA GoesOn ==
    ASSUME Constants, Shape, NEW c \in Clients, NEW step, At(c, step), NEW r \in Requests,
           r.todo = req[c].todo, Keeps(c, r), Go(c, r)
    PROVE  \E next : Follows(req[c].op, step, Ahead(c), next) /\ Moved(c, r, next, Ahead(c) - 1)
  BY StepMoves DEF Keeps

LEMMA DequeueMoves ==
    ASSUME Constants, Shape, NEW c \in Clients, Dequeue(c)
    PROVE  \/ /\ req[c].seen = {} /\ jobs' = jobs
              /\ \E next : Follows(req[c].op, "dequeue", Ahead(c), next) /\ Moved(c, req[c], next, Ahead(c) - 1)
           \/ jobs' = jobs /\ Moved(c, req[c], "rest", 0)
           \/ \E i \in req[c].seen : \E r :
                /\ jobs[i] # "active" /\ jobs' = [jobs EXCEPT ![i] = "ended"]
                /\ Moved(c, r, "dequeue", Ahead(c)) /\ r.op = req[c].op /\ r.left = req[c].left
                /\ r.seen = req[c].seen \ {i}
  <1>1. At(c, "dequeue")
    BY DEF Dequeue
  <1>2. Place(c) = "dequeue" /\ req[c] \in Requests /\ Path(req[c].op, req[c].todo) /\ req[c].todo # <<>>
    BY <1>1, AtStep
  <1>3. CASE req[c].seen = {} /\ Continue(c) /\ UNCHANGED jobs
    BY <1>1, <1>3, ContinueMoves
  <1>4. CASE Abort(c) /\ UNCHANGED jobs
    <2>1. Moved(c, req[c], "rest", 0)
      BY <1>1, <1>4, AbortMoves DEF Held
    <2> QED
      BY <1>4, <2>1
  <1>5. ASSUME NEW i \in req[c].seen, jobs[i] # "active", jobs' = [jobs EXCEPT ![i] = "ended"],
               Set(c, [req[c] EXCEPT !.seen = @ \ {i}])
        PROVE  \E r : /\ Moved(c, r, "dequeue", Ahead(c)) /\ r.op = req[c].op /\ r.left = req[c].left
                      /\ r.seen = req[c].seen \ {i}
    <2> DEFINE r == [req[c] EXCEPT !.seen = @ \ {i}]
    <2>1. /\ r \in Requests /\ r.op = req[c].op /\ r.todo = req[c].todo /\ r.left = req[c].left
          /\ r.seen = req[c].seen \ {i} /\ Set(c, r)
      BY <1>2, <1>5 DEF Requests
    <2> HIDE DEF r
    <2>2. Moved(c, r, "dequeue", Ahead(c))
      BY <1>2, <2>1, SetMoves DEF Shape
    <2> QED
      BY <2>1, <2>2
  <1> QED
    BY <1>3, <1>4, <1>5 DEF Dequeue

LEMMA ListAllMoves ==
    ASSUME Constants, Shape, NEW c \in Clients, ListJobs(c), Place(c) = "listAll"
    PROVE  \E r : Moved(c, r, "notActive", 7) /\ Keeps(c, r) /\ r.seen = Unfinished
  <1>1. At(c, "listAll") /\ Go(c, [req[c] EXCEPT !.seen = Unfinished])
    BY DEF ListJobs, At, Place
  <1> DEFINE r == [req[c] EXCEPT !.seen = Unfinished]
  <1>2. r \in Requests /\ r.todo = req[c].todo /\ Keeps(c, r) /\ r.seen = Unfinished /\ Go(c, r)
    <2>1. Unfinished \subseteq Nat
      BY DEF Shape, Types, Data, Unfinished
    <2> QED
      BY <1>1, <2>1 DEF Shape, Types, Requests, Keeps
  <1> HIDE DEF r
  <1>3. PICK next : Follows(req[c].op, "listAll", Ahead(c), next) /\ Moved(c, r, next, Ahead(c) - 1)
    BY <1>1, <1>2, GoesOn
  <1>4. next = "notActive" /\ Ahead(c) = 8
    BY <1>3 DEF Follows
  <1> QED
    BY <1>2, <1>3, <1>4

LEMMA CheckNotActiveMoves ==
    ASSUME Constants, Shape, NEW c \in Clients, CheckNotActive(c)
    PROVE  \/ Moved(c, req[c], "rest", 0)
           \/ /\ \A i \in req[c].seen : jobs[i] # "active"
              /\ \E r : Moved(c, r, "dequeue", 6) /\ Keeps(c, r) /\ r.seen = req[c].seen \cap Waiting
  <1>1. At(c, "notActive")
    BY DEF CheckNotActive
  <1>2. Place(c) = "notActive" /\ req[c] \in Requests
    BY <1>1, AtStep
  <1>3. CASE Abort(c)
    BY <1>1, <1>3, AbortMoves DEF Held
  <1>4. CASE Go(c, [req[c] EXCEPT !.seen = @ \cap Waiting]) /\ \A i \in req[c].seen : jobs[i] # "active"
    <2> DEFINE r == [req[c] EXCEPT !.seen = @ \cap Waiting]
    <2>1. r \in Requests /\ r.todo = req[c].todo /\ Keeps(c, r) /\ r.seen = req[c].seen \cap Waiting /\ Go(c, r)
      BY <1>2, <1>4 DEF Requests, Keeps
    <2> HIDE DEF r
    <2>2. PICK next : Follows(req[c].op, "notActive", Ahead(c), next) /\ Moved(c, r, next, Ahead(c) - 1)
      BY <1>1, <2>1, GoesOn
    <2>3. next = "dequeue" /\ Ahead(c) = 7
      BY <2>2 DEF Follows
    <2> QED
      BY <1>4, <2>1, <2>2, <2>3
  <1> QED
    BY <1>3, <1>4 DEF CheckNotActive

LEMMA CheckNotRunningMoves ==
    ASSUME Constants, Shape, NEW c \in Clients, CheckNotRunning(c)
    PROVE  \/ Moved(c, req[c], "rest", 0)
           \/ \E r : Moved(c, r, "listAll", 8) /\ r.op = "delete" /\ r.left = domains
  <1>1. At(c, "notRunning")
    BY DEF CheckNotRunning
  <1>2. Place(c) = "notRunning" /\ req[c] \in Requests
    BY <1>1, AtStep
  <1>3. CASE Abort(c)
    BY <1>1, <1>3, AbortMoves DEF Held
  <1>4. CASE Go(c, [req[c] EXCEPT !.left = domains])
    <2> DEFINE r == [req[c] EXCEPT !.left = domains]
    <2>1. r \in Requests /\ r.todo = req[c].todo /\ Keeps(c, r) /\ r.left = domains /\ Go(c, r)
      BY <1>2, <1>4 DEF Requests, Keeps, Shape, Types, Data
    <2> HIDE DEF r
    <2>2. PICK next : Follows(req[c].op, "notRunning", Ahead(c), next) /\ Moved(c, r, next, Ahead(c) - 1)
      BY <1>1, <2>1, GoesOn
    <2>3. next = "listAll" /\ Ahead(c) = 9 /\ req[c].op = "delete"
      BY <2>2 DEF Follows
    <2> QED
      BY <2>1, <2>2, <2>3 DEF Keeps
  <1> QED
    BY <1>3, <1>4 DEF CheckNotRunning

LEMMA RemoveDomainsMoves ==
    ASSUME Constants, Shape, NEW c \in Clients, RemoveDomains(c)
    PROVE  \/ req[c].left = {} /\ Moved(c, req[c], "lock", 4)
           \/ \E d \in req[c].left : \E r :
                Moved(c, r, "lock", 11) /\ r.op = "delete" /\ r.domain = d /\ r.left = req[c].left \ {d}
  <1>1. At(c, "domains")
    BY DEF RemoveDomains
  <1>2. /\ Place(c) = "domains" /\ req[c] \in Requests /\ Path(req[c].op, req[c].todo) /\ req[c].todo # <<>>
        /\ Head(req[c].todo) = "domains" /\ Len(req[c].todo) = 5 /\ req[c].op = "delete"
    <2>1. \E next : Follows(req[c].op, "domains", Ahead(c), next)
      BY <1>1, AtStep
    <2>2. req[c].op = "delete" /\ Ahead(c) = 5
      BY <2>1 DEF Follows
    <2> QED
      BY <1>1, <2>2, AtStep
  <1>3. CASE req[c].left = {} /\ Continue(c)
    <2>1. PICK next : Follows(req[c].op, "domains", Ahead(c), next) /\ Moved(c, req[c], next, Ahead(c) - 1)
      BY <1>1, <1>3, ContinueMoves
    <2>2. next = "lock" /\ Ahead(c) = 5
      BY <2>1 DEF Follows
    <2> QED
      BY <1>3, <2>1, <2>2
  <1>4. ASSUME NEW d \in req[c].left, Jump(c, [req[c] EXCEPT !.domain = d, !.left = @ \ {d}], RemovalSteps \o req[c].todo)
        PROVE  \E r : Moved(c, r, "lock", 11) /\ r.op = "delete" /\ r.domain = d /\ r.left = req[c].left \ {d}
    <2> DEFINE r == [req[c] EXCEPT !.domain = d, !.left = @ \ {d}]
    <2>1. r \in Requests /\ r.op = req[c].op /\ r.domain = d /\ r.left = req[c].left \ {d}
      BY <1>2 DEF Requests
    <2>2. PICK todo : todo = RemovalSteps \o req[c].todo
      OBVIOUS
    <2>3. Path(r.op, todo) /\ todo # <<>> /\ Head(todo) = "lock" /\ Len(todo) = 11
      BY <1>2, <2>1, <2>2, RemovalPath
    <2>4. Jump(c, r, todo)
      BY <1>4, <2>2
    <2> HIDE DEF r
    <2>5. Moved(c, r, Head(todo), Len(todo))
      BY <2>1, <2>3, <2>4, JumpMoves DEF Shape
    <2> QED
      BY <1>2, <2>1, <2>3, <2>5
  <1> QED
    BY <1>3, <1>4 DEF RemoveDomains

LEMMA DeleteDomainRowMoves ==
    ASSUME Constants, Shape, NEW c \in Clients, DeleteDomainRow(c)
    PROVE  \/ domains' = domains \ {req[c].domain} /\ Moved(c, req[c], "unlock", Ahead(c) - 1)
           \/ domains' = domains /\ Moved(c, req[c], "undoRoute", 3)
  <1>1. At(c, "row")
    BY DEF DeleteDomainRow
  <1>2. Place(c) = "row" /\ req[c] \in Requests /\ req[c].op \in {"removeDomain", "delete"}
    BY <1>1, AtStep, RouteOp
  <1>3. CASE domains' = domains \ {req[c].domain} /\ Continue(c)
    <2>1. PICK next : Follows(req[c].op, "row", Ahead(c), next) /\ Moved(c, req[c], next, Ahead(c) - 1)
      BY <1>1, <1>3, ContinueMoves
    <2>2. next = "unlock"
      BY <2>1 DEF Follows
    <2> QED
      BY <1>3, <2>1, <2>2
  <1>4. CASE UNCHANGED domains /\ Jump(c, req[c], <<"undoRoute", "restoreRecord", "unlock">>)
    <2>1. PICK todo : todo = <<"undoRoute", "restoreRecord", "unlock">>
      OBVIOUS
    <2>2. Path(req[c].op, todo) /\ todo # <<>> /\ Head(todo) = "undoRoute" /\ Len(todo) = 3
      BY <1>2, <2>1, UndoPaths
    <2>3. Jump(c, req[c], todo)
      BY <1>4, <2>1
    <2>4. Moved(c, req[c], "undoRoute", 3)
      BY <1>2, <2>2, <2>3, JumpMoves DEF Shape
    <2> QED
      BY <1>4, <2>4
  <1> QED
    BY <1>3, <1>4 DEF DeleteDomainRow

LEMMA ReadDomainMoves ==
    ASSUME Constants, Shape, NEW c \in Clients, ReadDomain(c)
    PROVE  \/ Moved(c, req[c], "unlock", 1)
           \/ /\ req[c].domain \in domains
              /\ \E r : Moved(c, r, "route", Ahead(c) - 1) /\ Keeps(c, r) /\ r.read = domains
  <1>1. At(c, "readDomain")
    BY DEF ReadDomain
  <1>2. Place(c) = "readDomain" /\ req[c] \in Requests
    BY <1>1, AtStep
  <1>3. CASE Abort(c)
    BY <1>1, <1>3, AbortMoves DEF Held
  <1>4. CASE req[c].domain \in domains /\ Go(c, [req[c] EXCEPT !.read = domains])
    <2> DEFINE r == [req[c] EXCEPT !.read = domains]
    <2>1. r \in Requests /\ r.todo = req[c].todo /\ Keeps(c, r) /\ r.read = domains /\ Go(c, r)
      BY <1>2, <1>4 DEF Requests, Keeps, Shape, Types, Data
    <2> HIDE DEF r
    <2>2. PICK next : Follows(req[c].op, "readDomain", Ahead(c), next) /\ Moved(c, r, next, Ahead(c) - 1)
      BY <1>1, <2>1, GoesOn
    <2>3. next = "route"
      BY <2>2 DEF Follows
    <2> QED
      BY <1>4, <2>1, <2>2, <2>3
  <1> QED
    BY <1>3, <1>4 DEF ReadDomain

LEMMA RecordMoves ==
    ASSUME Constants, Shape, NEW c \in Clients, Record(c)
    PROVE  \/ /\ req[c].op = "addDomain" /\ records' = records \cup {req[c].domain}
              /\ Moved(c, req[c], "unlock", 1)
           \/ /\ req[c].op # "addDomain" /\ records' = records \ {req[c].domain}
              /\ Moved(c, req[c], "row", Ahead(c) - 1)
           \/ /\ records' = records
              /\ Moved(c, req[c], "undoRoute", IF req[c].op = "addDomain" THEN 4 ELSE 2)
  <1>1. At(c, "record")
    BY DEF Record
  <1>2. Place(c) = "record" /\ req[c] \in Requests /\ req[c].op \in {"addDomain", "removeDomain", "delete"}
    BY <1>1, AtStep, RouteOp
  <1>3. CASE Continue(c) /\ records' = IF req[c].op = "addDomain" THEN records \cup {req[c].domain}
                                       ELSE records \ {req[c].domain}
    <2>1. PICK next : Follows(req[c].op, "record", Ahead(c), next) /\ Moved(c, req[c], next, Ahead(c) - 1)
      BY <1>1, <1>3, ContinueMoves
    <2>2. IF req[c].op = "addDomain" THEN next = "unlock" /\ Ahead(c) = 2 ELSE next = "row"
      BY <2>1 DEF Follows
    <2> QED
      BY <1>3, <2>1, <2>2
  <1>4. CASE Jump(c, req[c], UndoAdding) /\ req[c].op = "addDomain" /\ UNCHANGED records
    <2>1. Moved(c, req[c], "undoRoute", 4)
      BY <1>2, <1>4, UndoPaths, JumpMoves DEF Shape
    <2> QED
      BY <1>4, <2>1
  <1>5. CASE Jump(c, req[c], <<"undoRoute", "unlock">>) /\ req[c].op # "addDomain" /\ UNCHANGED records
    <2>1. PICK todo : todo = <<"undoRoute", "unlock">>
      OBVIOUS
    <2>2. Path(req[c].op, todo) /\ todo # <<>> /\ Head(todo) = "undoRoute" /\ Len(todo) = 2
      BY <1>2, <1>5, <2>1, UndoPaths
    <2>3. Jump(c, req[c], todo)
      BY <1>5, <2>1
    <2>4. Moved(c, req[c], "undoRoute", 2)
      BY <1>2, <2>2, <2>3, JumpMoves DEF Shape
    <2> QED
      BY <1>5, <2>4
  <1> QED
    BY <1>3, <1>4, <1>5 DEF Record

LEMMA UndoRecordMoves ==
    ASSUME Constants, Shape, NEW c \in Clients, UndoRecord(c)
    PROVE  \/ records' = records \ {req[c].domain} /\ Moved(c, req[c], "undoRow", 2)
           \/ /\ "undo" \in Failing /\ records' = records
              /\ \E r : Moved(c, r, "undoRow", 2) /\ Keeps(c, r) /\ r.failed
  <1>1. At(c, "undoRecord")
    BY DEF UndoRecord
  <1>2. Place(c) = "undoRecord" /\ req[c] \in Requests
    BY <1>1, AtStep
  <1>3. CASE records' = records \ {req[c].domain} /\ Continue(c)
    <2>1. PICK next : Follows(req[c].op, "undoRecord", Ahead(c), next) /\ Moved(c, req[c], next, Ahead(c) - 1)
      BY <1>1, <1>3, ContinueMoves
    <2>2. next = "undoRow" /\ Ahead(c) = 3
      BY <2>1 DEF Follows
    <2> QED
      BY <1>3, <2>1, <2>2
  <1>4. CASE "undo" \in Failing /\ Go(c, [req[c] EXCEPT !.failed = TRUE]) /\ UNCHANGED records
    <2> DEFINE r == [req[c] EXCEPT !.failed = TRUE]
    <2>1. r \in Requests /\ r.todo = req[c].todo /\ Keeps(c, r) /\ r.failed /\ Go(c, r)
      BY <1>2, <1>4 DEF Requests, Keeps
    <2> HIDE DEF r
    <2>2. PICK next : Follows(req[c].op, "undoRecord", Ahead(c), next) /\ Moved(c, r, next, Ahead(c) - 1)
      BY <1>1, <2>1, GoesOn
    <2>3. next = "undoRow" /\ Ahead(c) = 3
      BY <2>2 DEF Follows
    <2> QED
      BY <1>4, <2>1, <2>2, <2>3
  <1> QED
    BY <1>3, <1>4 DEF UndoRecord

-----------------------------------------------------------------------------
(* A deletion has no job left when it removes the rest.                      *)

\* No step of a procedure but the one that adds a job adds one.
LEMMA UnfinishedShrinks ==
    ASSUME Constants, Shape, NEW c \in Clients, Procedure(c), Place(c) # "enqueue"
    PROVE  Unfinished' \subseteq Unfinished
  <1>1. CASE jobs' = jobs
    BY <1>1 DEF Unfinished
  <1>2. CASE jobs' # jobs
    <2>1. Place(c) = "dequeue"
      <3>1. CASE BeginCall(c)
        BY <1>2, <3>1 DEF BeginCall
      <3>2. CASE ~ BeginCall(c)
        BY <1>2, <3>2, ProcedureTurns DEF Frame
      <3> QED
        BY <3>1, <3>2
    <2>2. Dequeue(c)
      BY <2>1, StepAction
    <2>3. PICK i : jobs' = [jobs EXCEPT ![i] = "ended"]
      BY <1>2, <2>2 DEF Dequeue
    <2>4. DOMAIN jobs' = DOMAIN jobs /\ \A k \in DOMAIN jobs : jobs'[k] = IF k = i THEN "ended" ELSE jobs[k]
      BY <2>3, JobsRemoved
    <2> QED
      BY <2>4 DEF Unfinished
  <1> QED
    BY <1>1, <1>2

\* A deletion comes to have no jobs by the second removal of jobs.
LEMMA EmptiedTurns ==
    ASSUME Shape, NEW c \in Clients, NEW r, NEW next, NEW n, Moved(c, r, next, n), Turns(c, next, n), Keeps(c, r),
           Emptied(c)'
    PROVE  Emptied(c) \/ (Place(c) = "dequeue" /\ Ahead(c) = 6 /\ next = "domains")
  <1>1. next \in Held \cup {"domains", "lock", "dropRow"} /\ req[c].op = "delete"
    BY DEF Moved, Keeps, Emptied, Held
  <1>2. CASE Follows(req[c].op, Place(c), Ahead(c), next)
    <2>1. CASE Place(c) \in {"find", "enqueue", "idle", "rowDone", "listWaiting", "dequeue", "notRunning", "listAll",
                             "notActive"}
      BY <1>1, <1>2, <2>1 DEF Follows, Held
    <2>2. CASE Place(c) \in Held \cup {"domains", "lock", "dropRow"}
      BY <1>1, <2>2 DEF Emptied
    <2>3. Place(c) \in Steps
      BY <1>2 DEF Follows, Steps
    <2> QED
      BY <2>1, <2>2, <2>3 DEF Steps, Held
  <1>3. CASE ~ Follows(req[c].op, Place(c), Ahead(c), next)
    BY <1>1, <1>3 DEF Turns, Emptied, Held
  <1> QED
    BY <1>2, <1>3

LEMMA NextNoJobs == ASSUME Constants, Shape, Apart, NoJobs, [Next]_lifecycle PROVE NoJobs'
  <1>1. CASE UNCHANGED lifecycle
    BY <1>1 DEF lifecycle, NoJobs, Emptied, Place, Ahead, Unfinished
  <1>2. CASE Run
    BY <1>2, RunFrame DEF NoJobs, Emptied
  <1>3. ASSUME NEW c \in Clients, BeginCall(c)
        PROVE  NoJobs'
    <2>1. PICK op, r, next, n :
              /\ op \in Operations
              /\ Moved(c, r, next, n) /\ r.op = op /\ next \in {"find", "lock", "listWaiting"}
              /\ next = "lock" => op \in {"stop", "start", "addDomain", "removeDomain"}
      BY <1>3, BeginMoves
    <2>2. Unfinished' = Unfinished /\ service' = service
      BY <1>3 DEF BeginCall, Unfinished
    <2>3. /\ req'[c].op = op /\ Place(c)' = next
          /\ \A q \in Clients \ {c} : req'[q] = req[q] /\ Place(q)' = Place(q) /\ Ahead(q)' = Ahead(q)
      BY <2>1 DEF Moved
    <2>4. ~ Emptied(c)' /\ \A q \in Clients \ {c} : Emptied(q)' <=> Emptied(q)
      BY <2>1, <2>3 DEF Emptied, Held
    <2> QED
      BY <2>1, <2>2, <2>3, <2>4 DEF NoJobs
  <1>4. ASSUME NEW c \in Clients, Enqueue(c)
        PROVE  NoJobs'
    <2>1. Procedure(c) /\ ~ BeginCall(c) /\ Place(c) = "enqueue"
      BY <1>4, AtStep DEF Enqueue, Procedure, At, BeginCall
    <2>2. PICK r, next, n : Moved(c, r, next, n) /\ Keeps(c, r)
      BY <2>1, ProcedureTurns DEF Turned
    <2>3. req[c].op = "deploy" /\ service.exists /\ ~ Deleting
      BY <2>1, PlaceOp DEF Apart
    <2>4. /\ service' = service /\ req'[c].op \in {"deploy", "none"}
          /\ \A q \in Clients \ {c} : req'[q] = req[q] /\ Place(q)' = Place(q) /\ Ahead(q)' = Ahead(q)
      BY <1>4, <2>2, <2>3, RestType DEF Moved, Keeps, Enqueue
    <2>5. \A q \in Clients : req'[q].op # "delete"
      BY <2>3, <2>4 DEF Deleting
    <2>6. \A q \in Clients \ {c} : ~ (Place(q)' = "notActive" \/ (Place(q)' = "dequeue" /\ Ahead(q)' = 6))
      BY <2>3, <2>4, PlaceOp DEF Deleting
    <2>7. ~ (Place(c)' = "notActive" \/ (Place(c)' = "dequeue" /\ Ahead(c)' = 6))
      <3>1. PICK step : Follows(req[c].op, "enqueue", Ahead(c), step) /\ Moved(c, req[c], step, Ahead(c) - 1)
        BY <1>4, ContinueMoves DEF Enqueue
      <3>2. step = "rest"
        BY <3>1 DEF Follows
      <3> QED
        BY <3>1, <3>2 DEF Moved
    <2> QED
      BY <2>3, <2>4, <2>5, <2>6, <2>7 DEF NoJobs, Emptied
  <1>5. ASSUME NEW c \in Clients, Procedure(c), ~ BeginCall(c), Place(c) # "enqueue"
        PROVE  NoJobs'
    <2>1. PICK r, next, n : Moved(c, r, next, n) /\ Turns(c, next, n) /\ Keeps(c, r)
      BY <1>5, ProcedureTurns DEF Turned
    <2>2. Unfinished' \subseteq Unfinished
      BY <1>5, UnfinishedShrinks
    <2>3. /\ Place(c)' = next /\ Ahead(c)' = n
          /\ \A q \in Clients \ {c} : req'[q] = req[q] /\ Place(q)' = Place(q) /\ Ahead(q)' = Ahead(q)
      BY <2>1 DEF Moved
    <2>4. ~ service'.exists => ~ service.exists \/ Emptied(c)
      BY <1>5, RowStays DEF Emptied
    <2>5. CASE Place(c) = "dequeue" /\ Ahead(c) = 6
      <3>1. Dequeue(c) /\ Unfinished \subseteq req[c].seen /\ req[c].op = "delete"
        BY <1>5, <2>5, StepAction, PlaceOp DEF NoJobs
      <3>2. CASE req[c].seen = {}
        <4>1. Unfinished' = {}
          BY <2>2, <3>1, <3>2
        <4> QED
          BY <4>1 DEF NoJobs
      <3>3. CASE Moved(c, req[c], "rest", 0)
        <4>1. Place(c)' = "rest" /\ ~ Emptied(c)'
          BY <3>3 DEF Moved, Emptied, Held
        <4>2. ~ Emptied(c)
          BY <2>5 DEF Emptied, Held
        <4> QED
          BY <2>2, <2>3, <2>4, <4>1, <4>2 DEF NoJobs, Emptied
      <3>4. ASSUME NEW i \in req[c].seen, NEW s, jobs' = [jobs EXCEPT ![i] = "ended"],
                   Moved(c, s, "dequeue", Ahead(c)), s.seen = req[c].seen \ {i}
            PROVE  NoJobs'
        <4>1. Place(c)' = "dequeue" /\ req'[c].seen = req[c].seen \ {i}
          BY <3>4 DEF Moved
        <4>2. DOMAIN jobs' = DOMAIN jobs /\ \A k \in DOMAIN jobs : jobs'[k] = IF k = i THEN "ended" ELSE jobs[k]
          BY <3>4, JobsRemoved
        <4>3. Unfinished' \subseteq Unfinished \ {i}
          BY <4>2 DEF Unfinished
        <4>4. ~ Emptied(c)' /\ ~ Emptied(c)
          BY <2>5, <4>1 DEF Emptied, Held
        <4>5. Unfinished' \subseteq req'[c].seen
          BY <3>1, <4>1, <4>3
        <4> QED
          BY <2>2, <2>3, <2>4, <4>4, <4>5 DEF NoJobs, Emptied
      <3> QED
        BY <3>1, <3>2, <3>3, <3>4, DequeueMoves
    <2>6. CASE Place(c) = "listAll"
      <3>1. ListJobs(c)
        BY <1>5, <2>6, StepAction
      <3>2. PICK s : Moved(c, s, "notActive", 7) /\ s.seen = Unfinished
        BY <2>6, <3>1, ListAllMoves
      <3>3. Place(c)' = "notActive" /\ req'[c].seen = Unfinished /\ ~ Emptied(c)' /\ ~ Emptied(c)
        BY <2>6, <3>2 DEF Moved, Emptied, Held
      <3> QED
        BY <2>2, <2>3, <2>4, <3>3 DEF NoJobs, Emptied
    <2>7. CASE Place(c) = "notActive"
      <3>1. CheckNotActive(c) /\ Unfinished \subseteq req[c].seen /\ ~ Emptied(c)
        BY <1>5, <2>7, StepAction DEF NoJobs, Emptied, Held
      <3>2. CASE Moved(c, req[c], "rest", 0)
        <4>1. Place(c)' = "rest" /\ ~ Emptied(c)'
          BY <3>2 DEF Moved, Emptied, Held
        <4> QED
          BY <2>2, <2>3, <2>4, <3>1, <4>1 DEF NoJobs, Emptied
      <3>3. ASSUME NEW s, Moved(c, s, "dequeue", 6), s.seen = req[c].seen \cap Waiting,
                   \A i \in req[c].seen : jobs[i] # "active"
            PROVE  NoJobs'
        <4>1. Place(c)' = "dequeue" /\ req'[c].seen = req[c].seen \cap Waiting /\ ~ Emptied(c)'
          BY <3>3 DEF Moved, Emptied, Held
        <4>2. Unfinished \subseteq Waiting
          BY <3>1, <3>3 DEF Unfinished, Waiting
        <4>3. Unfinished' \subseteq req'[c].seen
          BY <2>2, <3>1, <4>1, <4>2
        <4> QED
          BY <2>2, <2>3, <2>4, <3>1, <4>1, <4>3 DEF NoJobs, Emptied
      <3> QED
        BY <3>1, <3>2, <3>3, CheckNotActiveMoves
    <2>8. CASE Place(c) \notin {"listAll", "notActive"} /\ ~ (Place(c) = "dequeue" /\ Ahead(c) = 6)
      <3>1. Emptied(c)' => Emptied(c)
        BY <2>1, <2>8, EmptiedTurns
      <3>2. next # "notActive" /\ ~ (next = "dequeue" /\ n = 6)
        <4>1. CASE Follows(req[c].op, Place(c), Ahead(c), next) /\ n = Ahead(c) - 1
          <5>1. ASSUME next = "notActive" PROVE FALSE
            BY <2>8, <4>1, <5>1 DEF Follows
          <5>2. ASSUME next = "dequeue", n = 6 PROVE FALSE
            BY <2>8, <4>1, <5>2 DEF Follows
          <5> QED
            BY <5>1, <5>2
        <4>2. CASE ~ (Follows(req[c].op, Place(c), Ahead(c), next) /\ n = Ahead(c) - 1)
          BY <2>1, <2>8, <4>2 DEF Turns
        <4> QED
          BY <4>1, <4>2
      <3> QED
        BY <2>2, <2>3, <2>4, <3>1, <3>2 DEF NoJobs, Emptied
    <2> QED
      BY <2>5, <2>6, <2>7, <2>8
  <1>6. ASSUME NEW c \in Clients, Procedure(c), Place(c) = "enqueue"
        PROVE  Enqueue(c)
    BY <1>6, StepAction
  <1> QED
    BY <1>1, <1>2, <1>3, <1>4, <1>5, <1>6 DEF Next

-----------------------------------------------------------------------------
(* A deletion removes every domain before it removes the row.                *)

LEMMA DomainsShrink ==
    ASSUME Constants, Shape, NEW c \in Clients, Procedure(c), Place(c) # "insert"
    PROVE  domains' \subseteq domains
  <1>1. CASE Place(c) \in {"row", "undoRow", "dropRow"}
    <2>1. DeleteDomainRow(c) \/ UndoRow(c) \/ DropRow(c)
      BY <1>1, StepAction
    <2> QED
      BY <2>1 DEF DeleteDomainRow, UndoRow, DropRow
  <1>2. CASE Place(c) \notin {"row", "undoRow", "dropRow"}
    <2>1. CASE BeginCall(c)
      BY <2>1 DEF BeginCall
    <2>2. CASE ~ BeginCall(c)
      BY <1>2, <2>2, ProcedureTurns DEF Frame
    <2> QED
      BY <2>1, <2>2
  <1> QED
    BY <1>1, <1>2

\* Where a deletion is that is said to have domains left, or none.
LEMMA DomainsLeftOp ==
    ASSUME Shape, NEW c \in Clients, Removing(c) \/ Within(c) \/ Cleared(c)
    PROVE  req[c].op = "delete"
  BY PlaceOp DEF Removing, Within, Cleared

\* A step that is neither of those that look at the domains nor of those that change them.
LEMMA DomainsTurns ==
    ASSUME Shape, NEW c \in Clients, NEW r, NEW next, NEW n, Moved(c, r, next, n), Turns(c, next, n), Keeps(c, r),
           Place(c) \notin {"notRunning", "domains", "row", "insert"}
    PROVE  /\ Removing(c)' => Removing(c) /\ req'[c].left = req[c].left
           /\ Within(c)' => Within(c) /\ req'[c].left = req[c].left /\ req'[c].domain = req[c].domain
           /\ Cleared(c)' => Cleared(c)
  <1>1. Place(c)' = next /\ Ahead(c)' = n /\ (next # "rest" => req'[c].op = req[c].op /\ req'[c].left = req[c].left
                                                             /\ req'[c].domain = req[c].domain)
    BY DEF Moved, Keeps
  <1>2. CASE Follows(req[c].op, Place(c), Ahead(c), next) /\ n = Ahead(c) - 1
    <2>1. CASE next \in {"listAll", "notActive", "domains", "dequeue", "lock", "remove", "dropRow"}
      <3>1. Place(c) \in {"listAll", "notActive", "dequeue", "unlock", "listWaiting", "lock", "remove"}
        BY <1>2, <2>1 DEF Follows
      <3> QED
        BY <1>1, <1>2, <2>1, <3>1 DEF Follows, Removing, Within, Cleared
    <2>2. CASE next \in {"readDomain", "route", "record", "row"}
      <3>1. Place(c) \in {"lock", "readDomain", "route", "record"}
        BY <1>2, <2>2 DEF Follows
      <3> QED
        BY <1>1, <1>2, <2>2, <3>1 DEF Follows, Removing, Within, Cleared
    <2>3. CASE next = "unlock"
      <3>1. Place(c) \in {"status", "record", "undoRoute", "undoRow", "restoreRecord", "remove"}
        BY <1>2, <2>3 DEF Follows
      <3> QED
        BY <1>1, <1>2, <2>3, <3>1 DEF Follows, Removing, Within, Cleared
    <2>4. CASE next \notin {"listAll", "notActive", "domains", "dequeue", "lock", "remove", "dropRow",
                            "readDomain", "route", "record", "row", "unlock"}
      BY <1>1, <2>4 DEF Removing, Within, Cleared
    <2> QED
      BY <2>1, <2>2, <2>3, <2>4
  <1>3. CASE ~ (Follows(req[c].op, Place(c), Ahead(c), next) /\ n = Ahead(c) - 1)
    <2>1. CASE next = "dequeue"
      BY <1>1, <1>3, <2>1 DEF Turns, Removing, Within, Cleared
    <2>2. CASE next # "dequeue"
      <3>1. next \in {"unlock", "rest", "undoRoute"} /\ n \notin {5, 6}
        BY <1>3, <2>2 DEF Turns
      <3>2. next = "unlock" => n = 1
        BY <1>3, <3>1 DEF Turns
      <3> QED
        BY <1>1, <3>1, <3>2 DEF Removing, Within, Cleared
    <2> QED
      BY <2>1, <2>2
  <1> QED
    BY <1>2, <1>3

LEMMA NextDomainsLeft == ASSUME Constants, Shape, Apart, DomainsLeft, [Next]_lifecycle PROVE DomainsLeft'
  <1>1. CASE UNCHANGED lifecycle
    BY <1>1 DEF lifecycle, DomainsLeft, Removing, Within, Cleared, Place, Ahead
  <1>2. CASE Run
    BY <1>2, RunFrame DEF DomainsLeft, Removing, Within, Cleared
  <1>3. ASSUME NEW c \in Clients, BeginCall(c)
        PROVE  DomainsLeft'
    <2>1. PICK op, r, next, n :
              /\ op \in Operations
              /\ Moved(c, r, next, n) /\ r.op = op /\ next \in {"find", "lock", "listWaiting"}
              /\ next = "lock" => op \in {"stop", "start", "addDomain", "removeDomain"}
      BY <1>3, BeginMoves
    <2>2. domains' = domains /\ service' = service
      BY <1>3 DEF BeginCall
    <2>3. /\ req'[c].op = op /\ Place(c)' = next
          /\ \A q \in Clients \ {c} : req'[q] = req[q] /\ Place(q)' = Place(q) /\ Ahead(q)' = Ahead(q)
      BY <2>1 DEF Moved
    <2>4. ~ Removing(c)' /\ ~ Within(c)' /\ ~ Cleared(c)'
      BY <2>1, <2>3 DEF Removing, Within, Cleared
    <2> QED
      BY <2>2, <2>3, <2>4 DEF DomainsLeft, Removing, Within, Cleared
  <1>4. ASSUME NEW c \in Clients, Procedure(c), Place(c) = "insert"
        PROVE  DomainsLeft'
    <2>1. InsertDomain(c) /\ ~ BeginCall(c) /\ req[c].op = "addDomain" /\ service.exists /\ ~ Deleting
      BY <1>4, StepAction, PlaceOp DEF Apart, BeginCall, Place
    <2>2. PICK next : Follows(req[c].op, "insert", Ahead(c), next) /\ Moved(c, req[c], next, Ahead(c) - 1)
      BY <2>1, ContinueMoves DEF InsertDomain
    <2>3. next = "route" /\ req'[c].op = "addDomain" /\ Place(c)' = "route"
      BY <2>1, <2>2 DEF Follows, Moved
    <2>4. service' = service
      BY <2>1 DEF InsertDomain
    <2>5. \A q \in Clients \ {c} : ~ Removing(q) /\ ~ Within(q) /\ ~ Cleared(q)
      BY <2>1, DomainsLeftOp DEF Deleting
    <2>6. \A q \in Clients \ {c} : ~ Removing(q)' /\ ~ Within(q)' /\ ~ Cleared(q)'
      BY <2>2, <2>5 DEF Moved, Removing, Within, Cleared
    <2>7. ~ Removing(c)' /\ ~ Within(c)' /\ ~ Cleared(c)'
      BY <2>3 DEF Removing, Within, Cleared
    <2> QED
      BY <2>1, <2>4, <2>6, <2>7 DEF DomainsLeft
  <1>5. ASSUME NEW c \in Clients, Procedure(c), ~ BeginCall(c), Place(c) # "insert"
        PROVE  DomainsLeft'
    <2>1. PICK r, next, n : Moved(c, r, next, n) /\ Turns(c, next, n) /\ Keeps(c, r)
      BY <1>5, ProcedureTurns DEF Turned
    <2>2. domains' \subseteq domains
      BY <1>5, DomainsShrink
    <2>3. ~ service'.exists => domains' = {}
      <3>1. CASE Place(c) = "dropRow"
        <4>1. DropRow(c)
          BY <1>5, <3>1, StepAction
        <4> QED
          BY <4>1 DEF DropRow
      <3>2. CASE Place(c) # "dropRow"
        BY <1>5, <2>2, <3>2, RowStays DEF DomainsLeft
      <3> QED
        BY <3>1, <3>2
    <2>4. ASSUME NEW q \in Clients \ {c}
          PROVE  /\ Removing(q)' => domains' \subseteq req'[q].left
                 /\ Within(q)' => domains' \subseteq req'[q].left \cup {req'[q].domain}
                 /\ Cleared(q)' => domains' = {}
      <3>1. /\ req'[q] = req[q] /\ (Removing(q)' <=> Removing(q)) /\ (Within(q)' <=> Within(q))
            /\ (Cleared(q)' <=> Cleared(q))
        BY <2>1 DEF Moved, Removing, Within, Cleared
      <3> QED
        BY <2>2, <3>1 DEF DomainsLeft
    <2>5. /\ Removing(c)' => domains' \subseteq req'[c].left
          /\ Within(c)' => domains' \subseteq req'[c].left \cup {req'[c].domain}
          /\ Cleared(c)' => domains' = {}
      <3>1. CASE Place(c) = "notRunning"
        <4>1. CheckNotRunning(c)
          BY <1>5, <3>1, StepAction
        <4>2. CASE Moved(c, req[c], "rest", 0)
          BY <4>2 DEF Moved, Removing, Within, Cleared
        <4>3. ASSUME NEW s, Moved(c, s, "listAll", 8), s.left = domains
              PROVE  Removing(c)' /\ req'[c].left = domains /\ ~ Within(c)' /\ ~ Cleared(c)'
          BY <4>3 DEF Moved, Removing, Within, Cleared
        <4> QED
          BY <2>2, <4>1, <4>2, <4>3, CheckNotRunningMoves
      <3>2. CASE Place(c) = "domains"
        <4>1. RemoveDomains(c) /\ domains \subseteq req[c].left
          BY <1>5, <3>2, StepAction DEF DomainsLeft, Removing
        <4>2. CASE req[c].left = {} /\ Moved(c, req[c], "lock", 4)
          <5>1. ~ Removing(c)' /\ ~ Within(c)'
            BY <4>2 DEF Moved, Removing, Within
          <5> QED
            BY <2>2, <4>1, <4>2, <5>1
        <4>3. ASSUME NEW d \in req[c].left, NEW s, Moved(c, s, "lock", 11), s.domain = d, s.left = req[c].left \ {d}
              PROVE  ~ Removing(c)' /\ ~ Cleared(c)' /\ req'[c].domain = d /\ req'[c].left = req[c].left \ {d}
          BY <4>3 DEF Moved, Removing, Cleared
        <4> QED
          BY <2>2, <4>1, <4>2, <4>3, RemoveDomainsMoves
      <3>3. CASE Place(c) = "row"
        <4>1. DeleteDomainRow(c)
          BY <1>5, <3>3, StepAction
        <4>2. CASE domains' = domains \ {req[c].domain} /\ Moved(c, req[c], "unlock", Ahead(c) - 1)
          <5>1. Place(c)' = "unlock" /\ Ahead(c)' = Ahead(c) - 1 /\ req'[c].left = req[c].left
            BY <4>2 DEF Moved
          <5>2. ~ Within(c)'
            BY <5>1 DEF Within
          <5>3. PICK step : Follows(req[c].op, "row", Ahead(c), step)
            BY <3>3, PlaceFollows
          <5>4. \/ req[c].op = "removeDomain" /\ Ahead(c) = 2
                \/ req[c].op = "delete" /\ Ahead(c) = 7
            BY <5>3 DEF Follows
          <5>5. ~ Cleared(c)'
            BY <5>1, <5>4 DEF Cleared
          <5>6. Removing(c)' => Within(c)
            BY <3>3, <5>1, <5>4 DEF Removing, Within
          <5> QED
            BY <4>2, <5>1, <5>2, <5>5, <5>6 DEF DomainsLeft
        <4>3. CASE Moved(c, req[c], "undoRoute", 3)
          BY <4>3 DEF Moved, Removing, Within, Cleared
        <4> QED
          BY <4>1, <4>2, <4>3, DeleteDomainRowMoves
      <3>4. CASE Place(c) \notin {"notRunning", "domains", "row"}
        BY <1>5, <2>1, <2>2, <3>4, DomainsTurns DEF DomainsLeft
      <3> QED
        BY <3>1, <3>2, <3>3, <3>4
    <2> QED
      BY <2>3, <2>4, <2>5 DEF DomainsLeft
  <1> QED
    BY <1>1, <1>2, <1>3, <1>4, <1>5 DEF Next

-----------------------------------------------------------------------------
(* A record has its domain's row, and the containers that are removed stay so. *)

LEMMA RecordsStay ==
    ASSUME Constants, Shape, NEW c \in Clients, Procedure(c), Place(c) \notin {"record", "restoreRecord", "undoRecord"}
    PROVE  records' = records
  <1>1. CASE BeginCall(c)
    BY <1>1 DEF BeginCall
  <1>2. CASE ~ BeginCall(c)
    BY <1>2, ProcedureTurns DEF Frame
  <1> QED
    BY <1>1, <1>2

LEMMA DomainsStay ==
    ASSUME Constants, Shape, DomainsLeft, NEW c \in Clients, Procedure(c), Place(c) \notin {"insert", "row", "undoRow"}
    PROVE  domains' = domains
  <1>1. CASE Place(c) = "dropRow"
    <2>1. DropRow(c) /\ domains = {}
      BY <1>1, StepAction DEF DomainsLeft, Cleared
    <2> QED
      BY <2>1 DEF DropRow
  <1>2. CASE Place(c) # "dropRow"
    <2>1. CASE BeginCall(c)
      BY <2>1 DEF BeginCall
    <2>2. CASE ~ BeginCall(c)
      BY <1>2, <2>2, ProcedureTurns DEF Frame
    <2> QED
      BY <2>1, <2>2
  <1> QED
    BY <1>1, <1>2

\* The places at which a procedure has its domain, one by one.
HasDomain == {"route", "record", "row", "undoRoute", "restoreRecord", "undoRecord", "undoRow"}

LEMMA HasDomainTurns ==
    ASSUME Shape, NEW c \in Clients, NEW r, NEW next, NEW n, Moved(c, r, next, n), Turns(c, next, n), Keeps(c, r),
           next \in HasDomain, Place(c) \notin {"insert", "readDomain"}
    PROVE  /\ Place(c) \in HasDomain /\ req'[c].domain = req[c].domain
           /\ next \in {"row", "undoRow"} => Place(c) \in {"record", "undoRecord"}
  <1>1. CASE Follows(req[c].op, Place(c), Ahead(c), next)
    <2>1. Place(c) \in HasDomain /\ (next \in {"row", "undoRow"} => Place(c) \in {"record", "undoRecord"})
      BY <1>1 DEF Follows, HasDomain
    <2> QED
      BY <2>1 DEF Moved, Keeps, HasDomain
  <1>2. CASE ~ Follows(req[c].op, Place(c), Ahead(c), next)
    BY <1>2 DEF Turns, Moved, Keeps, HasDomain
  <1> QED
    BY <1>1, <1>2

LEMMA NextRecordsKept == ASSUME Constants, Shape, DomainsLeft, RecordsKept, [Next]_lifecycle PROVE RecordsKept'
  <1>1. CASE UNCHANGED lifecycle
    BY <1>1 DEF lifecycle, RecordsKept, Place
  <1>2. CASE Run
    BY <1>2, RunFrame DEF RecordsKept
  <1>3. ASSUME NEW c \in Clients, BeginCall(c)
        PROVE  RecordsKept'
    <2>1. PICK r, next, n : Moved(c, r, next, n) /\ next \in {"find", "lock", "listWaiting"}
      BY <1>3, BeginMoves
    <2>2. /\ Place(c)' = next /\ \A q \in Clients \ {c} : req'[q] = req[q] /\ Place(q)' = Place(q)
          /\ domains' = domains /\ records' = records
      BY <1>3, <2>1 DEF Moved, BeginCall
    <2> QED
      BY <2>1, <2>2 DEF RecordsKept
  <1>4. ASSUME NEW c \in Clients, Procedure(c), ~ BeginCall(c)
        PROVE  RecordsKept'
    <2>1. PICK r, next, n : Moved(c, r, next, n) /\ Turns(c, next, n) /\ Keeps(c, r)
      BY <1>4, ProcedureTurns DEF Turned
    <2>2. ASSUME NEW q \in Clients \ {c}
          PROVE  /\ Place(q)' \in HasDomain => req'[q].domain \in domains'
                 /\ Place(q)' = "row" => req'[q].domain \notin records'
                 /\ Place(q)' = "undoRow" => req'[q].failed \/ req'[q].domain \notin records'
      <3>1. req'[q] = req[q] /\ Place(q)' = Place(q)
        BY <2>1 DEF Moved
      <3>2. CASE Place(q) \in HasDomain
        <4>1. Place(c) \notin Held
          BY <3>2, OneHolder DEF HasDomain, Held
        <4>2. domains' = domains /\ records' = records
          BY <1>4, <4>1, DomainsStay, RecordsStay DEF Held
        <4> QED
          BY <3>1, <4>2 DEF RecordsKept, HasDomain
      <3> QED
        BY <3>1, <3>2 DEF HasDomain
    <2>3. /\ records' \subseteq domains'
          /\ Place(c)' \in HasDomain => req'[c].domain \in domains'
          /\ Place(c)' = "row" => req'[c].domain \notin records'
          /\ Place(c)' = "undoRow" => req'[c].failed \/ req'[c].domain \notin records'
      <3>1. CASE Place(c) = "insert"
        <4>1. InsertDomain(c) /\ records' = records
          BY <1>4, <3>1, StepAction, RecordsStay
        <4>2. CASE service.exists
          <5>1. PICK step : Follows(req[c].op, "insert", Ahead(c), step) /\ Moved(c, req[c], step, Ahead(c) - 1)
            BY <4>1, <4>2, ContinueMoves DEF InsertDomain
          <5>2. step = "route"
            BY <5>1 DEF Follows
          <5>3. Place(c)' = "route" /\ req'[c].domain = req[c].domain
            BY <5>1, <5>2 DEF Moved
          <5>4. domains' = domains \cup {req[c].domain}
            BY <4>1, <4>2 DEF InsertDomain
          <5> QED
            BY <4>1, <5>3, <5>4 DEF RecordsKept
        <4>3. CASE ~ service.exists
          <5>1. Moved(c, req[c], "unlock", 1) /\ domains' = domains
            BY <4>1, <4>3, AbortMoves DEF InsertDomain, Held
          <5> QED
            BY <4>1, <5>1 DEF Moved, RecordsKept, HasDomain
        <4> QED
          BY <4>2, <4>3
      <3>2. CASE Place(c) = "readDomain"
        <4>1. ReadDomain(c) /\ records' = records /\ domains' = domains
          BY <1>4, <3>2, StepAction, RecordsStay, DomainsStay
        <4>2. CASE Moved(c, req[c], "unlock", 1)
          BY <4>1, <4>2 DEF Moved, RecordsKept, HasDomain
        <4>3. ASSUME NEW s, req[c].domain \in domains, Moved(c, s, "route", Ahead(c) - 1), Keeps(c, s)
              PROVE  Place(c)' = "route" /\ req'[c].domain \in domains
          BY <3>2, <4>3 DEF Moved, Keeps
        <4> QED
          BY <4>1, <4>2, <4>3, ReadDomainMoves DEF RecordsKept
      <3>3. CASE Place(c) = "record"
        <4>1. Record(c) /\ domains' = domains /\ req[c].domain \in domains
          BY <1>4, <3>3, StepAction, DomainsStay DEF RecordsKept
        <4>2. CASE records' = records \cup {req[c].domain} /\ Moved(c, req[c], "unlock", 1)
          BY <4>1, <4>2 DEF Moved, RecordsKept, HasDomain
        <4>3. CASE records' = records \ {req[c].domain} /\ Moved(c, req[c], "row", Ahead(c) - 1)
          <5>1. Place(c)' = "row" /\ req'[c].domain = req[c].domain
            BY <4>3 DEF Moved
          <5> QED
            BY <4>1, <4>3, <5>1 DEF RecordsKept
        <4>4. ASSUME NEW m, records' = records, Moved(c, req[c], "undoRoute", m)
              PROVE  Place(c)' = "undoRoute" /\ req'[c].domain = req[c].domain
          BY <4>4 DEF Moved
        <4> QED
          BY <4>1, <4>2, <4>3, <4>4, RecordMoves DEF RecordsKept
      <3>4. CASE Place(c) = "row"
        <4>1. DeleteDomainRow(c) /\ records' = records /\ req[c].domain \in domains \ records
          BY <1>4, <3>4, StepAction, RecordsStay DEF RecordsKept
        <4>2. CASE domains' = domains \ {req[c].domain} /\ Moved(c, req[c], "unlock", Ahead(c) - 1)
          <5>1. Place(c)' = "unlock"
            BY <4>2 DEF Moved
          <5> QED
            BY <4>1, <4>2, <5>1 DEF RecordsKept, HasDomain
        <4>3. CASE domains' = domains /\ Moved(c, req[c], "undoRoute", 3)
          <5>1. Place(c)' = "undoRoute" /\ req'[c].domain = req[c].domain
            BY <4>3 DEF Moved
          <5> QED
            BY <4>1, <4>3, <5>1 DEF RecordsKept
        <4> QED
          BY <4>1, <4>2, <4>3, DeleteDomainRowMoves
      <3>5. CASE Place(c) = "restoreRecord"
        <4>1. RestoreRecord(c) /\ domains' = domains /\ req[c].domain \in domains
          BY <1>4, <3>5, StepAction, DomainsStay DEF RecordsKept
        <4>2. PICK step : Follows(req[c].op, "restoreRecord", Ahead(c), step) /\ Moved(c, req[c], step, Ahead(c) - 1)
          BY <4>1, ContinueMoves DEF RestoreRecord
        <4>3. Place(c)' = "unlock"
          BY <4>2 DEF Follows, Moved
        <4>4. records' \in {records, records \cup {req[c].domain}}
          BY <4>1 DEF RestoreRecord
        <4> QED
          BY <4>1, <4>3, <4>4 DEF RecordsKept, HasDomain
      <3>6. CASE Place(c) = "undoRecord"
        <4>1. UndoRecord(c) /\ domains' = domains /\ req[c].domain \in domains
          BY <1>4, <3>6, StepAction, DomainsStay DEF RecordsKept
        <4>2. CASE records' = records \ {req[c].domain} /\ Moved(c, req[c], "undoRow", 2)
          <5>1. Place(c)' = "undoRow" /\ req'[c].domain = req[c].domain
            BY <4>2 DEF Moved
          <5> QED
            BY <4>1, <4>2, <5>1 DEF RecordsKept
        <4>3. ASSUME NEW s, records' = records, Moved(c, s, "undoRow", 2), Keeps(c, s), s.failed
              PROVE  Place(c)' = "undoRow" /\ req'[c].domain = req[c].domain /\ req'[c].failed
          BY <3>6, <4>3 DEF Moved, Keeps
        <4> QED
          BY <4>1, <4>2, <4>3, UndoRecordMoves DEF RecordsKept
      <3>7. CASE Place(c) = "undoRow"
        <4>1. UndoRow(c) /\ records' = records /\ (req[c].failed \/ req[c].domain \notin records)
          BY <1>4, <3>7, StepAction, RecordsStay DEF RecordsKept
        <4>2. PICK step : Follows(req[c].op, "undoRow", Ahead(c), step) /\ Moved(c, req[c], step, Ahead(c) - 1)
          BY <4>1, ContinueMoves DEF UndoRow
        <4>3. Place(c)' = "unlock"
          BY <4>2 DEF Follows, Moved
        <4>4. records' \subseteq domains'
          BY <4>1 DEF UndoRow, RecordsKept
        <4> QED
          BY <4>3, <4>4 DEF HasDomain
      <3>8. CASE Place(c) \notin {"insert", "readDomain", "record", "row", "restoreRecord", "undoRecord", "undoRow"}
        <4>1. domains' = domains /\ records' = records /\ Place(c)' = next
          BY <1>4, <2>1, <3>8, DomainsStay, RecordsStay DEF Moved
        <4>2. CASE next \in HasDomain
          <5>1. Place(c) \in HasDomain /\ req'[c].domain = req[c].domain /\ next \notin {"row", "undoRow"}
            BY <2>1, <3>8, <4>2, HasDomainTurns
          <5> QED
            BY <4>1, <5>1 DEF RecordsKept, HasDomain
        <4> QED
          BY <4>1, <4>2 DEF RecordsKept, HasDomain
      <3> QED
        BY <3>1, <3>2, <3>3, <3>4, <3>5, <3>6, <3>7, <3>8
    <2> QED
      BY <2>2, <2>3 DEF RecordsKept, HasDomain
  <1> QED
    BY <1>1, <1>2, <1>3, <1>4 DEF Next

\* Where a deletion has removed the containers.
Removed(c) == Place(c) = "dropRow" \/ (Place(c) = "unlock" /\ Ahead(c) = 2)

LEMMA RemovedTurns ==
    ASSUME Shape, NEW c \in Clients, NEW r, NEW next, NEW n, Moved(c, r, next, n), Turns(c, next, n), Removed(c)'
    PROVE  Removed(c) \/ Place(c) = "remove"
  <1>1. next = "dropRow" \/ (next = "unlock" /\ n = 2)
    BY DEF Moved, Removed
  <1>2. CASE Follows(req[c].op, Place(c), Ahead(c), next) /\ n = Ahead(c) - 1
    <2>1. CASE next = "dropRow"
      BY <1>2, <2>1 DEF Follows, Removed
    <2>2. CASE next = "unlock" /\ n = 2
      <3>1. Place(c) \in {"status", "record", "row", "undoRoute", "undoRow", "restoreRecord", "remove"}
        BY <1>2, <2>2 DEF Follows
      <3> QED
        BY <1>2, <2>2, <3>1 DEF Follows
    <2> QED
      BY <1>1, <2>1, <2>2
  <1>3. CASE ~ (Follows(req[c].op, Place(c), Ahead(c), next) /\ n = Ahead(c) - 1)
    BY <1>1, <1>3 DEF Turns
  <1> QED
    BY <1>2, <1>3

\* Without a file and without containers no step of a procedure brings them back.
LEMMA GoneStays ==
    ASSUME Constants, Shape, Gone, NEW c \in Clients, Procedure(c)
    PROVE  Gone'
  <1>1. stack.state = "none" /\ ~ file.present
    BY DEF Gone, Down, Missing
  <1>2. CASE Place(c) \in {"halt", "start", "route", "undoRoute", "remove", "dropRow"}
    <2>1. Halt(c) \/ StartStack(c) \/ RouteDomain(c) \/ UndoRoute(c) \/ RemoveStack(c) \/ DropRow(c)
      BY <1>2, StepAction
    <2>2. CASE Halt(c)
      BY <1>1, <2>2 DEF Halt, Gone
    <2>3. CASE StartStack(c)
      BY <1>1, <2>3 DEF StartStack, Gone
    <2>4. CASE RouteDomain(c) \/ UndoRoute(c)
      BY <1>1, <2>4 DEF RouteDomain, UndoRoute, Reconciled, Gone
    <2>5. CASE RemoveStack(c)
      BY <2>5 DEF RemoveStack, Gone
    <2>6. CASE DropRow(c)
      BY <2>6 DEF DropRow, Gone
    <2> QED
      BY <2>1, <2>2, <2>3, <2>4, <2>5, <2>6
  <1>3. CASE Place(c) \notin {"halt", "start", "route", "undoRoute", "remove", "dropRow"}
    <2>1. CASE BeginCall(c)
      BY <2>1 DEF BeginCall, Gone
    <2>2. CASE ~ BeginCall(c)
      BY <1>3, <2>2, ProcedureTurns DEF Frame, Gone
    <2> QED
      BY <2>1, <2>2
  <1> QED
    BY <1>2, <1>3

LEMMA NextStackGone ==
    ASSUME Constants, Shape, JobOfWorker, NoJobs, StackGone, [Next]_lifecycle
    PROVE  StackGone'
  <1>1. CASE UNCHANGED lifecycle
    BY <1>1 DEF lifecycle, StackGone, Gone, Place, Ahead
  <1>2. CASE Run
    <2>1. CASE Build
      <3>1. worker.job \in Unfinished
        BY <2>1 DEF Build, WorkerAt, JobOfWorker, Unfinished
      <3>2. service.exists /\ \A c \in Clients : ~ Emptied(c)
        BY <3>1 DEF NoJobs
      <3>3. \A c \in Clients : ~ Removed(c)
        BY <3>2, PlaceOp DEF Removed, Emptied, Held
      <3> QED
        BY <1>2, <3>2, <3>3, RunFrame DEF StackGone, Removed
    <2>2. CASE ~ Build
      BY <1>2, <2>2, RunFrame DEF StackGone, Gone
    <2> QED
      BY <2>1, <2>2
  <1>3. ASSUME NEW c \in Clients, Procedure(c)
        PROVE  StackGone'
    <2>1. CASE Gone
      BY <1>3, <2>1, GoneStays DEF StackGone
    <2>2. CASE ~ Gone
      <3>1. service.exists /\ \A q \in Clients : ~ Removed(q)
        BY <2>2 DEF StackGone, Removed
      <3>2. service'.exists
        BY <1>3, <3>1, RowStays DEF Removed
      <3>3. PICK r, next, n : Moved(c, r, next, n) /\ (BeginCall(c) \/ Turns(c, next, n)) /\ (BeginCall(c) => next \in {"find", "lock", "listWaiting"})
        <4>1. CASE BeginCall(c)
          BY <4>1, BeginMoves
        <4>2. CASE ~ BeginCall(c)
          BY <1>3, <4>2, ProcedureTurns DEF Turned
        <4> QED
          BY <4>1, <4>2
      <3>4. \A q \in Clients \ {c} : ~ Removed(q)'
        BY <3>1, <3>3 DEF Moved, Removed
      <3>5. CASE Place(c) = "remove"
        <4>1. RemoveStack(c)
          BY <1>3, <3>5, StepAction
        <4>2. CASE file' = Missing /\ stack' = Down
          BY <4>2 DEF StackGone, Gone
        <4>3. CASE Abort(c)
          <5>1. Moved(c, req[c], "unlock", 1)
            BY <4>1, <4>3, AbortMoves DEF RemoveStack, Held
          <5>2. ~ Removed(c)'
            BY <5>1 DEF Moved, Removed
          <5> QED
            BY <3>2, <3>4, <5>2 DEF StackGone, Removed
        <4> QED
          BY <4>1, <4>2, <4>3 DEF RemoveStack
      <3>6. CASE Place(c) # "remove"
        <4>1. ~ Removed(c)'
          <5>1. CASE BeginCall(c)
            BY <3>3, <5>1 DEF Moved, Removed
          <5>2. CASE ~ BeginCall(c)
            BY <3>1, <3>3, <3>6, <5>2, RemovedTurns
          <5> QED
            BY <5>1, <5>2
        <4> QED
          BY <3>2, <3>4, <4>1 DEF StackGone, Removed
      <3> QED
        BY <3>5, <3>6
    <2> QED
      BY <2>1, <2>2
  <1> QED
    BY <1>1, <1>2, <1>3 DEF Next

-----------------------------------------------------------------------------
LEMMA InitDeletion == ASSUME Constants, Init PROVE DeletionInv
  <1>1. \A c \in Clients : req[c] = Rest /\ Place(c) = "rest" /\ Rest.op = "none"
    BY RestType DEF Init, Place
  <1>2. DOMAIN jobs = {} /\ Unfinished = {}
    BY DEF Init, Unfinished
  <1>3. JobOfWorker /\ Apart
    BY <1>1, <1>2 DEF Init, JobOfWorker, Apart, NoRun, Deleting
  <1>4. NoJobs /\ DomainsLeft /\ RecordsKept /\ StackGone
    BY <1>1, <1>2 DEF Init, NoJobs, Emptied, DomainsLeft, Removing, Within, Cleared, RecordsKept, StackGone, Held
  <1> QED
    BY <1>3, <1>4 DEF DeletionInv

LEMMA NextDeletion == ASSUME Constants, Exclusive, Shape, DeletionInv, [Next]_lifecycle PROVE DeletionInv'
  BY NextJobOfWorker, NextApart, NextNoJobs, NextDomainsLeft, NextRecordsKept, NextStackGone DEF DeletionInv

\* A deletion beside which no deployment is requested and no domain is made leaves
\* nothing behind: no containers, no record, no unfinished job and no worker at one,
\* whatever earlier jobs and other procedures do and whichever of its steps fail (the
\* order of the deletion's checks and removals).  A new domain beside it is the
\* violation that Compose_newDomain.cfg shows.
THEOREM DeletionLeavesNothing == ASSUME Constants, Exclusive PROVE Spec => []NothingLeftBehind
  <1>1. Init => DeletionInv
    BY InitDeletion
  <1>2. Shape /\ DeletionInv /\ [Next]_lifecycle => DeletionInv'
    BY NextDeletion
  <1>3. DeletionInv => NothingLeftBehind
    <2> SUFFICES ASSUME DeletionInv, ~ service.exists
                 PROVE  stack = Down /\ records = {} /\ Unfinished = {} /\ WorkerAt("idle")
      BY DEF NothingLeftBehind
    <2>1. Unfinished = {} /\ records = {} /\ stack = Down
      BY DEF DeletionInv, NoJobs, RecordsKept, DomainsLeft, StackGone, Gone
    <2>2. worker.pc = "idle"
      BY <2>1 DEF DeletionInv, JobOfWorker, Unfinished
    <2> QED
      BY <2>1, <2>2 DEF WorkerAt
  <1> QED
    BY <1>1, <1>2, <1>3, ShapeKept, PTL DEF Spec

=============================================================================
