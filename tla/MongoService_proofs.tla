------------------------- MODULE MongoService_proofs -------------------------
(***************************************************************************)
(* Proofs about MongoService, for any number of procedures: that, where no   *)
(* deployment begins while another is between reading the service and        *)
(* writing its row, two deployments are never under way at once.  (Where one  *)
(* does, they may be: Mongo_overlap.cfg shows it.)                           *)
(***************************************************************************)
EXTENDS MongoService, TLAPS, SequenceTheorems

Procedures == {"deploy", "saveExternalPort", "rebuild", "start", "stop", "reload", "remove"}

Steps == {"find", "check", "insert", "markRunning", "pull", "build", "markDone", "finalize", "markError",
          "finalizeError", "port", "removeService", "settle", "scaleUp", "markStarted", "scaleDown",
          "markIdle", "dropRow"}

\* The step that follows a step of a procedure, "rest" after its last.
Successor(op, step) ==
    CASE step \in {"port", "settle"} -> "find"
      [] step = "find" -> "check"
      [] step = "check" -> "insert"
      [] step = "insert" -> "markRunning"
      [] step = "markRunning" -> "pull"
      [] step = "pull" -> "build"
      [] step = "build" -> "markDone"
      [] step = "markDone" -> "finalize"
      [] step = "markError" -> "finalizeError"
      [] step = "scaleUp" -> "markStarted"
      [] step = "scaleDown" -> "markIdle"
      [] step = "markIdle" /\ op = "reload" -> "scaleUp"
      [] step = "removeService" -> (IF op = "rebuild" THEN "settle" ELSE "dropRow")
      [] OTHER -> "rest"

\* What a procedure has still to do: each step followed by its successor, to the
\* end of the procedure; without a row a failure is only marked.
Path(op, todo) ==
    /\ todo \in Seq(Steps)
    /\ \A i \in 1..Len(todo) :
        \/ i < Len(todo) /\ todo[i + 1] = Successor(op, todo[i])
        \/ i = Len(todo) /\ (Successor(op, todo[i]) = "rest" \/ (todo[i] = "markError" /\ "log" \in Failing))

\* Where a procedure is.
Place(c) == IF Idle(c) THEN "rest" ELSE Head(req[c].todo)

Requests == [op : Procedures \cup {"none"}, todo : Seq(Steps), port : Nat, row : Nat]
DeploymentRows == [status : {"running", "done", "error", "cancelled"}, fresh : BOOLEAN]

\* The shape of what the procedures hold, and of the table of deployments.
Shape ==
    /\ req \in [Clients -> Requests] /\ rows \in Seq(DeploymentRows)
    /\ \A c \in Clients : Path(req[c].op, req[c].todo) /\ (Idle(c) => req[c] = Rest)
    /\ \A c \in Clients : req[c].row \in 0..Len(rows)

-----------------------------------------------------------------------------
(* One deployment at a time.                                                *)

\* A procedure has a row while it deploys: one that tells it is in progress.
Late == {"markRunning", "pull", "build", "markDone", "finalize", "finalizeError"}
RowHeld ==
    /\ \A c \in Clients : Place(c) \in Late => req[c].row # 0
    /\ \A c \in Clients : Place(c) = "markError" /\ Tail(req[c].todo) # <<>> => req[c].row # 0
    /\ \A c \in Clients : req[c].row # 0 =>
        /\ Place(c) \in Late \cup {"markError"}
        /\ rows[req[c].row] = [status |-> "running", fresh |-> TRUE]

\* One at a time is between reading the service and writing its row, and it
\* writes the row when nobody has one.
Narrow ==
    /\ \A c, d \in Clients : {Place(c), Place(d)} \subseteq {"check", "insert"} => c = d
    /\ \A c, d \in Clients : Place(c) = "insert" => req[d].row = 0

SingleInv == Shape /\ RowHeld /\ Narrow /\ OneDeploymentAtATime

-----------------------------------------------------------------------------
(* Procedures and their steps.                                              *)

\* A procedure that has more to do goes on with the successor of its step.
LEMMA TailPath ==
    ASSUME NEW op, NEW todo, Path(op, todo), todo # <<>>
    PROVE  /\ Path(op, Tail(todo)) /\ Head(todo) \in Steps
           /\ Tail(todo) = <<>> => Successor(op, Head(todo)) = "rest" \/ (Head(todo) = "markError" /\ "log" \in Failing)
           /\ Tail(todo) # <<>> => Head(Tail(todo)) = Successor(op, Head(todo)) /\ Successor(op, Head(todo)) # "rest"
  <1>1. /\ todo \in Seq(Steps) /\ Len(todo) \in Nat \ {0} /\ Head(todo) = todo[1] /\ todo[1] \in Steps
        /\ Tail(todo) \in Seq(Steps) /\ Len(Tail(todo)) = Len(todo) - 1
        /\ \A i \in 1..Len(Tail(todo)) : Tail(todo)[i] = todo[i + 1]
    BY EmptySeq, HeadTailProperties, ElementOfSeq DEF Path
  <1>1a. Len(todo) \in Int /\ Len(Tail(todo)) = Len(todo) - 1
    BY <1>1
  <1> DEFINE Next1(i) == i < Len(todo) /\ todo[i + 1] = Successor(op, todo[i])
             Last(i) == /\ i = Len(todo)
                        /\ Successor(op, todo[i]) = "rest" \/ (todo[i] = "markError" /\ "log" \in Failing)
  <1>2. \A i \in 1..Len(todo) : Next1(i) \/ Last(i)
    BY DEF Path
  <1>3. Path(op, Tail(todo))
    <2> SUFFICES ASSUME NEW i \in 1..Len(Tail(todo))
                 PROVE  \/ i < Len(Tail(todo)) /\ Tail(todo)[i + 1] = Successor(op, Tail(todo)[i])
                        \/ /\ i = Len(Tail(todo))
                           /\ Successor(op, Tail(todo)[i]) = "rest" \/ (Tail(todo)[i] = "markError" /\ "log" \in Failing)
      BY <1>1 DEF Path
    <2>1. PICK k \in 1..Len(todo) : k = i + 1
      BY <1>1
    <2>2. i \in Int /\ Tail(todo)[i] = todo[k]
      BY <1>1, <2>1
    <2>3. CASE Next1(k)
      <3>1. k \in 1..Len(Tail(todo))
        BY <1>1, <2>1, <2>3
      <3>2. Tail(todo)[k] = todo[k + 1]
        BY <1>1, <3>1
      <3>3. i < Len(Tail(todo)) /\ Tail(todo)[i + 1] = todo[k + 1]
        BY <1>1, <2>1, <3>1, <3>2
      <3>4. todo[k + 1] = Successor(op, todo[k])
        BY <2>3
      <3> QED
        BY <2>2, <3>3, <3>4, Zenon
    <2>4. CASE Last(k)
      <3>0. Len(todo) = k
        BY <2>4, Zenon
      <3>1. i = Len(Tail(todo))
        BY <1>1a, <2>1, <3>0
      <3>2. Successor(op, todo[k]) = "rest" \/ (todo[k] = "markError" /\ "log" \in Failing)
        BY <2>4
      <3> QED
        BY <2>2, <3>1, <3>2, Zenon
    <2> QED
      BY <1>2, <2>3, <2>4
  <1>4. 1 \in 1..Len(todo)
    BY <1>1
  <1>5. CASE Next1(1)
    <2>1. Tail(todo) # <<>> /\ 1 \in 1..Len(Tail(todo))
      BY <1>1, <1>5, EmptySeq
    <2>2. Head(Tail(todo)) = Tail(todo)[1] /\ Tail(todo)[1] = todo[2] /\ Tail(todo)[1] \in Steps
      BY <1>1, <2>1, ElementOfSeq
    <2>3. todo[1 + 1] = Successor(op, todo[1]) /\ 1 + 1 = 2
      BY <1>5
    <2>4. "rest" \notin Steps
      BY DEF Steps
    <2> QED
      BY <1>1, <1>3, <2>1, <2>2, <2>3, <2>4
  <1>6. CASE Last(1)
    <2>0. Len(todo) = 1
      BY <1>6, Zenon
    <2>1. Len(Tail(todo)) = 0
      BY <1>1a, <2>0
    <2>2. Tail(todo) = <<>>
      BY <1>1, <2>1, EmptySeq
    <2>3. Successor(op, todo[1]) = "rest" \/ (todo[1] = "markError" /\ "log" \in Failing)
      BY <1>6
    <2> QED
      BY <1>1, <1>3, <2>2, <2>3
  <1> QED
    BY <1>2, <1>4, <1>5, <1>6

\* A step put before what follows it makes a procedure.
LEMMA PrefixPath ==
    ASSUME NEW op, NEW todo, Path(op, todo), todo # <<>>, NEW step \in Steps, Head(todo) = Successor(op, step)
    PROVE  Path(op, <<step>> \o todo) /\ <<step>> \o todo # <<>> /\ Head(<<step>> \o todo) = step
  <1> DEFINE long == <<step>> \o todo
  <1>1. /\ todo \in Seq(Steps) /\ Len(todo) \in Nat \ {0} /\ Head(todo) = todo[1]
        /\ <<step>> \in Seq(Steps) /\ Len(<<step>>) = 1 /\ <<step>>[1] = step
    BY EmptySeq DEF Path
  <1>2. /\ long \in Seq(Steps) /\ Len(long) = 1 + Len(todo)
        /\ \A i \in 1..1 + Len(todo) : long[i] = IF i <= 1 THEN <<step>>[i] ELSE todo[i - 1]
    BY <1>1, ConcatProperties
  <1> HIDE DEF long
  <1>3. long[1] = step /\ \A i \in 1..Len(todo) : long[i + 1] = todo[i]
    BY <1>1, <1>2
  <1>4. long # <<>> /\ Head(long) = step
    BY <1>1, <1>2, <1>3, EmptySeq
  <1>5. ASSUME NEW i \in 1..Len(long)
        PROVE  \/ i < Len(long) /\ long[i + 1] = Successor(op, long[i])
               \/ i = Len(long) /\ (Successor(op, long[i]) = "rest" \/ (long[i] = "markError" /\ "log" \in Failing))
    <2>1. CASE i = 1
      <3>1. 1 \in 1..Len(todo)
        BY <1>1
      <3>2. long[1 + 1] = todo[1]
        BY <1>3, <3>1
      <3> QED
        BY <1>1, <1>2, <1>3, <2>1, <3>2
    <2>2. CASE i # 1
      <3>1. PICK k \in 1..Len(todo) : i = k + 1
        <4>1. i - 1 \in 1..Len(todo) /\ i = (i - 1) + 1
          BY <1>1, <1>2, <2>2
        <4> QED
          BY <4>1
      <3>2. long[i] = todo[k]
        BY <1>3, <3>1
      <3>3. CASE k < Len(todo) /\ todo[k + 1] = Successor(op, todo[k])
        <4>1. i \in 1..Len(todo) /\ i < Len(long)
          BY <1>1, <1>2, <3>1, <3>3
        <4>2. long[i + 1] = todo[k + 1]
          BY <1>3, <3>1, <4>1
        <4> QED
          BY <3>2, <3>3, <4>1, <4>2
      <3>4. CASE k = Len(todo) /\ (Successor(op, todo[k]) = "rest" \/ (todo[k] = "markError" /\ "log" \in Failing))
        BY <1>1, <1>2, <3>1, <3>2, <3>4
      <3> QED
        BY <3>3, <3>4 DEF Path
    <2> QED
      BY <2>1, <2>2
  <1>6. Path(op, long)
    BY <1>2, <1>5 DEF Path
  <1> QED
    BY <1>4, <1>6 DEF long

\* What the programs are, one step after the other.
LEMMA Programs ==
    ASSUME NEW op \in Procedures
    PROVE  /\ Path(op, Program(op)) /\ Program(op) # <<>>
           /\ Head(Program(op)) = CASE op = "deploy" -> "find"
                                    [] op = "saveExternalPort" -> "port"
                                    [] op = "start" -> "scaleUp"
                                    [] op \in {"stop", "reload"} -> "scaleDown"
                                    [] OTHER -> "removeService"
  <1>0. Path(op, Deploy) /\ Deploy # <<>> /\ Head(Deploy) = "find"
    BY DEF Deploy, Path, Successor, Steps
  <1>1. CASE op = "deploy"
    BY <1>0, <1>1 DEF Program
  <1>2. CASE op = "saveExternalPort"
    <2>1. "port" \in Steps /\ Successor(op, "port") = "find"
      BY DEF Steps, Successor
    <2>2. Path(op, <<"port">> \o Deploy) /\ <<"port">> \o Deploy # <<>> /\ Head(<<"port">> \o Deploy) = "port"
      BY <1>0, <2>1, PrefixPath
    <2> QED
      BY <1>2, <2>2 DEF Program
  <1>3. CASE op = "rebuild"
    <2>1. "settle" \in Steps /\ Successor(op, "settle") = "find"
      BY DEF Steps, Successor
    <2> DEFINE settled == <<"settle">> \o Deploy
    <2>2. Path(op, settled) /\ settled # <<>> /\ Head(settled) = "settle"
      BY <1>0, <2>1, PrefixPath
    <2> HIDE DEF settled
    <2>3. "removeService" \in Steps /\ Successor(op, "removeService") = "settle"
      BY <1>3 DEF Steps, Successor
    <2>4. Path(op, <<"removeService">> \o settled) /\ <<"removeService">> \o settled # <<>>
          /\ Head(<<"removeService">> \o settled) = "removeService"
      BY <2>2, <2>3, PrefixPath
    <2>5. <<"removeService">> \o settled = Program(op)
      <3>1. <<"removeService">> \in Seq(Steps) /\ <<"settle">> \in Seq(Steps) /\ Deploy \in Seq(Steps)
        BY DEF Steps, Deploy
      <3>0. <<"removeService">> \o <<"settle">> = <<"removeService", "settle">>
        <4> DEFINE both == <<"removeService">> \o <<"settle">>
        <4>1. /\ both \in Seq(Steps) /\ Len(both) = 1 + 1
              /\ \A i \in 1..1 + 1 : both[i] = IF i <= 1 THEN <<"removeService">>[i] ELSE <<"settle">>[i - 1]
          BY <3>1, ConcatProperties
        <4> HIDE DEF both
        <4>2. Len(both) = 2 /\ both[1] = "removeService" /\ both[2] = "settle"
          BY <4>1
        <4>3. both = <<"removeService", "settle">>
          BY <4>1, <4>2
        <4> QED
          BY <4>3 DEF both
      <3>2. <<"removeService">> \o settled = (<<"removeService">> \o <<"settle">>) \o Deploy
        BY <3>1, ConcatAssociative DEF settled
      <3> QED
        BY <1>3, <3>0, <3>2 DEF Program
    <2> QED
      BY <1>3, <2>4, <2>5
  <1>4. CASE op = "start"
    BY <1>4 DEF Program, Path, Successor, Steps
  <1>5. CASE op = "stop"
    BY <1>5 DEF Program, Path, Successor, Steps
  <1>6. CASE op = "reload"
    BY <1>6 DEF Program, Path, Successor, Steps
  <1>7. CASE op = "remove"
    BY <1>7 DEF Program, Path, Successor, Steps
  <1> QED
    BY <1>1, <1>2, <1>3, <1>4, <1>5, <1>6, <1>7 DEF Procedures

-----------------------------------------------------------------------------
(* What a step does to the procedures.                                      *)

\* The other procedures stay where they are, and what c holds has its shape.
Others(c) ==
    /\ req' \in [Clients -> Requests]
    /\ \A d \in Clients \ {c} : req'[d] = req[d] /\ Place(d)' = Place(d)
    /\ \A d \in Clients : Path(req'[d].op, req'[d].todo) /\ (req'[d].todo = <<>> => req'[d] = Rest)

LEMMA RestShape == Rest \in Requests /\ Path(Rest.op, Rest.todo) /\ Rest.todo = <<>> /\ Rest.row = 0 /\ Rest.port = 0 /\ Rest.op = "none"
  <1>1. <<>> \in Seq(Steps) /\ Len(<<>>) = 0
    BY EmptySeq
  <1>2. Rest \in Requests /\ Rest.todo = <<>> /\ Rest.row = 0 /\ Rest.port = 0 /\ Rest.op = "none"
    BY <1>1 DEF Rest, Requests
  <1>3. Path(Rest.op, <<>>)
    BY <1>1 DEF Path
  <1> QED
    BY <1>2, <1>3

LEMMA SetMoves ==
    ASSUME Shape, NEW c \in Clients, NEW r \in Requests, Path(r.op, r.todo), Set(c, r)
    PROVE  /\ Others(c)
           /\ r.todo = <<>> => req'[c] = Rest /\ Place(c)' = "rest"
           /\ r.todo # <<>> => req'[c] = r /\ Place(c)' = Head(r.todo)
  <1>1. req \in [Clients -> Requests] /\ \A d \in Clients : Path(req[d].op, req[d].todo) /\ (req[d].todo = <<>> => req[d] = Rest)
    BY DEF Shape, Idle
  <1>2. req' = [req EXCEPT ![c] = IF r.todo = <<>> THEN Rest ELSE r]
    BY DEF Set
  <1>3. req'[c] = IF r.todo = <<>> THEN Rest ELSE r
    BY <1>1, <1>2
  <1>4. req' \in [Clients -> Requests]
    BY <1>1, <1>2, RestShape
  <1>5. \A d \in Clients \ {c} : req'[d] = req[d] /\ Place(d)' = Place(d)
    BY <1>1, <1>2 DEF Place, Idle
  <1>6. Path(req'[c].op, req'[c].todo) /\ (req'[c].todo = <<>> => req'[c] = Rest)
    BY <1>3, RestShape
  <1>7. Others(c)
    BY <1>1, <1>4, <1>5, <1>6 DEF Others
  <1>8. r.todo = <<>> => req'[c] = Rest /\ Place(c)' = "rest"
    BY <1>3, RestShape DEF Place, Idle
  <1>9. r.todo # <<>> => req'[c] = r /\ Place(c)' = Head(r.todo)
    BY <1>3 DEF Place, Idle
  <1> QED
    BY <1>7, <1>8, <1>9

\* A step that is done is followed by its successor.
LEMMA GoMoves ==
    ASSUME Shape, NEW c \in Clients, Place(c) # "rest",
           NEW r \in Requests, r.op = req[c].op, r.todo = req[c].todo, Go(c, r)
    PROVE  /\ Others(c) /\ Place(c) \in Steps
           /\ \/ /\ req'[c] = Rest /\ Place(c)' = "rest"
                 /\ Successor(req[c].op, Place(c)) = "rest" \/ (Place(c) = "markError" /\ "log" \in Failing)
              \/ /\ Place(c)' = Successor(req[c].op, Place(c)) /\ Place(c)' # "rest"
                 /\ req'[c].op = r.op /\ req'[c].port = r.port /\ req'[c].row = r.row
                 /\ Tail(req[c].todo) # <<>>
  <1>1. req[c].todo # <<>> /\ Place(c) = Head(req[c].todo)
    BY DEF Place, Idle
  <1> DEFINE next == [r EXCEPT !.todo = Tail(@)]
  <1>2. Path(req[c].op, req[c].todo) /\ req[c].todo \in Seq(Steps)
    BY DEF Shape, Path
  <1>3. Tail(req[c].todo) \in Seq(Steps)
    BY <1>1, <1>2, HeadTailProperties
  <1>4. next \in Requests /\ next.op = r.op /\ next.port = r.port /\ next.row = r.row /\ next.todo = Tail(req[c].todo)
    BY <1>3 DEF Requests
  <1>5. /\ Path(req[c].op, Tail(req[c].todo)) /\ Place(c) \in Steps
        /\ Tail(req[c].todo) = <<>> => Successor(req[c].op, Place(c)) = "rest" \/ (Place(c) = "markError" /\ "log" \in Failing)
        /\ Tail(req[c].todo) # <<>> => /\ Head(Tail(req[c].todo)) = Successor(req[c].op, Place(c))
                                       /\ Successor(req[c].op, Place(c)) # "rest"
    BY <1>1, <1>2, TailPath
  <1>6. Set(c, next)
    BY DEF Go
  <1> HIDE DEF next
  <1>7. Path(next.op, next.todo)
    BY <1>4, <1>5
  <1>8. /\ Others(c)
        /\ next.todo = <<>> => req'[c] = Rest /\ Place(c)' = "rest"
        /\ next.todo # <<>> => req'[c] = next /\ Place(c)' = Head(next.todo)
    BY <1>4, <1>6, <1>7, SetMoves
  <1> QED
    BY <1>4, <1>5, <1>8

LEMMA ContinueMoves ==
    ASSUME Shape, NEW c \in Clients, Place(c) # "rest", Continue(c)
    PROVE  /\ Others(c) /\ Place(c) \in Steps
           /\ \/ /\ req'[c] = Rest /\ Place(c)' = "rest"
                 /\ Successor(req[c].op, Place(c)) = "rest" \/ (Place(c) = "markError" /\ "log" \in Failing)
              \/ /\ Place(c)' = Successor(req[c].op, Place(c)) /\ Place(c)' # "rest"
                 /\ req'[c].op = req[c].op /\ req'[c].port = req[c].port /\ req'[c].row = req[c].row
                 /\ Tail(req[c].todo) # <<>>
  <1>1. req[c] \in Requests
    BY DEF Shape
  <1>2. Go(c, req[c])
    BY DEF Continue
  <1> QED
    BY <1>1, <1>2, GoMoves

\* A procedure that throws is at its end; one that fails marks that.
LEMMA JumpMoves ==
    ASSUME Shape, NEW c \in Clients, NEW todo, Path(req[c].op, todo), Jump(c, todo)
    PROVE  /\ Others(c)
           /\ todo = <<>> => req'[c] = Rest /\ Place(c)' = "rest"
           /\ todo # <<>> => /\ Place(c)' = Head(todo) /\ req'[c].todo = todo /\ req'[c].op = req[c].op
                             /\ req'[c].port = req[c].port /\ req'[c].row = req[c].row
  <1> DEFINE next == [req[c] EXCEPT !.todo = todo]
  <1>1. req[c] \in Requests /\ todo \in Seq(Steps)
    BY DEF Shape, Path
  <1>2. /\ next \in Requests /\ next.op = req[c].op /\ next.port = req[c].port
        /\ next.row = req[c].row /\ next.todo = todo
    BY <1>1 DEF Requests
  <1>3. Set(c, next)
    BY DEF Jump
  <1> HIDE DEF next
  <1>4. /\ Others(c)
        /\ next.todo = <<>> => req'[c] = Rest /\ Place(c)' = "rest"
        /\ next.todo # <<>> => req'[c] = next /\ Place(c)' = Head(next.todo)
    BY <1>2, <1>3, SetMoves
  <1> QED
    BY <1>2, <1>4

LEMMA ThrowMoves ==
    ASSUME Shape, NEW c \in Clients, Throw(c)
    PROVE  Others(c) /\ req'[c] = Rest /\ Place(c)' = "rest"
  <1>1. Path(req[c].op, <<>>)
    <2>1. <<>> \in Seq(Steps) /\ Len(<<>>) = 0
      BY EmptySeq
    <2> QED
      BY <2>1 DEF Path
  <1> QED
    BY <1>1, JumpMoves DEF Throw

LEMMA FailMoves ==
    ASSUME Shape, NEW c \in Clients, Fail(c)
    PROVE  /\ Others(c) /\ Place(c)' = "markError" /\ overlooked' = TRUE
           /\ req'[c].op = req[c].op /\ req'[c].port = req[c].port /\ req'[c].row = req[c].row
  <1> DEFINE todo == <<"markError", "finalizeError">>
  <1>1. Path(req[c].op, todo)
    BY DEF Path, Steps, Successor
  <1>2. todo # <<>> /\ Head(todo) = "markError"
    OBVIOUS
  <1>3. Jump(c, todo) /\ overlooked' = TRUE
    BY DEF Fail
  <1> HIDE DEF todo
  <1> QED
    BY <1>1, <1>2, <1>3, JumpMoves

LEMMA BeginMoves ==
    ASSUME Shape, NEW c \in Clients, Operations \subseteq Procedures, Begin(c)
    PROVE  /\ Others(c) /\ req'[c].op \in Operations /\ req'[c].row = 0 /\ req'[c].port = 0
           /\ Place(c)' = CASE req'[c].op = "deploy" -> "find"
                            [] req'[c].op = "saveExternalPort" -> "port"
                            [] req'[c].op = "start" -> "scaleUp"
                            [] req'[c].op \in {"stop", "reload"} -> "scaleDown"
                            [] OTHER -> "removeService"
           /\ \A d \in Clients : ~ Idle(d) => {req'[c].op, req[d].op} \subseteq MayOverlap
  <1>1. PICK op \in Operations :
            /\ \A d \in Clients : ~ Idle(d) => {op, req[d].op} \subseteq MayOverlap
            /\ Set(c, [Rest EXCEPT !.op = op, !.todo = Program(op)])
    BY DEF Begin
  <1> DEFINE r == [Rest EXCEPT !.op = op, !.todo = Program(op)]
  <1>2. op \in Procedures
    OBVIOUS
  <1>3. /\ Path(op, Program(op)) /\ Program(op) # <<>> /\ Program(op) \in Seq(Steps)
        /\ Head(Program(op)) = CASE op = "deploy" -> "find"
                                 [] op = "saveExternalPort" -> "port"
                                 [] op = "start" -> "scaleUp"
                                 [] op \in {"stop", "reload"} -> "scaleDown"
                                 [] OTHER -> "removeService"
    BY <1>2, Programs DEF Path
  <1>4. r \in Requests /\ r.op = op /\ r.todo = Program(op) /\ r.row = 0 /\ r.port = 0
    BY <1>2, <1>3 DEF Requests, Rest
  <1>5. Set(c, r)
    BY <1>1
  <1> HIDE DEF r
  <1>6. Others(c) /\ req'[c] = r /\ Place(c)' = Head(r.todo)
    BY <1>3, <1>4, <1>5, SetMoves
  <1> QED
    BY <1>1, <1>3, <1>4, <1>6

-----------------------------------------------------------------------------
(* One deployment at a time: no step breaks the invariant.                  *)

\* A step that neither writes the table nor reads the service or looks for a
\* deployment in progress.
LEMMA Steady ==
    ASSUME SingleInv, NEW c \in Clients, Others(c), rows' = rows, Place(c)' \notin {"check", "insert"},
           IF Place(c)' \in Late \cup {"markError"} THEN req'[c].row = req[c].row ELSE req'[c].row = 0,
           Place(c)' \in Late => req[c].row # 0,
           Place(c)' = "markError" /\ Tail(req'[c].todo) # <<>> => req[c].row # 0
    PROVE  SingleInv'
  <1>1. Shape'
    <2>1. \A d \in Clients : req'[d].row \in 0..Len(rows)
      BY DEF SingleInv, Shape, Others
    <2> QED
      BY <2>1 DEF SingleInv, Shape, Others, Idle
  <1>2. \A d \in Clients : Place(d)' \in {"check", "insert"} => d # c /\ Place(d)' = Place(d) /\ req'[d] = req[d]
    BY DEF Others
  <1>3. \A d \in Clients : req'[d].row # 0 => req'[d].row = req[d].row
    BY DEF Others
  <1>4. RowHeld'
    <2>1. \A d \in Clients : Place(d)' \in Late => req'[d].row # 0
      BY DEF SingleInv, RowHeld, Others
    <2>2. \A d \in Clients : Place(d)' = "markError" /\ Tail(req'[d].todo) # <<>> => req'[d].row # 0
      BY DEF SingleInv, RowHeld, Others
    <2>3. \A d \in Clients : req'[d].row # 0 => Place(d)' \in Late \cup {"markError"}
      BY DEF SingleInv, RowHeld, Others
    <2>4. \A d \in Clients : req'[d].row # 0 => rows'[req'[d].row] = [status |-> "running", fresh |-> TRUE]
      BY <1>3 DEF SingleInv, RowHeld
    <2> QED
      BY <2>1, <2>2, <2>3, <2>4 DEF RowHeld
  <1>5. Narrow'
    <2>1. \A d, e \in Clients : {Place(d)', Place(e)'} \subseteq {"check", "insert"} => d = e
      BY <1>2 DEF SingleInv, Narrow
    <2>2. \A d, e \in Clients : Place(d)' = "insert" => req'[e].row = 0
      BY <1>2, <1>3 DEF SingleInv, Narrow
    <2> QED
      BY <2>1, <2>2 DEF Narrow
  <1>6. OneDeploymentAtATime'
    BY <1>3 DEF SingleInv, OneDeploymentAtATime, Deploying
  <1> QED
    BY <1>1, <1>4, <1>5, <1>6 DEF SingleInv

\* A procedure that ends, whatever it was at.
LEMMA SteadyEnd ==
    ASSUME SingleInv, NEW c \in Clients, Others(c), rows' = rows, req'[c] = Rest, Place(c)' = "rest"
    PROVE  SingleInv'
  BY Steady, RestShape DEF Late

LEMMA SteadyContinue ==
    ASSUME SingleInv, NEW c \in Clients, rows' = rows, Continue(c), Place(c) \notin {"rest", "find", "check", "insert"}
    PROVE  SingleInv'
  <1>1. Shape /\ RowHeld
    BY DEF SingleInv
  <1>2. /\ Others(c) /\ Place(c) \in Steps
        /\ \/ req'[c] = Rest /\ Place(c)' = "rest"
           \/ /\ Place(c)' = Successor(req[c].op, Place(c)) /\ Place(c)' # "rest"
              /\ req'[c].row = req[c].row /\ Tail(req[c].todo) # <<>>
    BY <1>1, ContinueMoves
  <1>3. CASE req'[c] = Rest /\ Place(c)' = "rest"
    BY <1>2, <1>3, SteadyEnd
  <1>4. CASE /\ Place(c)' = Successor(req[c].op, Place(c)) /\ Place(c)' # "rest"
             /\ req'[c].row = req[c].row /\ Tail(req[c].todo) # <<>>
    <2>1. CASE Place(c) \in Late \cup {"markError"}
      <3>1. Place(c)' \in Late
        BY <1>4, <2>1 DEF Successor, Late
      <3>2. req[c].row # 0
        BY <1>1, <1>4, <2>1 DEF RowHeld
      <3>3. Place(c)' \notin {"check", "insert", "markError"}
        BY <3>1 DEF Late
      <3> QED
        BY <1>2, <1>4, <3>1, <3>2, <3>3, Steady
    <2>2. CASE Place(c) \notin Late \cup {"markError"}
      <3>1. Place(c)' \notin Late \cup {"markError", "check", "insert"}
        BY <1>2, <1>4, <2>2 DEF Successor, Late, Steps
      <3>2. req[c].row = 0
        BY <1>1, <2>2 DEF RowHeld
      <3> QED
        BY <1>2, <1>4, <3>1, <3>2, Steady
    <2> QED
      BY <2>1, <2>2
  <1> QED
    BY <1>2, <1>3, <1>4

LEMMA SteadyFail ==
    ASSUME SingleInv, NEW c \in Clients, rows' = rows, Fail(c), Place(c) \in Late
    PROVE  SingleInv'
  <1>1. Shape /\ RowHeld
    BY DEF SingleInv
  <1>2. Others(c) /\ Place(c)' = "markError" /\ req'[c].row = req[c].row
    BY <1>1, FailMoves
  <1>3. req[c].row # 0 /\ Place(c)' \notin Late \cup {"check", "insert"}
    BY <1>1, <1>2 DEF RowHeld, Late
  <1> QED
    BY <1>2, <1>3, Steady

\* A deployment that closes its row is at its end, and nobody else has one.
LEMMA Closes ==
    ASSUME SingleInv, NEW c \in Clients, Continue(c), Place(c) \in {"finalize", "finalizeError"},
           NEW s \in {"done", "error"}, rows' = [rows EXCEPT ![req[c].row].status = s]
    PROVE  SingleInv'
  <1>1. Shape /\ RowHeld /\ Narrow /\ OneDeploymentAtATime
    BY DEF SingleInv
  <1>2. Others(c) /\ req'[c] = Rest /\ Place(c)' = "rest"
    <2>1. Successor(req[c].op, Place(c)) = "rest"
      BY DEF Successor
    <2> QED
      BY <1>1, <2>1, ContinueMoves
  <1>3. req[c].row \in 1..Len(rows) /\ rows \in Seq(DeploymentRows) /\ Len(rows) \in Nat
    <2>1. req[c].row # 0
      BY <1>1 DEF RowHeld, Late
    <2>2. rows \in Seq(DeploymentRows) /\ req[c].row \in 0..Len(rows)
      BY <1>1 DEF Shape
    <2> QED
      BY <2>1, <2>2, LenProperties
  <1>4. rows' \in Seq(DeploymentRows) /\ Len(rows') = Len(rows)
    <2> DEFINE new == [rows[req[c].row] EXCEPT !.status = s]
    <2>1. rows[req[c].row] \in DeploymentRows
      BY <1>3, ElementOfSeq
    <2>2. new \in DeploymentRows
      BY <2>1 DEF DeploymentRows
    <2>3. rows' = [rows EXCEPT ![req[c].row] = new]
      OBVIOUS
    <2> HIDE DEF new
    <2> QED
      BY <1>3, <2>2, <2>3, ExceptSeq
  <1>5. \A d \in Clients : req'[d].row = 0
    BY <1>1, <1>2, <1>3, RestShape DEF Others, OneDeploymentAtATime, Deploying
  <1>6. \A d \in Clients : Place(d)' # "rest" => d # c /\ Place(d)' = Place(d) /\ req'[d] = req[d]
    BY <1>2 DEF Others
  <1>7. Shape'
    <2>1. \A d \in Clients : req'[d].row \in 0..Len(rows')
      BY <1>3, <1>4, <1>5
    <2> QED
      BY <1>2, <1>4, <2>1 DEF Shape, Others, Idle
  <1>8. RowHeld'
    <2>1. \A d \in Clients : Place(d)' \notin Late /\ ~ (Place(d)' = "markError" /\ Tail(req'[d].todo) # <<>>)
      BY <1>1, <1>2, <1>5, <1>6 DEF RowHeld, Late
    <2> QED
      BY <1>5, <2>1 DEF RowHeld
  <1>9. Narrow'
    BY <1>1, <1>5, <1>6 DEF Narrow
  <1>10. OneDeploymentAtATime'
    BY <1>5 DEF OneDeploymentAtATime, Deploying
  <1> QED
    BY <1>7, <1>8, <1>9, <1>10 DEF SingleInv

\* Reading the service: nobody else may be about to deploy.
LEMMA FindSteady ==
    ASSUME SingleInv, Spaced, NEW c \in Clients, FindMongo(c), service.port \in Nat
    PROVE  SingleInv'
  <1>1. Shape /\ RowHeld /\ Narrow /\ OneDeploymentAtATime /\ rows' = rows /\ Place(c) = "find"
    BY DEF SingleInv, FindMongo, At, Place, Idle
  <1>2. CASE ~ service.exists
    <2>1. Others(c) /\ req'[c] = Rest /\ Place(c)' = "rest"
      BY <1>1, <1>2, ThrowMoves DEF FindMongo
    <2> QED
      BY <1>1, <2>1, SteadyEnd
  <1>3. CASE service.exists
    <2> DEFINE r == [req[c] EXCEPT !.port = service.port]
    <2>1. req[c] \in Requests
      BY <1>1 DEF Shape
    <2>2. r \in Requests /\ r.op = req[c].op /\ r.todo = req[c].todo /\ r.row = req[c].row
      BY <2>1 DEF Requests
    <2>3. Go(c, r)
      BY <1>3 DEF FindMongo
    <2> HIDE DEF r
    <2>4. Successor(req[c].op, Place(c)) = "check" /\ Place(c) \notin {"rest", "markError"}
      BY <1>1 DEF Successor
    <2>5. Others(c) /\ Place(c)' = "check" /\ req'[c].row = req[c].row
      BY <1>1, <2>2, <2>3, <2>4, GoMoves
    <2>6. req[c].row = 0
      BY <1>1 DEF RowHeld, Late
    <2>7. \A d \in Clients : Place(d) \notin {"check", "insert"}
      BY DEF FindMongo, At, Place, Idle
    <2>8. \A d \in Clients : Place(d)' \in {"check", "insert"} => d = c
      BY <2>5, <2>7 DEF Others
    <2>9. Shape'
      <3>1. \A d \in Clients : req'[d].row \in 0..Len(rows')
        BY <1>1, <2>5 DEF Shape, Others
      <3> QED
        BY <1>1, <2>5, <3>1 DEF Shape, Others, Idle
    <2>10. RowHeld'
      <3>1. \A d \in Clients \ {c} : req'[d] = req[d] /\ Place(d)' = Place(d)
        BY <2>5 DEF Others
      <3>2. req'[c].row = 0 /\ Place(c)' \notin Late \cup {"markError"}
        BY <2>5, <2>6 DEF Late
      <3> QED
        BY <1>1, <3>1, <3>2 DEF RowHeld
    <2>11. Narrow'
      BY <2>5, <2>8 DEF Narrow
    <2>12. OneDeploymentAtATime'
      BY <1>1, <2>5, <2>6 DEF OneDeploymentAtATime, Deploying, Others
    <2> QED
      BY <2>9, <2>10, <2>11, <2>12 DEF SingleInv
  <1> QED
    BY <1>2, <1>3

\* The check finds the deployment in progress: its row says so.
LEMMA CheckSteady ==
    ASSUME SingleInv, NEW c \in Clients, CheckInProgress(c)
    PROVE  SingleInv'
  <1>1. Shape /\ RowHeld /\ Narrow /\ OneDeploymentAtATime /\ rows' = rows /\ Place(c) = "check"
    BY DEF SingleInv, CheckInProgress, At, Place, Idle
  <1>2. CASE InProgress
    <2>1. Others(c) /\ req'[c] = Rest /\ Place(c)' = "rest"
      BY <1>1, <1>2, ThrowMoves DEF CheckInProgress
    <2> QED
      BY <1>1, <2>1, SteadyEnd
  <1>3. CASE ~ InProgress
    <2>1. Continue(c)
      BY <1>3 DEF CheckInProgress
    <2>2. Successor(req[c].op, Place(c)) = "insert" /\ Place(c) \notin {"rest", "markError"}
      BY <1>1 DEF Successor
    <2>3. Others(c) /\ Place(c)' = "insert" /\ req'[c].row = req[c].row
      BY <1>1, <2>1, <2>2, ContinueMoves
    <2>4. \A d \in Clients : req[d].row = 0
      <3> SUFFICES ASSUME NEW d \in Clients, req[d].row # 0
                   PROVE  FALSE
        OBVIOUS
      <3>1. req[d].row \in 1..Len(rows) /\ rows \in Seq(DeploymentRows)
        <4>1. rows \in Seq(DeploymentRows) /\ req[d].row \in 0..Len(rows)
          BY <1>1 DEF Shape
        <4> QED
          BY <4>1, LenProperties
      <3>2. req[d].row \in DOMAIN rows
        BY <3>1, LenProperties
      <3>3. rows[req[d].row] = [status |-> "running", fresh |-> TRUE]
        BY <1>1 DEF RowHeld
      <3> QED
        BY <1>3, <3>2, <3>3 DEF InProgress
    <2>5. \A d \in Clients : req'[d].row = 0
      BY <2>3, <2>4 DEF Others
    <2>6. \A d \in Clients : Place(d)' \in {"check", "insert"} => d = c
      BY <1>1, <2>3 DEF Others, Narrow
    <2>7. Shape'
      <3>1. \A d \in Clients : req'[d].row \in 0..Len(rows')
        BY <1>1, <2>3 DEF Shape, Others
      <3> QED
        BY <1>1, <2>3, <3>1 DEF Shape, Others, Idle
    <2>8. RowHeld'
      <3>1. \A d \in Clients \ {c} : req'[d] = req[d] /\ Place(d)' = Place(d)
        BY <2>3 DEF Others
      <3>2. Place(c)' \notin Late \cup {"markError"}
        BY <2>3 DEF Late
      <3>3. \A d \in Clients : Place(d)' \notin Late /\ ~ (Place(d)' = "markError" /\ Tail(req'[d].todo) # <<>>)
        BY <1>1, <2>4, <3>1, <3>2 DEF RowHeld
      <3> QED
        BY <2>5, <3>3 DEF RowHeld
    <2>9. Narrow'
      BY <2>5, <2>6 DEF Narrow
    <2>10. OneDeploymentAtATime'
      BY <2>5 DEF OneDeploymentAtATime, Deploying
    <2> QED
      BY <2>7, <2>8, <2>9, <2>10 DEF SingleInv
  <1> QED
    BY <1>2, <1>3

\* The row is written when nobody has one; without a log there is none.
LEMMA InsertSteady ==
    ASSUME SingleInv, NEW c \in Clients, InsertDeployment(c)
    PROVE  SingleInv'
  <1>1. Shape /\ RowHeld /\ Narrow /\ OneDeploymentAtATime /\ Place(c) = "insert"
    BY DEF SingleInv, InsertDeployment, At, Place, Idle
  <1>2. \A d \in Clients : req[d].row = 0
    BY <1>1 DEF Narrow
  <1>3. req[c] \in Requests /\ rows \in Seq(DeploymentRows) /\ Len(rows) \in Nat
    BY <1>1, LenProperties DEF Shape
  <1>4. CASE /\ "log" \in Failing /\ Jump(c, <<"markError">>)
             /\ overlooked' = TRUE /\ UNCHANGED rows
    <2>1. Path(req[c].op, <<"markError">>)
      BY <1>4 DEF Path, Steps, Successor
    <2> DEFINE todo == <<"markError">>
    <2>2. todo # <<>> /\ Head(todo) = "markError" /\ Tail(todo) = <<>>
      OBVIOUS
    <2>3. Path(req[c].op, todo) /\ Jump(c, todo)
      BY <1>4, <2>1
    <2> HIDE DEF todo
    <2>4. Others(c) /\ Place(c)' = "markError" /\ req'[c].todo = todo /\ req'[c].row = req[c].row
      BY <1>1, <2>2, <2>3, JumpMoves
    <2>5. Place(c)' \notin Late \cup {"check", "insert"} /\ ~ (Place(c)' = "markError" /\ Tail(req'[c].todo) # <<>>)
      BY <2>2, <2>4 DEF Late
    <2> QED
      BY <1>4, <2>4, <2>5, Steady
  <1>5. CASE /\ rows' = Append(rows, [status |-> "running", fresh |-> TRUE])
             /\ Go(c, [req[c] EXCEPT !.row = Len(rows) + 1])
             /\ UNCHANGED overlooked
    <2> DEFINE r == [req[c] EXCEPT !.row = Len(rows) + 1]
               new == [status |-> "running", fresh |-> TRUE]
    <2>1. r \in Requests /\ r.op = req[c].op /\ r.todo = req[c].todo /\ r.row = Len(rows) + 1
      BY <1>3 DEF Requests
    <2>2. Go(c, r)
      BY <1>5
    <2> HIDE DEF r
    <2>3. Successor(req[c].op, Place(c)) = "markRunning" /\ Place(c) \notin {"rest", "markError"}
      BY <1>1 DEF Successor
    <2>4. Others(c) /\ Place(c)' = "markRunning" /\ req'[c].row = Len(rows) + 1
      BY <1>1, <2>1, <2>2, <2>3, GoMoves
    <2>5. \A d \in Clients \ {c} : req'[d].row = 0 /\ Place(d)' = Place(d)
      BY <1>2, <2>4 DEF Others
    <2>6. /\ rows' \in Seq(DeploymentRows) /\ Len(rows') = Len(rows) + 1
          /\ rows'[Len(rows) + 1] = new
      <3>1. new \in DeploymentRows
        BY DEF DeploymentRows
      <3>2. rows' = Append(rows, new)
        BY <1>5
      <3> HIDE DEF new
      <3> QED
        BY <1>3, <3>1, <3>2, AppendProperties
    <2>7. Shape'
      <3>1. \A d \in Clients : req'[d].row \in 0..Len(rows')
        BY <1>3, <2>4, <2>5, <2>6
      <3> QED
        BY <2>4, <2>6, <3>1 DEF Shape, Others, Idle
    <2>8. RowHeld'
      <3>1. \A d \in Clients \ {c} : /\ Place(d)' \notin Late
                                     /\ ~ (Place(d)' = "markError" /\ Tail(req'[d].todo) # <<>>)
        <4>1. \A d \in Clients \ {c} : req'[d] = req[d] /\ Place(d)' = Place(d)
          BY <2>4 DEF Others
        <4> QED
          BY <1>1, <1>2, <4>1 DEF RowHeld
      <3>2. req'[c].row # 0 /\ Place(c)' \in Late
        BY <1>3, <2>4 DEF Late
      <3>3. rows'[req'[c].row] = [status |-> "running", fresh |-> TRUE]
        BY <2>4, <2>6
      <3> QED
        BY <2>5, <3>1, <3>2, <3>3 DEF RowHeld
    <2>9. Narrow'
      <3>1. \A d \in Clients : Place(d)' \notin {"check", "insert"}
        BY <1>1, <2>4, <2>5 DEF Narrow
      <3> QED
        BY <3>1 DEF Narrow
    <2>10. OneDeploymentAtATime'
      BY <2>5 DEF OneDeploymentAtATime, Deploying
    <2> QED
      BY <2>7, <2>8, <2>9, <2>10 DEF SingleInv
  <1> QED
    BY <1>4, <1>5 DEF InsertDeployment

\* A procedure begins at a step before its deployment.
LEMMA BeginSteady ==
    ASSUME SingleInv, Operations \subseteq Procedures, NEW c \in Clients, Begin(c)
    PROVE  SingleInv'
  <1>1. Shape /\ rows' = rows
    BY DEF SingleInv, Begin
  <1>2. Others(c) /\ req'[c].row = 0 /\ Place(c)' \in {"find", "port", "scaleUp", "scaleDown", "removeService"}
    BY <1>1, BeginMoves
  <1> QED
    BY <1>1, <1>2, Steady DEF Late

\* Ten minutes do not pass over the row of a deployment under way, and a restart
\* ends every procedure.
LEMMA AgeSteady == SingleInv /\ Age => SingleInv'
  <1> SUFFICES ASSUME SingleInv, Age
               PROVE  SingleInv'
    OBVIOUS
  <1>1. Shape /\ RowHeld /\ Narrow /\ OneDeploymentAtATime /\ UNCHANGED req
    BY DEF SingleInv, Age
  <1>2. PICK i \in DOMAIN rows : (\A c \in Clients : req[c].row # i) /\ rows' = [rows EXCEPT ![i].fresh = FALSE]
    BY DEF Age
  <1>3. rows \in Seq(DeploymentRows) /\ i \in 1..Len(rows)
    BY <1>1, LenProperties DEF Shape
  <1>4. rows' \in Seq(DeploymentRows) /\ Len(rows') = Len(rows) /\ \A j \in 1..Len(rows) : j # i => rows'[j] = rows[j]
    <2> DEFINE new == [rows[i] EXCEPT !.fresh = FALSE]
    <2>0. rows[i] \in DeploymentRows
      BY <1>3, ElementOfSeq
    <2>1. new \in DeploymentRows
      BY <2>0 DEF DeploymentRows
    <2>2. rows' = [rows EXCEPT ![i] = new]
      BY <1>2
    <2> HIDE DEF new
    <2> QED
      BY <1>3, <2>1, <2>2, ExceptSeq
  <1>5. Shape'
    BY <1>1, <1>4 DEF Shape, Idle
  <1>6. \A c \in Clients : req[c].row # 0 => rows'[req[c].row] = rows[req[c].row]
    <2> SUFFICES ASSUME NEW c \in Clients, req[c].row # 0
                 PROVE  rows'[req[c].row] = rows[req[c].row]
      OBVIOUS
    <2>1. req[c].row \in 1..Len(rows)
      <3>1. req[c].row \in 0..Len(rows) /\ Len(rows) \in Nat
        BY <1>1, <1>3, LenProperties DEF Shape
      <3> QED
        BY <3>1
    <2> QED
      BY <1>2, <1>4, <2>1
  <1>7. RowHeld'
    BY <1>1, <1>6 DEF RowHeld, Place, Idle
  <1>8. Narrow' /\ OneDeploymentAtATime'
    BY <1>1 DEF Narrow, OneDeploymentAtATime, Deploying, Place, Idle
  <1> QED
    BY <1>5, <1>7, <1>8 DEF SingleInv

LEMMA RestartSteady == SingleInv /\ Restart => SingleInv'
  <1> SUFFICES ASSUME SingleInv, Restart
               PROVE  SingleInv'
    OBVIOUS
  <1>1. rows \in Seq(DeploymentRows) /\ rows \in [1..Len(rows) -> DeploymentRows] /\ Len(rows) \in Nat /\ DOMAIN rows = 1..Len(rows)
    BY LenProperties DEF SingleInv, Shape
  <1>2. req' = [c \in Clients |-> Rest]
    BY DEF Restart
  <1>3. \A c \in Clients : req'[c] = Rest /\ Place(c)' = "rest"
    BY <1>2, RestShape DEF Place, Idle
  <1>4. rows' \in Seq(DeploymentRows) /\ Len(rows') \in Nat
    <2>1. rows' = [i \in 1..Len(rows) |-> IF rows[i].status = "running" THEN [rows[i] EXCEPT !.status = "cancelled"] ELSE rows[i]]
      BY <1>1 DEF Restart
    <2>2. \A i \in 1..Len(rows) : rows[i] \in DeploymentRows /\ [rows[i] EXCEPT !.status = "cancelled"] \in DeploymentRows
      BY <1>1 DEF DeploymentRows
    <2>3. rows' \in [1..Len(rows) -> DeploymentRows]
      BY <2>1, <2>2
    <2>4. rows' \in Seq(DeploymentRows)
      BY <1>1, <2>3
    <2> QED
      BY <2>4, LenProperties
  <1>5. Shape'
    BY <1>2, <1>3, <1>4, RestShape DEF Shape, Idle
  <1>6. RowHeld' /\ Narrow' /\ OneDeploymentAtATime'
    BY <1>3, RestShape DEF RowHeld, Narrow, OneDeploymentAtATime, Deploying, Late
  <1> QED
    BY <1>5, <1>6 DEF SingleInv

-----------------------------------------------------------------------------
Services == [exists : BOOLEAN, status : {"idle", "running", "done", "error"}, port : Nat]

\* The service's row keeps to its type.
LEMMA ServiceStep == service \in Services /\ [Next]_mongo => service' \in Services
  <1> SUFFICES ASSUME service \in Services, [Next]_mongo
               PROVE  service' \in Services
    OBVIOUS
  <1>1. CASE Age \/ Restart \/ UNCHANGED mongo
    BY <1>1 DEF Age, Restart, mongo
  <1>2. CASE \E c \in Clients : Begin(c) \/ DeployStep(c)
    BY <1>2 DEF Begin, DeployStep, FindMongo, CheckInProgress, InsertDeployment, MarkRunning, PullImage,
                BuildMongo, MarkDone, Finalize, MarkError, FinalizeError, Services
  <1>3. CASE \E c \in Clients : RouterStep(c)
    <2>1. PICK c \in Clients : RouterStep(c)
      BY <1>3
    <2>2. CASE Scale(c) \/ RemoveService(c) \/ Settle(c)
      BY <2>2 DEF Scale, RemoveService, Settle
    <2>3. CASE SavePort(c)
      <3>1. service' = [service EXCEPT !.port = service.port + 1]
        BY <2>3 DEF SavePort
      <3> QED
        BY <3>1 DEF Services
    <2>4. CASE MarkScaled(c) \/ DropRow(c)
      BY <2>4 DEF MarkScaled, DropRow, Services
    <2> QED
      BY <2>1, <2>2, <2>3, <2>4 DEF RouterStep
  <1> QED
    BY <1>1, <1>2, <1>3 DEF Next

LEMMA SingleInit == Init => SingleInv /\ service \in Services
  <1> SUFFICES ASSUME Init
               PROVE  SingleInv /\ service \in Services
    OBVIOUS
  <1>1. service \in Services
    BY DEF Init, Services
  <1>2. rows \in Seq(DeploymentRows) /\ Len(rows) = 0
    BY EmptySeq DEF Init
  <1>3. req \in [Clients -> Requests] /\ \A c \in Clients : req[c] = Rest /\ Place(c) = "rest"
    BY RestShape DEF Init, Place, Idle
  <1>4. Shape
    BY <1>2, <1>3, RestShape DEF Shape, Idle
  <1>5. RowHeld /\ Narrow /\ OneDeploymentAtATime
    BY <1>3, RestShape DEF RowHeld, Narrow, OneDeploymentAtATime, Deploying, Late
  <1> QED
    BY <1>1, <1>4, <1>5 DEF SingleInv

LEMMA SingleDeployStep ==
    ASSUME SingleInv, Spaced, service \in Services, NEW c \in Clients, DeployStep(c)
    PROVE  SingleInv'
  <1>1. Shape
    BY DEF SingleInv
  <1>2. CASE FindMongo(c)
    BY <1>2, FindSteady DEF Services
  <1>3. CASE CheckInProgress(c)
    BY <1>3, CheckSteady
  <1>4. CASE InsertDeployment(c)
    BY <1>4, InsertSteady
  <1>5. CASE MarkRunning(c) \/ MarkDone(c)
    <2>1. Continue(c) /\ rows' = rows /\ Place(c) \in {"markRunning", "markDone"}
      BY <1>5 DEF MarkRunning, MarkDone, At, Place, Idle
    <2> QED
      BY <2>1, SteadyContinue
  <1>6. CASE PullImage(c) \/ BuildMongo(c)
    <2>1. (Continue(c) \/ Fail(c)) /\ rows' = rows /\ Place(c) \in {"pull", "build"}
      BY <1>6 DEF PullImage, BuildMongo, At, Place, Idle
    <2> QED
      BY <2>1, SteadyContinue, SteadyFail DEF Late
  <1>7. CASE Finalize(c)
    <2>1. Place(c) = "finalize"
      BY <1>7 DEF Finalize, At, Place, Idle
    <2>2. \/ Continue(c) /\ rows' = [rows EXCEPT ![req[c].row].status = "done"]
          \/ Fail(c) /\ rows' = rows
      BY <1>7 DEF Finalize
    <2> QED
      BY <2>1, <2>2, Closes, SteadyFail DEF Late
  <1>8. CASE MarkError(c)
    <2>1. Place(c) = "markError" /\ rows' = rows /\ (Continue(c) \/ Throw(c))
      BY <1>8 DEF MarkError, At, Place, Idle
    <2> QED
      BY <1>1, <2>1, SteadyContinue, ThrowMoves, SteadyEnd
  <1>9. CASE FinalizeError(c)
    <2>1. Place(c) = "finalizeError" /\ Continue(c)
      BY <1>9 DEF FinalizeError, At, Place, Idle
    <2>2. rows' = [rows EXCEPT ![req[c].row].status = "error"] \/ rows' = rows
      BY <1>9 DEF FinalizeError
    <2> QED
      BY <2>1, <2>2, Closes, SteadyContinue
  <1> QED
    BY <1>2, <1>3, <1>4, <1>5, <1>6, <1>7, <1>8, <1>9 DEF DeployStep

LEMMA SingleRouterStep ==
    ASSUME SingleInv, NEW c \in Clients, RouterStep(c)
    PROVE  SingleInv'
  <1>1. Shape
    BY DEF SingleInv
  <1>2. /\ rows' = rows /\ (Continue(c) \/ Throw(c))
        /\ Place(c) \in {"port", "scaleUp", "scaleDown", "markStarted", "markIdle", "removeService", "settle", "dropRow"}
    <2>1. CASE SavePort(c) \/ RemoveService(c) \/ DropRow(c)
      BY <2>1 DEF SavePort, RemoveService, DropRow, At, Place, Idle
    <2>2. CASE Scale(c) \/ MarkScaled(c) \/ Settle(c)
      BY <2>2 DEF Scale, MarkScaled, Settle, At, Place, Idle
    <2> QED
      BY <2>1, <2>2 DEF RouterStep
  <1> QED
    BY <1>1, <1>2, SteadyContinue, ThrowMoves, SteadyEnd

LEMMA SingleStep ==
    ASSUME Operations \subseteq Procedures, Spaced, SingleInv, service \in Services, [Next]_mongo
    PROVE  SingleInv'
  <1>1. CASE UNCHANGED mongo
    BY <1>1 DEF mongo, SingleInv, Shape, RowHeld, Narrow, OneDeploymentAtATime, Deploying, Place, Idle
  <1>2. CASE Age \/ Restart
    BY <1>2, AgeSteady, RestartSteady
  <1>3. CASE \E c \in Clients : Begin(c) \/ DeployStep(c) \/ RouterStep(c)
    BY <1>3, BeginSteady, SingleDeployStep, SingleRouterStep
  <1> QED
    BY <1>1, <1>2, <1>3 DEF Next

\* Two deployments of the service are never under way at once, for any number of
\* procedures at any place, whatever fails and however often the API process is
\* restarted, as long as none begins while another is between reading the service
\* and writing its row: the row a deployment holds says that it is in progress.
\* Without that condition Mongo_overlap.cfg shows the violation.
THEOREM OneDeployment ==
    ASSUME Operations \subseteq Procedures, Spaced
    PROVE  Spec => []OneDeploymentAtATime
  <1>1. Init => SingleInv /\ service \in Services
    BY SingleInit
  <1>2. SingleInv /\ service \in Services /\ [Next]_mongo => (SingleInv /\ service \in Services)'
    BY SingleStep, ServiceStep
  <1>3. SingleInv => OneDeploymentAtATime
    BY DEF SingleInv
  <1> QED
    BY <1>1, <1>2, <1>3, PTL DEF Spec

=============================================================================
