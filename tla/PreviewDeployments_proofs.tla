------------------- MODULE PreviewDeployments_proofs -------------------
(***************************************************************************)
(* Proofs about PreviewDeployments, for any pull requests, handlers, users *)
(* and failures: its types; that a preview's status tells what became of   *)
(* its run; that overlapping webhooks make no more previews than there are *)
(* handlers; that a removed preview leaves nothing behind; and that a      *)
(* preview shown as done runs its branch's newest commit.                  *)
(***************************************************************************)
EXTENDS PreviewDeployments, FiniteSetTheorems, SequenceTheorems, TLAPS

Deploys == {"opened", "synchronize", "labeled", "unlabeled"}
Pushes == {"opened", "synchronize"}
Ops == Deploys \cup {"closed", "delete", "redeploy", "cancel", "deleteDomain", "deleteApplication"}

\* What the theorems assume of the constants.
Constants ==
    /\ "none" \notin PullRequests /\ PullRequests # {} /\ Operations \subseteq Ops
    /\ MaxPreviews \in Nat \ {0} /\ MaxCalls \in Nat /\ PreviewLimit \in Nat

\* What is left of a program at each of its steps.
W1 == <<"apps", "lookup", "comment", "insert", "ensure", "route", "enqueue">>
W2 == <<"lookup", "comment", "insert", "ensure", "route", "enqueue">>
W3 == <<"comment", "insert", "ensure", "route", "enqueue">>
W4 == <<"insert", "ensure", "route", "enqueue">>
W5 == <<"ensure", "route", "enqueue">>
W6 == <<"route", "enqueue">>
W7 == <<"enqueue">>
R1 == <<"dns", "service", "deployments", "code", "unroute", "dropRow", "nextRemoval">>
R2 == <<"service", "deployments", "code", "unroute", "dropRow", "nextRemoval">>
R3 == <<"deployments", "code", "unroute", "dropRow", "nextRemoval">>
R4 == <<"code", "unroute", "dropRow", "nextRemoval">>
R5 == <<"unroute", "dropRow", "nextRemoval">>
R6 == <<"dropRow", "nextRemoval">>
R7 == <<"nextRemoval">>
L1 == <<"list", "nextRemoval">>
D1 == <<"find", "nextRemoval">>
E1 == <<"find", "enqueue">>
F1 == <<"find", "dropDomain">>
F2 == <<"dropDomain">>
A1 == <<"dequeue", "notRunning", "notActive", "dequeue", "dropDomains", "dropApplication">>
A2 == <<"notRunning", "notActive", "dequeue", "dropDomains", "dropApplication">>
A3 == <<"notActive", "dequeue", "dropDomains", "dropApplication">>
A4 == <<"dequeue", "dropDomains", "dropApplication">>
A5 == <<"dropDomains", "dropApplication">>
A6 == <<"dropApplication">>
C1 == <<"dequeue">>

Removals == {R1, R2, R3, R4, R5, R6, R7}
Todos(op) ==
    CASE op = "none" -> {<<>>}
      [] op \in Deploys -> {W1, W2, W3, W4, W5, W6, W7}
      [] op = "closed" -> Removals \cup {L1}
      [] op = "delete" -> Removals \cup {D1}
      [] op = "redeploy" -> {E1, W7}
      [] op = "cancel" -> {C1}
      [] op = "deleteDomain" -> {F1, F2}
      [] op = "deleteApplication" -> {A1, A2, A3, A4, A5, A6}

\* A procedure's state, and the step it comes to next.
Calls == [op : Operations \cup {"none"}, pr : PullRequests, preview : Ids, left : SUBSET Ids,
          todo : UNION {Todos(op) : op \in Ops \cup {"none"}}]
Fits(r) == r \in Calls /\ r.todo \in Todos(r.op) /\ (r.todo = <<>> => r = Rest)
Place(todo) == IF todo = <<>> THEN "rest" ELSE Head(todo)
PlaceOf(c) == Place(req[c].todo)

Jobs == [preview : Ids, type : {"deploy", "redeploy"}]
Pcs == {"idle", "begin", "comment", "checkout", "build", "deploy", "ensure", "route", "finish", "catch", "mark"}
Workers == [pc : Pcs, preview : Ids, type : {"deploy", "redeploy"}, built : 0..MaxCalls]
PreviewRow == [pr : PullRequests, status : Statuses, run : RunStatuses]
PreviewRows == [Ids -> {NoRow} \cup PreviewRow]
Waiting(q) == {q[i] : i \in DOMAIN q}
Apart(q) == \A i, j \in DOMAIN q : i # j => q[i].preview # q[j].preview

Data ==
    /\ application \in BOOLEAN
    /\ pulls \in [PullRequests -> [open : BOOLEAN, head : Nat]]
    /\ previews \in PreviewRows
    /\ domains \subseteq Rows /\ routes \subseteq Ids
    /\ services \in [Ids -> 0..MaxCalls] /\ source \in [Ids -> 0..MaxCalls]
    /\ queue \in Seq(Jobs) /\ Apart(queue)
    /\ worker \in Workers
    /\ inserted \in 0..MaxPreviews /\ calls \in 0..MaxCalls

Procedures ==
    /\ DOMAIN req = Clients
    /\ \A c \in Clients :
        /\ Fits(req[c])
        /\ req[c].op \in Events => c \in Handlers

\* Ids are handed out in order, and commits are counted by calls.
Numbers ==
    /\ \A pr \in PullRequests : pulls[pr].head <= calls
    /\ \A p \in Rows : p <= inserted
    /\ \A p \in Ids : source[p] # 0 => p <= inserted
    /\ \A j \in Waiting(queue) : j.preview <= inserted
    /\ worker.pc # "idle" => worker.preview <= inserted
PreviewSteps == {"ensure", "route", "enqueue", "dns", "service", "deployments", "code", "unroute", "dropRow"}
Given(r) ==
    /\ r.op \in {"delete", "redeploy", "deleteDomain"} \/ Place(r.todo) \in PreviewSteps => r.preview <= inserted
    /\ \A p \in r.left : p <= inserted
Known == \A c \in Clients : Given(req[c])

Types == Data /\ Procedures /\ Numbers /\ Known
Histories == missed \subseteq Ids /\ disturbed \subseteq Ids

-----------------------------------------------------------------------------
(* The inductive invariants.                                                *)

\* The step a removal has made that a status "done" does not show.
Leaving(p) == \E c \in Clients : PlaceOf(c) \in {"deployments", "code", "unroute", "dropRow"} /\ req[c].preview = p

Finishing(p) == worker.preview = p /\ worker.pc \in {"ensure", "route", "finish"}

StatusInv ==
    /\ \A p \in Rows :
        /\ previews[p].status = "running" => Active(p)
        /\ previews[p].run = "running" /\ ~ Active(p) => previews[p].status = "error"
        /\ previews[p].status = "done" \/ Finishing(p) => services[p] > 0 \/ Leaving(p)
    /\ worker.pc = "deploy" => worker.built > 0

-----------------------------------------------------------------------------
(* Programs and what is left of them.                                       *)

\* The first step of what is left, and the rest.
LEMMA Tuples ==
    /\ W1 # <<>> /\ Head(W1) = "apps" /\ Tail(W1) = W2
    /\ W2 # <<>> /\ Head(W2) = "lookup" /\ Tail(W2) = W3
    /\ W3 # <<>> /\ Head(W3) = "comment" /\ Tail(W3) = W4
    /\ W4 # <<>> /\ Head(W4) = "insert" /\ Tail(W4) = W5
    /\ W5 # <<>> /\ Head(W5) = "ensure" /\ Tail(W5) = W6
    /\ W6 # <<>> /\ Head(W6) = "route" /\ Tail(W6) = W7
    /\ W7 # <<>> /\ Head(W7) = "enqueue" /\ Tail(W7) = <<>>
    /\ R1 # <<>> /\ Head(R1) = "dns" /\ Tail(R1) = R2
    /\ R2 # <<>> /\ Head(R2) = "service" /\ Tail(R2) = R3
    /\ R3 # <<>> /\ Head(R3) = "deployments" /\ Tail(R3) = R4
    /\ R4 # <<>> /\ Head(R4) = "code" /\ Tail(R4) = R5
    /\ R5 # <<>> /\ Head(R5) = "unroute" /\ Tail(R5) = R6
    /\ R6 # <<>> /\ Head(R6) = "dropRow" /\ Tail(R6) = R7
    /\ R7 # <<>> /\ Head(R7) = "nextRemoval" /\ Tail(R7) = <<>>
    /\ A1 # <<>> /\ Head(A1) = "dequeue" /\ Tail(A1) = A2
    /\ A2 # <<>> /\ Head(A2) = "notRunning" /\ Tail(A2) = A3
    /\ A3 # <<>> /\ Head(A3) = "notActive" /\ Tail(A3) = A4
    /\ A4 # <<>> /\ Head(A4) = "dequeue" /\ Tail(A4) = A5
    /\ A5 # <<>> /\ Head(A5) = "dropDomains" /\ Tail(A5) = A6
    /\ A6 # <<>> /\ Head(A6) = "dropApplication" /\ Tail(A6) = <<>>
    /\ L1 # <<>> /\ Head(L1) = "list" /\ Tail(L1) = R7
    /\ D1 # <<>> /\ Head(D1) = "find" /\ Tail(D1) = R7
    /\ E1 # <<>> /\ Head(E1) = "find" /\ Tail(E1) = W7
    /\ F1 # <<>> /\ Head(F1) = "find" /\ Tail(F1) = F2
    /\ F2 # <<>> /\ Head(F2) = "dropDomain" /\ Tail(F2) = <<>>
    /\ C1 # <<>> /\ Head(C1) = "dequeue" /\ Tail(C1) = <<>>
  <1>1. /\ W1 # <<>> /\ Head(W1) = "apps" /\ Tail(W1) = W2
       /\ W2 # <<>> /\ Head(W2) = "lookup" /\ Tail(W2) = W3
       /\ W3 # <<>> /\ Head(W3) = "comment" /\ Tail(W3) = W4
       /\ W4 # <<>> /\ Head(W4) = "insert" /\ Tail(W4) = W5
       /\ W5 # <<>> /\ Head(W5) = "ensure" /\ Tail(W5) = W6
       /\ W6 # <<>> /\ Head(W6) = "route" /\ Tail(W6) = W7
       /\ W7 # <<>> /\ Head(W7) = "enqueue" /\ Tail(W7) = <<>>
    BY DEF W1, W2, W3, W4, W5, W6, W7
  <1>2. /\ R1 # <<>> /\ Head(R1) = "dns" /\ Tail(R1) = R2
        /\ R2 # <<>> /\ Head(R2) = "service" /\ Tail(R2) = R3
        /\ R3 # <<>> /\ Head(R3) = "deployments" /\ Tail(R3) = R4
        /\ R4 # <<>> /\ Head(R4) = "code" /\ Tail(R4) = R5
        /\ R5 # <<>> /\ Head(R5) = "unroute" /\ Tail(R5) = R6
        /\ R6 # <<>> /\ Head(R6) = "dropRow" /\ Tail(R6) = R7
        /\ R7 # <<>> /\ Head(R7) = "nextRemoval" /\ Tail(R7) = <<>>
    BY DEF R1, R2, R3, R4, R5, R6, R7
  <1>3. /\ A1 # <<>> /\ Head(A1) = "dequeue" /\ Tail(A1) = A2
       /\ A2 # <<>> /\ Head(A2) = "notRunning" /\ Tail(A2) = A3
       /\ A3 # <<>> /\ Head(A3) = "notActive" /\ Tail(A3) = A4
       /\ A4 # <<>> /\ Head(A4) = "dequeue" /\ Tail(A4) = A5
       /\ A5 # <<>> /\ Head(A5) = "dropDomains" /\ Tail(A5) = A6
       /\ A6 # <<>> /\ Head(A6) = "dropApplication" /\ Tail(A6) = <<>>
    BY DEF A1, A2, A3, A4, A5, A6
  <1>4. /\ L1 # <<>> /\ Head(L1) = "list" /\ Tail(L1) = R7
       /\ D1 # <<>> /\ Head(D1) = "find" /\ Tail(D1) = R7
       /\ E1 # <<>> /\ Head(E1) = "find" /\ Tail(E1) = W7
       /\ F1 # <<>> /\ Head(F1) = "find" /\ Tail(F1) = F2
       /\ F2 # <<>> /\ Head(F2) = "dropDomain" /\ Tail(F2) = <<>>
       /\ C1 # <<>> /\ Head(C1) = "dequeue" /\ Tail(C1) = <<>>
    BY DEF C1, D1, E1, F1, F2, L1, R7, W7
  <1> QED
    BY Zenon, <1>1, <1>2, <1>3, <1>4

LEMMA TodosAre ==
    /\ Todos("none") = {<<>>}
    /\ \A op \in Deploys : Todos(op) = {W1, W2, W3, W4, W5, W6, W7}
    /\ Todos("closed") = Removals \cup {L1} /\ Todos("delete") = Removals \cup {D1}
    /\ Todos("redeploy") = {E1, W7} /\ Todos("cancel") = {C1} /\ Todos("deleteDomain") = {F1, F2}
    /\ Todos("deleteApplication") = {A1, A2, A3, A4, A5, A6}
  BY DEF Todos, Deploys

\* A procedure begins with its program.
LEMMA Programs ==
    ASSUME NEW op \in Ops
    PROVE  /\ Program(op) \in Todos(op) /\ Program(op) # <<>>
           /\ Place(Program(op)) \in {"apps", "list", "find", "dequeue"}
           /\ op \in Deploys => Place(Program(op)) = "apps"
           /\ op = "closed" => Place(Program(op)) = "list"
           /\ op \notin Deploys \cup {"closed"} => Place(Program(op)) \in {"find", "dequeue"}
  <1>1. CASE op \in Deploys
    <2>1. Program(op) = W1
      BY <1>1 DEF Program, Deploys, W1
    <2>2. W1 \in Todos(op) /\ W1 # <<>> /\ Place(W1) = "apps"
      BY <1>1, TodosAre, Tuples DEF Place
    <2>3. op # "closed"
      BY <1>1 DEF Deploys
    <2> QED
      BY <1>1, <2>1, <2>2, <2>3
  <1>2. CASE op = "closed"
    <2>1. Program(op) = L1
      BY <1>2 DEF Program, L1
    <2> QED
      BY <1>2, <2>1, TodosAre, Tuples DEF Place, Deploys
  <1>3. CASE op = "delete"
    <2>1. Program(op) = D1
      BY <1>3 DEF Program, D1
    <2> QED
      BY <1>3, <2>1, TodosAre, Tuples DEF Place, Deploys
  <1>4. CASE op = "redeploy"
    <2>1. Program(op) = E1
      BY <1>4 DEF Program, E1
    <2> QED
      BY <1>4, <2>1, TodosAre, Tuples DEF Place, Deploys
  <1>5. CASE op = "cancel"
    <2>1. Program(op) = C1
      BY <1>5 DEF Program, C1
    <2> QED
      BY <1>5, <2>1, TodosAre, Tuples DEF Place, Deploys
  <1>6. CASE op = "deleteDomain"
    <2>1. Program(op) = F1
      BY <1>6 DEF Program, F1
    <2> QED
      BY <1>6, <2>1, TodosAre, Tuples DEF Place, Deploys
  <1>7. CASE op = "deleteApplication"
    <2>1. Program(op) = A1
      BY <1>7 DEF Program, A1
    <2> QED
      BY <1>7, <2>1, TodosAre, Tuples DEF Place, Deploys
  <1> QED
    BY <1>1, <1>2, <1>3, <1>4, <1>5, <1>6, <1>7 DEF Ops

\* Which steps a procedure has, and what follows each.
Follows(op, step, next) ==
    /\ step # "rest"
    /\ step \in {"apps", "lookup", "comment", "insert", "ensure", "route"} => op \in Deploys
    /\ step = "apps" => next = "lookup"
    /\ step = "lookup" => next = "comment"
    /\ step = "comment" => next = "insert"
    /\ step = "insert" => next = "ensure"
    /\ step = "ensure" => next = "route"
    /\ step = "route" => next = "enqueue"
    /\ step = "enqueue" => op \in Deploys \cup {"redeploy"} /\ next = "rest"
    /\ step = "list" => op = "closed" /\ next = "nextRemoval"
    /\ step \in {"nextRemoval", "dns", "service", "deployments", "code", "unroute", "dropRow"} => op \in {"closed", "delete"}
    /\ step = "nextRemoval" => next = "rest"
    /\ step = "dns" => next = "service"
    /\ step = "service" => next = "deployments"
    /\ step = "deployments" => next = "code"
    /\ step = "code" => next = "unroute"
    /\ step = "unroute" => next = "dropRow"
    /\ step = "dropRow" => next = "nextRemoval"
    /\ step = "find" => \/ op = "delete" /\ next = "nextRemoval"
                        \/ op = "redeploy" /\ next = "enqueue"
                        \/ op = "deleteDomain" /\ next = "dropDomain"
    /\ step = "dropDomain" => op = "deleteDomain" /\ next = "rest"
    /\ step = "dequeue" => \/ op = "cancel" /\ next = "rest"
                           \/ op = "deleteApplication" /\ next \in {"notRunning", "dropDomains"}
    /\ step = "notRunning" => op = "deleteApplication" /\ next = "notActive"
    /\ step = "notActive" => op = "deleteApplication" /\ next = "dequeue"
    /\ step = "dropDomains" => op = "deleteApplication" /\ next = "dropApplication"
    /\ step = "dropApplication" => op = "deleteApplication" /\ next = "rest"

LEMMA Tails ==
    ASSUME NEW op \in Ops, NEW todo \in Todos(op)
    PROVE  /\ todo # <<>> /\ Tail(todo) \in Todos(op) \cup {<<>>}
           /\ Follows(op, Head(todo), Place(Tail(todo)))
  <1>1. Place(<<>>) = "rest"
    BY DEF Place
  <1>2. CASE op \in Deploys /\ todo = W1
    <2>1. todo # <<>> /\ Head(todo) = "apps" /\ Tail(todo) = W2 /\ Place(W2) = "lookup"
      BY <1>1, <1>2, Tuples DEF Place
    <2>2. W2 \in Todos(op) \cup {<<>>}
      BY <1>2, TodosAre DEF Removals
    <2>3. Follows(op, "apps", "lookup")
      BY <1>2 DEF Follows, Deploys
    <2> QED
      BY <2>1, <2>2, <2>3
  <1>3. CASE op \in Deploys /\ todo = W2
    <2>1. todo # <<>> /\ Head(todo) = "lookup" /\ Tail(todo) = W3 /\ Place(W3) = "comment"
      BY <1>1, <1>3, Tuples DEF Place
    <2>2. W3 \in Todos(op) \cup {<<>>}
      BY <1>3, TodosAre DEF Removals
    <2>3. Follows(op, "lookup", "comment")
      BY <1>3 DEF Follows, Deploys
    <2> QED
      BY <2>1, <2>2, <2>3
  <1>4. CASE op \in Deploys /\ todo = W3
    <2>1. todo # <<>> /\ Head(todo) = "comment" /\ Tail(todo) = W4 /\ Place(W4) = "insert"
      BY <1>1, <1>4, Tuples DEF Place
    <2>2. W4 \in Todos(op) \cup {<<>>}
      BY <1>4, TodosAre DEF Removals
    <2>3. Follows(op, "comment", "insert")
      BY <1>4 DEF Follows, Deploys
    <2> QED
      BY <2>1, <2>2, <2>3
  <1>5. CASE op \in Deploys /\ todo = W4
    <2>1. todo # <<>> /\ Head(todo) = "insert" /\ Tail(todo) = W5 /\ Place(W5) = "ensure"
      BY <1>1, <1>5, Tuples DEF Place
    <2>2. W5 \in Todos(op) \cup {<<>>}
      BY <1>5, TodosAre DEF Removals
    <2>3. Follows(op, "insert", "ensure")
      BY <1>5 DEF Follows, Deploys
    <2> QED
      BY <2>1, <2>2, <2>3
  <1>6. CASE op \in Deploys /\ todo = W5
    <2>1. todo # <<>> /\ Head(todo) = "ensure" /\ Tail(todo) = W6 /\ Place(W6) = "route"
      BY <1>1, <1>6, Tuples DEF Place
    <2>2. W6 \in Todos(op) \cup {<<>>}
      BY <1>6, TodosAre DEF Removals
    <2>3. Follows(op, "ensure", "route")
      BY <1>6 DEF Follows, Deploys
    <2> QED
      BY <2>1, <2>2, <2>3
  <1>7. CASE op \in Deploys /\ todo = W6
    <2>1. todo # <<>> /\ Head(todo) = "route" /\ Tail(todo) = W7 /\ Place(W7) = "enqueue"
      BY <1>1, <1>7, Tuples DEF Place
    <2>2. W7 \in Todos(op) \cup {<<>>}
      BY <1>7, TodosAre DEF Removals
    <2>3. Follows(op, "route", "enqueue")
      BY <1>7 DEF Follows, Deploys
    <2> QED
      BY <2>1, <2>2, <2>3
  <1>8. CASE op \in Deploys /\ todo = W7
    <2>1. todo # <<>> /\ Head(todo) = "enqueue" /\ Tail(todo) = <<>> /\ Place(<<>>) = "rest"
      BY <1>1, <1>8, Tuples DEF Place
    <2>2. <<>> \in Todos(op) \cup {<<>>}
      BY <1>8, TodosAre DEF Removals
    <2>3. Follows(op, "enqueue", "rest")
      BY <1>8 DEF Follows, Deploys
    <2> QED
      BY <2>1, <2>2, <2>3
  <1>9. CASE op \in {"closed", "delete"} /\ todo = R1
    <2>1. todo # <<>> /\ Head(todo) = "dns" /\ Tail(todo) = R2 /\ Place(R2) = "service"
      BY <1>1, <1>9, Tuples DEF Place
    <2>2. R2 \in Todos(op) \cup {<<>>}
      BY <1>9, TodosAre DEF Removals
    <2>3. Follows(op, "dns", "service")
      BY <1>9 DEF Follows, Deploys
    <2> QED
      BY <2>1, <2>2, <2>3
  <1>10. CASE op \in {"closed", "delete"} /\ todo = R2
    <2>1. todo # <<>> /\ Head(todo) = "service" /\ Tail(todo) = R3 /\ Place(R3) = "deployments"
      BY <1>1, <1>10, Tuples DEF Place
    <2>2. R3 \in Todos(op) \cup {<<>>}
      BY <1>10, TodosAre DEF Removals
    <2>3. Follows(op, "service", "deployments")
      BY <1>10 DEF Follows, Deploys
    <2> QED
      BY <2>1, <2>2, <2>3
  <1>11. CASE op \in {"closed", "delete"} /\ todo = R3
    <2>1. todo # <<>> /\ Head(todo) = "deployments" /\ Tail(todo) = R4 /\ Place(R4) = "code"
      BY <1>1, <1>11, Tuples DEF Place
    <2>2. R4 \in Todos(op) \cup {<<>>}
      BY <1>11, TodosAre DEF Removals
    <2>3. Follows(op, "deployments", "code")
      BY <1>11 DEF Follows, Deploys
    <2> QED
      BY <2>1, <2>2, <2>3
  <1>12. CASE op \in {"closed", "delete"} /\ todo = R4
    <2>1. todo # <<>> /\ Head(todo) = "code" /\ Tail(todo) = R5 /\ Place(R5) = "unroute"
      BY <1>1, <1>12, Tuples DEF Place
    <2>2. R5 \in Todos(op) \cup {<<>>}
      BY <1>12, TodosAre DEF Removals
    <2>3. Follows(op, "code", "unroute")
      BY <1>12 DEF Follows, Deploys
    <2> QED
      BY <2>1, <2>2, <2>3
  <1>13. CASE op \in {"closed", "delete"} /\ todo = R5
    <2>1. todo # <<>> /\ Head(todo) = "unroute" /\ Tail(todo) = R6 /\ Place(R6) = "dropRow"
      BY <1>1, <1>13, Tuples DEF Place
    <2>2. R6 \in Todos(op) \cup {<<>>}
      BY <1>13, TodosAre DEF Removals
    <2>3. Follows(op, "unroute", "dropRow")
      BY <1>13 DEF Follows, Deploys
    <2> QED
      BY <2>1, <2>2, <2>3
  <1>14. CASE op \in {"closed", "delete"} /\ todo = R6
    <2>1. todo # <<>> /\ Head(todo) = "dropRow" /\ Tail(todo) = R7 /\ Place(R7) = "nextRemoval"
      BY <1>1, <1>14, Tuples DEF Place
    <2>2. R7 \in Todos(op) \cup {<<>>}
      BY <1>14, TodosAre DEF Removals
    <2>3. Follows(op, "dropRow", "nextRemoval")
      BY <1>14 DEF Follows, Deploys
    <2> QED
      BY <2>1, <2>2, <2>3
  <1>15. CASE op \in {"closed", "delete"} /\ todo = R7
    <2>1. todo # <<>> /\ Head(todo) = "nextRemoval" /\ Tail(todo) = <<>> /\ Place(<<>>) = "rest"
      BY <1>1, <1>15, Tuples DEF Place
    <2>2. <<>> \in Todos(op) \cup {<<>>}
      BY <1>15, TodosAre DEF Removals
    <2>3. Follows(op, "nextRemoval", "rest")
      BY <1>15 DEF Follows, Deploys
    <2> QED
      BY <2>1, <2>2, <2>3
  <1>16. CASE op = "closed" /\ todo = L1
    <2>1. todo # <<>> /\ Head(todo) = "list" /\ Tail(todo) = R7 /\ Place(R7) = "nextRemoval"
      BY <1>1, <1>16, Tuples DEF Place
    <2>2. R7 \in Todos(op) \cup {<<>>}
      BY <1>16, TodosAre DEF Removals
    <2>3. Follows(op, "list", "nextRemoval")
      BY <1>16 DEF Follows, Deploys
    <2> QED
      BY <2>1, <2>2, <2>3
  <1>17. CASE op = "delete" /\ todo = D1
    <2>1. todo # <<>> /\ Head(todo) = "find" /\ Tail(todo) = R7 /\ Place(R7) = "nextRemoval"
      BY <1>1, <1>17, Tuples DEF Place
    <2>2. R7 \in Todos(op) \cup {<<>>}
      BY <1>17, TodosAre DEF Removals
    <2>3. Follows(op, "find", "nextRemoval")
      BY <1>17 DEF Follows, Deploys
    <2> QED
      BY <2>1, <2>2, <2>3
  <1>18. CASE op = "redeploy" /\ todo = E1
    <2>1. todo # <<>> /\ Head(todo) = "find" /\ Tail(todo) = W7 /\ Place(W7) = "enqueue"
      BY <1>1, <1>18, Tuples DEF Place
    <2>2. W7 \in Todos(op) \cup {<<>>}
      BY <1>18, TodosAre DEF Removals
    <2>3. Follows(op, "find", "enqueue")
      BY <1>18 DEF Follows, Deploys
    <2> QED
      BY <2>1, <2>2, <2>3
  <1>19. CASE op = "redeploy" /\ todo = W7
    <2>1. todo # <<>> /\ Head(todo) = "enqueue" /\ Tail(todo) = <<>> /\ Place(<<>>) = "rest"
      BY <1>1, <1>19, Tuples DEF Place
    <2>2. <<>> \in Todos(op) \cup {<<>>}
      BY <1>19, TodosAre DEF Removals
    <2>3. Follows(op, "enqueue", "rest")
      BY <1>19 DEF Follows, Deploys
    <2> QED
      BY <2>1, <2>2, <2>3
  <1>20. CASE op = "cancel" /\ todo = C1
    <2>1. todo # <<>> /\ Head(todo) = "dequeue" /\ Tail(todo) = <<>> /\ Place(<<>>) = "rest"
      BY <1>1, <1>20, Tuples DEF Place
    <2>2. <<>> \in Todos(op) \cup {<<>>}
      BY <1>20, TodosAre DEF Removals
    <2>3. Follows(op, "dequeue", "rest")
      BY <1>20 DEF Follows, Deploys
    <2> QED
      BY <2>1, <2>2, <2>3
  <1>21. CASE op = "deleteDomain" /\ todo = F1
    <2>1. todo # <<>> /\ Head(todo) = "find" /\ Tail(todo) = F2 /\ Place(F2) = "dropDomain"
      BY <1>1, <1>21, Tuples DEF Place
    <2>2. F2 \in Todos(op) \cup {<<>>}
      BY <1>21, TodosAre DEF Removals
    <2>3. Follows(op, "find", "dropDomain")
      BY <1>21 DEF Follows, Deploys
    <2> QED
      BY <2>1, <2>2, <2>3
  <1>22. CASE op = "deleteDomain" /\ todo = F2
    <2>1. todo # <<>> /\ Head(todo) = "dropDomain" /\ Tail(todo) = <<>> /\ Place(<<>>) = "rest"
      BY <1>1, <1>22, Tuples DEF Place
    <2>2. <<>> \in Todos(op) \cup {<<>>}
      BY <1>22, TodosAre DEF Removals
    <2>3. Follows(op, "dropDomain", "rest")
      BY <1>22 DEF Follows, Deploys
    <2> QED
      BY <2>1, <2>2, <2>3
  <1>23. CASE op = "deleteApplication" /\ todo = A1
    <2>1. todo # <<>> /\ Head(todo) = "dequeue" /\ Tail(todo) = A2 /\ Place(A2) = "notRunning"
      BY <1>1, <1>23, Tuples DEF Place
    <2>2. A2 \in Todos(op) \cup {<<>>}
      BY <1>23, TodosAre DEF Removals
    <2>3. Follows(op, "dequeue", "notRunning")
      BY <1>23 DEF Follows, Deploys
    <2> QED
      BY <2>1, <2>2, <2>3
  <1>24. CASE op = "deleteApplication" /\ todo = A2
    <2>1. todo # <<>> /\ Head(todo) = "notRunning" /\ Tail(todo) = A3 /\ Place(A3) = "notActive"
      BY <1>1, <1>24, Tuples DEF Place
    <2>2. A3 \in Todos(op) \cup {<<>>}
      BY <1>24, TodosAre DEF Removals
    <2>3. Follows(op, "notRunning", "notActive")
      BY <1>24 DEF Follows, Deploys
    <2> QED
      BY <2>1, <2>2, <2>3
  <1>25. CASE op = "deleteApplication" /\ todo = A3
    <2>1. todo # <<>> /\ Head(todo) = "notActive" /\ Tail(todo) = A4 /\ Place(A4) = "dequeue"
      BY <1>1, <1>25, Tuples DEF Place
    <2>2. A4 \in Todos(op) \cup {<<>>}
      BY <1>25, TodosAre DEF Removals
    <2>3. Follows(op, "notActive", "dequeue")
      BY <1>25 DEF Follows, Deploys
    <2> QED
      BY <2>1, <2>2, <2>3
  <1>26. CASE op = "deleteApplication" /\ todo = A4
    <2>1. todo # <<>> /\ Head(todo) = "dequeue" /\ Tail(todo) = A5 /\ Place(A5) = "dropDomains"
      BY <1>1, <1>26, Tuples DEF Place
    <2>2. A5 \in Todos(op) \cup {<<>>}
      BY <1>26, TodosAre DEF Removals
    <2>3. Follows(op, "dequeue", "dropDomains")
      BY <1>26 DEF Follows, Deploys
    <2> QED
      BY <2>1, <2>2, <2>3
  <1>27. CASE op = "deleteApplication" /\ todo = A5
    <2>1. todo # <<>> /\ Head(todo) = "dropDomains" /\ Tail(todo) = A6 /\ Place(A6) = "dropApplication"
      BY <1>1, <1>27, Tuples DEF Place
    <2>2. A6 \in Todos(op) \cup {<<>>}
      BY <1>27, TodosAre DEF Removals
    <2>3. Follows(op, "dropDomains", "dropApplication")
      BY <1>27 DEF Follows, Deploys
    <2> QED
      BY <2>1, <2>2, <2>3
  <1>28. CASE op = "deleteApplication" /\ todo = A6
    <2>1. todo # <<>> /\ Head(todo) = "dropApplication" /\ Tail(todo) = <<>> /\ Place(<<>>) = "rest"
      BY <1>1, <1>28, Tuples DEF Place
    <2>2. <<>> \in Todos(op) \cup {<<>>}
      BY <1>28, TodosAre DEF Removals
    <2>3. Follows(op, "dropApplication", "rest")
      BY <1>28 DEF Follows, Deploys
    <2> QED
      BY <2>1, <2>2, <2>3
  <1> QED
    BY <1>2, <1>3, <1>4, <1>5, <1>6, <1>7, <1>8, <1>9, <1>10, <1>11, <1>12, <1>13, <1>14, <1>15, <1>16,
       <1>17, <1>18, <1>19, <1>20, <1>21, <1>22, <1>23, <1>24, <1>25, <1>26, <1>27, <1>28, TodosAre DEF Ops,
       Removals

-----------------------------------------------------------------------------
(* The steps of a procedure.                                                *)

\* After its step a procedure is over, or goes on for the same pull request.
Moves(c, next) ==
    /\ req' = [req EXCEPT ![c] = next] /\ Fits(next) /\ DOMAIN req = Clients
    /\ next = Rest \/ (next.op = req[c].op /\ next.pr = req[c].pr)

\* It goes on with the preview and the list it has.
Same(c, next, place) ==
    /\ next.op = req[c].op /\ next.preview = req[c].preview /\ next.left = req[c].left
    /\ Place(next.todo) = place

LEMMA RestFits == ASSUME Constants PROVE Fits(Rest) /\ Place(Rest.todo) = "rest" /\ Rest.op = "none"
  <1>1. (CHOOSE pr \in PullRequests : TRUE) \in PullRequests /\ 1 \in Ids
    BY DEF Constants, Ids
  <1>2. <<>> \in UNION {Todos(op) : op \in Ops \cup {"none"}}
    <2>1. "none" \in Ops \cup {"none"} /\ <<>> \in Todos("none")
      BY TodosAre
    <2> QED
      BY <2>1
  <1> QED
    BY <1>1, <1>2, TodosAre DEF Rest, Fits, Calls, Place

\* What a procedure with something to do is.
LEMMA Acting ==
    ASSUME Constants, Types, NEW c \in Clients, req[c].todo # <<>>
    PROVE  /\ req[c].op \in Ops /\ req[c].op \in Operations /\ req[c].todo \in Todos(req[c].op)
           /\ req[c] \in Calls /\ DOMAIN req = Clients
  <1>1. Fits(req[c]) /\ DOMAIN req = Clients
    BY DEF Types, Procedures
  <1>2. req[c].op \in Operations \cup {"none"} /\ req[c].todo \in Todos(req[c].op) /\ req[c] \in Calls
    BY <1>1 DEF Fits, Calls
  <1>3. req[c].op # "none"
    BY <1>2, TodosAre
  <1> QED
    BY <1>1, <1>2, <1>3 DEF Constants

LEMMA GoMoves ==
    ASSUME Constants, Types, NEW c \in Clients, req[c].todo # <<>>,
           NEW r, r \in Calls, r.op = req[c].op, r.pr = req[c].pr, r.todo = req[c].todo, Go(c, r)
    PROVE  \E next :
              /\ Moves(c, next) /\ Follows(req[c].op, PlaceOf(c), Place(next.todo))
              /\ next = Rest \/ (next.op = req[c].op /\ next.preview = r.preview /\ next.left = r.left)
              /\ next = Rest <=> Place(next.todo) = "rest"
  <1> DEFINE t == Tail(req[c].todo)
             to == [r EXCEPT !.todo = Tail(@)]
  <1>1. req[c].op \in Ops /\ req[c].todo \in Todos(req[c].op) /\ DOMAIN req = Clients
    BY Acting
  <1>2. t \in Todos(req[c].op) \cup {<<>>} /\ Follows(req[c].op, Head(req[c].todo), Place(t))
    BY <1>1, Tails
  <1>3. PlaceOf(c) = Head(req[c].todo)
    BY DEF PlaceOf, Place
  <1>4. to = [op |-> r.op, pr |-> r.pr, preview |-> r.preview, left |-> r.left, todo |-> t]
    BY DEF Calls
  <1>5. req' = [req EXCEPT ![c] = IF t = <<>> THEN Rest ELSE to]
    BY <1>4 DEF Go, Set
  <1>6. Fits(Rest) /\ Place(Rest.todo) = "rest"
    BY RestFits
  <1>7. CASE t = <<>>
    <2>1. Moves(c, Rest) /\ Place(t) = "rest"
      BY <1>1, <1>5, <1>6, <1>7 DEF Moves, Place
    <2> QED
      BY <1>2, <1>3, <1>6, <2>1
  <1>8. CASE t # <<>>
    <2>1. t \in Todos(req[c].op) /\ t \in UNION {Todos(op) : op \in Ops \cup {"none"}}
      BY <1>1, <1>2, <1>8
    <2>2. to \in Calls /\ to.todo = t /\ to.op = req[c].op
      BY <1>4, <2>1 DEF Calls
    <2>3. Fits(to)
      BY <1>8, <2>1, <2>2 DEF Fits
    <2>4. Moves(c, to)
      BY <1>1, <1>4, <1>5, <1>8, <2>3 DEF Moves
    <2>5. Place(t) # "rest"
      <3>1. Head(t) # "rest"
        BY <1>1, <2>1, Tails DEF Follows
      <3> QED
        BY <1>8, <3>1 DEF Place
    <2>6. to # Rest
      BY <1>8, <2>2 DEF Rest
    <2> QED
      BY <1>2, <1>3, <1>4, <2>2, <2>4, <2>5, <2>6
  <1> QED
    BY <1>7, <1>8

LEMMA ThrowMoves ==
    ASSUME Constants, Types, NEW c \in Clients, Throw(c)
    PROVE  Moves(c, Rest)
  <1>1. req' = [req EXCEPT ![c] = Rest]
    <2>1. Fits(req[c])
      BY DEF Types, Procedures
    <2>2. [req[c] EXCEPT !.todo = <<>>].todo = <<>>
      BY <2>1 DEF Fits, Calls
    <2> QED
      BY <2>2 DEF Throw, Jump, Set
  <1> QED
    BY <1>1, RestFits DEF Moves, Types, Procedures

LEMMA AtPlace == ASSUME NEW c, NEW step, At(c, step) PROVE req[c].todo # <<>> /\ PlaceOf(c) = step
  BY DEF At, PlaceOf, Place

LEMMA ContinueMoves ==
    ASSUME Constants, Types, NEW c \in Clients, NEW step, At(c, step), Continue(c)
    PROVE  \E next :
              /\ Moves(c, next) /\ Follows(req[c].op, step, Place(next.todo)) /\ (next = Rest <=> Place(next.todo) = "rest")
              /\ next = Rest \/ Same(c, next, Place(next.todo))
  <1>1. req[c].todo # <<>> /\ PlaceOf(c) = step
    BY AtPlace
  <1>2. req[c] \in Calls
    BY <1>1, Acting
  <1> QED
    BY <1>1, <1>2, GoMoves DEF Continue, Same

\* What EXCEPT makes of a procedure's state.
LEMMA Field ==
    ASSUME NEW o, NEW q, NEW v, NEW l, NEW t, NEW x, NEW value,
           x = [op |-> o, pr |-> q, preview |-> v, left |-> l, todo |-> t]
    PROVE  /\ [x EXCEPT !.preview = value] = [op |-> o, pr |-> q, preview |-> value, left |-> l, todo |-> t]
           /\ [x EXCEPT !.left = value] = [op |-> o, pr |-> q, preview |-> v, left |-> value, todo |-> t]
           /\ [x EXCEPT !.todo = value] = [op |-> o, pr |-> q, preview |-> v, left |-> l, todo |-> value]
  OBVIOUS

LEMMA Written ==
    ASSUME NEW r \in Calls, NEW p, NEW todo
    PROVE  /\ [r EXCEPT !.preview = p, !.todo = todo]
              = [op |-> r.op, pr |-> r.pr, preview |-> p, left |-> r.left, todo |-> todo]
           /\ [r EXCEPT !.preview = p, !.left = @ \ {p}, !.todo = todo]
              = [op |-> r.op, pr |-> r.pr, preview |-> p, left |-> r.left \ {p}, todo |-> todo]
  <1> DEFINE a == [r EXCEPT !.preview = p]
             b == [a EXCEPT !.left = r.left \ {p}]
  <1>1. r = [op |-> r.op, pr |-> r.pr, preview |-> r.preview, left |-> r.left, todo |-> r.todo]
    BY DEF Calls
  <1>2. [r EXCEPT !.preview = p, !.todo = todo] = [a EXCEPT !.todo = todo]
    OBVIOUS
  <1>3. [r EXCEPT !.preview = p, !.left = @ \ {p}, !.todo = todo] = [b EXCEPT !.todo = todo]
    BY <1>1
  <1>4. PICK x : x = a
    OBVIOUS
  <1>5. x = [op |-> r.op, pr |-> r.pr, preview |-> p, left |-> r.left, todo |-> r.todo]
    BY <1>1, <1>4, Field
  <1>6. PICK y : y = [x EXCEPT !.left = r.left \ {p}]
    OBVIOUS
  <1>7. PICK left : left = r.left \ {p}
    OBVIOUS
  <1>8. y = [op |-> r.op, pr |-> r.pr, preview |-> p, left |-> left, todo |-> r.todo]
    <2>1. y = [x EXCEPT !.left = left]
      BY <1>6, <1>7, Zenon
    <2> HIDE DEF a, b
    <2> QED
      BY <1>5, <2>1, Field
  <1>9. [x EXCEPT !.todo = todo] = [op |-> r.op, pr |-> r.pr, preview |-> p, left |-> r.left, todo |-> todo]
    BY <1>5, Field
  <1>10. [y EXCEPT !.todo = todo] = [op |-> r.op, pr |-> r.pr, preview |-> p, left |-> left, todo |-> todo]
    BY <1>8, Field
  <1> QED
    BY <1>2, <1>3, <1>4, <1>6, <1>7, <1>9, <1>10, Zenon

LEMMA RemovalTodos == \A op \in {"closed", "delete"} : \A todo \in Removals : todo \in Todos(op) /\ todo # <<>>
  <1>1. \A op \in {"closed", "delete"} : Removals \subseteq Todos(op)
    BY TodosAre
  <1>2. \A todo \in Removals : todo # <<>>
    <2>1. R1 # <<>> /\ R2 # <<>> /\ R3 # <<>> /\ R4 # <<>> /\ R5 # <<>> /\ R6 # <<>> /\ R7 # <<>>
      BY Tuples, Zenon
    <2> QED
      BY <2>1 DEF Removals
  <1> QED
    BY <1>1, <1>2

LEMMA Placed ==
    ASSUME Constants, Types, NEW c \in Clients, NEW step, At(c, step)
    PROVE  /\ req[c].todo # <<>> /\ PlaceOf(c) = step /\ req[c] \in Calls
           /\ \E next : Follows(req[c].op, step, next)
  <1>1. req[c].todo # <<>> /\ PlaceOf(c) = step
    BY AtPlace
  <1>2. req[c].op \in Ops /\ req[c].todo \in Todos(req[c].op) /\ req[c] \in Calls
    BY <1>1, Acting
  <1>3. Follows(req[c].op, Head(req[c].todo), Place(Tail(req[c].todo)))
    BY <1>2, Tails
  <1> QED
    BY <1>1, <1>2, <1>3 DEF PlaceOf, Place

\* A procedure that is given another program of its operation.
LEMMA SetMoves ==
    ASSUME Constants, Types, NEW c \in Clients, req[c].todo # <<>>,
           NEW p \in Ids, NEW left \in SUBSET Ids, NEW todo \in Todos(req[c].op), todo # <<>>,
           NEW r, r = [op |-> req[c].op, pr |-> req[c].pr, preview |-> p, left |-> left, todo |-> todo], Set(c, r)
    PROVE  Moves(c, r)
  <1>1. req[c].op \in Ops /\ req[c] \in Calls /\ DOMAIN req = Clients
    BY Acting
  <1>2. todo \in UNION {Todos(op) : op \in Ops \cup {"none"}}
    BY <1>1
  <1>3. r \in Calls
    BY <1>1, <1>2 DEF Calls
  <1>4. req' = [req EXCEPT ![c] = r]
    BY DEF Set
  <1> QED
    BY <1>1, <1>3, <1>4 DEF Moves, Fits

\* What each step of a procedure leaves to do.
LEMMA FindApplicationsMoves ==
    ASSUME Constants, Types, NEW c \in Clients, FindApplications(c)
    PROVE  /\ PlaceOf(c) = "apps" /\ req[c].op \in Deploys
           /\ \E next :
              /\ Moves(c, next)
              /\ \/ next = Rest /\ (application => Cardinality(Rows) > PreviewLimit)
                 \/ Same(c, next, "lookup") /\ ~ (Cardinality(Rows) > PreviewLimit)
  <1>1. At(c, "apps")
    BY DEF FindApplications
  <1>2. req[c].todo # <<>> /\ PlaceOf(c) = "apps" /\ req[c] \in Calls /\ \E next : Follows(req[c].op, "apps", next)
    BY <1>1, Placed
  <1>3. req[c].op \in Deploys
    BY <1>2 DEF Follows
  <1>4. CASE Throw(c) /\ (~ application \/ Cardinality(Rows) > PreviewLimit)
    <2>1. Moves(c, Rest)
      BY <1>4, ThrowMoves
    <2> QED
      BY <1>2, <1>3, <1>4, <2>1
  <1>5. CASE Continue(c) /\ ~ (Cardinality(Rows) > PreviewLimit)
    <2>1. PICK next :
             /\ Moves(c, next) /\ Follows(req[c].op, "apps", Place(next.todo)) /\ (next = Rest <=> Place(next.todo) = "rest")
             /\ next = Rest \/ Same(c, next, Place(next.todo))
      BY <1>1, <1>5, ContinueMoves
    <2> QED
      BY <1>2, <1>3, <1>5, <2>1 DEF Follows
  <1> QED
    BY <1>4, <1>5 DEF FindApplications

LEMMA LookupMoves ==
    ASSUME Constants, Types, NEW c \in Clients, Lookup(c)
    PROVE  /\ PlaceOf(c) = "lookup" /\ req[c].op \in Deploys
           /\ \E next :
              /\ Moves(c, next)
              /\ \/ RowsOf(req[c].pr) = {} /\ (next = Rest \/ Same(c, next, "comment"))
                 \/ /\ next.preview \in RowsOf(req[c].pr) /\ next.op = req[c].op /\ next.left = req[c].left
                    /\ Place(next.todo) = "enqueue"
                    /\ \A q \in RowsOf(req[c].pr) : q # next.preview => q \in missed'
  <1>1. At(c, "lookup")
    BY Zenon DEF Lookup
  <1>2. req[c].todo # <<>> /\ PlaceOf(c) = "lookup" /\ req[c] \in Calls /\ \E next : Follows(req[c].op, "lookup", next)
    BY <1>1, Placed
  <1>3. req[c].op \in Deploys
    BY <1>2 DEF Follows
  <1>4. ASSUME NEW p \in RowsOf(req[c].pr), Set(c, [req[c] EXCEPT !.preview = p, !.todo = <<"enqueue">>]),
               missed' = missed \cup (RowsOf(req[c].pr) \ {p})
       PROVE  \E next : /\ Moves(c, next)
                        /\ next.preview \in RowsOf(req[c].pr) /\ next.op = req[c].op /\ next.left = req[c].left
                        /\ Place(next.todo) = "enqueue"
                        /\ \A q \in RowsOf(req[c].pr) : q # next.preview => q \in missed'
    <2> DEFINE r == [op |-> req[c].op, pr |-> req[c].pr, preview |-> p, left |-> req[c].left, todo |-> W7]
    <2>1. Set(c, r)
      <3>1. r = [req[c] EXCEPT !.preview = p, !.todo = W7] /\ W7 = <<"enqueue">>
        BY <1>2, Written, Zenon DEF W7
      <3> QED
        BY <1>4, <3>1, Zenon
    <2>2. p \in Ids /\ req[c].left \in SUBSET Ids
      BY <1>2 DEF RowsOf, Rows, Calls
    <2>3. W7 \in Todos(req[c].op) /\ W7 # <<>>
      BY <1>3, TodosAre, Tuples
    <2>4. Moves(c, r)
      BY <1>2, <2>1, <2>2, <2>3, SetMoves
    <2>5. Place(r.todo) = "enqueue"
      BY Tuples DEF Place
    <2>6. \A q \in RowsOf(req[c].pr) : q # r.preview => q \in missed'
      BY <1>4
    <2> QED
      BY <1>4, <2>4, <2>5, <2>6
  <1>5. CASE RowsOf(req[c].pr) = {} /\ Throw(c)
    <2>1. Moves(c, Rest)
      BY <1>5, ThrowMoves
    <2> QED
      BY <1>2, <1>3, <1>5, <2>1
  <1>6. CASE RowsOf(req[c].pr) = {} /\ Continue(c)
    <2>1. PICK next :
             /\ Moves(c, next) /\ Follows(req[c].op, "lookup", Place(next.todo)) /\ (next = Rest <=> Place(next.todo) = "rest")
             /\ next = Rest \/ Same(c, next, Place(next.todo))
      BY <1>1, <1>6, ContinueMoves
    <2> QED
      BY <1>2, <1>3, <1>6, <2>1 DEF Follows
  <1> QED
    BY <1>2, <1>3, <1>4, <1>5, <1>6, Zenon DEF Lookup

LEMMA CommentMoves ==
    ASSUME Constants, Types, NEW c \in Clients, Comment(c)
    PROVE  /\ PlaceOf(c) = "comment" /\ req[c].op \in Deploys
           /\ \E next :
              /\ Moves(c, next)
              /\ next = Rest \/ Same(c, next, "insert")
  <1>1. At(c, "comment")
    BY DEF Comment
  <1>2. req[c].todo # <<>> /\ PlaceOf(c) = "comment" /\ req[c] \in Calls /\ \E next : Follows(req[c].op, "comment", next)
    BY <1>1, Placed
  <1>3. req[c].op \in Deploys
    BY <1>2 DEF Follows
  <1>4. CASE Throw(c)
    <2>1. Moves(c, Rest)
      BY <1>4, ThrowMoves
    <2> QED
      BY <1>2, <1>3, <1>4, <2>1
  <1>5. CASE Continue(c)
    <2>1. PICK next :
             /\ Moves(c, next) /\ Follows(req[c].op, "comment", Place(next.todo)) /\ (next = Rest <=> Place(next.todo) = "rest")
             /\ next = Rest \/ Same(c, next, Place(next.todo))
      BY <1>1, <1>5, ContinueMoves
    <2> QED
      BY <1>2, <1>3, <1>5, <2>1 DEF Follows
  <1> QED
    BY <1>4, <1>5 DEF Comment

LEMMA InsertPreviewMoves ==
    ASSUME Constants, Types, NEW c \in Clients, InsertPreview(c)
    PROVE  /\ PlaceOf(c) = "insert" /\ req[c].op \in Deploys
           /\ \E next :
              /\ Moves(c, next)
              /\ IF application
                 THEN /\ next.preview = inserted + 1 /\ next.op = req[c].op /\ next.left = req[c].left
                      /\ Place(next.todo) = "ensure"
                 ELSE next = Rest
  <1>1. At(c, "insert")
    BY DEF InsertPreview
  <1>2. req[c].todo # <<>> /\ PlaceOf(c) = "insert" /\ req[c] \in Calls /\ \E next : Follows(req[c].op, "insert", next)
    BY <1>1, Placed
  <1>3. req[c].op \in Deploys
    BY <1>2 DEF Follows
  <1>4. CASE ~ application /\ Throw(c)
    <2>1. Moves(c, Rest)
      BY <1>4, ThrowMoves
    <2> QED
      BY <1>2, <1>3, <1>4, <2>1
  <1>5. CASE application /\ inserted < MaxPreviews /\ Go(c, [req[c] EXCEPT !.preview = inserted + 1])
    <2> DEFINE r == [req[c] EXCEPT !.preview = inserted + 1]
    <2>0. inserted + 1 \in Ids \/ ~ (inserted < MaxPreviews)
      BY DEF Ids, Constants, Types, Data
    <2>1. r \in Calls /\ r.op = req[c].op /\ r.pr = req[c].pr /\ r.todo = req[c].todo
      BY <1>2, <1>5, <2>0 DEF Calls, Rows, RowsOf
    <2>2. Go(c, r)
      BY <1>5
    <2> HIDE DEF r
    <2>3. PICK next :
              /\ Moves(c, next) /\ Follows(req[c].op, PlaceOf(c), Place(next.todo))
              /\ next = Rest \/ (next.op = req[c].op /\ next.preview = r.preview /\ next.left = r.left)
              /\ next = Rest <=> Place(next.todo) = "rest"
      BY <1>2, <2>1, <2>2, GoMoves
    <2>4. next # Rest
      BY <1>2, <2>3 DEF Follows
    <2>5. next.op = req[c].op /\ next.preview = r.preview /\ next.left = r.left
      BY <2>3, <2>4
    <2> QED
      BY <1>2, <1>3, <1>5, <2>3, <2>5 DEF Follows, r, Calls
  <1> QED
    BY <1>4, <1>5 DEF InsertPreview

LEMMA EnsureDomainMoves ==
    ASSUME Constants, Types, NEW c \in Clients, EnsureDomain(c)
    PROVE  /\ PlaceOf(c) = "ensure" /\ req[c].op \in Deploys
           /\ \E next :
              /\ Moves(c, next)
              /\ \/ next = Rest /\ domains' = domains
                 \/ Same(c, next, "route") /\ CanEnsure(req[c].preview) /\ domains' = domains \cup {req[c].preview}
  <1>1. At(c, "ensure")
    BY DEF EnsureDomain
  <1>2. req[c].todo # <<>> /\ PlaceOf(c) = "ensure" /\ req[c] \in Calls /\ \E next : Follows(req[c].op, "ensure", next)
    BY <1>1, Placed
  <1>3. req[c].op \in Deploys
    BY <1>2 DEF Follows
  <1>4. CASE Throw(c) /\ UNCHANGED domains
    <2>1. Moves(c, Rest)
      BY <1>4, ThrowMoves
    <2> QED
      BY <1>2, <1>3, <1>4, <2>1
  <1>5. CASE CanEnsure(req[c].preview) /\ domains' = domains \cup {req[c].preview} /\ Continue(c)
    <2>1. PICK next :
             /\ Moves(c, next) /\ Follows(req[c].op, "ensure", Place(next.todo)) /\ (next = Rest <=> Place(next.todo) = "rest")
             /\ next = Rest \/ Same(c, next, Place(next.todo))
      BY <1>1, <1>5, ContinueMoves
    <2> QED
      BY <1>2, <1>3, <1>5, <2>1 DEF Follows
  <1> QED
    BY <1>4, <1>5 DEF EnsureDomain

LEMMA WriteRouteMoves ==
    ASSUME Constants, Types, NEW c \in Clients, WriteRoute(c)
    PROVE  /\ PlaceOf(c) = "route" /\ req[c].op \in Deploys
           /\ \E next :
              /\ Moves(c, next)
              /\ Same(c, next, "enqueue")
  <1>1. At(c, "route") /\ Continue(c)
    BY DEF WriteRoute
  <1>2. PICK next :
           /\ Moves(c, next) /\ Follows(req[c].op, "route", Place(next.todo)) /\ (next = Rest <=> Place(next.todo) = "rest")
           /\ next = Rest \/ Same(c, next, Place(next.todo))
    BY <1>1, ContinueMoves
  <1>3. PlaceOf(c) = "route"
    BY <1>1, AtPlace
  <1> QED
    BY <1>2, <1>3 DEF Follows

LEMMA EnqueueMoves ==
    ASSUME Constants, Types, NEW c \in Clients, Enqueue(c)
    PROVE  /\ PlaceOf(c) = "enqueue" /\ req[c].op \in Deploys \cup {"redeploy"}
           /\ \E next :
              /\ Moves(c, next)
              /\ next = Rest
  <1>1. At(c, "enqueue") /\ Continue(c)
    BY DEF Enqueue
  <1>2. PICK next :
           /\ Moves(c, next) /\ Follows(req[c].op, "enqueue", Place(next.todo)) /\ (next = Rest <=> Place(next.todo) = "rest")
           /\ next = Rest \/ Same(c, next, Place(next.todo))
    BY <1>1, ContinueMoves
  <1>3. PlaceOf(c) = "enqueue"
    BY <1>1, AtPlace
  <1> QED
    BY <1>2, <1>3 DEF Follows

LEMMA DequeueMoves ==
    ASSUME Constants, Types, NEW c \in Clients, Dequeue(c)
    PROVE  /\ PlaceOf(c) = "dequeue" /\ req[c].op \in {"cancel", "deleteApplication"}
           /\ \E next :
              /\ Moves(c, next)
              /\ \/ req[c].op = "cancel" /\ next = Rest
                 \/ Same(c, next, "notRunning")
                 \/ Same(c, next, "dropDomains")
  <1>1. At(c, "dequeue") /\ Continue(c)
    BY DEF Dequeue
  <1>2. PICK next :
           /\ Moves(c, next) /\ Follows(req[c].op, "dequeue", Place(next.todo)) /\ (next = Rest <=> Place(next.todo) = "rest")
           /\ next = Rest \/ Same(c, next, Place(next.todo))
    BY <1>1, ContinueMoves
  <1>3. PlaceOf(c) = "dequeue"
    BY <1>1, AtPlace
  <1> QED
    BY <1>2, <1>3 DEF Follows

LEMMA FindPreviewMoves ==
    ASSUME Constants, Types, NEW c \in Clients, FindPreview(c)
    PROVE  /\ PlaceOf(c) = "find" /\ req[c].op \in {"delete", "redeploy", "deleteDomain"}
           /\ \E next :
              /\ Moves(c, next)
              /\ \/ next = Rest
                 \/ /\ next.op = req[c].op /\ next.preview = req[c].preview /\ next.left = {req[c].preview}
                    /\ Present(req[c].preview)
                    /\ \/ req[c].op = "delete" /\ Place(next.todo) = "nextRemoval"
                       \/ req[c].op = "redeploy" /\ Place(next.todo) = "enqueue"
                       \/ req[c].op = "deleteDomain" /\ Place(next.todo) = "dropDomain"
  <1>1. At(c, "find")
    BY DEF FindPreview
  <1>2. req[c].todo # <<>> /\ PlaceOf(c) = "find" /\ req[c] \in Calls /\ \E next : Follows(req[c].op, "find", next)
    BY <1>1, Placed
  <1>3. req[c].op \in {"delete", "redeploy", "deleteDomain"}
    BY <1>2 DEF Follows
  <1>4. CASE Throw(c)
    <2>1. Moves(c, Rest)
      BY <1>4, ThrowMoves
    <2> QED
      BY <1>2, <1>3, <1>4, <2>1
  <1>5. CASE Present(req[c].preview) /\ Go(c, [req[c] EXCEPT !.left = {req[c].preview}])
    <2> DEFINE r == [req[c] EXCEPT !.left = {req[c].preview}]
    <2>0. inserted + 1 \in Ids \/ ~ (inserted < MaxPreviews)
      BY DEF Ids, Constants, Types, Data
    <2>1. r \in Calls /\ r.op = req[c].op /\ r.pr = req[c].pr /\ r.todo = req[c].todo
      BY <1>2, <1>5, <2>0 DEF Calls, Rows, RowsOf
    <2>2. Go(c, r)
      BY <1>5
    <2> HIDE DEF r
    <2>3. PICK next :
              /\ Moves(c, next) /\ Follows(req[c].op, PlaceOf(c), Place(next.todo))
              /\ next = Rest \/ (next.op = req[c].op /\ next.preview = r.preview /\ next.left = r.left)
              /\ next = Rest <=> Place(next.todo) = "rest"
      BY <1>2, <2>1, <2>2, GoMoves
    <2>4. next # Rest
      BY <1>2, <2>3 DEF Follows
    <2>5. next.op = req[c].op /\ next.preview = r.preview /\ next.left = r.left
      BY <2>3, <2>4
    <2> QED
      BY <1>2, <1>3, <1>5, <2>3, <2>5 DEF Follows, r, Calls
  <1> QED
    BY <1>4, <1>5 DEF FindPreview

LEMMA ListPreviewsMoves ==
    ASSUME Constants, Types, NEW c \in Clients, ListPreviews(c)
    PROVE  /\ PlaceOf(c) = "list" /\ req[c].op = "closed"
           /\ \E next :
              /\ Moves(c, next)
              /\ /\ next.op = req[c].op /\ next.preview = req[c].preview /\ next.left = RowsOf(req[c].pr)
                 /\ Place(next.todo) = "nextRemoval"
  <1>1. At(c, "list")
    BY DEF ListPreviews
  <1>2. req[c].todo # <<>> /\ PlaceOf(c) = "list" /\ req[c] \in Calls /\ \E next : Follows(req[c].op, "list", next)
    BY <1>1, Placed
  <1>3. req[c].op = "closed"
    BY <1>2 DEF Follows
  <1>4. CASE Go(c, [req[c] EXCEPT !.left = RowsOf(req[c].pr)])
    <2> DEFINE r == [req[c] EXCEPT !.left = RowsOf(req[c].pr)]
    <2>0. inserted + 1 \in Ids \/ ~ (inserted < MaxPreviews)
      BY DEF Ids, Constants, Types, Data
    <2>1. r \in Calls /\ r.op = req[c].op /\ r.pr = req[c].pr /\ r.todo = req[c].todo
      BY <1>2, <1>4, <2>0 DEF Calls, Rows, RowsOf
    <2>2. Go(c, r)
      BY <1>4
    <2> HIDE DEF r
    <2>3. PICK next :
              /\ Moves(c, next) /\ Follows(req[c].op, PlaceOf(c), Place(next.todo))
              /\ next = Rest \/ (next.op = req[c].op /\ next.preview = r.preview /\ next.left = r.left)
              /\ next = Rest <=> Place(next.todo) = "rest"
      BY <1>2, <2>1, <2>2, GoMoves
    <2>4. next # Rest
      BY <1>2, <2>3 DEF Follows
    <2>5. next.op = req[c].op /\ next.preview = r.preview /\ next.left = r.left
      BY <2>3, <2>4
    <2> QED
      BY <1>2, <1>3, <1>4, <2>3, <2>5 DEF Follows, r, Calls
  <1> QED
    BY <1>4 DEF ListPreviews

LEMMA NextRemovalMoves ==
    ASSUME Constants, Types, NEW c \in Clients, NextRemoval(c)
    PROVE  /\ PlaceOf(c) = "nextRemoval" /\ req[c].op \in {"closed", "delete"}
           /\ \E next :
              /\ Moves(c, next)
              /\ \/ next = Rest /\ req[c].left = {}
                 \/ /\ next.preview \in req[c].left /\ next.left = req[c].left \ {next.preview}
                    /\ next.op = req[c].op /\ Place(next.todo) = "dns"
                    /\ \A p \in Ids : p = next.preview /\ (Active(p) \/ BeingMade(p)) => p \in disturbed'
  <1>1. At(c, "nextRemoval")
    BY Zenon DEF NextRemoval
  <1>2. req[c].todo # <<>> /\ PlaceOf(c) = "nextRemoval" /\ req[c] \in Calls /\ \E next : Follows(req[c].op, "nextRemoval", next)
    BY <1>1, Placed
  <1>3. req[c].op \in {"closed", "delete"}
    BY <1>2 DEF Follows
  <1>4. CASE req[c].left = {} /\ Throw(c)
    <2>1. Moves(c, Rest)
      BY <1>4, ThrowMoves
    <2> QED
      BY <1>2, <1>3, <1>4, <2>1
  <1>5. ASSUME NEW p \in req[c].left, Set(c, [req[c] EXCEPT !.preview = p, !.left = @ \ {p}, !.todo = Removal]),
               disturbed' = IF Active(p) \/ BeingMade(p) THEN disturbed \cup {p} ELSE disturbed
       PROVE  \E next : /\ Moves(c, next)
                        /\ next.preview \in req[c].left /\ next.left = req[c].left \ {next.preview}
                        /\ next.op = req[c].op /\ Place(next.todo) = "dns"
                        /\ \A q \in Ids : q = next.preview /\ (Active(q) \/ BeingMade(q)) => q \in disturbed'
    <2> DEFINE r == [op |-> req[c].op, pr |-> req[c].pr, preview |-> p, left |-> req[c].left \ {p}, todo |-> R1]
    <2>1. Set(c, r)
      <3>1. r = [req[c] EXCEPT !.preview = p, !.left = @ \ {p}, !.todo = R1] /\ R1 = Removal
        BY <1>2, Written, Zenon DEF R1, Removal
      <3> QED
        BY <1>5, <3>1, Zenon
    <2>2. p \in Ids /\ req[c].left \ {p} \in SUBSET Ids
      BY <1>2 DEF Calls
    <2>3. R1 \in Todos(req[c].op) /\ R1 # <<>>
      <3>1. R1 \in Removals
        BY DEF Removals
      <3> QED
        BY <1>3, <3>1, RemovalTodos
    <2>4. Moves(c, r)
      BY <1>2, <2>1, <2>2, <2>3, SetMoves
    <2>5. Place(r.todo) = "dns"
      BY Tuples DEF Place
    <2>6. \A q \in Ids : q = r.preview /\ (Active(q) \/ BeingMade(q)) => q \in disturbed'
      BY <1>5
    <2> QED
      BY <2>4, <2>5, <2>6
  <1> QED
    BY <1>2, <1>3, <1>4, <1>5, Zenon DEF NextRemoval

LEMMA RemoveRecordMoves ==
    ASSUME Constants, Types, NEW c \in Clients, RemoveRecord(c)
    PROVE  /\ PlaceOf(c) = "dns" /\ req[c].op \in {"closed", "delete"}
           /\ \E next :
              /\ Moves(c, next)
              /\ \/ Same(c, next, "service")
                 \/ /\ Same(c, next, "nextRemoval")
                    /\ ~ Present(req[c].preview) \/ "dns" \in Failing
  <1>1. At(c, "dns")
    BY DEF RemoveRecord
  <1>2. req[c].todo # <<>> /\ PlaceOf(c) = "dns" /\ req[c] \in Calls /\ \E next : Follows(req[c].op, "dns", next)
    BY <1>1, Placed
  <1>3. req[c].op \in {"closed", "delete"}
    BY <1>2 DEF Follows
  <1>4. CASE Continue(c)
    <2>1. PICK next :
             /\ Moves(c, next) /\ Follows(req[c].op, "dns", Place(next.todo)) /\ (next = Rest <=> Place(next.todo) = "rest")
             /\ next = Rest \/ Same(c, next, Place(next.todo))
      BY <1>1, <1>4, ContinueMoves
    <2> QED
      BY <1>2, <1>3, <1>4, <2>1 DEF Follows
  <1>5. CASE (~ Present(req[c].preview) \/ "dns" \in Failing) /\ Jump(c, <<"nextRemoval">>)
    <2> DEFINE r == [op |-> req[c].op, pr |-> req[c].pr, preview |-> req[c].preview, left |-> req[c].left, todo |-> R7]
    <2>1. Set(c, r)
      BY <1>2, <1>5 DEF Calls, R7, Jump
    <2>2. req[c].preview \in Ids /\ req[c].left \in SUBSET Ids
      BY <1>2 DEF Calls
    <2>3. R7 \in Todos(req[c].op) /\ R7 # <<>>
      <3>1. R7 \in Removals
        BY DEF Removals
      <3> QED
        BY <1>3, <3>1, RemovalTodos
    <2>4. Moves(c, r)
      BY <1>2, <2>1, <2>2, <2>3, SetMoves
    <2>5. Same(c, r, "nextRemoval")
      BY Tuples DEF Place, Same
    <2> QED
      BY <1>2, <1>3, <1>5, <2>4, <2>5
  <1> QED
    BY <1>4, <1>5 DEF RemoveRecord

LEMMA RemoveServiceMoves ==
    ASSUME Constants, Types, NEW c \in Clients, RemoveService(c)
    PROVE  /\ PlaceOf(c) = "service" /\ req[c].op \in {"closed", "delete"}
           /\ \E next :
              /\ Moves(c, next)
              /\ Same(c, next, "deployments")
  <1>1. At(c, "service") /\ Continue(c)
    BY DEF RemoveService
  <1>2. PICK next :
           /\ Moves(c, next) /\ Follows(req[c].op, "service", Place(next.todo)) /\ (next = Rest <=> Place(next.todo) = "rest")
           /\ next = Rest \/ Same(c, next, Place(next.todo))
    BY <1>1, ContinueMoves
  <1>3. PlaceOf(c) = "service"
    BY <1>1, AtPlace
  <1> QED
    BY <1>2, <1>3 DEF Follows

LEMMA RemoveDeploymentsMoves ==
    ASSUME Constants, Types, NEW c \in Clients, RemoveDeployments(c)
    PROVE  /\ PlaceOf(c) = "deployments" /\ req[c].op \in {"closed", "delete"}
           /\ \E next :
              /\ Moves(c, next)
              /\ Same(c, next, "code")
  <1>1. At(c, "deployments") /\ Continue(c)
    BY DEF RemoveDeployments
  <1>2. PICK next :
           /\ Moves(c, next) /\ Follows(req[c].op, "deployments", Place(next.todo)) /\ (next = Rest <=> Place(next.todo) = "rest")
           /\ next = Rest \/ Same(c, next, Place(next.todo))
    BY <1>1, ContinueMoves
  <1>3. PlaceOf(c) = "deployments"
    BY <1>1, AtPlace
  <1> QED
    BY <1>2, <1>3 DEF Follows

LEMMA RemoveCodeMoves ==
    ASSUME Constants, Types, NEW c \in Clients, RemoveCode(c)
    PROVE  /\ PlaceOf(c) = "code" /\ req[c].op \in {"closed", "delete"}
           /\ \E next :
              /\ Moves(c, next)
              /\ Same(c, next, "unroute")
  <1>1. At(c, "code") /\ Continue(c)
    BY DEF RemoveCode
  <1>2. PICK next :
           /\ Moves(c, next) /\ Follows(req[c].op, "code", Place(next.todo)) /\ (next = Rest <=> Place(next.todo) = "rest")
           /\ next = Rest \/ Same(c, next, Place(next.todo))
    BY <1>1, ContinueMoves
  <1>3. PlaceOf(c) = "code"
    BY <1>1, AtPlace
  <1> QED
    BY <1>2, <1>3 DEF Follows

LEMMA RemoveRouteMoves ==
    ASSUME Constants, Types, NEW c \in Clients, RemoveRoute(c)
    PROVE  /\ PlaceOf(c) = "unroute" /\ req[c].op \in {"closed", "delete"}
           /\ \E next :
              /\ Moves(c, next)
              /\ Same(c, next, "dropRow")
  <1>1. At(c, "unroute") /\ Continue(c)
    BY DEF RemoveRoute
  <1>2. PICK next :
           /\ Moves(c, next) /\ Follows(req[c].op, "unroute", Place(next.todo)) /\ (next = Rest <=> Place(next.todo) = "rest")
           /\ next = Rest \/ Same(c, next, Place(next.todo))
    BY <1>1, ContinueMoves
  <1>3. PlaceOf(c) = "unroute"
    BY <1>1, AtPlace
  <1> QED
    BY <1>2, <1>3 DEF Follows

LEMMA DropRowMoves ==
    ASSUME Constants, Types, NEW c \in Clients, DropRow(c)
    PROVE  /\ PlaceOf(c) = "dropRow" /\ req[c].op \in {"closed", "delete"}
           /\ \E next :
              /\ Moves(c, next)
              /\ Same(c, next, "nextRemoval")
  <1>1. At(c, "dropRow") /\ Continue(c)
    BY DEF DropRow
  <1>2. PICK next :
           /\ Moves(c, next) /\ Follows(req[c].op, "dropRow", Place(next.todo)) /\ (next = Rest <=> Place(next.todo) = "rest")
           /\ next = Rest \/ Same(c, next, Place(next.todo))
    BY <1>1, ContinueMoves
  <1>3. PlaceOf(c) = "dropRow"
    BY <1>1, AtPlace
  <1> QED
    BY <1>2, <1>3 DEF Follows

LEMMA DropDomainMoves ==
    ASSUME Constants, Types, NEW c \in Clients, DropDomain(c)
    PROVE  /\ PlaceOf(c) = "dropDomain" /\ req[c].op = "deleteDomain"
           /\ \E next :
              /\ Moves(c, next)
              /\ next = Rest
  <1>1. At(c, "dropDomain") /\ Continue(c)
    BY DEF DropDomain
  <1>2. PICK next :
           /\ Moves(c, next) /\ Follows(req[c].op, "dropDomain", Place(next.todo)) /\ (next = Rest <=> Place(next.todo) = "rest")
           /\ next = Rest \/ Same(c, next, Place(next.todo))
    BY <1>1, ContinueMoves
  <1>3. PlaceOf(c) = "dropDomain"
    BY <1>1, AtPlace
  <1> QED
    BY <1>2, <1>3 DEF Follows

LEMMA CheckNotRunningMoves ==
    ASSUME Constants, Types, NEW c \in Clients, CheckNotRunning(c)
    PROVE  /\ PlaceOf(c) = "notRunning" /\ req[c].op = "deleteApplication"
           /\ \E next :
              /\ Moves(c, next)
              /\ \/ next = Rest
                 \/ /\ next.op = req[c].op /\ next.preview = req[c].preview /\ next.left = Rows
                    /\ Place(next.todo) = "notActive"
  <1>1. At(c, "notRunning")
    BY DEF CheckNotRunning
  <1>2. req[c].todo # <<>> /\ PlaceOf(c) = "notRunning" /\ req[c] \in Calls /\ \E next : Follows(req[c].op, "notRunning", next)
    BY <1>1, Placed
  <1>3. req[c].op = "deleteApplication"
    BY <1>2 DEF Follows
  <1>4. CASE Throw(c)
    <2>1. Moves(c, Rest)
      BY <1>4, ThrowMoves
    <2> QED
      BY <1>2, <1>3, <1>4, <2>1
  <1>5. CASE Go(c, [req[c] EXCEPT !.left = Rows])
    <2> DEFINE r == [req[c] EXCEPT !.left = Rows]
    <2>0. inserted + 1 \in Ids \/ ~ (inserted < MaxPreviews)
      BY DEF Ids, Constants, Types, Data
    <2>1. r \in Calls /\ r.op = req[c].op /\ r.pr = req[c].pr /\ r.todo = req[c].todo
      BY <1>2, <1>5, <2>0 DEF Calls, Rows, RowsOf
    <2>2. Go(c, r)
      BY <1>5
    <2> HIDE DEF r
    <2>3. PICK next :
              /\ Moves(c, next) /\ Follows(req[c].op, PlaceOf(c), Place(next.todo))
              /\ next = Rest \/ (next.op = req[c].op /\ next.preview = r.preview /\ next.left = r.left)
              /\ next = Rest <=> Place(next.todo) = "rest"
      BY <1>2, <2>1, <2>2, GoMoves
    <2>4. next # Rest
      BY <1>2, <2>3 DEF Follows
    <2>5. next.op = req[c].op /\ next.preview = r.preview /\ next.left = r.left
      BY <2>3, <2>4
    <2> QED
      BY <1>2, <1>3, <1>5, <2>3, <2>5 DEF Follows, r, Calls
  <1> QED
    BY <1>4, <1>5 DEF CheckNotRunning

LEMMA CheckNotActiveMoves ==
    ASSUME Constants, Types, NEW c \in Clients, CheckNotActive(c)
    PROVE  /\ PlaceOf(c) = "notActive" /\ req[c].op = "deleteApplication"
           /\ \E next :
              /\ Moves(c, next)
              /\ next = Rest \/ Same(c, next, "dequeue")
  <1>1. At(c, "notActive")
    BY DEF CheckNotActive
  <1>2. req[c].todo # <<>> /\ PlaceOf(c) = "notActive" /\ req[c] \in Calls /\ \E next : Follows(req[c].op, "notActive", next)
    BY <1>1, Placed
  <1>3. req[c].op = "deleteApplication"
    BY <1>2 DEF Follows
  <1>4. CASE Throw(c)
    <2>1. Moves(c, Rest)
      BY <1>4, ThrowMoves
    <2> QED
      BY <1>2, <1>3, <1>4, <2>1
  <1>5. CASE Continue(c)
    <2>1. PICK next :
             /\ Moves(c, next) /\ Follows(req[c].op, "notActive", Place(next.todo)) /\ (next = Rest <=> Place(next.todo) = "rest")
             /\ next = Rest \/ Same(c, next, Place(next.todo))
      BY <1>1, <1>5, ContinueMoves
    <2> QED
      BY <1>2, <1>3, <1>5, <2>1 DEF Follows
  <1> QED
    BY <1>4, <1>5 DEF CheckNotActive

LEMMA DropDomainsMoves ==
    ASSUME Constants, Types, NEW c \in Clients, DropDomains(c)
    PROVE  /\ PlaceOf(c) = "dropDomains" /\ req[c].op = "deleteApplication"
           /\ \E next :
              /\ Moves(c, next)
              /\ Same(c, next, "dropApplication")
  <1>1. At(c, "dropDomains") /\ Continue(c)
    BY DEF DropDomains
  <1>2. PICK next :
           /\ Moves(c, next) /\ Follows(req[c].op, "dropDomains", Place(next.todo)) /\ (next = Rest <=> Place(next.todo) = "rest")
           /\ next = Rest \/ Same(c, next, Place(next.todo))
    BY <1>1, ContinueMoves
  <1>3. PlaceOf(c) = "dropDomains"
    BY <1>1, AtPlace
  <1> QED
    BY <1>2, <1>3 DEF Follows

LEMMA DropApplicationMoves ==
    ASSUME Constants, Types, NEW c \in Clients, DropApplication(c)
    PROVE  /\ PlaceOf(c) = "dropApplication" /\ req[c].op = "deleteApplication"
           /\ \E next :
              /\ Moves(c, next)
              /\ next = Rest
  <1>1. At(c, "dropApplication") /\ Continue(c)
    BY DEF DropApplication
  <1>2. PICK next :
           /\ Moves(c, next) /\ Follows(req[c].op, "dropApplication", Place(next.todo)) /\ (next = Rest <=> Place(next.todo) = "rest")
           /\ next = Rest \/ Same(c, next, Place(next.todo))
    BY <1>1, ContinueMoves
  <1>3. PlaceOf(c) = "dropApplication"
    BY <1>1, AtPlace
  <1> QED
    BY <1>2, <1>3 DEF Follows

-----------------------------------------------------------------------------
(* What the steps do to the rows, the queue and the worker.                 *)

\* g is f with the row of p, if it is there, given a status and a run.
Restated(f, g, p, status, run) ==
    /\ g \in PreviewRows
    /\ \A q \in Ids :
        /\ g[q] = NoRow <=> f[q] = NoRow
        /\ g[q].pr = f[q].pr
        /\ q # p => g[q] = f[q]
    /\ f[p] # NoRow => g[p].status = status /\ g[p].run = run

LEMMA RowTypes ==
    ASSUME Constants, NEW f \in PreviewRows, NEW p \in Ids
    PROVE  /\ NoRow \notin PreviewRow /\ NoRow.pr = "none"
           /\ f[p] # NoRow => f[p] \in PreviewRow /\ f[p].pr \in PullRequests /\ f[p].pr # "none"
                              /\ f[p].status \in Statuses /\ f[p].run \in RunStatuses
           /\ f[p].pr = "none" => f[p] = NoRow
  BY DEF Constants, NoRow, PreviewRow, PreviewRows

LEMMA StatusSet ==
    ASSUME Constants, NEW f \in PreviewRows, NEW p \in Ids, f[p] # NoRow, NEW s \in Statuses,
           NEW g, g = [f EXCEPT ![p].status = s]
    PROVE  Restated(f, g, p, s, f[p].run)
  <1>1. f[p] \in PreviewRow
    BY RowTypes
  <1>2. g[p] \in PreviewRow /\ g[p].status = s /\ g[p].run = f[p].run /\ g[p].pr = f[p].pr
    BY <1>1 DEF PreviewRow, PreviewRows
  <1>3. \A q \in Ids : q # p => g[q] = f[q]
    BY DEF PreviewRows
  <1>4. g \in PreviewRows
    BY <1>1 DEF PreviewRow, PreviewRows
  <1>5. g[p] # NoRow
    BY <1>2, RowTypes
  <1> QED
    BY <1>2, <1>3, <1>4, <1>5 DEF Restated

LEMMA RunSet ==
    ASSUME Constants, NEW f \in PreviewRows, NEW p \in Ids, f[p] # NoRow, NEW s \in RunStatuses,
           NEW g, g = [f EXCEPT ![p].run = s]
    PROVE  Restated(f, g, p, f[p].status, s)
  <1>1. f[p] \in PreviewRow
    BY RowTypes
  <1>2. g[p] \in PreviewRow /\ g[p].status = f[p].status /\ g[p].run = s /\ g[p].pr = f[p].pr
    BY <1>1 DEF PreviewRow, PreviewRows
  <1>3. \A q \in Ids : q # p => g[q] = f[q]
    BY DEF PreviewRows
  <1>4. g \in PreviewRows
    BY <1>1 DEF PreviewRow, PreviewRows
  <1>5. g[p] # NoRow
    BY <1>2, RowTypes
  <1> QED
    BY <1>2, <1>3, <1>4, <1>5 DEF Restated

\* One after the other, as EXCEPT does it.
LEMMA RestatedTwice ==
    ASSUME NEW f, NEW g, NEW h, NEW p, NEW s, NEW r, NEW t, NEW u, p \in Ids, Restated(f, g, p, s, r), Restated(g, h, p, t, u)
    PROVE  Restated(f, h, p, t, u)
  BY DEF Restated

LEMMA SetTwice ==
    ASSUME NEW f, NEW p, NEW s, NEW t
    PROVE  /\ [f EXCEPT ![p].run = t, ![p].status = s] = [[f EXCEPT ![p].run = t] EXCEPT ![p].status = s]
           /\ [f EXCEPT ![p].status = s, ![p].run = IF @ = "none" THEN @ ELSE s]
              = [[f EXCEPT ![p].status = s] EXCEPT ![p].run = IF @ = "none" THEN @ ELSE s]
  <1>1. [f EXCEPT ![p].run = t, ![p].status = s] = [[f EXCEPT ![p].run = t] EXCEPT ![p].status = s]
    BY Zenon
  <1>2. [f EXCEPT ![p].status = s, ![p].run = IF @ = "none" THEN @ ELSE s]
        = [[f EXCEPT ![p].status = s] EXCEPT ![p].run = IF @ = "none" THEN @ ELSE s]
    BY Zenon
  <1> QED
    BY <1>1, <1>2, Zenon

LEMMA Unstated ==
    ASSUME NEW f \in PreviewRows, NEW p \in Ids, NEW s, NEW r, f[p] = NoRow \/ (f[p].status = s /\ f[p].run = r)
    PROVE  Restated(f, f, p, s, r)
  BY DEF Restated

LEMMA StatusWritten ==
    ASSUME Constants, Types, NEW p \in Ids, NEW s \in Statuses
    PROVE  Restated(previews, Status(p, s), p, s, previews[p].run)
  <1>1. previews \in PreviewRows
    BY DEF Types, Data
  <1>2. CASE Present(p)
    BY <1>1, <1>2, StatusSet DEF Status, Present
  <1>3. CASE ~ Present(p)
    BY <1>1, <1>3, Unstated DEF Status, Present
  <1> QED
    BY <1>2, <1>3

LEMMA RowWritten ==
    ASSUME Constants, Types, NEW p \in Ids, NEW s \in Statuses \cap RunStatuses
    PROVE  Restated(previews, RowAndStatus(p, s), p, s, IF previews[p].run = "none" THEN "none" ELSE s)
  <1>1. previews \in PreviewRows
    BY DEF Types, Data
  <1>2. CASE Present(p)
    <2>1. PICK g : g = [previews EXCEPT ![p].status = s]
      OBVIOUS
    <2>2. PICK h : h = [g EXCEPT ![p].run = IF @ = "none" THEN @ ELSE s]
      OBVIOUS
    <2>3. RowAndStatus(p, s) = h
      <3>1. h = [[previews EXCEPT ![p].status = s] EXCEPT ![p].run = IF @ = "none" THEN @ ELSE s]
        BY <2>1, <2>2, Zenon
      <3>2. RowAndStatus(p, s) = [previews EXCEPT ![p].status = s, ![p].run = IF @ = "none" THEN @ ELSE s]
        BY <1>2, Zenon DEF RowAndStatus
      <3> QED
        BY <3>1, <3>2
    <2>4. Restated(previews, g, p, s, previews[p].run) /\ g \in PreviewRows /\ g[p] # NoRow /\ g[p].run = previews[p].run
      <3>1. Restated(previews, g, p, s, previews[p].run)
        BY <1>1, <1>2, <2>1, StatusSet DEF Present
      <3> QED
        BY <1>2, <3>1 DEF Restated, Present
    <2>5. PICK r : r = IF g[p].run = "none" THEN "none" ELSE s
      OBVIOUS
    <2>6. r \in RunStatuses
      BY <2>5 DEF RunStatuses
    <2>7. h = [g EXCEPT ![p].run = r]
      BY <2>2, <2>4, <2>5 DEF PreviewRows
    <2>8. g[p].status = s
      BY <1>2, <2>4 DEF Restated, Present
    <2>9. Restated(g, h, p, s, r)
      BY <2>4, <2>6, <2>7, <2>8, RunSet
    <2>10. Restated(previews, h, p, s, r)
      BY <2>4, <2>9, RestatedTwice
    <2> QED
      BY <2>3, <2>4, <2>5, <2>10
  <1>3. CASE ~ Present(p)
    BY <1>1, <1>3, Unstated DEF RowAndStatus, Present
  <1> QED
    BY <1>2, <1>3

\* The rows stay the rows they are.
LEMMA SameRows ==
    ASSUME NEW p, NEW s, NEW r, Restated(previews, previews', p, s, r)
    PROVE  Rows' = Rows /\ \A pr : RowsOf(pr)' = RowsOf(pr)
  <1>1. \A q \in Ids : (previews'[q] # NoRow <=> previews[q] # NoRow) /\ previews'[q].pr = previews[q].pr
    BY DEF Restated
  <1>2. Rows' = Rows
    BY <1>1 DEF Rows, Present
  <1> QED
    BY <1>1, <1>2 DEF RowsOf, Rows

\* Some rows are gone.
Dropped(f, g, gone) == g \in PreviewRows /\ \A q \in Ids : g[q] = IF q \in gone THEN NoRow ELSE f[q]

LEMMA FewerRows ==
    ASSUME NEW gone, Dropped(previews, previews', gone)
    PROVE  Rows' = Rows \ gone /\ \A pr : RowsOf(pr)' = RowsOf(pr) \ gone
  <1>1. Rows' = Rows \ gone
    BY DEF Rows, Present, Dropped
  <1>2. \A q \in Rows' : previews'[q] = previews[q]
    BY DEF Rows, Present, Dropped
  <1> QED
    BY <1>1, <1>2 DEF RowsOf

\* The queue without its first job, and with one more.
LEMMA QueueTail ==
    ASSUME queue \in Seq(Jobs), queue # <<>>
    PROVE  /\ Head(queue) \in Jobs /\ Tail(queue) \in Seq(Jobs)
           /\ Waiting(queue) = Waiting(Tail(queue)) \cup {Head(queue)}
           /\ Apart(queue) => Apart(Tail(queue)) /\ \A j \in Waiting(Tail(queue)) : j.preview # Head(queue).preview
  <1>1. /\ Len(queue) \in Nat /\ Len(queue) > 0 /\ DOMAIN queue = 1..Len(queue)
        /\ Tail(queue) \in Seq(Jobs) /\ DOMAIN Tail(queue) = 1..(Len(queue) - 1)
        /\ \A i \in 1..(Len(queue) - 1) : Tail(queue)[i] = queue[i + 1]
        /\ Head(queue) = queue[1] /\ queue[1] \in Jobs
    OBVIOUS
  <1>2. PICK n \in Nat : n = Len(queue) /\ n > 0
    <2>1. Len(queue) \in Nat /\ Len(queue) > 0
      BY <1>1
    <2> QED
      BY <2>1, Zenon
  <1>3. PICK t : t = Tail(queue)
    OBVIOUS
  <1>4. DOMAIN queue = 1..n /\ DOMAIN t = 1..(n - 1) /\ (\A i \in 1..(n - 1) : t[i] = queue[i + 1]) /\ Head(queue) = queue[1]
    BY <1>1, <1>2, <1>3
  <1>5. Waiting(queue) = Waiting(t) \cup {queue[1]}
    <2>1. ASSUME NEW i \in 1..n PROVE queue[i] \in Waiting(t) \cup {queue[1]}
      <3>1. CASE i = 1
        BY <3>1
      <3>2. CASE i # 1
        <4>1. i - 1 \in 1..(n - 1) /\ t[i - 1] = queue[i]
          BY <1>4, <2>1, <3>2
        <4> QED
          BY <1>4, <4>1 DEF Waiting
      <3> QED
        BY <3>1, <3>2
    <2>2. ASSUME NEW i \in 1..(n - 1) PROVE t[i] \in Waiting(queue)
      <3>1. i + 1 \in 1..n
        BY <2>2
      <3> QED
        BY <1>4, <3>1 DEF Waiting
    <2>3. queue[1] \in Waiting(queue)
      BY <1>2, <1>4 DEF Waiting
    <2> QED
      BY <1>4, <2>1, <2>2, <2>3 DEF Waiting
  <1>6. ASSUME Apart(queue) PROVE Apart(t) /\ \A j \in Waiting(t) : j.preview # queue[1].preview
    <2>1. \A i, j \in 1..n : i # j => queue[i].preview # queue[j].preview
      BY <1>4, <1>6 DEF Apart
    <2>2. \A i \in 1..(n - 1) : i + 1 \in 1..n /\ i + 1 # 1 /\ t[i] = queue[i + 1]
      BY <1>4
    <2>3. 1 \in 1..n
      BY <1>2
    <2>4. \A i, j \in 1..(n - 1) : i # j => i + 1 # j + 1
      OBVIOUS
    <2>5. ASSUME NEW i \in 1..(n - 1), NEW j \in 1..(n - 1), i # j PROVE t[i].preview # t[j].preview
      <3>1. PICK a, b : a = i + 1 /\ b = j + 1
        OBVIOUS
      <3>2. a \in 1..n /\ b \in 1..n /\ a # b /\ t[i] = queue[a] /\ t[j] = queue[b]
        BY <2>2, <2>4, <2>5, <3>1
      <3>3. queue[a].preview # queue[b].preview
        BY <2>1, <3>2
      <3> QED
        BY <3>2, <3>3
    <2>6. ASSUME NEW i \in 1..(n - 1) PROVE t[i].preview # queue[1].preview
      BY <2>1, <2>2, <2>3, <2>6
    <2> QED
      BY <1>4, <2>5, <2>6 DEF Apart, Waiting
  <1> QED
    <2> DEFINE h == Head(queue)
    <2>1. h = queue[1] /\ queue[1] \in Jobs /\ t \in Seq(Jobs)
      BY <1>1, <1>3
    <2> HIDE DEF h
    <2>2. h \in Jobs /\ t \in Seq(Jobs) /\ Waiting(queue) = Waiting(t) \cup {h}
      BY <1>5, <2>1
    <2>3. Apart(queue) => Apart(t) /\ \A j \in Waiting(t) : j.preview # h.preview
      BY <1>6, <2>1
    <2> QED
      BY <1>3, <2>2, <2>3, Zenon DEF h

LEMMA QueueAppend ==
    ASSUME queue \in Seq(Jobs), NEW j \in Jobs
    PROVE  /\ Append(queue, j) \in Seq(Jobs) /\ Waiting(Append(queue, j)) = Waiting(queue) \cup {j}
           /\ Apart(queue) /\ ~ Queued(j.preview) => Apart(Append(queue, j))
  <1>1. PICK n \in Nat : n = Len(queue)
    OBVIOUS
  <1>2. PICK a : a = Append(queue, j)
    OBVIOUS
  <1>3. /\ DOMAIN queue = 1..n /\ a \in Seq(Jobs) /\ DOMAIN a = 1..(n + 1)
        /\ (\A i \in 1..n : a[i] = queue[i]) /\ a[n + 1] = j
    BY <1>1, <1>2
  <1>4. Waiting(a) = Waiting(queue) \cup {j}
    <2>1. \A i \in 1..(n + 1) : i \in 1..n \/ i = n + 1
      OBVIOUS
    <2>2. \A i \in 1..n : i \in 1..(n + 1)
      OBVIOUS
    <2>3. n + 1 \in 1..(n + 1)
      OBVIOUS
    <2> QED
      BY <1>3, <2>1, <2>2, <2>3 DEF Waiting
  <1>5. ASSUME Apart(queue), ~ Queued(j.preview) PROVE Apart(a)
    BY <1>3, <1>5 DEF Apart, Queued
  <1> QED
    BY <1>2, <1>3, <1>4, <1>5

\* The worker goes on to pc with its job.
Stepped(pc) ==
    /\ worker' \in Workers /\ worker'.pc = pc /\ worker'.preview = worker.preview
    /\ worker'.type = worker.type /\ worker'.built = worker.built

LEMMA StepIs == ASSUME Types, NEW pc \in Pcs, Step(pc) PROVE Stepped(pc)
  <1>1. worker \in Workers
    BY DEF Types, Data
  <1>2. worker' = [pc |-> pc, preview |-> worker.preview, type |-> worker.type, built |-> worker.built]
    BY <1>1 DEF Step, Workers
  <1> QED
    BY <1>1, <1>2 DEF Stepped, Workers

LEMMA NoRunIs == ASSUME Constants PROVE NoRun \in Workers /\ NoRun.pc = "idle"
  BY DEF Constants, NoRun, Workers, Pcs, Ids

LEMMA TakeJobDoes ==
    ASSUME Constants, Types, TakeJob
    PROVE  \E p \in Ids, type \in {"deploy", "redeploy"} :
              /\ worker.pc = "idle" /\ queue # <<>> /\ Head(queue) = Job(p, type) /\ queue' = Tail(queue)
              /\ worker' \in Workers /\ worker'.pc = "begin" /\ worker'.preview = p /\ worker'.type = type
              /\ Restated(previews, previews', p, "running", previews[p].run)
              /\ UNCHANGED <<application, pulls, domains, routes, services, source, req, inserted, calls>>
  <1>1. queue # <<>> /\ queue \in Seq(Jobs)
    BY DEF TakeJob, Types, Data
  <1>2. Head(queue) \in Jobs
    BY <1>1, QueueTail
  <1>3. PICK p \in Ids, type \in {"deploy", "redeploy"} : Head(queue) = Job(p, type) /\ Head(queue).preview = p /\ Head(queue).type = type
    BY <1>2 DEF Jobs, Job
  <1>4. worker' = [pc |-> "begin", preview |-> p, type |-> type, built |-> 0]
    <2>1. worker' = [NoRun EXCEPT !.pc = "begin", !.preview = Head(queue).preview, !.type = Head(queue).type]
      BY DEF TakeJob
    <2>2. worker' = [NoRun EXCEPT !.pc = "begin", !.preview = p, !.type = type]
      BY <1>3, <2>1
    <2> QED
      BY <2>2 DEF NoRun
  <1>5. worker' \in Workers
    BY <1>4 DEF Workers, Pcs, Constants
  <1>6. Restated(previews, previews', p, "running", previews[p].run)
    BY <1>3, StatusWritten DEF TakeJob, Statuses
  <1> QED
    BY <1>1, <1>3, <1>4, <1>5, <1>6 DEF TakeJob

LEMMA BeginRunDoes ==
    ASSUME Constants, Types, BeginRun
    PROVE  /\ worker.pc = "begin" /\ worker.preview \in Ids
           /\ UNCHANGED <<application, pulls, domains, routes, services, source, queue, req, inserted, calls>>
           /\ \/ /\ application /\ Present(worker.preview) /\ Stepped("comment")
                 /\ Restated(previews, previews', worker.preview, previews[worker.preview].status, "running")
              \/ /\ "log" \in Failing /\ Stepped("mark")
                 /\ Restated(previews, previews', worker.preview, "error", "error")
              \/ ~ (application /\ Present(worker.preview)) /\ Stepped("mark") /\ previews' = previews
  <1>1. PICK p \in Ids : p = worker.preview
    BY DEF Types, Data, Workers
  <1>2. previews \in PreviewRows
    BY DEF Types, Data
  <1>3. CASE application /\ Present(p) /\ Step("comment") /\ previews' = [previews EXCEPT ![p].run = "running"]
    <2>1. Restated(previews, previews', p, previews[p].status, "running")
      BY <1>2, <1>3, RunSet DEF Present, RunStatuses
    <2>2. Stepped("comment")
      BY <1>3, StepIs DEF Pcs
    <2> QED
      BY <1>1, <1>3, <2>1, <2>2 DEF BeginRun, Running
  <1>4. CASE /\ Present(p) /\ "log" \in Failing /\ Step("mark")
             /\ previews' = [previews EXCEPT ![p].run = "error", ![p].status = "error"]
    <2>1. PICK g : g = [previews EXCEPT ![p].run = "error"]
      OBVIOUS
    <2>2. previews' = [g EXCEPT ![p].status = "error"]
      BY <1>4, <2>1, SetTwice
    <2>3. Restated(previews, g, p, previews[p].status, "error")
      BY <1>2, <1>4, <2>1, RunSet DEF Present, RunStatuses
    <2>4. g \in PreviewRows /\ g[p] # NoRow /\ g[p].run = "error"
      BY <1>4, <2>3 DEF Restated, Present
    <2>5. Restated(g, previews', p, "error", "error")
      BY <2>2, <2>4, StatusSet DEF Statuses
    <2>6. Restated(previews, previews', p, "error", "error")
      BY <2>3, <2>5, RestatedTwice
    <2>7. Stepped("mark")
      BY <1>4, StepIs DEF Pcs
    <2> QED
      BY <1>1, <1>4, <2>6, <2>7 DEF BeginRun, Running
  <1>5. CASE ~ (application /\ Present(p)) /\ Step("mark") /\ UNCHANGED previews
    <2>1. Stepped("mark")
      BY <1>5, StepIs DEF Pcs
    <2> QED
      BY <1>1, <1>5, <2>1 DEF BeginRun, Running
  <1> QED
    BY <1>1, <1>3, <1>4, <1>5 DEF BeginRun

LEMMA FinishDoes ==
    ASSUME Constants, Types, Finish
    PROVE  /\ worker.pc = "finish" /\ worker.preview \in Ids
           /\ UNCHANGED <<application, pulls, domains, routes, services, source, queue, req, inserted, calls>>
           /\ \/ /\ worker' = NoRun
                 /\ Restated(previews, previews', worker.preview, "done",
                             IF previews[worker.preview].run = "none" THEN "none" ELSE "done")
              \/ "comment" \in Failing /\ Stepped("catch") /\ previews' = previews
  <1>1. worker.preview \in Ids
    BY DEF Types, Data, Workers
  <1>2. CASE worker' = NoRun /\ previews' = RowAndStatus(worker.preview, "done")
    BY <1>1, <1>2, RowWritten DEF Finish, Running, Statuses, RunStatuses, rest
  <1>3. CASE "comment" \in Failing /\ Step("catch") /\ UNCHANGED previews
    <2>1. Stepped("catch")
      BY <1>3, StepIs DEF Pcs
    <2> QED
      BY <1>1, <1>3, <2>1 DEF Finish, Running, rest
  <1> QED
    BY <1>2, <1>3 DEF Finish

LEMMA CatchDoes ==
    ASSUME Constants, Types, Catch
    PROVE  /\ worker.pc = "catch" /\ worker.preview \in Ids /\ Stepped("mark")
           /\ UNCHANGED <<application, pulls, domains, routes, services, source, queue, req, inserted, calls>>
           /\ \/ Restated(previews, previews', worker.preview, "error",
                          IF previews[worker.preview].run = "none" THEN "none" ELSE "error")
              \/ "comment" \in Failing /\ previews' = previews
  <1>1. worker.preview \in Ids
    BY DEF Types, Data, Workers
  <1>2. Stepped("mark")
    BY StepIs DEF Catch, Pcs
  <1>3. CASE previews' = RowAndStatus(worker.preview, "error")
    BY <1>1, <1>2, <1>3, RowWritten DEF Catch, Running, Statuses, RunStatuses, rest
  <1> QED
    BY <1>1, <1>2, <1>3 DEF Catch, Running, rest

LEMMA MarkErroredDoes ==
    ASSUME Constants, Types, MarkErrored
    PROVE  /\ worker.pc = "mark" /\ worker.preview \in Ids /\ worker' = NoRun
           /\ UNCHANGED <<application, pulls, domains, routes, services, source, queue, req, inserted, calls>>
           /\ Restated(previews, previews', worker.preview, "error", previews[worker.preview].run)
  <1>1. worker.preview \in Ids
    BY DEF Types, Data, Workers
  <1> QED
    BY <1>1, StatusWritten DEF MarkErrored, Running, Statuses, rest

LEMMA BuildDoes ==
    ASSUME Constants, Types, Build
    PROVE  /\ worker.pc = "build" /\ worker.preview \in Ids
           /\ UNCHANGED <<world, queue, req, inserted, calls>>
           /\ \/ /\ source[worker.preview] # 0 /\ worker' \in Workers /\ worker'.pc = "deploy" /\ worker'.preview = worker.preview
                 /\ worker'.type = worker.type /\ worker'.built = source[worker.preview]
              \/ Stepped("catch")
  <1>1. worker \in Workers /\ worker.preview \in Ids /\ source[worker.preview] \in 0..MaxCalls
    BY DEF Types, Data, Workers
  <1>2. PICK commit \in 0..MaxCalls : commit = source[worker.preview]
    BY <1>1
  <1>3. CASE commit # 0 /\ worker' = [worker EXCEPT !.pc = "deploy", !.built = commit]
    <2>1. worker' = [pc |-> "deploy", preview |-> worker.preview, type |-> worker.type, built |-> commit]
      BY <1>1, <1>3 DEF Workers
    <2> QED
      BY <1>1, <1>2, <1>3, <2>1 DEF Build, Running, Workers, Pcs, rest
  <1>4. CASE Step("catch")
    <2>1. Stepped("catch")
      BY <1>4, StepIs DEF Pcs
    <2> QED
      BY <1>1, <2>1 DEF Build, Running, rest
  <1> QED
    BY <1>2, <1>3, <1>4 DEF Build

LEMMA RemoveDeploymentsDoes ==
    ASSUME Constants, Types, NEW c \in Clients, RemoveDeployments(c)
    PROVE  /\ req[c].preview \in Ids
           /\ \/ Restated(previews, previews', req[c].preview, previews[req[c].preview].status, "none")
              \/ "deployments" \in Failing /\ previews' = previews
           /\ UNCHANGED <<application, pulls, domains, routes, services, source, queue, worker, missed, disturbed, inserted, calls>>
  <1>1. PICK p \in Ids : p = req[c].preview
    BY DEF Types, Procedures, Fits, Calls
  <1>2. previews \in PreviewRows
    BY DEF Types, Data
  <1>3. UNCHANGED <<application, pulls, domains, routes, services, source, queue, worker, missed, disturbed, inserted, calls>>
    BY DEF RemoveDeployments, rest
  <1>4. CASE "deployments" \in Failing /\ previews' = previews
    BY <1>1, <1>3, <1>4
  <1>5. CASE previews' = IF Present(p) THEN [previews EXCEPT ![p].run = "none"] ELSE previews
    <2>1. CASE Present(p)
      <3>1. Restated(previews, previews', p, previews[p].status, "none")
        BY <1>2, <1>5, <2>1, RunSet DEF Present, RunStatuses
      <3> QED
        BY <1>1, <1>3, <3>1
    <2>2. CASE ~ Present(p)
      <3>1. Restated(previews, previews', p, previews[p].status, "none")
        BY <1>2, <1>5, <2>2, Unstated DEF Present
      <3> QED
        BY <1>1, <1>3, <3>1
    <2> QED
      BY <2>1, <2>2
  <1> QED
    BY <1>1, <1>4, <1>5 DEF RemoveDeployments

-----------------------------------------------------------------------------
(* Every variable keeps to its type.                                        *)

LEMMA DataFrame ==
    ASSUME Constants, Types, application' \in BOOLEAN, pulls' = pulls, inserted' = inserted, calls' = calls,
           previews' \in PreviewRows, Rows' \subseteq Rows, domains' \subseteq Rows', routes' \subseteq Ids,
           services' \in [Ids -> 0..MaxCalls], source' \in [Ids -> 0..MaxCalls],
           \A p \in Ids : source'[p] # 0 => p <= inserted,
           queue' = queue \/ (queue' \in Seq(Jobs) /\ Apart(queue') /\ \A j \in Waiting(queue') : j.preview <= inserted),
           worker' \in Workers, worker'.pc # "idle" => worker'.preview <= inserted
    PROVE  Data' /\ Numbers'
  <1>1. queue' \in Seq(Jobs) /\ Apart(queue') /\ \A j \in Waiting(queue') : j.preview <= inserted
    BY DEF Types, Data, Numbers
  <1>2. Data'
    BY <1>1 DEF Types, Data
  <1>3. Numbers'
    BY <1>1 DEF Types, Numbers
  <1> QED
    BY <1>2, <1>3

\* What a step leaves as it is keeps to its type.
LEMMA Before ==
    ASSUME Types
    PROVE  /\ application \in BOOLEAN /\ previews \in PreviewRows /\ domains \subseteq Rows /\ routes \subseteq Ids
           /\ services \in [Ids -> 0..MaxCalls] /\ source \in [Ids -> 0..MaxCalls]
           /\ \A p \in Ids : source[p] # 0 => p <= inserted
           /\ worker \in Workers /\ (worker.pc # "idle" => worker.preview <= inserted)
           /\ inserted \in 0..MaxPreviews /\ calls \in 0..MaxCalls
           /\ \A p \in Rows : p \in Ids /\ p <= inserted
  BY DEF Types, Data, Numbers, Rows

LEMMA Still ==
    ASSUME Constants, Types,
           UNCHANGED <<application, pulls, previews, domains, routes, services, source, queue, worker, inserted, calls>>
    PROVE  Data' /\ Numbers'
  <1>1. Rows' = Rows
    BY DEF Rows, Present
  <1> QED
    BY <1>1, Before, DataFrame

LEMMA ReqFrame ==
    ASSUME Constants, Types, NEW c \in Clients, NEW next, Moves(c, next), inserted' \in Nat, inserted <= inserted',
           next = Rest \/ Given(next)'
    PROVE  Procedures' /\ Known'
  <1>1. req' = [req EXCEPT ![c] = next] /\ Fits(next) /\ DOMAIN req = Clients /\ (next = Rest \/ next.op = req[c].op)
    BY DEF Moves
  <1>2. Given(next)'
    <2>1. Place(Rest.todo) = "rest" /\ Rest.op = "none" /\ Rest.left = {}
      BY RestFits DEF Rest
    <2> QED
      BY <2>1 DEF Given, PreviewSteps
  <1>3. ASSUME NEW b \in Clients, NEW r, r = req'[b] PROVE Fits(r) /\ (r.op \in Events => b \in Handlers) /\ Given(r)'
    <2>1. CASE b = c
      <3>1. r = next
        BY <1>1, <1>3, <2>1
      <3>2. next.op \in Events => c \in Handlers
        <4>1. Rest.op \notin Events
          BY DEF Rest, Events
        <4>2. req[c].op \in Events => c \in Handlers
          BY DEF Types, Procedures
        <4> QED
          BY <1>1, <4>1, <4>2
      <3> QED
        BY <1>1, <1>2, <2>1, <3>1, <3>2
    <2>2. CASE b # c
      <3>1. r = req[b] /\ Fits(r) /\ (r.op \in Events => b \in Handlers) /\ Given(r)
        BY <1>1, <1>3, <2>2 DEF Types, Procedures, Known
      <3>2. inserted \in Nat /\ Ids \subseteq Nat /\ r.preview \in Ids /\ r.left \subseteq Ids
        BY <3>1, Before DEF Fits, Calls, Ids
      <3>3. PICK m \in Nat, n \in Nat : m = inserted /\ n = inserted'
        BY <3>2, Zenon
      <3>4. \A p \in Ids : p <= inserted => p <= inserted'
        <4>1. m <= n
          BY <3>3
        <4>2. \A p \in Ids : p <= m => p <= n
          BY <3>2, <3>3, <4>1
        <4> QED
          BY <3>3, <4>2
      <3>5. Given(r)'
        BY <3>1, <3>2, <3>4 DEF Given
      <3> QED
        BY <3>1, <3>5
    <2> QED
      BY <2>1, <2>2
  <1>4. \A b \in Clients : LET r == req'[b] IN Fits(r) /\ (r.op \in Events => b \in Handlers)
    BY <1>3, Zenon
  <1>5. ASSUME NEW b \in Clients PROVE Given(req[b])'
    <2>1. PICK r : r = req'[b]
      OBVIOUS
    <2>2. Given(r)'
      BY <1>3, <2>1
    <2> QED
      BY <2>1, <2>2 DEF Given
  <1> QED
    BY <1>1, <1>4, <1>5 DEF Procedures, Known

LEMMA ReqSame ==
    ASSUME Constants, Types, NEW c \in Clients, NEW next, Moves(c, next), inserted' = inserted,
           next = Rest \/ Same(c, next, Place(next.todo)),
           Place(next.todo) \in PreviewSteps => PlaceOf(c) \in PreviewSteps
    PROVE  Procedures' /\ Known'
  <1>1. Given(req[c])
    BY DEF Types, Known
  <1>2. next = Rest \/ Given(next)'
    BY <1>1 DEF Given, Same, PlaceOf
  <1>3. inserted' \in Nat /\ inserted <= inserted'
    BY Before
  <1> QED
    BY <1>2, <1>3, ReqFrame

LEMMA MineIsId == ASSUME Types, NEW c \in Clients PROVE req[c].preview \in Ids /\ req[c].left \subseteq Ids
  BY DEF Types, Procedures, Fits, Calls

\* The rows a step removes.
LEMMA DropRowDoes ==
    ASSUME Constants, Types, NEW c \in Clients, DropRow(c)
    PROVE  /\ UNCHANGED <<application, pulls, routes, services, source, queue, worker, inserted, calls>>
           /\ \/ Dropped(previews, previews', {req[c].preview}) /\ domains' = domains \ {req[c].preview}
              \/ "row" \in Failing /\ UNCHANGED <<previews, domains>>
  <1>1. previews \in PreviewRows
    BY Before
  <1>2. ASSUME previews' = [previews EXCEPT ![req[c].preview] = NoRow]
       PROVE  Dropped(previews, previews', {req[c].preview})
    BY <1>1, <1>2 DEF Dropped, PreviewRows
  <1> QED
    BY <1>2 DEF DropRow

LEMMA DropDomainDoes ==
    ASSUME Constants, Types, NEW c \in Clients, DropDomain(c)
    PROVE  \E gone \in SUBSET {req[c].preview} :
              /\ UNCHANGED <<application, pulls, services, source, queue, worker, inserted, calls>>
              /\ Dropped(previews, previews', gone) /\ domains' = domains \ gone /\ routes' = routes \ gone
  <1>1. previews \in PreviewRows
    BY Before
  <1>2. CASE req[c].preview \in domains
    <2>1. Dropped(previews, previews', {req[c].preview})
      BY <1>1, <1>2 DEF DropDomain, Dropped, PreviewRows
    <2> QED
      BY <1>2, <2>1 DEF DropDomain
  <1>3. CASE req[c].preview \notin domains
    <2>1. Dropped(previews, previews', {})
      BY <1>1, <1>3 DEF DropDomain, Dropped, PreviewRows
    <2>2. domains' = domains \ {} /\ routes' = routes \ {}
      BY <1>3 DEF DropDomain
    <2> QED
      BY <2>1, <2>2 DEF DropDomain
  <1> QED
    BY <1>2, <1>3

LEMMA DropDomainsDoes ==
    ASSUME Constants, Types, NEW c \in Clients, DropDomains(c)
    PROVE  \E gone \in SUBSET Ids :
              /\ UNCHANGED <<application, pulls, services, source, queue, worker, inserted, calls>>
              /\ Dropped(previews, previews', gone) /\ domains' = domains \ gone /\ routes' = routes \ gone
  <1> DEFINE gone == req[c].left \cap domains
  <1>1. previews \in PreviewRows /\ gone \subseteq Ids
    BY Before, MineIsId
  <1>2. Dropped(previews, previews', gone)
    BY <1>1 DEF DropDomains, Dropped, PreviewRows
  <1>3. domains' = domains \ gone
    BY DEF DropDomains
  <1> QED
    BY <1>1, <1>2, <1>3 DEF DropDomains

LEMMA DropApplicationDoes ==
    ASSUME Constants, Types, NEW c \in Clients, DropApplication(c)
    PROVE  /\ UNCHANGED <<pulls, routes, services, source, queue, worker, inserted, calls>> /\ application' = FALSE
           /\ Dropped(previews, previews', Ids) /\ domains' = domains \ Ids
  <1>1. domains' = domains \ Ids
    BY Before DEF DropApplication, Rows
  <1> QED
    BY <1>1 DEF DropApplication, Dropped, PreviewRows

LEMMA DroppedData ==
    ASSUME Constants, Types, NEW gone, Dropped(previews, previews', gone), domains' = domains \ gone,
           routes' \subseteq routes, application' \in BOOLEAN, UNCHANGED <<pulls, services, source, queue, worker, inserted, calls>>
    PROVE  Data' /\ Numbers'
  <1>1. Rows' = Rows \ gone /\ previews' \in PreviewRows
    BY FewerRows DEF Dropped
  <1>2. domains' \subseteq Rows' /\ routes' \subseteq Ids /\ Rows' \subseteq Rows
    BY <1>1, Before
  <1> QED
    BY <1>1, <1>2, Before, DataFrame DEF rest

LEMMA FindApplicationsTypes == ASSUME Constants, Types, NEW c \in Clients, FindApplications(c) PROVE Types'
  <1>1. Procedures' /\ Known'
    <2>1. PICK next :
             /\ Moves(c, next) /\ (next = Rest \/ Same(c, next, Place(next.todo)))
             /\ Place(next.todo) \in {"lookup", "rest"} /\ PlaceOf(c) = "apps"
      BY FindApplicationsMoves, RestFits DEF Same
    <2>2. inserted' = inserted
      BY DEF FindApplications, world, rest
    <2> QED
      BY <2>1, <2>2, ReqSame DEF PreviewSteps
  <1>2. Data' /\ Numbers'
    <2>1. UNCHANGED <<world, queue, worker, inserted, calls>>
      BY Zenon DEF FindApplications, rest
    <2>2. UNCHANGED <<application, pulls, previews, domains, routes, services, source, queue, worker, inserted, calls>>
      BY <2>1 DEF world
    <2> QED
      BY <2>2, Still
  <1> QED
    BY <1>1, <1>2 DEF Types

LEMMA LookupTypes == ASSUME Constants, Types, NEW c \in Clients, Lookup(c) PROVE Types'
  <1>1. PICK next : Moves(c, next) /\ (next = Rest \/ Given(next))
    <2>1. PICK next :
              /\ Moves(c, next)
              /\ \/ RowsOf(req[c].pr) = {} /\ (next = Rest \/ Same(c, next, "comment"))
                 \/ /\ next.preview \in RowsOf(req[c].pr) /\ next.op = req[c].op /\ next.left = req[c].left
                    /\ Place(next.todo) = "enqueue"
      BY LookupMoves
    <2>2. Given(req[c]) /\ req[c] \in Calls /\ PlaceOf(c) = "lookup"
      BY LookupMoves DEF Types, Known, Procedures, Fits
    <2>3. \A p \in Rows : p <= inserted
      BY Before
    <2> QED
      BY <2>1, <2>2, <2>3 DEF Given, PreviewSteps, RowsOf, Same
  <1>2. Procedures' /\ Known'
    <2>1. inserted' = inserted /\ inserted \in Nat
      <3>1. UNCHANGED <<world, queue, worker, inserted, calls>>
        BY Zenon DEF Lookup, rest
      <3> QED
        BY <3>1, Before
    <2>2. Given(next)' <=> Given(next)
      BY <2>1 DEF Given
    <2> QED
      BY <1>1, <2>1, <2>2, ReqFrame
  <1>3. Data' /\ Numbers'
    <2>1. UNCHANGED <<world, queue, worker, inserted, calls>>
      BY Zenon DEF Lookup, rest
    <2>2. UNCHANGED <<application, pulls, previews, domains, routes, services, source, queue, worker, inserted, calls>>
      BY <2>1 DEF world
    <2> QED
      BY <2>2, Still
  <1> QED
    BY <1>2, <1>3 DEF Types

LEMMA CommentTypes == ASSUME Constants, Types, NEW c \in Clients, Comment(c) PROVE Types'
  <1>1. Procedures' /\ Known'
    <2>1. PICK next :
             /\ Moves(c, next) /\ (next = Rest \/ Same(c, next, Place(next.todo)))
             /\ Place(next.todo) \in {"insert", "rest"} /\ PlaceOf(c) = "comment"
      BY CommentMoves, RestFits DEF Same
    <2>2. inserted' = inserted
      BY DEF Comment, world, rest
    <2> QED
      BY <2>1, <2>2, ReqSame DEF PreviewSteps
  <1>2. Data' /\ Numbers'
    <2>1. UNCHANGED <<world, queue, worker, inserted, calls>>
      BY Zenon DEF Comment, rest
    <2>2. UNCHANGED <<application, pulls, previews, domains, routes, services, source, queue, worker, inserted, calls>>
      BY <2>1 DEF world
    <2> QED
      BY <2>2, Still
  <1> QED
    BY <1>1, <1>2 DEF Types

LEMMA EnsureDomainTypes == ASSUME Constants, Types, NEW c \in Clients, EnsureDomain(c) PROVE Types'
  <1>1. Procedures' /\ Known'
    <2>1. PICK next :
             /\ Moves(c, next) /\ (next = Rest \/ Same(c, next, Place(next.todo)))
             /\ Place(next.todo) \in {"route", "rest"} /\ PlaceOf(c) = "ensure"
      BY EnsureDomainMoves, RestFits DEF Same
    <2>2. inserted' = inserted
      BY DEF EnsureDomain, world, rest
    <2> QED
      BY <2>1, <2>2, ReqSame DEF PreviewSteps
  <1>2. Data' /\ Numbers'
    <2>1. domains' \subseteq Rows
      BY Before, EnsureDomainMoves, MineIsId DEF CanEnsure, Rows
    <2>2. UNCHANGED <<previews, routes, services, source, queue, worker, application, pulls, inserted, calls>> /\ Rows' = Rows
      BY DEF EnsureDomain, rest, Rows, Present
    <2> QED
      BY <2>1, <2>2, Before, DataFrame DEF rest
  <1> QED
    BY <1>1, <1>2 DEF Types

LEMMA WriteRouteTypes == ASSUME Constants, Types, NEW c \in Clients, WriteRoute(c) PROVE Types'
  <1>1. Procedures' /\ Known'
    <2>1. PICK next :
             /\ Moves(c, next) /\ (next = Rest \/ Same(c, next, Place(next.todo)))
             /\ Place(next.todo) \in {"enqueue", "rest"} /\ PlaceOf(c) = "route"
      BY WriteRouteMoves, RestFits DEF Same
    <2>2. inserted' = inserted
      BY DEF WriteRoute, world, rest
    <2> QED
      BY <2>1, <2>2, ReqSame DEF PreviewSteps
  <1>2. Data' /\ Numbers'
    <2>1. routes' \subseteq Ids
      BY Before, MineIsId DEF WriteRoute
    <2>2. UNCHANGED <<application, pulls, previews, domains, services, source, queue, worker, inserted, calls>> /\ Rows' = Rows
      BY DEF WriteRoute, rest, Rows, Present
    <2> QED
      BY <2>1, <2>2, Before, DataFrame DEF rest
  <1> QED
    BY <1>1, <1>2 DEF Types

LEMMA EnqueueTypes == ASSUME Constants, Types, NEW c \in Clients, Enqueue(c) PROVE Types'
  <1>1. Procedures' /\ Known'
    <2>1. PICK next :
             /\ Moves(c, next) /\ (next = Rest \/ Same(c, next, Place(next.todo)))
             /\ Place(next.todo) \in {"rest"} /\ PlaceOf(c) = "enqueue"
      BY EnqueueMoves, RestFits DEF Same
    <2>2. inserted' = inserted
      BY DEF Enqueue, world, rest
    <2> QED
      BY <2>1, <2>2, ReqSame DEF PreviewSteps
  <1>2. Data' /\ Numbers'
    <2>1. PICK p \in Ids, type \in {"deploy", "redeploy"} :
             /\ p = req[c].preview /\ p <= inserted
             /\ queue' = IF ~ application \/ Queued(p) \/ Active(p) THEN queue ELSE Append(queue, Job(p, type))
      <3>1. req[c].preview \in Ids
        BY MineIsId
      <3>2. req[c].preview <= inserted
        BY EnqueueMoves DEF Types, Known, Given, PlaceOf, PreviewSteps
      <3> QED
        BY <3>1, <3>2 DEF Enqueue
    <2>2. Job(p, type) \in Jobs /\ Job(p, type).preview = p
      BY DEF Job, Jobs
    <2>3. queue \in Seq(Jobs) /\ Apart(queue) /\ \A j \in Waiting(queue) : j.preview <= inserted
      BY DEF Types, Data, Numbers
    <2>4. queue' \in Seq(Jobs) /\ Apart(queue') /\ \A j \in Waiting(queue') : j.preview <= inserted
      BY <2>1, <2>2, <2>3, QueueAppend
    <2>5. UNCHANGED <<world, worker, inserted, calls>>
      BY DEF Enqueue
    <2>6. Rows' = Rows
      BY <2>5 DEF Rows, Present, world
    <2> QED
      BY <2>4, <2>5, <2>6, Before, DataFrame DEF world
  <1> QED
    BY <1>1, <1>2 DEF Types

LEMMA DequeueTypes == ASSUME Constants, Types, NEW c \in Clients, Dequeue(c) PROVE Types'
  <1>1. Procedures' /\ Known'
    <2>1. PICK next :
             /\ Moves(c, next) /\ (next = Rest \/ Same(c, next, Place(next.todo)))
             /\ Place(next.todo) \in {"notRunning", "dropDomains", "rest"} /\ PlaceOf(c) = "dequeue"
      BY DequeueMoves, RestFits DEF Same
    <2>2. inserted' = inserted
      BY DEF Dequeue, world, rest
    <2> QED
      BY <2>1, <2>2, ReqSame DEF PreviewSteps
  <1>2. Data' /\ Numbers'
    <2>1. <<>> \in Seq(Jobs) /\ Apart(<<>>) /\ Waiting(<<>>) = {}
      BY DEF Apart, Waiting
    <2>2. queue' = <<>> /\ UNCHANGED <<world, worker, inserted, calls>>
      BY DEF Dequeue
    <2>3. Rows' = Rows
      BY <2>2 DEF Rows, Present, world
    <2> QED
      BY <2>1, <2>2, <2>3, Before, DataFrame DEF world, rest
  <1> QED
    BY <1>1, <1>2 DEF Types

LEMMA FindPreviewTypes == ASSUME Constants, Types, NEW c \in Clients, FindPreview(c) PROVE Types'
  <1>1. PICK next : Moves(c, next) /\ (next = Rest \/ Given(next))
    <2>1. PICK next :
              /\ Moves(c, next)
              /\ \/ next = Rest
                 \/ /\ next.op = req[c].op /\ next.preview = req[c].preview /\ next.left = {req[c].preview}
                    /\ Present(req[c].preview)
                    /\ \/ req[c].op = "delete" /\ Place(next.todo) = "nextRemoval"
                       \/ req[c].op = "redeploy" /\ Place(next.todo) = "enqueue"
                       \/ req[c].op = "deleteDomain" /\ Place(next.todo) = "dropDomain"
      BY FindPreviewMoves
    <2>2. Given(req[c]) /\ req[c] \in Calls /\ PlaceOf(c) = "find"
      BY FindPreviewMoves DEF Types, Known, Procedures, Fits
    <2>3. \A p \in Rows : p <= inserted
      BY Before
    <2> QED
      BY <2>1, <2>2, <2>3 DEF Given, PreviewSteps
  <1>2. Procedures' /\ Known'
    <2>1. inserted' = inserted /\ inserted \in Nat
      <3>1. UNCHANGED <<world, queue, worker, inserted, calls>>
        BY Zenon DEF FindPreview, rest
      <3> QED
        BY <3>1, Before
    <2>2. Given(next)' <=> Given(next)
      BY <2>1 DEF Given
    <2> QED
      BY <1>1, <2>1, <2>2, ReqFrame
  <1>3. Data' /\ Numbers'
    <2>1. UNCHANGED <<world, queue, worker, inserted, calls>>
      BY Zenon DEF FindPreview, rest
    <2>2. UNCHANGED <<application, pulls, previews, domains, routes, services, source, queue, worker, inserted, calls>>
      BY <2>1 DEF world
    <2> QED
      BY <2>2, Still
  <1> QED
    BY <1>2, <1>3 DEF Types

LEMMA ListPreviewsTypes == ASSUME Constants, Types, NEW c \in Clients, ListPreviews(c) PROVE Types'
  <1>1. PICK next : Moves(c, next) /\ (next = Rest \/ Given(next))
    <2>1. PICK next :
              /\ Moves(c, next)
              /\ /\ next.op = req[c].op /\ next.preview = req[c].preview /\ next.left = RowsOf(req[c].pr)
                 /\ Place(next.todo) = "nextRemoval"
      BY ListPreviewsMoves
    <2>2. Given(req[c]) /\ req[c] \in Calls /\ PlaceOf(c) = "list"
      BY ListPreviewsMoves DEF Types, Known, Procedures, Fits
    <2>3. \A p \in Rows : p <= inserted
      BY Before
    <2> QED
      BY <2>1, <2>2, <2>3 DEF Given, PreviewSteps, RowsOf
  <1>2. Procedures' /\ Known'
    <2>1. inserted' = inserted /\ inserted \in Nat
      <3>1. UNCHANGED <<world, queue, worker, inserted, calls>>
        BY Zenon DEF ListPreviews, rest
      <3> QED
        BY <3>1, Before
    <2>2. Given(next)' <=> Given(next)
      BY <2>1 DEF Given
    <2> QED
      BY <1>1, <2>1, <2>2, ReqFrame
  <1>3. Data' /\ Numbers'
    <2>1. UNCHANGED <<world, queue, worker, inserted, calls>>
      BY Zenon DEF ListPreviews, rest
    <2>2. UNCHANGED <<application, pulls, previews, domains, routes, services, source, queue, worker, inserted, calls>>
      BY <2>1 DEF world
    <2> QED
      BY <2>2, Still
  <1> QED
    BY <1>2, <1>3 DEF Types

LEMMA NextRemovalTypes == ASSUME Constants, Types, NEW c \in Clients, NextRemoval(c) PROVE Types'
  <1>1. PICK next : Moves(c, next) /\ (next = Rest \/ Given(next))
    <2>1. PICK next :
              /\ Moves(c, next)
              /\ \/ next = Rest /\ req[c].left = {}
                 \/ /\ next.preview \in req[c].left /\ next.left = req[c].left \ {next.preview}
                    /\ next.op = req[c].op /\ Place(next.todo) = "dns"
      BY NextRemovalMoves
    <2>2. Given(req[c]) /\ req[c] \in Calls /\ PlaceOf(c) = "nextRemoval"
      BY NextRemovalMoves DEF Types, Known, Procedures, Fits
    <2>3. \A p \in Rows : p <= inserted
      BY Before
    <2> QED
      BY <2>1, <2>2, <2>3 DEF Given, PreviewSteps
  <1>2. Procedures' /\ Known'
    <2>1. inserted' = inserted /\ inserted \in Nat
      <3>1. UNCHANGED <<world, queue, worker, inserted, calls>>
        BY Zenon DEF NextRemoval, rest
      <3> QED
        BY <3>1, Before
    <2>2. Given(next)' <=> Given(next)
      BY <2>1 DEF Given
    <2> QED
      BY <1>1, <2>1, <2>2, ReqFrame
  <1>3. Data' /\ Numbers'
    <2>1. UNCHANGED <<world, queue, worker, inserted, calls>>
      BY Zenon DEF NextRemoval, rest
    <2>2. UNCHANGED <<application, pulls, previews, domains, routes, services, source, queue, worker, inserted, calls>>
      BY <2>1 DEF world
    <2> QED
      BY <2>2, Still
  <1> QED
    BY <1>2, <1>3 DEF Types

LEMMA RemoveRecordTypes == ASSUME Constants, Types, NEW c \in Clients, RemoveRecord(c) PROVE Types'
  <1>1. Procedures' /\ Known'
    <2>1. PICK next :
             /\ Moves(c, next) /\ (next = Rest \/ Same(c, next, Place(next.todo)))
             /\ Place(next.todo) \in {"service", "nextRemoval", "rest"} /\ PlaceOf(c) = "dns"
      BY RemoveRecordMoves, RestFits DEF Same
    <2>2. inserted' = inserted
      BY DEF RemoveRecord, world, rest
    <2> QED
      BY <2>1, <2>2, ReqSame DEF PreviewSteps
  <1>2. Data' /\ Numbers'
    <2>1. UNCHANGED <<world, queue, worker, inserted, calls>>
      BY Zenon DEF RemoveRecord, rest
    <2>2. UNCHANGED <<application, pulls, previews, domains, routes, services, source, queue, worker, inserted, calls>>
      BY <2>1 DEF world
    <2> QED
      BY <2>2, Still
  <1> QED
    BY <1>1, <1>2 DEF Types

LEMMA RemoveServiceTypes == ASSUME Constants, Types, NEW c \in Clients, RemoveService(c) PROVE Types'
  <1>1. Procedures' /\ Known'
    <2>1. PICK next :
             /\ Moves(c, next) /\ (next = Rest \/ Same(c, next, Place(next.todo)))
             /\ Place(next.todo) \in {"deployments", "rest"} /\ PlaceOf(c) = "service"
      BY RemoveServiceMoves, RestFits DEF Same
    <2>2. inserted' = inserted
      BY DEF RemoveService, world, rest
    <2> QED
      BY <2>1, <2>2, ReqSame DEF PreviewSteps
  <1>2. Data' /\ Numbers'
    <2>1. services' \in [Ids -> 0..MaxCalls]
      BY Before, MineIsId DEF RemoveService, Constants
    <2>2. UNCHANGED <<application, pulls, previews, domains, routes, source, queue, worker, inserted, calls>> /\ Rows' = Rows
      BY DEF RemoveService, world, Rows, Present
    <2> QED
      BY <2>1, <2>2, Before, DataFrame DEF rest
  <1> QED
    BY <1>1, <1>2 DEF Types

LEMMA RemoveDeploymentsTypes == ASSUME Constants, Types, NEW c \in Clients, RemoveDeployments(c) PROVE Types'
  <1>1. Procedures' /\ Known'
    <2>1. PICK next :
             /\ Moves(c, next) /\ (next = Rest \/ Same(c, next, Place(next.todo)))
             /\ Place(next.todo) \in {"code", "rest"} /\ PlaceOf(c) = "deployments"
      BY RemoveDeploymentsMoves, RestFits DEF Same
    <2>2. inserted' = inserted
      BY DEF RemoveDeployments, rest
    <2> QED
      BY <2>1, <2>2, ReqSame DEF PreviewSteps
  <1>2. Data' /\ Numbers'
    <2>1. Rows' = Rows /\ previews' \in PreviewRows
      BY RemoveDeploymentsDoes, Before, SameRows DEF Restated, Rows, Present
    <2> QED
      BY <2>1, RemoveDeploymentsDoes, Before, DataFrame
  <1> QED
    BY <1>1, <1>2 DEF Types

LEMMA RemoveCodeTypes == ASSUME Constants, Types, NEW c \in Clients, RemoveCode(c) PROVE Types'
  <1>1. Procedures' /\ Known'
    <2>1. PICK next :
             /\ Moves(c, next) /\ (next = Rest \/ Same(c, next, Place(next.todo)))
             /\ Place(next.todo) \in {"unroute", "rest"} /\ PlaceOf(c) = "code"
      BY RemoveCodeMoves, RestFits DEF Same
    <2>2. inserted' = inserted
      BY DEF RemoveCode, rest
    <2> QED
      BY <2>1, <2>2, ReqSame DEF PreviewSteps
  <1>2. Data' /\ Numbers'
    <2>1. source' \in [Ids -> 0..MaxCalls] /\ \A p \in Ids : source'[p] # 0 => p <= inserted
      BY Before, MineIsId DEF RemoveCode, Constants
    <2>2. UNCHANGED <<application, pulls, previews, domains, routes, services, queue, worker, inserted, calls>> /\ Rows' = Rows
      BY DEF RemoveCode, rest, Rows, Present
    <2> QED
      BY <2>1, <2>2, Before, DataFrame
  <1> QED
    BY <1>1, <1>2 DEF Types

LEMMA RemoveRouteTypes == ASSUME Constants, Types, NEW c \in Clients, RemoveRoute(c) PROVE Types'
  <1>1. Procedures' /\ Known'
    <2>1. PICK next :
             /\ Moves(c, next) /\ (next = Rest \/ Same(c, next, Place(next.todo)))
             /\ Place(next.todo) \in {"dropRow", "rest"} /\ PlaceOf(c) = "unroute"
      BY RemoveRouteMoves, RestFits DEF Same
    <2>2. inserted' = inserted
      BY DEF RemoveRoute, world, rest
    <2> QED
      BY <2>1, <2>2, ReqSame DEF PreviewSteps
  <1>2. Data' /\ Numbers'
    <2>1. routes' \subseteq Ids
      BY Before DEF RemoveRoute
    <2>2. UNCHANGED <<application, pulls, previews, domains, services, source, queue, worker, inserted, calls>> /\ Rows' = Rows
      BY DEF RemoveRoute, world, Rows, Present
    <2> QED
      BY <2>1, <2>2, Before, DataFrame DEF rest
  <1> QED
    BY <1>1, <1>2 DEF Types

LEMMA DropRowTypes == ASSUME Constants, Types, NEW c \in Clients, DropRow(c) PROVE Types'
  <1>1. Procedures' /\ Known'
    <2>1. PICK next :
             /\ Moves(c, next) /\ (next = Rest \/ Same(c, next, Place(next.todo)))
             /\ Place(next.todo) \in {"nextRemoval", "rest"} /\ PlaceOf(c) = "dropRow"
      BY DropRowMoves, RestFits DEF Same
    <2>2. inserted' = inserted
      BY DEF DropRow, world, rest
    <2> QED
      BY <2>1, <2>2, ReqSame DEF PreviewSteps
  <1>2. Data' /\ Numbers'
    <2>1. CASE "row" \in Failing /\ UNCHANGED <<previews, domains>>
      <3>1. Rows' = Rows /\ previews' = previews /\ domains' = domains
        BY <2>1, DropRowDoes DEF Rows, Present
      <3> QED
        BY <3>1, DropRowDoes, Before, Still
    <2>2. CASE Dropped(previews, previews', {req[c].preview}) /\ domains' = domains \ {req[c].preview}
      BY <2>2, DropRowDoes, DroppedData, Before
    <2> QED
      BY <2>1, <2>2, DropRowDoes
  <1> QED
    BY <1>1, <1>2 DEF Types

LEMMA DropDomainTypes == ASSUME Constants, Types, NEW c \in Clients, DropDomain(c) PROVE Types'
  <1>1. Procedures' /\ Known'
    <2>1. PICK next :
             /\ Moves(c, next) /\ (next = Rest \/ Same(c, next, Place(next.todo)))
             /\ Place(next.todo) \in {"rest"} /\ PlaceOf(c) = "dropDomain"
      BY DropDomainMoves, RestFits DEF Same
    <2>2. inserted' = inserted
      BY DEF DropDomain, world, rest
    <2> QED
      BY <2>1, <2>2, ReqSame DEF PreviewSteps
  <1>2. Data' /\ Numbers'
    BY DropDomainDoes, DroppedData, Before
  <1> QED
    BY <1>1, <1>2 DEF Types

LEMMA CheckNotRunningTypes == ASSUME Constants, Types, NEW c \in Clients, CheckNotRunning(c) PROVE Types'
  <1>1. PICK next : Moves(c, next) /\ (next = Rest \/ Given(next))
    <2>1. PICK next :
              /\ Moves(c, next)
              /\ \/ next = Rest
                 \/ /\ next.op = req[c].op /\ next.preview = req[c].preview /\ next.left = Rows
                    /\ Place(next.todo) = "notActive"
      BY CheckNotRunningMoves
    <2>2. Given(req[c]) /\ req[c] \in Calls /\ PlaceOf(c) = "notRunning"
      BY CheckNotRunningMoves DEF Types, Known, Procedures, Fits
    <2>3. \A p \in Rows : p <= inserted
      BY Before
    <2> QED
      BY <2>1, <2>2, <2>3 DEF Given, PreviewSteps
  <1>2. Procedures' /\ Known'
    <2>1. inserted' = inserted /\ inserted \in Nat
      <3>1. UNCHANGED <<world, queue, worker, inserted, calls>>
        BY Zenon DEF CheckNotRunning, rest
      <3> QED
        BY <3>1, Before
    <2>2. Given(next)' <=> Given(next)
      BY <2>1 DEF Given
    <2> QED
      BY <1>1, <2>1, <2>2, ReqFrame
  <1>3. Data' /\ Numbers'
    <2>1. UNCHANGED <<world, queue, worker, inserted, calls>>
      BY Zenon DEF CheckNotRunning, rest
    <2>2. UNCHANGED <<application, pulls, previews, domains, routes, services, source, queue, worker, inserted, calls>>
      BY <2>1 DEF world
    <2> QED
      BY <2>2, Still
  <1> QED
    BY <1>2, <1>3 DEF Types

LEMMA CheckNotActiveTypes == ASSUME Constants, Types, NEW c \in Clients, CheckNotActive(c) PROVE Types'
  <1>1. Procedures' /\ Known'
    <2>1. PICK next :
             /\ Moves(c, next) /\ (next = Rest \/ Same(c, next, Place(next.todo)))
             /\ Place(next.todo) \in {"dequeue", "rest"} /\ PlaceOf(c) = "notActive"
      BY CheckNotActiveMoves, RestFits DEF Same
    <2>2. inserted' = inserted
      BY DEF CheckNotActive, world, rest
    <2> QED
      BY <2>1, <2>2, ReqSame DEF PreviewSteps
  <1>2. Data' /\ Numbers'
    <2>1. UNCHANGED <<world, queue, worker, inserted, calls>>
      BY Zenon DEF CheckNotActive, rest
    <2>2. UNCHANGED <<application, pulls, previews, domains, routes, services, source, queue, worker, inserted, calls>>
      BY <2>1 DEF world
    <2> QED
      BY <2>2, Still
  <1> QED
    BY <1>1, <1>2 DEF Types

LEMMA DropDomainsTypes == ASSUME Constants, Types, NEW c \in Clients, DropDomains(c) PROVE Types'
  <1>1. Procedures' /\ Known'
    <2>1. PICK next :
             /\ Moves(c, next) /\ (next = Rest \/ Same(c, next, Place(next.todo)))
             /\ Place(next.todo) \in {"dropApplication", "rest"} /\ PlaceOf(c) = "dropDomains"
      BY DropDomainsMoves, RestFits DEF Same
    <2>2. inserted' = inserted
      BY DEF DropDomains, world, rest
    <2> QED
      BY <2>1, <2>2, ReqSame DEF PreviewSteps
  <1>2. Data' /\ Numbers'
    BY DropDomainsDoes, DroppedData, Before
  <1> QED
    BY <1>1, <1>2 DEF Types

LEMMA DropApplicationTypes == ASSUME Constants, Types, NEW c \in Clients, DropApplication(c) PROVE Types'
  <1>1. Procedures' /\ Known'
    <2>1. PICK next :
             /\ Moves(c, next) /\ (next = Rest \/ Same(c, next, Place(next.todo)))
             /\ Place(next.todo) \in {"rest"} /\ PlaceOf(c) = "dropApplication"
      BY DropApplicationMoves, RestFits DEF Same
    <2>2. inserted' = inserted
      BY DEF DropApplication, world, rest
    <2> QED
      BY <2>1, <2>2, ReqSame DEF PreviewSteps
  <1>2. Data' /\ Numbers'
    BY DropApplicationDoes, DroppedData
  <1> QED
    BY <1>1, <1>2 DEF Types

\* An event or a call begins a procedure.
LEMMA Begins ==
    ASSUME Constants, Types, NEW c \in Clients, NEW op \in Operations, NEW r \in Calls,
           r.op = op, r.todo = Program(op), Set(c, r)
    PROVE  req' = [req EXCEPT ![c] = r] /\ Fits(r) /\ r.todo # <<>>
  <1>1. op \in Ops /\ Program(op) \in Todos(op) /\ Program(op) # <<>>
    BY Programs DEF Constants
  <1> QED
    BY <1>1 DEF Fits, Set

LEMMA BeginsWith ==
    ASSUME Constants, NEW op \in Operations
    PROVE  /\ Rest \in Calls /\ Rest.preview = 1 /\ Rest.left = {} /\ Rest.pr \in PullRequests
           /\ Program(op) \in UNION {Todos(o) : o \in Ops \cup {"none"}} /\ op \in Ops
  <1>1. op \in Ops /\ Program(op) \in Todos(op)
    BY Programs DEF Constants
  <1>2. Rest \in Calls
    BY RestFits DEF Fits
  <1> QED
    BY <1>1, <1>2 DEF Rest, Calls

LEMMA EventDoes ==
    ASSUME Constants, Types, NEW c \in Clients, Event(c)
    PROVE  \E op \in Operations \cap Events, pr \in PullRequests, r \in Calls :
              /\ req[c].todo = <<>> /\ calls < MaxCalls /\ calls' = calls + 1
              /\ pulls[pr].open = (op # "opened")
              /\ r.op = op /\ r.pr = pr /\ r.preview = 1 /\ r.left = {} /\ req' = [req EXCEPT ![c] = r] /\ Fits(r)
              /\ Place(r.todo) = IF op = "closed" THEN "list" ELSE "apps"
              /\ pulls' = [pulls EXCEPT ![pr] = [open |-> op # "closed",
                                                 head |-> IF op \in Pushes THEN pulls[pr].head + 1 ELSE pulls[pr].head]]
              /\ UNCHANGED <<application, previews, domains, routes, services, source, queue, worker, inserted>>
  <1>1. PICK op \in Operations \cap Events, pr \in PullRequests :
           /\ pulls[pr].open = (op # "opened")
           /\ pulls' = [pulls EXCEPT ![pr] = [open |-> op # "closed",
                                             head |-> IF op \in {"opened", "synchronize"} THEN @.head + 1 ELSE @.head]]
           /\ Set(c, [Rest EXCEPT !.op = op, !.pr = pr, !.todo = Program(op)])
    BY Zenon DEF Event
  <1>2. PICK todo \in UNION {Todos(o) : o \in Ops \cup {"none"}} : todo = Program(op)
    BY BeginsWith
  <1>3. PICK r : r = [Rest EXCEPT !.op = op, !.pr = pr, !.todo = todo]
    OBVIOUS
  <1>4. r \in Calls /\ r.op = op /\ r.pr = pr /\ r.preview = 1 /\ r.left = {} /\ r.todo = todo
    BY <1>2, <1>3, BeginsWith DEF Calls
  <1>5. req' = [req EXCEPT ![c] = r] /\ Fits(r)
    <2>1. Set(c, r)
      BY <1>1, <1>2, <1>3, Zenon
    <2> QED
      BY <1>2, <1>4, <2>1, Begins
  <1>6. Place(r.todo) = IF op = "closed" THEN "list" ELSE "apps"
    <2>1. op \in Deploys \cup {"closed"}
      BY DEF Events, Deploys
    <2> QED
      BY <1>2, <1>4, <2>1, Programs, BeginsWith DEF Deploys
  <1>7. pulls' = [pulls EXCEPT ![pr] = [open |-> op # "closed",
                                        head |-> IF op \in Pushes THEN pulls[pr].head + 1 ELSE pulls[pr].head]]
    <2>1. pulls \in [PullRequests -> [open : BOOLEAN, head : Nat]]
      BY DEF Types, Data
    <2> QED
      BY <1>1, <2>1 DEF Pushes
  <1>8. /\ req[c].todo = <<>> /\ calls < MaxCalls /\ calls' = calls + 1
        /\ UNCHANGED <<application, previews, domains, routes, services, source, queue, worker, inserted>>
    BY Zenon DEF Event
  <1> QED
    BY <1>1, <1>4, <1>5, <1>6, <1>7, <1>8, Zenon

LEMMA CallDoes ==
    ASSUME Constants, Types, NEW c \in Clients, Call(c)
    PROVE  \E op \in Operations \ Events, p \in Ids, r \in Calls :
              /\ req[c].todo = <<>> /\ calls < MaxCalls /\ calls' = calls + 1
              /\ op \in {"delete", "redeploy", "deleteDomain"} => Present(p)
              /\ r.op = op /\ r.preview = p /\ r.left = {} /\ req' = [req EXCEPT ![c] = r] /\ Fits(r)
              /\ Place(r.todo) \in {"find", "dequeue"}
              /\ UNCHANGED <<world, queue, worker, inserted>>
  <1>1. PICK op \in Operations \ Events, p \in Ids :
           /\ IF op \in {"delete", "redeploy", "deleteDomain"} THEN Present(p) ELSE p = 1
           /\ Set(c, [Rest EXCEPT !.op = op, !.preview = p, !.todo = Program(op)])
    BY Zenon DEF Call
  <1>2. PICK todo \in UNION {Todos(o) : o \in Ops \cup {"none"}} : todo = Program(op)
    BY BeginsWith
  <1>3. PICK r : r = [Rest EXCEPT !.op = op, !.preview = p, !.todo = todo]
    OBVIOUS
  <1>5. r \in Calls /\ r.op = op /\ r.preview = p /\ r.left = {} /\ r.todo = todo
    BY <1>2, <1>3, BeginsWith DEF Calls
  <1>6. req' = [req EXCEPT ![c] = r] /\ Fits(r)
    <2>1. Set(c, r)
      BY <1>1, <1>2, <1>3, Zenon
    <2> QED
      BY <1>2, <1>5, <2>1, Begins
  <1>7. Place(r.todo) \in {"find", "dequeue"}
    <2>1. op \notin Deploys \cup {"closed"}
      BY DEF Events, Deploys
    <2> QED
      BY <1>2, <1>5, <2>1, Programs, BeginsWith
  <1>8. /\ req[c].todo = <<>> /\ calls < MaxCalls /\ calls' = calls + 1
        /\ UNCHANGED <<world, queue, worker, inserted>>
    BY Zenon DEF Call
  <1> QED
    BY <1>1, <1>5, <1>6, <1>7, <1>8, Zenon

\* A procedure that begins has no preview but one that is there.
LEMMA BegunTypes ==
    ASSUME Constants, Types, NEW c \in Clients, NEW r, req' = [req EXCEPT ![c] = r], Fits(r), r.op \in Events => c \in Handlers,
           r.left = {}, Place(r.todo) \notin PreviewSteps, inserted' = inserted,
           r.op \in {"delete", "redeploy", "deleteDomain"} => r.preview \in Rows
    PROVE  Procedures' /\ Known'
  <1>1. Given(r)
    BY Before DEF Given
  <1>2. DOMAIN req = Clients
    BY DEF Types, Procedures
  <1>3. ASSUME NEW b \in Clients, NEW s, s = req'[b]
       PROVE  Fits(s) /\ (s.op \in Events => b \in Handlers) /\ Given(s)
    <2>1. CASE b = c
      BY <1>1, <1>2, <1>3, <2>1
    <2>2. CASE b # c
      BY <1>2, <1>3, <2>2 DEF Types, Procedures, Known
    <2> QED
      BY <2>1, <2>2
  <1>4. \A b \in Clients : LET s == req'[b] IN Fits(s) /\ (s.op \in Events => b \in Handlers)
    BY <1>3, Zenon
  <1>5. ASSUME NEW b \in Clients PROVE Given(req[b])'
    <2>1. PICK s : s = req'[b]
      OBVIOUS
    <2>2. Given(s)
      BY <1>3, <2>1
    <2>3. Given(s)'
      BY <2>2 DEF Given
    <2> QED
      BY <2>1, <2>3 DEF Given
  <1> QED
    BY <1>2, <1>4, <1>5 DEF Procedures, Known

LEMMA EventTypes == ASSUME Constants, Types, NEW c \in Handlers, Event(c) PROVE Types'
  <1>1. PICK op \in Operations \cap Events, pr \in PullRequests, r \in Calls :
              /\ req[c].todo = <<>> /\ calls < MaxCalls /\ calls' = calls + 1
              /\ pulls[pr].open = (op # "opened")
              /\ r.op = op /\ r.pr = pr /\ r.preview = 1 /\ r.left = {} /\ req' = [req EXCEPT ![c] = r] /\ Fits(r)
              /\ Place(r.todo) = IF op = "closed" THEN "list" ELSE "apps"
              /\ pulls' = [pulls EXCEPT ![pr] = [open |-> op # "closed",
                                                 head |-> IF op \in Pushes THEN pulls[pr].head + 1 ELSE pulls[pr].head]]
              /\ UNCHANGED <<application, previews, domains, routes, services, source, queue, worker, inserted>>
    BY EventDoes DEF Clients
  <1>2. Procedures' /\ Known'
    <2>1. c \in Clients /\ r.op \notin {"delete", "redeploy", "deleteDomain"} /\ Place(r.todo) \notin PreviewSteps
      BY <1>1 DEF Clients, Events, PreviewSteps
    <2> QED
      BY <1>1, <2>1, BegunTypes
  <1>3. pulls \in [PullRequests -> [open : BOOLEAN, head : Nat]] /\ calls \in 0..MaxCalls /\ MaxCalls \in Nat
        /\ \A q \in PullRequests : pulls[q].head <= calls
    BY DEF Types, Data, Numbers, Constants
  <1>4. PICK head \in Nat : head = (IF op \in Pushes THEN pulls[pr].head + 1 ELSE pulls[pr].head) /\ head <= calls + 1
    <2>1. pulls[pr].head \in Nat /\ pulls[pr].head <= calls
      BY <1>3
    <2> QED
      BY <1>3, <2>1
  <1>5. pulls' = [pulls EXCEPT ![pr] = [open |-> op # "closed", head |-> head]]
    BY <1>1, <1>4
  <1>6. pulls' \in [PullRequests -> [open : BOOLEAN, head : Nat]] /\ calls' \in 0..MaxCalls
    BY <1>1, <1>3, <1>5
  <1>7. \A q \in PullRequests : pulls'[q].head <= calls'
    <2>1. ASSUME NEW q \in PullRequests PROVE pulls'[q].head <= calls'
      <3>1. CASE q = pr
        BY <1>1, <1>3, <1>4, <1>5, <3>1
      <3>2. CASE q # pr
        <4>1. pulls'[q] = pulls[q] /\ pulls[q].head \in Nat /\ pulls[q].head <= calls
          BY <1>3, <1>5, <3>2
        <4> QED
          BY <1>1, <1>3, <4>1
      <3> QED
        BY <3>1, <3>2
    <2> QED
      BY <2>1
  <1>8. Rows' = Rows
    BY <1>1 DEF Rows, Present
  <1>9. Data'
    BY <1>1, <1>6, <1>8 DEF Types, Data
  <1>10. Numbers'
    BY <1>1, <1>7, <1>8 DEF Types, Numbers
  <1> QED
    BY <1>2, <1>9, <1>10 DEF Types

LEMMA CallTypes == ASSUME Constants, Types, NEW c \in Users, Call(c) PROVE Types'
  <1>1. PICK op \in Operations \ Events, p \in Ids, r \in Calls :
              /\ req[c].todo = <<>> /\ calls < MaxCalls /\ calls' = calls + 1
              /\ op \in {"delete", "redeploy", "deleteDomain"} => Present(p)
              /\ r.op = op /\ r.preview = p /\ r.left = {} /\ req' = [req EXCEPT ![c] = r] /\ Fits(r)
              /\ Place(r.todo) \in {"find", "dequeue"}
              /\ UNCHANGED <<world, queue, worker, inserted>>
    BY CallDoes DEF Clients
  <1>2. Procedures' /\ Known'
    <2>1. c \in Clients /\ r.op \notin Events /\ Place(r.todo) \notin PreviewSteps
      BY <1>1 DEF Clients, PreviewSteps
    <2>2. r.op \in {"delete", "redeploy", "deleteDomain"} => r.preview \in Rows
      BY <1>1 DEF Rows
    <2> QED
      BY <1>1, <2>1, <2>2, BegunTypes
  <1>3. UNCHANGED <<application, pulls, previews, domains, routes, services, source, queue, worker, inserted>>
        /\ calls' = calls + 1 /\ calls < MaxCalls /\ calls \in 0..MaxCalls /\ MaxCalls \in Nat
    BY <1>1 DEF world, Types, Data, Constants
  <1>4. Rows' = Rows /\ calls' \in 0..MaxCalls
    BY <1>3 DEF Rows, Present
  <1>5. Data'
    BY <1>3, <1>4 DEF Types, Data
  <1>6. Numbers'
    <2>1. \A pr \in PullRequests : pulls[pr].head \in Nat /\ pulls[pr].head <= calls
      BY DEF Types, Data, Numbers
    <2>2. \A pr \in PullRequests : pulls'[pr].head <= calls'
      BY <1>3, <2>1
    <2> QED
      BY <1>3, <1>4, <2>2 DEF Types, Numbers
  <1> QED
    BY <1>2, <1>5, <1>6 DEF Types

\* The new row has a number of its own.
LEMMA InsertPreviewDoes ==
    ASSUME Constants, Types, NEW c \in Clients, InsertPreview(c), application
    PROVE  LET new == inserted + 1
           IN /\ inserted' = new /\ new \in Ids /\ new \notin Rows /\ req[c].pr \in PullRequests
              /\ previews' \in PreviewRows /\ Rows' = Rows \cup {new} /\ \A q \in Ids : q # new => previews'[q] = previews[q]
              /\ previews'[new] = [pr |-> req[c].pr, status |-> "idle", run |-> "none"]
              /\ UNCHANGED <<application, pulls, domains, routes, services, source, queue, worker, calls>>
  <1>1. PICK new : new = inserted + 1
    OBVIOUS
  <1>2. inserted \in Nat /\ inserted < MaxPreviews /\ new \in Ids
    BY <1>1 DEF Types, Data, InsertPreview, Ids, Constants
  <1>3. inserted' = new /\ UNCHANGED <<application, pulls, domains, routes, services, source, queue, worker, calls>>
    BY <1>1 DEF InsertPreview
  <1>4. req[c].pr \in PullRequests /\ "none" \notin PullRequests
    BY DEF Types, Procedures, Fits, Calls, Constants
  <1>5. previews' = [previews EXCEPT ![new] = [pr |-> req[c].pr, status |-> "idle", run |-> "none"]]
    <2>1. [NoRow EXCEPT !.pr = req[c].pr] = [pr |-> req[c].pr, status |-> "idle", run |-> "none"]
      BY DEF NoRow
    <2> QED
      BY <1>1, <2>1 DEF InsertPreview
  <1>6. new \notin Rows
    BY <1>1, <1>2, Before
  <1>7. previews \in PreviewRows
    BY Before
  <1>8. PICK row \in PreviewRow : row = [pr |-> req[c].pr, status |-> "idle", run |-> "none"]
    BY <1>4 DEF PreviewRow, Statuses, RunStatuses
  <1>9. previews' = [previews EXCEPT ![new] = row] /\ row # NoRow
    BY <1>5, <1>8, RowTypes, <1>7, <1>2
  <1>10. previews' \in PreviewRows /\ previews'[new] = row /\ \A q \in Ids : q # new => previews'[q] = previews[q]
    BY <1>2, <1>7, <1>9 DEF PreviewRows
  <1>11. Rows' = Rows \cup {new}
    BY <1>2, <1>9, <1>10 DEF Rows, Present
  <1> QED
    BY <1>1, <1>2, <1>3, <1>4, <1>6, <1>8, <1>10, <1>11

LEMMA WaitingJobs == ASSUME Types PROVE Waiting(queue) \subseteq Jobs
  <1>1. queue \in Seq(Jobs)
    BY DEF Types, Data
  <1>2. \A i \in DOMAIN queue : queue[i] \in Jobs
    BY <1>1
  <1> QED
    BY <1>2 DEF Waiting

LEMMA InsertPreviewTypes == ASSUME Constants, Types, NEW c \in Clients, InsertPreview(c) PROVE Types'
  <1>1. PICK next :
           /\ Moves(c, next)
           /\ IF application
              THEN /\ next.preview = inserted + 1 /\ next.op = req[c].op /\ next.left = req[c].left
                   /\ Place(next.todo) = "ensure"
              ELSE next = Rest
    BY InsertPreviewMoves
  <1>2. CASE ~ application
    <2>1. UNCHANGED <<application, pulls, previews, domains, routes, services, source, queue, worker, inserted, calls>>
      BY <1>2 DEF InsertPreview
    <2>2. Data' /\ Numbers'
      BY <2>1, Before, Still
    <2>3. Procedures' /\ Known'
      BY <1>1, <1>2, <2>1, Before, ReqFrame
    <2> QED
      BY <2>2, <2>3 DEF Types
  <1>3. CASE application
    <2>1. PICK new : new = inserted + 1
      OBVIOUS
    <2>2. /\ inserted' = new /\ new \in Ids /\ new \notin Rows
          /\ previews' \in PreviewRows /\ Rows' = Rows \cup {new}
          /\ UNCHANGED <<application, pulls, domains, routes, services, source, queue, worker, calls>>
      BY <1>3, <2>1, InsertPreviewDoes
    <2>3. PICK old \in Nat : old = inserted
      BY Before
    <2>4. new \in 0..MaxPreviews /\ new = old + 1 /\ new \in Nat
      BY <2>1, <2>2, <2>3 DEF Ids
    <2>5. \A p \in Ids : p <= old => p <= new
      BY <2>3, <2>4 DEF Ids
    <2>6. Data'
      BY <2>2, <2>4 DEF Types, Data
    <2>7. Numbers'
      <3>1. \A p \in Rows' : p <= new
        <4>1. \A p \in Rows : p \in Ids /\ p <= old
          BY <2>3, Before
        <4>2. \A p \in Rows : p <= new
          BY <2>5, <4>1
        <4>3. new <= new
          BY <2>4
        <4> QED
          BY <2>2, <4>2, <4>3
      <3>2. \A p \in Ids : source'[p] # 0 => p <= new
        BY <2>2, <2>3, <2>5, Before
      <3>3. \A j \in Waiting(queue') : j.preview <= new
        <4>1. \A j \in Waiting(queue) : j.preview \in Ids /\ j.preview <= old
          BY <2>3, WaitingJobs DEF Types, Numbers, Jobs
        <4> QED
          BY <2>2, <2>5, <4>1
      <3>4. worker'.pc # "idle" => worker'.preview <= new
        <4>1. worker.preview \in Ids
          BY Before DEF Workers
        <4> QED
          BY <2>2, <2>3, <2>5, <4>1, Before
      <3>5. \A pr \in PullRequests : pulls'[pr].head <= calls'
        BY <2>2 DEF Types, Numbers
      <3> QED
        BY <2>2, <3>1, <3>2, <3>3, <3>4, <3>5 DEF Numbers
    <2>8. Procedures' /\ Known'
      <3>1. Given(next)'
        <4>1. Given(req[c]) /\ req[c].left \subseteq Ids
          BY MineIsId DEF Types, Known
        <4>2. \A p \in next.left : p <= new
          BY <1>1, <1>3, <2>3, <2>5, <4>1 DEF Given
        <4>3. new <= new
          BY <2>4
        <4> QED
          BY <1>1, <1>3, <2>1, <2>2, <4>2, <4>3 DEF Given
      <3>2. inserted' \in Nat /\ inserted <= inserted'
        BY <2>2, <2>3, <2>4
      <3> QED
        BY <1>1, <3>1, <3>2, ReqFrame
    <2> QED
      BY <2>6, <2>7, <2>8 DEF Types
  <1> QED
    BY <1>2, <1>3

\* The procedures stay as they are.
LEMMA ReqStays == ASSUME Types, UNCHANGED <<req, inserted>> PROVE Procedures' /\ Known'
  BY DEF Types, Procedures, Known, Given

LEMMA TakeJobTypes == ASSUME Constants, Types, TakeJob PROVE Types'
  <1>1. PICK p \in Ids, type \in {"deploy", "redeploy"} :
              /\ worker.pc = "idle" /\ queue # <<>> /\ Head(queue) = Job(p, type) /\ queue' = Tail(queue)
              /\ worker' \in Workers /\ worker'.pc = "begin" /\ worker'.preview = p /\ worker'.type = type
              /\ Restated(previews, previews', p, "running", previews[p].run)
              /\ UNCHANGED <<application, pulls, domains, routes, services, source, req, inserted, calls>>
    BY TakeJobDoes
  <1>2. Procedures' /\ Known'
    BY <1>1, ReqStays DEF rest
  <1>3. queue \in Seq(Jobs) /\ Apart(queue) /\ \A j \in Waiting(queue) : j.preview <= inserted
    BY DEF Types, Data, Numbers
  <1>4. /\ queue' \in Seq(Jobs) /\ Apart(queue') /\ Head(queue) \in Waiting(queue)
        /\ \A j \in Waiting(queue') : j.preview <= inserted
    BY <1>1, <1>3, QueueTail
  <1>5. p <= inserted
    <2>1. Head(queue).preview = p
      BY <1>1 DEF Job
    <2> QED
      BY <1>3, <1>4, <2>1
  <1>6. Rows' = Rows /\ previews' \in PreviewRows
    BY <1>1, SameRows DEF Restated
  <1>7. Data' /\ Numbers'
    BY <1>1, <1>4, <1>5, <1>6, Before, DataFrame DEF rest
  <1> QED
    BY <1>2, <1>7 DEF Types

\* The worker goes on, ends its run or stays as it is; the rows are the same.
LEMMA WorkerFrame ==
    ASSUME Constants, Types, UNCHANGED <<application, pulls, queue, req, inserted, calls>>,
           previews' \in PreviewRows, Rows' = Rows, domains' \subseteq Rows, routes' \subseteq Ids,
           services' \in [Ids -> 0..MaxCalls], source' \in [Ids -> 0..MaxCalls],
           \A p \in Ids : source'[p] # 0 => p <= inserted,
           worker.pc # "idle",
           worker' = NoRun \/ (worker' \in Workers /\ worker'.preview = worker.preview)
    PROVE  Types'
  <1>1. Procedures' /\ Known'
    BY ReqStays
  <1>2. worker' \in Workers /\ (worker'.pc # "idle" => worker'.preview <= inserted)
    BY Before, NoRunIs
  <1>3. Data' /\ Numbers'
    BY <1>2, Before, DataFrame
  <1> QED
    BY <1>1, <1>3 DEF Types

LEMMA BeginRunTypes == ASSUME Constants, Types, BeginRun PROVE Types'
  <1>1. /\ worker.pc # "idle" /\ previews' \in PreviewRows /\ Rows' = Rows
        /\ worker' = NoRun \/ Stepped(worker'.pc)
        /\ UNCHANGED <<application, pulls, domains, routes, services, source, queue, req, inserted, calls>>
    <2>1. \A p, s, r : Restated(previews, previews', p, s, r) => previews' \in PreviewRows /\ Rows' = Rows
      BY SameRows DEF Restated
    <2>2. previews' = previews => previews' \in PreviewRows /\ Rows' = Rows
      BY Before DEF Rows, Present
    <2>3. \A pc : Stepped(pc) => Stepped(worker'.pc)
      BY DEF Stepped
    <2> QED
      BY <2>1, <2>2, <2>3, BeginRunDoes
  <1> QED
    BY <1>1, Before, WorkerFrame DEF rest, Stepped

LEMMA FinishTypes == ASSUME Constants, Types, Finish PROVE Types'
  <1>1. /\ worker.pc # "idle" /\ previews' \in PreviewRows /\ Rows' = Rows
        /\ worker' = NoRun \/ Stepped(worker'.pc)
        /\ UNCHANGED <<application, pulls, domains, routes, services, source, queue, req, inserted, calls>>
    <2>1. \A p, s, r : Restated(previews, previews', p, s, r) => previews' \in PreviewRows /\ Rows' = Rows
      BY SameRows DEF Restated
    <2>2. previews' = previews => previews' \in PreviewRows /\ Rows' = Rows
      BY Before DEF Rows, Present
    <2>3. \A pc : Stepped(pc) => Stepped(worker'.pc)
      BY DEF Stepped
    <2> QED
      BY <2>1, <2>2, <2>3, FinishDoes
  <1> QED
    BY <1>1, Before, WorkerFrame DEF rest, Stepped

LEMMA CatchTypes == ASSUME Constants, Types, Catch PROVE Types'
  <1>1. /\ worker.pc # "idle" /\ previews' \in PreviewRows /\ Rows' = Rows
        /\ worker' = NoRun \/ Stepped(worker'.pc)
        /\ UNCHANGED <<application, pulls, domains, routes, services, source, queue, req, inserted, calls>>
    <2>1. \A p, s, r : Restated(previews, previews', p, s, r) => previews' \in PreviewRows /\ Rows' = Rows
      BY SameRows DEF Restated
    <2>2. previews' = previews => previews' \in PreviewRows /\ Rows' = Rows
      BY Before DEF Rows, Present
    <2>3. \A pc : Stepped(pc) => Stepped(worker'.pc)
      BY DEF Stepped
    <2> QED
      BY <2>1, <2>2, <2>3, CatchDoes
  <1> QED
    BY <1>1, Before, WorkerFrame DEF rest, Stepped

LEMMA MarkErroredTypes == ASSUME Constants, Types, MarkErrored PROVE Types'
  <1>1. /\ worker.pc # "idle" /\ previews' \in PreviewRows /\ Rows' = Rows
        /\ worker' = NoRun \/ Stepped(worker'.pc)
        /\ UNCHANGED <<application, pulls, domains, routes, services, source, queue, req, inserted, calls>>
    <2>1. \A p, s, r : Restated(previews, previews', p, s, r) => previews' \in PreviewRows /\ Rows' = Rows
      BY SameRows DEF Restated
    <2>2. previews' = previews => previews' \in PreviewRows /\ Rows' = Rows
      BY Before DEF Rows, Present
    <2>3. \A pc : Stepped(pc) => Stepped(worker'.pc)
      BY DEF Stepped
    <2> QED
      BY <2>1, <2>2, <2>3, MarkErroredDoes
  <1> QED
    BY <1>1, Before, WorkerFrame DEF rest, Stepped

LEMMA AnnounceTypes == ASSUME Constants, Types, Announce PROVE Types'
  <1>1. worker.pc = "comment" /\ UNCHANGED <<application, pulls, queue, req, inserted, calls, previews, domains, routes, services, source>>
    BY DEF Announce, Running, world, rest
  <1>2. Rows' = Rows
    BY <1>1 DEF Rows, Present
  <1>3. worker' \in Workers /\ worker'.preview = worker.preview
    BY StepIs DEF Announce, Pcs, Stepped
  <1>4. previews' \in PreviewRows
    BY <1>1, Before
  <1> QED
    BY <1>1, <1>2, <1>3, <1>4, Before, WorkerFrame

LEMMA BuildTypes == ASSUME Constants, Types, Build PROVE Types'
  <1>1. /\ worker.pc = "build" /\ UNCHANGED <<world, queue, req, inserted, calls>>
        /\ worker' \in Workers /\ worker'.preview = worker.preview
    BY BuildDoes DEF Stepped
  <1>2. Rows' = Rows
    BY <1>1 DEF Rows, Present, world
  <1> QED
    BY <1>1, <1>2, Before, WorkerFrame DEF world, rest

LEMMA DeployTypes == ASSUME Constants, Types, Deploy PROVE Types'
  <1>1. worker.pc = "deploy" /\ UNCHANGED <<application, pulls, queue, req, inserted, calls, previews, domains, routes, source>>
    BY DEF Deploy, Running, world, rest
  <1>2. Rows' = Rows
    BY <1>1 DEF Rows, Present
  <1>3. worker' \in Workers /\ worker'.preview = worker.preview
    BY StepIs DEF Deploy, Pcs, Stepped
  <1>4. services' \in [Ids -> 0..MaxCalls] /\ previews' \in PreviewRows
    BY <1>1, Before DEF Deploy, Workers
  <1> QED
    BY <1>1, <1>2, <1>3, <1>4, Before, WorkerFrame

LEMMA AssignDomainTypes == ASSUME Constants, Types, AssignDomain PROVE Types'
  <1>1. worker.pc = "ensure" /\ UNCHANGED <<application, pulls, queue, req, inserted, calls, previews, routes, services, source>>
    BY DEF AssignDomain, Running, world, rest
  <1>2. Rows' = Rows
    BY <1>1 DEF Rows, Present
  <1>3. worker' \in Workers /\ worker'.preview = worker.preview
    BY StepIs DEF AssignDomain, Pcs, Stepped
  <1>4. domains' \subseteq Rows /\ previews' \in PreviewRows
    BY <1>1, Before DEF AssignDomain, CanEnsure, Rows, Workers
  <1> QED
    BY <1>1, <1>2, <1>3, <1>4, Before, WorkerFrame

LEMMA AssignRouteTypes == ASSUME Constants, Types, AssignRoute PROVE Types'
  <1>1. worker.pc = "route" /\ UNCHANGED <<application, pulls, queue, req, inserted, calls, previews, domains, services, source>>
    BY DEF AssignRoute, Running, world, rest
  <1>2. Rows' = Rows
    BY <1>1 DEF Rows, Present
  <1>3. worker' \in Workers /\ worker'.preview = worker.preview
    BY StepIs DEF AssignRoute, Pcs, Stepped
  <1>4. routes' \subseteq Ids /\ previews' \in PreviewRows
    BY <1>1, Before DEF AssignRoute, Workers
  <1> QED
    BY <1>1, <1>2, <1>3, <1>4, Before, WorkerFrame

LEMMA CheckoutDoes ==
    ASSUME Constants, Types, Checkout
    PROVE  /\ worker.pc = "checkout" /\ worker.preview \in Ids /\ Stepped("build")
           /\ UNCHANGED <<application, pulls, previews, domains, routes, services, queue, req, inserted, calls>>
           /\ \/ /\ worker.type = "deploy" /\ Present(worker.preview) /\ missed' = missed \ {worker.preview}
                 /\ source' = [source EXCEPT ![worker.preview] = pulls[previews[worker.preview].pr].head]
              \/ ~ (worker.type = "deploy" /\ Present(worker.preview)) /\ UNCHANGED <<source, missed>>
  <1>1. worker.preview \in Ids
    BY Before DEF Workers
  <1>2. Stepped("build")
    BY StepIs DEF Checkout, Pcs
  <1> QED
    BY <1>1, <1>2 DEF Checkout, Running

LEMMA CheckoutTypes == ASSUME Constants, Types, Checkout PROVE Types'
  <1>1. /\ worker.pc = "checkout" /\ worker.preview \in Ids /\ Stepped("build")
        /\ UNCHANGED <<application, pulls, previews, domains, routes, services, queue, req, inserted, calls>>
    BY CheckoutDoes
  <1>2. Rows' = Rows
    BY <1>1 DEF Rows, Present
  <1>3. source' \in [Ids -> 0..MaxCalls] /\ \A p \in Ids : source'[p] # 0 => p <= inserted
    <2>1. CASE /\ worker.type = "deploy" /\ Present(worker.preview)
               /\ source' = [source EXCEPT ![worker.preview] = pulls[previews[worker.preview].pr].head]
      <3>1. previews[worker.preview].pr \in PullRequests
        BY <1>1, <2>1, Before, RowTypes DEF Present
      <3>2. PICK head \in 0..MaxCalls : head = pulls[previews[worker.preview].pr].head
        <4>1. /\ pulls[previews[worker.preview].pr].head \in Nat /\ pulls[previews[worker.preview].pr].head <= calls
              /\ calls \in 0..MaxCalls /\ MaxCalls \in Nat
          BY <3>1, Before DEF Types, Data, Numbers, Constants
        <4>2. pulls[previews[worker.preview].pr].head \in 0..MaxCalls
          BY <4>1
        <4> QED
          BY <4>2
      <3>3. worker.preview <= inserted
        BY <1>1, Before
      <3> QED
        BY <1>1, <2>1, <3>2, <3>3, Before
    <2>2. CASE source' = source
      BY <2>2, Before
    <2> QED
      BY <2>1, <2>2, CheckoutDoes
  <1> QED
    BY <1>1, <1>2, <1>3, Before, WorkerFrame DEF Stepped

LEMMA InitTypes == ASSUME Constants, Init PROVE Types
  <1>1. Rows = {}
    BY DEF Init, Rows, Present
  <1>2. <<>> \in Seq(Jobs) /\ Apart(<<>>) /\ Waiting(<<>>) = {}
    BY DEF Apart, Waiting
  <1>3. worker \in Workers /\ worker.pc = "idle"
    BY NoRunIs DEF Init
  <1>4. previews \in PreviewRows
    BY DEF Init, PreviewRows
  <1>5. Data
    BY <1>1, <1>2, <1>3, <1>4 DEF Init, Data, Constants
  <1>6. Procedures
    BY RestFits DEF Init, Procedures, Rest, Events
  <1>7. Numbers
    BY <1>1, <1>2, <1>3 DEF Init, Numbers
  <1>8. Known
    BY RestFits DEF Init, Known, Given, Rest, PreviewSteps
  <1> QED
    BY <1>5, <1>6, <1>7, <1>8 DEF Types

\* Every step keeps the types.
LEMMA StepTypes == ASSUME Constants, Types, [Next]_preview PROVE Types'
  <1>1. CASE TakeJob
    BY <1>1, TakeJobTypes
  <1>2. CASE BeginRun
    BY <1>2, BeginRunTypes
  <1>3. CASE Announce
    BY <1>3, AnnounceTypes
  <1>4. CASE Checkout
    BY <1>4, CheckoutTypes
  <1>5. CASE Build
    BY <1>5, BuildTypes
  <1>6. CASE Deploy
    BY <1>6, DeployTypes
  <1>7. CASE AssignDomain
    BY <1>7, AssignDomainTypes
  <1>8. CASE AssignRoute
    BY <1>8, AssignRouteTypes
  <1>9. CASE Finish
    BY <1>9, FinishTypes
  <1>10. CASE Catch
    BY <1>10, CatchTypes
  <1>11. CASE MarkErrored
    BY <1>11, MarkErroredTypes
  <1>12. CASE \E c \in Handlers : Event(c)
    BY <1>12, EventTypes
  <1>13. CASE \E c \in Users : Call(c)
    BY <1>13, CallTypes
  <1>14. ASSUME NEW c \in Clients, Webhook(c) \/ RemovalStep(c) \/ Procedure(c) PROVE Types'
    <2>1. CASE FindApplications(c)
      BY <2>1, FindApplicationsTypes
    <2>2. CASE Lookup(c)
      BY <2>2, LookupTypes
    <2>3. CASE Comment(c)
      BY <2>3, CommentTypes
    <2>4. CASE InsertPreview(c)
      BY <2>4, InsertPreviewTypes
    <2>5. CASE EnsureDomain(c)
      BY <2>5, EnsureDomainTypes
    <2>6. CASE WriteRoute(c)
      BY <2>6, WriteRouteTypes
    <2>7. CASE Enqueue(c)
      BY <2>7, EnqueueTypes
    <2>8. CASE Dequeue(c)
      BY <2>8, DequeueTypes
    <2>9. CASE FindPreview(c)
      BY <2>9, FindPreviewTypes
    <2>10. CASE ListPreviews(c)
      BY <2>10, ListPreviewsTypes
    <2>11. CASE NextRemoval(c)
      BY <2>11, NextRemovalTypes
    <2>12. CASE RemoveRecord(c)
      BY <2>12, RemoveRecordTypes
    <2>13. CASE RemoveService(c)
      BY <2>13, RemoveServiceTypes
    <2>14. CASE RemoveDeployments(c)
      BY <2>14, RemoveDeploymentsTypes
    <2>15. CASE RemoveRoute(c)
      BY <2>15, RemoveRouteTypes
    <2>16. CASE DropRow(c)
      BY <2>16, DropRowTypes
    <2>17. CASE DropDomain(c)
      BY <2>17, DropDomainTypes
    <2>18. CASE CheckNotRunning(c)
      BY <2>18, CheckNotRunningTypes
    <2>19. CASE CheckNotActive(c)
      BY <2>19, CheckNotActiveTypes
    <2>20. CASE DropDomains(c)
      BY <2>20, DropDomainsTypes
    <2>21. CASE DropApplication(c)
      BY <2>21, DropApplicationTypes
    <2>22. CASE RemoveCode(c)
      BY <2>22, RemoveCodeTypes
    <2> QED
      BY <1>14, <2>1, <2>2, <2>3, <2>4, <2>5, <2>6, <2>7, <2>8, <2>9, <2>10, <2>11, <2>12, <2>13, <2>14, <2>15, <2>16, <2>17, <2>18, <2>19, <2>20, <2>21, <2>22 DEF Webhook, RemovalStep, Procedure
  <1>15. CASE UNCHANGED preview
    BY <1>15 DEF preview, Types, Data, Procedures, Numbers, Known, Given, Rows, Present
  <1> QED
    BY <1>1, <1>2, <1>3, <1>4, <1>5, <1>6, <1>7, <1>8, <1>9, <1>10, <1>11, <1>12, <1>13, <1>14, <1>15 DEF Next, RunStep

\* What the histories hold are previews.
LEMMA StepHistories == ASSUME Constants, Types, Histories, [Next]_preview PROVE Histories'
  <1>1. Rows \subseteq Ids /\ \A pr : RowsOf(pr) \subseteq Ids
    BY DEF Rows, RowsOf
  <1>2. ASSUME NEW c \in Clients PROVE req[c].preview \in Ids /\ req[c].left \subseteq Ids
    BY MineIsId
  <1>3. worker.preview \in Ids
    BY Before DEF Workers
  <1>4. CASE TakeJob
    BY <1>4, TakeJobDoes DEF TakeJob, Histories, Job
  <1>5. CASE BeginRun \/ Announce
    BY <1>3, <1>5 DEF BeginRun, Announce, Miss, Histories
  <1>6. CASE Checkout
    BY <1>6 DEF Checkout, Histories
  <1>7. CASE Build \/ Deploy \/ AssignDomain \/ AssignRoute \/ Finish \/ Catch \/ MarkErrored
    BY <1>7 DEF Build, Deploy, AssignDomain, AssignRoute, Finish, Catch, MarkErrored, Histories, rest
  <1>8. ASSUME NEW c, Event(c) \/ Call(c) PROVE Histories'
    BY <1>8, Zenon DEF Event, Call, Histories
  <1>9. ASSUME NEW c \in Clients, Webhook(c) \/ RemovalStep(c) \/ Procedure(c) PROVE Histories'
    <2>1. CASE FindApplications(c) \/ Lookup(c)
      BY <1>1, <2>1 DEF FindApplications, Lookup, Histories
    <2>2. CASE Comment(c) \/ InsertPreview(c) \/ EnsureDomain(c) \/ WriteRoute(c)
      BY <2>2 DEF Comment, InsertPreview, EnsureDomain, WriteRoute, Histories, rest
    <2>3. CASE Enqueue(c) \/ Dequeue(c)
      BY <1>2, <2>3 DEF Enqueue, Dequeue, Histories
    <2>4. CASE ListPreviews(c) \/ RemoveRecord(c) \/ RemoveDeployments(c) \/ RemoveCode(c)
      BY <2>4 DEF ListPreviews, RemoveRecord, RemoveDeployments, RemoveCode, Histories, rest
    <2>5. CASE NextRemoval(c)
      BY <1>2, <2>5 DEF NextRemoval, Histories
    <2>6. CASE RemoveService(c) \/ RemoveRoute(c) \/ DropRow(c)
      BY <1>2, <2>6 DEF RemoveService, RemoveRoute, DropRow, Histories
    <2>7. CASE FindPreview(c) \/ CheckNotRunning(c) \/ CheckNotActive(c)
      BY <2>7 DEF FindPreview, CheckNotRunning, CheckNotActive, Histories, rest
    <2>8. CASE DropDomain(c) \/ DropDomains(c) \/ DropApplication(c)
      BY <1>1, <1>2, <2>8 DEF DropDomain, DropDomains, DropApplication, Histories
    <2> QED
      BY <1>9, <2>1, <2>2, <2>3, <2>4, <2>5, <2>6, <2>7, <2>8 DEF Webhook, RemovalStep, Procedure
  <1>10. CASE UNCHANGED preview
    BY <1>10 DEF preview, Histories
  <1> QED
    BY <1>4, <1>5, <1>6, <1>7, <1>8, <1>9, <1>10 DEF Next, RunStep

\* Every variable keeps to its type (the columns of preview_deployments, the jobs
\* of the queue, the local state of the handlers).
THEOREM TypeCorrect == ASSUME Constants PROVE Spec => []TypeOK
  <1>1. Init => Types /\ Histories
    BY InitTypes DEF Init, Histories
  <1>2. Types /\ Histories /\ [Next]_preview => Types' /\ Histories'
    BY StepTypes, StepHistories
  <1>3. Types /\ Histories => TypeOK
    <2>1. ASSUME Types, Histories PROVE TypeOK
      <3>1. pulls \in [PullRequests -> [open : BOOLEAN, head : 0..MaxCalls]]
        <4>1. \A pr \in PullRequests : pulls[pr].head \in Nat /\ pulls[pr].head <= calls
          BY <2>1 DEF Types, Data, Numbers
        <4>2. calls \in 0..MaxCalls /\ MaxCalls \in Nat
          BY <2>1 DEF Types, Data, Constants
        <4>3. \A pr \in PullRequests : pulls[pr].head \in 0..MaxCalls
          BY <4>1, <4>2
        <4> QED
          BY <2>1, <4>3 DEF Types, Data
      <3>2. \A i \in DOMAIN queue : queue[i] \in Jobs
        BY <2>1, WaitingJobs DEF Waiting
      <3> QED
        BY <2>1, <3>1, <3>2 DEF Types, Data, Histories, TypeOK, Jobs, Apart, PreviewRows, PreviewRow
    <2> QED
      BY <2>1
  <1> QED
    BY <1>1, <1>2, <1>3, PTL DEF Spec

-----------------------------------------------------------------------------
(* What a procedure's step does to the rows, for every procedure at once.   *)

Acts(c) == Webhook(c) \/ RemovalStep(c) \/ Procedure(c)

LEMMA MovedReq ==
    ASSUME NEW c \in Clients, NEW next, Moves(c, next)
    PROVE  /\ req'[c] = next /\ PlaceOf(c)' = Place(next.todo)
           /\ \A d \in Clients : d # c => req'[d] = req[d] /\ PlaceOf(d)' = PlaceOf(d)
  BY DEF Moves, PlaceOf, Place

\* A row that stays, and the one that is new.
KeptRow(p) ==
    /\ p \in Rows /\ previews'[p].pr = previews[p].pr /\ previews'[p].status = previews[p].status
    /\ previews'[p].run \in {previews[p].run, "none"}
NewRow(c, p) ==
    /\ InsertPreview(c) /\ application /\ p = inserted + 1 /\ p \notin Rows
    /\ previews'[p] = [pr |-> req[c].pr, status |-> "idle", run |-> "none"]

LEMMA RowsAre == ASSUME NEW p PROVE p \in Rows <=> p \in Ids /\ previews[p] # NoRow
  BY DEF Rows, Present

LEMMA UnchangedRows == ASSUME previews' = previews PROVE \A p \in Rows' : KeptRow(p)
  BY DEF KeptRow, Rows, Present

LEMMA RestatedRows ==
    ASSUME NEW p, NEW run, Restated(previews, previews', p, previews[p].status, run), run \in {previews[p].run, "none"}
    PROVE  \A q \in Rows' : KeptRow(q)
  <1>1. Rows' = Rows
    BY SameRows
  <1>2. ASSUME NEW q \in Rows PROVE KeptRow(q)
    <2>1. q \in Ids /\ previews[q] # NoRow
      BY <1>2 DEF Rows, Present
    <2> QED
      BY <1>2, <2>1 DEF Restated, KeptRow
  <1> QED
    BY <1>1, <1>2

LEMMA DroppedRows ==
    ASSUME NEW gone, Dropped(previews, previews', gone)
    PROVE  \A p \in Rows' : KeptRow(p) /\ p \notin gone
  BY DEF Dropped, KeptRow, Rows, Present

LEMMA ClientRows ==
    ASSUME Constants, Types, NEW c \in Clients, Acts(c)
    PROVE  \A p \in Rows' : KeptRow(p) \/ NewRow(c, p)
  <1>1. ASSUME FindApplications(c) PROVE previews' = previews
    BY Zenon, <1>1 DEF FindApplications, world
  <1>2. ASSUME Lookup(c) PROVE previews' = previews
    BY Zenon, <1>2 DEF Lookup, world
  <1>3. ASSUME Comment(c) PROVE previews' = previews
    BY Zenon, <1>3 DEF Comment, world
  <1>4. ASSUME EnsureDomain(c) PROVE previews' = previews
    BY Zenon, <1>4 DEF EnsureDomain, world
  <1>5. ASSUME WriteRoute(c) PROVE previews' = previews
    BY Zenon, <1>5 DEF WriteRoute, world
  <1>6. ASSUME Enqueue(c) PROVE previews' = previews
    BY Zenon, <1>6 DEF Enqueue, world
  <1>7. ASSUME Dequeue(c) PROVE previews' = previews
    BY Zenon, <1>7 DEF Dequeue, world
  <1>8. ASSUME FindPreview(c) PROVE previews' = previews
    BY Zenon, <1>8 DEF FindPreview, world
  <1>9. ASSUME ListPreviews(c) PROVE previews' = previews
    BY Zenon, <1>9 DEF ListPreviews, world
  <1>10. ASSUME NextRemoval(c) PROVE previews' = previews
    BY Zenon, <1>10 DEF NextRemoval, world
  <1>11. ASSUME RemoveRecord(c) PROVE previews' = previews
    BY Zenon, <1>11 DEF RemoveRecord, world
  <1>12. ASSUME RemoveService(c) PROVE previews' = previews
    BY Zenon, <1>12 DEF RemoveService, world
  <1>13. ASSUME RemoveRoute(c) PROVE previews' = previews
    BY Zenon, <1>13 DEF RemoveRoute, world
  <1>14. ASSUME CheckNotRunning(c) PROVE previews' = previews
    BY Zenon, <1>14 DEF CheckNotRunning, world
  <1>15. ASSUME CheckNotActive(c) PROVE previews' = previews
    BY Zenon, <1>15 DEF CheckNotActive, world
  <1>16. CASE RemoveDeployments(c)
    BY <1>16, RemoveDeploymentsDoes, RestatedRows, UnchangedRows
  <1>17. CASE DropRow(c)
    BY <1>17, DropRowDoes, DroppedRows, UnchangedRows
  <1>18. CASE DropDomain(c)
    BY <1>18, DropDomainDoes, DroppedRows, UnchangedRows
  <1>19. CASE DropDomains(c)
    BY <1>19, DropDomainsDoes, DroppedRows, UnchangedRows
  <1>20. CASE DropApplication(c)
    BY <1>20, DropApplicationDoes, DroppedRows, UnchangedRows
  <1>21. CASE InsertPreview(c)
    <2>1. CASE application
      <3>1. PICK new : new = inserted + 1
        OBVIOUS
      <3>2. /\ new \notin Rows /\ Rows' = Rows \cup {new} /\ \A q \in Ids : q # new => previews'[q] = previews[q]
            /\ previews'[new] = [pr |-> req[c].pr, status |-> "idle", run |-> "none"]
        BY <1>21, <2>1, <3>1, InsertPreviewDoes
      <3>3. ASSUME NEW p \in Rows PROVE KeptRow(p)
        BY <3>2, <3>3 DEF KeptRow, Rows
      <3>4. NewRow(c, new)
        BY <1>21, <2>1, <3>1, <3>2 DEF NewRow
      <3> QED
        BY <3>2, <3>3, <3>4
    <2>2. CASE ~ application
      <3>1. previews' = previews
        BY <1>21, <2>2 DEF InsertPreview
      <3> QED
        BY <3>1, UnchangedRows
    <2> QED
      BY <2>1, <2>2
  <1>22. ASSUME RemoveCode(c) PROVE previews' = previews
    BY Zenon, <1>22 DEF RemoveCode
  <1> QED
    BY Zenon, UnchangedRows, <1>1, <1>2, <1>3, <1>4, <1>5, <1>6, <1>7, <1>8, <1>9, <1>10, <1>11, <1>12, <1>13, <1>14, <1>15, <1>16, <1>17, <1>18, <1>19, <1>20, <1>21, <1>22 DEF Acts, Webhook, RemovalStep, Procedure

\* The worker, its branch and GitHub are not the procedures' concern.
LEMMA ClientApart ==
    ASSUME NEW c \in Clients, Acts(c)
    PROVE  worker' = worker /\ pulls' = pulls /\ calls' = calls
  <1>1. ASSUME FindApplications(c) PROVE worker' = worker /\ pulls' = pulls /\ calls' = calls
    <2>1. UNCHANGED <<worker, pulls, calls>> \/ UNCHANGED <<world, worker, inserted, calls>> \/ UNCHANGED <<world, worker, calls>>
      BY <1>1, Zenon DEF FindApplications, rest
    <2> QED
      BY <2>1 DEF world, rest
  <1>2. ASSUME Lookup(c) PROVE worker' = worker /\ pulls' = pulls /\ calls' = calls
    <2>1. UNCHANGED <<worker, pulls, calls>> \/ UNCHANGED <<world, worker, inserted, calls>> \/ UNCHANGED <<world, worker, calls>>
      BY <1>2, Zenon DEF Lookup, rest
    <2> QED
      BY <2>1 DEF world, rest
  <1>3. ASSUME Comment(c) PROVE worker' = worker /\ pulls' = pulls /\ calls' = calls
    <2>1. UNCHANGED <<worker, pulls, calls>> \/ UNCHANGED <<world, worker, inserted, calls>> \/ UNCHANGED <<world, worker, calls>>
      BY <1>3, Zenon DEF Comment, rest
    <2> QED
      BY <2>1 DEF world, rest
  <1>4. ASSUME InsertPreview(c) PROVE worker' = worker /\ pulls' = pulls /\ calls' = calls
    BY <1>4 DEF InsertPreview, rest
  <1>5. ASSUME EnsureDomain(c) PROVE worker' = worker /\ pulls' = pulls /\ calls' = calls
    BY <1>5 DEF EnsureDomain, rest
  <1>6. ASSUME WriteRoute(c) PROVE worker' = worker /\ pulls' = pulls /\ calls' = calls
    BY <1>6 DEF WriteRoute, rest
  <1>7. ASSUME Enqueue(c) PROVE worker' = worker /\ pulls' = pulls /\ calls' = calls
    <2>1. UNCHANGED <<worker, pulls, calls>> \/ UNCHANGED <<world, worker, inserted, calls>> \/ UNCHANGED <<world, worker, calls>>
      BY <1>7, Zenon DEF Enqueue, rest
    <2> QED
      BY <2>1 DEF world, rest
  <1>8. ASSUME Dequeue(c) PROVE worker' = worker /\ pulls' = pulls /\ calls' = calls
    <2>1. UNCHANGED <<worker, pulls, calls>> \/ UNCHANGED <<world, worker, inserted, calls>> \/ UNCHANGED <<world, worker, calls>>
      BY <1>8, Zenon DEF Dequeue, rest
    <2> QED
      BY <2>1 DEF world, rest
  <1>9. ASSUME FindPreview(c) PROVE worker' = worker /\ pulls' = pulls /\ calls' = calls
    <2>1. UNCHANGED <<worker, pulls, calls>> \/ UNCHANGED <<world, worker, inserted, calls>> \/ UNCHANGED <<world, worker, calls>>
      BY <1>9, Zenon DEF FindPreview, rest
    <2> QED
      BY <2>1 DEF world, rest
  <1>10. ASSUME ListPreviews(c) PROVE worker' = worker /\ pulls' = pulls /\ calls' = calls
    <2>1. UNCHANGED <<worker, pulls, calls>> \/ UNCHANGED <<world, worker, inserted, calls>> \/ UNCHANGED <<world, worker, calls>>
      BY <1>10, Zenon DEF ListPreviews, rest
    <2> QED
      BY <2>1 DEF world, rest
  <1>11. ASSUME NextRemoval(c) PROVE worker' = worker /\ pulls' = pulls /\ calls' = calls
    <2>1. UNCHANGED <<worker, pulls, calls>> \/ UNCHANGED <<world, worker, inserted, calls>> \/ UNCHANGED <<world, worker, calls>>
      BY <1>11, Zenon DEF NextRemoval, rest
    <2> QED
      BY <2>1 DEF world, rest
  <1>12. ASSUME RemoveRecord(c) PROVE worker' = worker /\ pulls' = pulls /\ calls' = calls
    <2>1. UNCHANGED <<worker, pulls, calls>> \/ UNCHANGED <<world, worker, inserted, calls>> \/ UNCHANGED <<world, worker, calls>>
      BY <1>12, Zenon DEF RemoveRecord, rest
    <2> QED
      BY <2>1 DEF world, rest
  <1>13. ASSUME RemoveService(c) PROVE worker' = worker /\ pulls' = pulls /\ calls' = calls
    BY <1>13 DEF RemoveService, rest
  <1>14. ASSUME RemoveDeployments(c) PROVE worker' = worker /\ pulls' = pulls /\ calls' = calls
    BY <1>14 DEF RemoveDeployments, rest
  <1>15. ASSUME RemoveRoute(c) PROVE worker' = worker /\ pulls' = pulls /\ calls' = calls
    BY <1>15 DEF RemoveRoute, rest
  <1>16. ASSUME DropRow(c) PROVE worker' = worker /\ pulls' = pulls /\ calls' = calls
    BY <1>16 DEF DropRow, rest
  <1>17. ASSUME DropDomain(c) PROVE worker' = worker /\ pulls' = pulls /\ calls' = calls
    BY <1>17 DEF DropDomain, rest
  <1>18. ASSUME CheckNotRunning(c) PROVE worker' = worker /\ pulls' = pulls /\ calls' = calls
    <2>1. UNCHANGED <<worker, pulls, calls>> \/ UNCHANGED <<world, worker, inserted, calls>> \/ UNCHANGED <<world, worker, calls>>
      BY <1>18, Zenon DEF CheckNotRunning, rest
    <2> QED
      BY <2>1 DEF world, rest
  <1>19. ASSUME CheckNotActive(c) PROVE worker' = worker /\ pulls' = pulls /\ calls' = calls
    <2>1. UNCHANGED <<worker, pulls, calls>> \/ UNCHANGED <<world, worker, inserted, calls>> \/ UNCHANGED <<world, worker, calls>>
      BY <1>19, Zenon DEF CheckNotActive, rest
    <2> QED
      BY <2>1 DEF world, rest
  <1>20. ASSUME DropDomains(c) PROVE worker' = worker /\ pulls' = pulls /\ calls' = calls
    BY <1>20 DEF DropDomains, rest
  <1>21. ASSUME DropApplication(c) PROVE worker' = worker /\ pulls' = pulls /\ calls' = calls
    BY <1>21 DEF DropApplication, rest
  <1>22. ASSUME RemoveCode(c) PROVE worker' = worker /\ pulls' = pulls /\ calls' = calls
    BY <1>22 DEF RemoveCode, rest
  <1> QED
    BY Zenon, <1>1, <1>2, <1>3, <1>4, <1>5, <1>6, <1>7, <1>8, <1>9, <1>10, <1>11, <1>12, <1>13, <1>14, <1>15, <1>16, <1>17, <1>18, <1>19, <1>20, <1>21, <1>22 DEF Acts, Webhook, RemovalStep, Procedure

\* A removal that has stopped the service is on its way until the row is gone.
LEMMA LeavingOthers ==
    ASSUME NEW c \in Clients, NEW next, Moves(c, next), NEW p, Leaving(p),
           PlaceOf(c) \notin {"deployments", "code", "unroute", "dropRow"} \/ req[c].preview # p
    PROVE  Leaving(p)'
  <1>1. PICK d \in Clients : PlaceOf(d) \in {"deployments", "code", "unroute", "dropRow"} /\ req[d].preview = p
    BY DEF Leaving
  <1>2. d # c
    BY <1>1
  <1>3. PlaceOf(d)' = PlaceOf(d) /\ req'[d] = req[d]
    BY <1>2, MovedReq
  <1> QED
    BY <1>1, <1>3 DEF Leaving

LEMMA LeavingOn ==
    ASSUME NEW c \in Clients, NEW next, Moves(c, next), NEW place \in {"deployments", "code", "unroute", "dropRow"}, Same(c, next, place),
           NEW q, q = req[c].preview
    PROVE  Leaving(q)' /\ \A p : Leaving(p) => Leaving(p)'
  <1>1. req'[c] = next /\ PlaceOf(c)' = place /\ next.preview = q
    BY MovedReq DEF Same
  <1>2. Leaving(q)'
    BY <1>1 DEF Leaving
  <1>3. ASSUME NEW p, Leaving(p) PROVE Leaving(p)'
    <2>1. CASE q # p
      BY <1>3, <2>1, LeavingOthers
    <2>2. CASE q = p
      BY <1>2, <2>2
    <2> QED
      BY <2>1, <2>2
  <1> QED
    BY <1>2, <1>3

\* Only its removal stops a preview's service, and what is leaving stays so.
LEMMA ClientLeaving ==
    ASSUME Constants, Types, NEW c \in Clients, Acts(c)
    PROVE  /\ \A p \in Rows' : Leaving(p) => Leaving(p)' \/ ("row" \in Failing /\ p \in disturbed')
           /\ \A p \in Ids : services'[p] = services[p] \/ Leaving(p)'
           /\ \A p \in Ids : source'[p] = source[p] \/ (Leaving(p)' /\ source'[p] = 0)
  <1>1. CASE FindApplications(c)
    <2>1. PICK next : Moves(c, next)
      BY <1>1, FindApplicationsMoves
    <2>2. PlaceOf(c) = "apps"
      BY <1>1, FindApplicationsMoves
    <2>3. UNCHANGED <<services, source>>
      BY <1>1, Zenon DEF FindApplications, world
    <2>4. \A p : Leaving(p) => Leaving(p)'
      BY <2>1, <2>2, LeavingOthers
    <2> QED
      BY <2>3, <2>4
  <1>2. CASE Lookup(c)
    <2>1. PICK next : Moves(c, next)
      BY <1>2, LookupMoves
    <2>2. PlaceOf(c) = "lookup"
      BY <1>2, LookupMoves
    <2>3. UNCHANGED <<services, source>>
      BY <1>2, Zenon DEF Lookup, world
    <2>4. \A p : Leaving(p) => Leaving(p)'
      BY <2>1, <2>2, LeavingOthers
    <2> QED
      BY <2>3, <2>4
  <1>3. CASE Comment(c)
    <2>1. PICK next : Moves(c, next)
      BY <1>3, CommentMoves
    <2>2. PlaceOf(c) = "comment"
      BY <1>3, CommentMoves
    <2>3. UNCHANGED <<services, source>>
      BY <1>3, Zenon DEF Comment, world
    <2>4. \A p : Leaving(p) => Leaving(p)'
      BY <2>1, <2>2, LeavingOthers
    <2> QED
      BY <2>3, <2>4
  <1>4. CASE InsertPreview(c)
    <2>1. PICK next : Moves(c, next)
      BY <1>4, InsertPreviewMoves
    <2>2. PlaceOf(c) = "insert"
      BY <1>4, InsertPreviewMoves
    <2>3. UNCHANGED <<services, source>>
      BY <1>4, Zenon DEF InsertPreview
    <2>4. \A p : Leaving(p) => Leaving(p)'
      BY <2>1, <2>2, LeavingOthers
    <2> QED
      BY <2>3, <2>4
  <1>5. CASE EnsureDomain(c)
    <2>1. PICK next : Moves(c, next)
      BY <1>5, EnsureDomainMoves
    <2>2. PlaceOf(c) = "ensure"
      BY <1>5, EnsureDomainMoves
    <2>3. UNCHANGED <<services, source>>
      BY <1>5, Zenon DEF EnsureDomain
    <2>4. \A p : Leaving(p) => Leaving(p)'
      BY <2>1, <2>2, LeavingOthers
    <2> QED
      BY <2>3, <2>4
  <1>6. CASE WriteRoute(c)
    <2>1. PICK next : Moves(c, next)
      BY <1>6, WriteRouteMoves
    <2>2. PlaceOf(c) = "route"
      BY <1>6, WriteRouteMoves
    <2>3. UNCHANGED <<services, source>>
      BY <1>6, Zenon DEF WriteRoute
    <2>4. \A p : Leaving(p) => Leaving(p)'
      BY <2>1, <2>2, LeavingOthers
    <2> QED
      BY <2>3, <2>4
  <1>7. CASE Enqueue(c)
    <2>1. PICK next : Moves(c, next)
      BY <1>7, EnqueueMoves
    <2>2. PlaceOf(c) = "enqueue"
      BY <1>7, EnqueueMoves
    <2>3. UNCHANGED <<services, source>>
      BY <1>7, Zenon DEF Enqueue, world
    <2>4. \A p : Leaving(p) => Leaving(p)'
      BY <2>1, <2>2, LeavingOthers
    <2> QED
      BY <2>3, <2>4
  <1>8. CASE Dequeue(c)
    <2>1. PICK next : Moves(c, next)
      BY <1>8, DequeueMoves
    <2>2. PlaceOf(c) = "dequeue"
      BY <1>8, DequeueMoves
    <2>3. UNCHANGED <<services, source>>
      BY <1>8, Zenon DEF Dequeue, world
    <2>4. \A p : Leaving(p) => Leaving(p)'
      BY <2>1, <2>2, LeavingOthers
    <2> QED
      BY <2>3, <2>4
  <1>9. CASE FindPreview(c)
    <2>1. PICK next : Moves(c, next)
      BY <1>9, FindPreviewMoves
    <2>2. PlaceOf(c) = "find"
      BY <1>9, FindPreviewMoves
    <2>3. UNCHANGED <<services, source>>
      BY <1>9, Zenon DEF FindPreview, world
    <2>4. \A p : Leaving(p) => Leaving(p)'
      BY <2>1, <2>2, LeavingOthers
    <2> QED
      BY <2>3, <2>4
  <1>10. CASE ListPreviews(c)
    <2>1. PICK next : Moves(c, next)
      BY <1>10, ListPreviewsMoves
    <2>2. PlaceOf(c) = "list"
      BY <1>10, ListPreviewsMoves
    <2>3. UNCHANGED <<services, source>>
      BY <1>10, Zenon DEF ListPreviews, world
    <2>4. \A p : Leaving(p) => Leaving(p)'
      BY <2>1, <2>2, LeavingOthers
    <2> QED
      BY <2>3, <2>4
  <1>11. CASE NextRemoval(c)
    <2>1. PICK next : Moves(c, next)
      BY <1>11, NextRemovalMoves
    <2>2. PlaceOf(c) = "nextRemoval"
      BY <1>11, NextRemovalMoves
    <2>3. UNCHANGED <<services, source>>
      BY <1>11, Zenon DEF NextRemoval, world
    <2>4. \A p : Leaving(p) => Leaving(p)'
      BY <2>1, <2>2, LeavingOthers
    <2> QED
      BY <2>3, <2>4
  <1>12. CASE RemoveRecord(c)
    <2>1. PICK next : Moves(c, next)
      BY <1>12, RemoveRecordMoves
    <2>2. PlaceOf(c) = "dns"
      BY <1>12, RemoveRecordMoves
    <2>3. UNCHANGED <<services, source>>
      BY <1>12, Zenon DEF RemoveRecord, world
    <2>4. \A p : Leaving(p) => Leaving(p)'
      BY <2>1, <2>2, LeavingOthers
    <2> QED
      BY <2>3, <2>4
  <1>13. CASE RemoveService(c)
    <2>1. PICK next : Moves(c, next) /\ Same(c, next, "deployments")
      BY <1>13, RemoveServiceMoves
    <2>2. PICK q \in Ids : q = req[c].preview
      BY MineIsId
    <2>3. Leaving(q)' /\ \A p : Leaving(p) => Leaving(p)'
      BY <2>1, <2>2, LeavingOn
    <2>4. /\ \A p \in Ids : services'[p] = services[p] \/ p = q
          /\ \A p \in Ids : source'[p] = source[p] \/ (p = q /\ source'[p] = 0)
      BY <1>13, <2>2, Before DEF RemoveService
    <2> QED
      BY <2>3, <2>4
  <1>14. CASE RemoveDeployments(c)
    <2>1. PICK next : Moves(c, next) /\ Same(c, next, "code")
      BY <1>14, RemoveDeploymentsMoves
    <2>2. PICK q \in Ids : q = req[c].preview
      BY MineIsId
    <2>3. Leaving(q)' /\ \A p : Leaving(p) => Leaving(p)'
      BY <2>1, <2>2, LeavingOn
    <2>4. /\ \A p \in Ids : services'[p] = services[p] \/ p = q
          /\ \A p \in Ids : source'[p] = source[p] \/ (p = q /\ source'[p] = 0)
      BY <1>14, <2>2, Before, RemoveDeploymentsDoes
    <2> QED
      BY <2>3, <2>4
  <1>15. CASE RemoveRoute(c)
    <2>1. PICK next : Moves(c, next) /\ Same(c, next, "dropRow")
      BY <1>15, RemoveRouteMoves
    <2>2. PICK q \in Ids : q = req[c].preview
      BY MineIsId
    <2>3. Leaving(q)' /\ \A p : Leaving(p) => Leaving(p)'
      BY <2>1, <2>2, LeavingOn
    <2>4. /\ \A p \in Ids : services'[p] = services[p] \/ p = q
          /\ \A p \in Ids : source'[p] = source[p] \/ (p = q /\ source'[p] = 0)
      BY <1>15, <2>2, Before DEF RemoveRoute
    <2> QED
      BY <2>3, <2>4
  <1>16. CASE DropRow(c)
    <2>1. PICK next : Moves(c, next)
      BY <1>16, DropRowMoves
    <2>2. UNCHANGED <<services, source>>
      BY <1>16 DEF DropRow
    <2>3. req[c].preview \in Rows' => "row" \in Failing /\ req[c].preview \in disturbed'
      <3>1. CASE Dropped(previews, previews', {req[c].preview})
        BY <3>1, DroppedRows
      <3>2. CASE "row" \in Failing /\ disturbed' = disturbed \cup {req[c].preview}
        BY <3>2
      <3> QED
        BY <1>16, <3>1, <3>2, Before DEF DropRow, Dropped, PreviewRows
    <2>4. \A p : Leaving(p) => Leaving(p)' \/ p = req[c].preview
      BY <2>1, LeavingOthers
    <2> QED
      BY <2>2, <2>3, <2>4
  <1>17. CASE DropDomain(c)
    <2>1. PICK next : Moves(c, next)
      BY <1>17, DropDomainMoves
    <2>2. PlaceOf(c) = "dropDomain"
      BY <1>17, DropDomainMoves
    <2>3. UNCHANGED <<services, source>>
      BY <1>17, Zenon DEF DropDomain
    <2>4. \A p : Leaving(p) => Leaving(p)'
      BY <2>1, <2>2, LeavingOthers
    <2> QED
      BY <2>3, <2>4
  <1>18. CASE CheckNotRunning(c)
    <2>1. PICK next : Moves(c, next)
      BY <1>18, CheckNotRunningMoves
    <2>2. PlaceOf(c) = "notRunning"
      BY <1>18, CheckNotRunningMoves
    <2>3. UNCHANGED <<services, source>>
      BY <1>18, Zenon DEF CheckNotRunning, world
    <2>4. \A p : Leaving(p) => Leaving(p)'
      BY <2>1, <2>2, LeavingOthers
    <2> QED
      BY <2>3, <2>4
  <1>19. CASE CheckNotActive(c)
    <2>1. PICK next : Moves(c, next)
      BY <1>19, CheckNotActiveMoves
    <2>2. PlaceOf(c) = "notActive"
      BY <1>19, CheckNotActiveMoves
    <2>3. UNCHANGED <<services, source>>
      BY <1>19, Zenon DEF CheckNotActive, world
    <2>4. \A p : Leaving(p) => Leaving(p)'
      BY <2>1, <2>2, LeavingOthers
    <2> QED
      BY <2>3, <2>4
  <1>20. CASE DropDomains(c)
    <2>1. PICK next : Moves(c, next)
      BY <1>20, DropDomainsMoves
    <2>2. PlaceOf(c) = "dropDomains"
      BY <1>20, DropDomainsMoves
    <2>3. UNCHANGED <<services, source>>
      BY <1>20, Zenon DEF DropDomains
    <2>4. \A p : Leaving(p) => Leaving(p)'
      BY <2>1, <2>2, LeavingOthers
    <2> QED
      BY <2>3, <2>4
  <1>21. CASE DropApplication(c)
    <2>1. PICK next : Moves(c, next)
      BY <1>21, DropApplicationMoves
    <2>2. PlaceOf(c) = "dropApplication"
      BY <1>21, DropApplicationMoves
    <2>3. UNCHANGED <<services, source>>
      BY <1>21, Zenon DEF DropApplication
    <2>4. \A p : Leaving(p) => Leaving(p)'
      BY <2>1, <2>2, LeavingOthers
    <2> QED
      BY <2>3, <2>4
  <1>22. CASE RemoveCode(c)
    <2>1. PICK next : Moves(c, next) /\ Same(c, next, "unroute")
      BY <1>22, RemoveCodeMoves
    <2>2. PICK q \in Ids : q = req[c].preview
      BY MineIsId
    <2>3. Leaving(q)' /\ \A p : Leaving(p) => Leaving(p)'
      BY <2>1, <2>2, LeavingOn
    <2>4. /\ \A p \in Ids : services'[p] = services[p] \/ p = q
          /\ \A p \in Ids : source'[p] = source[p] \/ (p = q /\ source'[p] = 0)
      BY <1>22, <2>2, Before DEF RemoveCode
    <2> QED
      BY <2>3, <2>4
  <1> QED
    BY Zenon, <1>1, <1>2, <1>3, <1>4, <1>5, <1>6, <1>7, <1>8, <1>9, <1>10, <1>11, <1>12, <1>13, <1>14, <1>15, <1>16, <1>17, <1>18, <1>19, <1>20, <1>21, <1>22 DEF Acts, Webhook, RemovalStep, Procedure

-----------------------------------------------------------------------------
(* A preview's status tells what became of its run.                         *)

LEMMA LeavingStays == ASSUME req' = req PROVE \A p : Leaving(p)' <=> Leaving(p)
  BY DEF Leaving, PlaceOf

LEMMA ClientStatus ==
    ASSUME Constants, Types, StatusInv, "row" \notin Failing, NEW c \in Clients, Acts(c)
    PROVE  StatusInv'
  <1>1. worker' = worker
    BY ClientApart
  <1>2. \A p \in Rows' : KeptRow(p) \/ NewRow(c, p)
    BY ClientRows
  <1>3. /\ \A p \in Rows' : Leaving(p) => Leaving(p)'
        /\ \A p \in Ids : services'[p] = services[p] \/ Leaving(p)'
    BY ClientLeaving
  <1>4. ASSUME NEW p \in Rows', KeptRow(p)
       PROVE  /\ previews'[p].status = "running" => Active(p)'
              /\ previews'[p].run = "running" /\ ~ Active(p)' => previews'[p].status = "error"
              /\ previews'[p].status = "done" \/ Finishing(p)' => services'[p] > 0 \/ Leaving(p)'
    <2>1. Active(p)' <=> Active(p)
      BY <1>1 DEF Active
    <2>2. Finishing(p)' <=> Finishing(p)
      BY <1>1 DEF Finishing
    <2>3. p \in Ids
      BY <1>4 DEF KeptRow, Rows
    <2> QED
      BY <1>3, <1>4, <2>1, <2>2, <2>3 DEF KeptRow, StatusInv
  <1>5. ASSUME NEW p \in Rows', NewRow(c, p)
       PROVE  /\ previews'[p].status = "running" => Active(p)'
              /\ previews'[p].run = "running" /\ ~ Active(p)' => previews'[p].status = "error"
              /\ previews'[p].status = "done" \/ Finishing(p)' => services'[p] > 0 \/ Leaving(p)'
    <2>1. previews'[p].status = "idle" /\ previews'[p].run = "none" /\ p = inserted + 1
      BY <1>5 DEF NewRow
    <2>2. ~ Finishing(p)'
      <3>1. worker.pc # "idle" => worker.preview # p
        <4>1. PICK old \in Nat : old = inserted
          BY Before
        <4>2. worker.pc # "idle" => worker.preview \in Nat /\ worker.preview <= old
          BY <4>1, Before DEF Workers, Ids
        <4> QED
          BY <2>1, <4>1, <4>2
      <3> QED
        BY <1>1, <3>1 DEF Finishing
    <2> QED
      BY <2>1, <2>2
  <1> QED
    BY <1>1, <1>2, <1>4, <1>5 DEF StatusInv

\* An event or a call changes none of it.
LEMMA BegunLeaving ==
    ASSUME NEW c \in Clients, NEW r, req' = [req EXCEPT ![c] = r], DOMAIN req = Clients, req[c].todo = <<>>
    PROVE  /\ \A d \in Clients : d # c => req'[d] = req[d] /\ PlaceOf(d)' = PlaceOf(d)
           /\ req'[c] = r /\ PlaceOf(c)' = Place(r.todo) /\ PlaceOf(c) = "rest"
           /\ \A p : Leaving(p) => Leaving(p)'
  <1>1. req'[c] = r /\ PlaceOf(c)' = Place(r.todo) /\ PlaceOf(c) = "rest"
    BY DEF PlaceOf, Place
  <1>2. \A d \in Clients : d # c => req'[d] = req[d] /\ PlaceOf(d)' = PlaceOf(d)
    BY DEF PlaceOf, Place
  <1>3. \A p : Leaving(p) => Leaving(p)'
    BY <1>1, <1>2 DEF Leaving
  <1> QED
    BY <1>1, <1>2, <1>3

LEMMA BegunStatus ==
    ASSUME StatusInv, UNCHANGED <<previews, services, worker>>, \A p : Leaving(p) => Leaving(p)'
    PROVE  StatusInv'
  <1>1. Rows' = Rows
    BY DEF Rows, Present
  <1>2. \A p : (Active(p)' <=> Active(p)) /\ (Finishing(p)' <=> Finishing(p))
    BY DEF Active, Finishing
  <1> QED
    BY <1>1, <1>2 DEF StatusInv

LEMMA EventStatus == ASSUME Constants, Types, StatusInv, NEW c \in Handlers, Event(c) PROVE StatusInv'
  <1>1. c \in Clients /\ DOMAIN req = Clients
    BY DEF Clients, Types, Procedures
  <1>2. PICK r : req' = [req EXCEPT ![c] = r] /\ req[c].todo = <<>> /\ UNCHANGED <<previews, services, worker>>
    BY <1>1, EventDoes
  <1> QED
    BY <1>1, <1>2, BegunLeaving, BegunStatus

LEMMA CallStatus == ASSUME Constants, Types, StatusInv, NEW c \in Users, Call(c) PROVE StatusInv'
  <1>1. c \in Clients /\ DOMAIN req = Clients
    BY DEF Clients, Types, Procedures
  <1>2. PICK r : req' = [req EXCEPT ![c] = r] /\ req[c].todo = <<>> /\ UNCHANGED <<previews, services, worker>>
    BY <1>1, CallDoes DEF world
  <1> QED
    BY <1>1, <1>2, BegunLeaving, BegunStatus

\* The worker goes on with its run.
LEMMA StatusOn ==
    ASSUME Types, StatusInv, req' = req, NEW p, p = worker.preview, worker'.preview = p,
           worker.pc # "idle", worker'.pc # "idle",
           \/ previews' = previews
           \/ \E s \in {previews[p].status, "error"} : \E r : Restated(previews, previews', p, s, r),
           \A q \in Ids : services'[q] = services[q] \/ (q = p /\ services'[q] > 0),
           worker'.pc \in {"ensure", "route", "finish"} => services'[p] > 0 \/ Leaving(p),
           worker'.pc = "deploy" => worker'.built > 0
    PROVE  StatusInv'
  <1>1. Rows' = Rows
    <2>1. CASE previews' = previews
      BY <2>1 DEF Rows, Present
    <2> QED
      BY <2>1, SameRows
  <1>2. \A q : (Leaving(q)' <=> Leaving(q)) /\ (Active(q)' <=> Active(q)) /\ (Finishing(q)' => q = p /\ (services'[p] > 0 \/ Leaving(p)))
    BY LeavingStays DEF Active, Finishing
  <1>3. ASSUME NEW q \in Rows
       PROVE  /\ previews'[q].status = "running" => Active(q)
              /\ previews'[q].run = "running" /\ ~ Active(q) => previews'[q].status = "error"
              /\ previews'[q].status = "done" => services'[q] > 0 \/ Leaving(q)
    <2>1. q \in Ids /\ previews[q] # NoRow
      BY <1>3 DEF Rows, Present
    <2>2. Active(p)
      BY DEF Active
    <2>3. \/ previews'[q] = previews[q]
          \/ q = p /\ previews'[q].status \in {previews[q].status, "error"}
      BY <2>1 DEF Restated
    <2> QED
      BY <1>3, <2>1, <2>2, <2>3 DEF StatusInv
  <1> QED
    BY <1>1, <1>2, <1>3 DEF StatusInv

\* The worker ends its run.
LEMMA StatusOff ==
    ASSUME Constants, Types, StatusInv, req' = req, services' = services, NEW p, p = worker.preview, worker.pc # "idle", worker' = NoRun,
           NEW s \in {"done", "error"}, NEW r, Restated(previews, previews', p, s, r),
           s = "done" => r # "running" /\ (services[p] > 0 \/ Leaving(p))
    PROVE  StatusInv'
  <1>1. Rows' = Rows
    BY SameRows
  <1>2. \A q : (Leaving(q)' <=> Leaving(q)) /\ ~ Active(q)' /\ ~ Finishing(q)'
    BY LeavingStays, NoRunIs DEF Active, Finishing
  <1>3. ASSUME NEW q \in Rows
       PROVE  /\ previews'[q].status # "running"
              /\ previews'[q].run = "running" => previews'[q].status = "error"
              /\ previews'[q].status = "done" => services[q] > 0 \/ Leaving(q)
    <2>1. q \in Ids /\ previews[q] # NoRow
      BY <1>3 DEF Rows, Present
    <2>2. CASE q = p
      BY <2>1, <2>2 DEF Restated
    <2>3. CASE q # p
      <3>1. previews'[q] = previews[q] /\ ~ Active(q)
        BY <2>1, <2>3 DEF Restated, Active
      <3> QED
        BY <1>3, <3>1 DEF StatusInv
    <2> QED
      BY <2>2, <2>3
  <1>4. worker'.pc # "deploy"
    BY NoRunIs
  <1> QED
    BY <1>1, <1>2, <1>3, <1>4 DEF StatusInv

LEMMA TakeJobStatus == ASSUME Constants, Types, StatusInv, TakeJob PROVE StatusInv'
  <1>1. PICK p \in Ids :
           /\ worker.pc = "idle" /\ worker'.pc = "begin" /\ worker'.preview = p
           /\ Restated(previews, previews', p, "running", previews[p].run) /\ UNCHANGED <<services, req>>
    BY TakeJobDoes
  <1>2. Rows' = Rows
    BY <1>1, SameRows
  <1>3. \A q : (Leaving(q)' <=> Leaving(q)) /\ (Active(q)' <=> q = p) /\ ~ Active(q) /\ ~ Finishing(q)'
    BY <1>1, LeavingStays DEF Active, Finishing
  <1>4. ASSUME NEW q \in Rows
       PROVE  /\ previews'[q].status = "running" => q = p
              /\ previews'[q].run = "running" /\ q # p => previews'[q].status = "error"
              /\ previews'[q].status = "done" => services[q] > 0 \/ Leaving(q)
    <2>1. q \in Ids /\ previews[q] # NoRow
      BY <1>4 DEF Rows, Present
    <2>2. CASE q = p
      BY <1>1, <2>1, <2>2 DEF Restated
    <2>3. CASE q # p
      <3>1. previews'[q] = previews[q]
        BY <1>1, <2>1, <2>3 DEF Restated
      <3> QED
        BY <1>3, <1>4, <3>1 DEF StatusInv
    <2> QED
      BY <2>2, <2>3
  <1> QED
    BY <1>1, <1>2, <1>3, <1>4 DEF StatusInv

LEMMA BeginRunStatus == ASSUME Constants, Types, StatusInv, BeginRun PROVE StatusInv'
  <1>1. PICK p : p = worker.preview
    OBVIOUS
  <1>2. /\ worker.pc = "begin" /\ worker'.pc \in {"comment", "mark"} /\ worker'.preview = p /\ UNCHANGED <<services, req>>
        /\ \/ previews' = previews
           \/ \E s \in {previews[p].status, "error"} : \E r : Restated(previews, previews', p, s, r)
    BY <1>1, BeginRunDoes DEF Stepped
  <1> QED
    BY <1>1, <1>2, StatusOn

LEMMA AnnounceStatus == ASSUME Constants, Types, StatusInv, Announce PROVE StatusInv'
  <1>1. /\ worker.pc = "comment" /\ worker'.pc \in {"checkout", "catch"} /\ worker'.preview = worker.preview
        /\ UNCHANGED <<services, req, previews>>
    BY StepIs DEF Announce, Running, Pcs, Stepped, world
  <1> QED
    BY <1>1, StatusOn

LEMMA CheckoutStatus == ASSUME Constants, Types, StatusInv, Checkout PROVE StatusInv'
  BY CheckoutDoes, StatusOn DEF Stepped

LEMMA BuildStatus == ASSUME Constants, Types, StatusInv, Build PROVE StatusInv'
  <1>1. /\ worker.pc = "build" /\ worker'.preview = worker.preview /\ UNCHANGED <<services, req, previews>>
        /\ worker'.pc \in {"deploy", "catch"} /\ (worker'.pc = "deploy" => worker'.built = source[worker.preview] /\ source[worker.preview] # 0)
        /\ worker.preview \in Ids
    BY BuildDoes DEF world, Stepped
  <1>2. worker'.pc = "deploy" => worker'.built > 0
    BY <1>1, Before DEF Constants
  <1> QED
    BY <1>1, <1>2, StatusOn

LEMMA DeployStatus == ASSUME Constants, Types, StatusInv, Deploy PROVE StatusInv'
  <1>1. /\ worker.pc = "deploy" /\ worker'.pc \in {"ensure", "catch"} /\ worker'.preview = worker.preview
        /\ UNCHANGED <<req, previews>> /\ services' = [services EXCEPT ![worker.preview] = worker.built]
    BY StepIs DEF Deploy, Running, Pcs, Stepped
  <1>2. worker.built > 0 /\ worker.preview \in Ids
    BY <1>1, Before DEF StatusInv, Workers
  <1>3. services'[worker.preview] > 0 /\ \A q \in Ids : q # worker.preview => services'[q] = services[q]
    BY <1>1, <1>2, Before
  <1> QED
    BY <1>1, <1>3, StatusOn

LEMMA FinishingHas ==
    ASSUME Types, StatusInv, worker.pc \in {"ensure", "route", "finish"}, NEW p, p = worker.preview, Present(p)
    PROVE  services[p] > 0 \/ Leaving(p)
  BY Before DEF StatusInv, Finishing, Rows, Workers

\* A run whose preview is gone has nothing to show.
LEMMA Unpresent ==
    ASSUME Types, NEW p, p = worker.preview, ~ Present(p), NEW s, NEW r, Restated(previews, previews', p, s, r)
    PROVE  \A t, u : Restated(previews, previews', p, t, u)
  BY DEF Restated, Present

LEMMA AssignDomainStatus == ASSUME Constants, Types, StatusInv, AssignDomain PROVE StatusInv'
  <1>1. /\ worker.pc = "ensure" /\ worker'.pc \in {"route", "finish"} /\ worker'.preview = worker.preview
        /\ UNCHANGED <<services, req, previews>>
    BY StepIs DEF AssignDomain, Running, Pcs, Stepped
  <1>2. Rows' = Rows /\ \A q : (Leaving(q)' <=> Leaving(q)) /\ (Active(q)' <=> Active(q)) /\ (Finishing(q)' => Finishing(q))
    BY <1>1, LeavingStays DEF Rows, Present, Active, Finishing
  <1> QED
    BY <1>1, <1>2 DEF StatusInv

LEMMA AssignRouteStatus == ASSUME Constants, Types, StatusInv, AssignRoute PROVE StatusInv'
  <1>1. /\ worker.pc = "route" /\ worker'.pc \in {"finish"} /\ worker'.preview = worker.preview
        /\ UNCHANGED <<services, req, previews>>
    BY StepIs DEF AssignRoute, Running, Pcs, Stepped
  <1>2. Rows' = Rows /\ \A q : (Leaving(q)' <=> Leaving(q)) /\ (Active(q)' <=> Active(q)) /\ (Finishing(q)' => Finishing(q))
    BY <1>1, LeavingStays DEF Rows, Present, Active, Finishing
  <1> QED
    BY <1>1, <1>2 DEF StatusInv

LEMMA FinishStatus == ASSUME Constants, Types, StatusInv, Finish PROVE StatusInv'
  <1>1. PICK p : p = worker.preview
    OBVIOUS
  <1>2. worker.pc = "finish" /\ UNCHANGED <<services, req>>
    BY FinishDoes
  <1>3. CASE /\ worker' = NoRun
             /\ Restated(previews, previews', p, "done", IF previews[p].run = "none" THEN "none" ELSE "done")
    <2>1. CASE Present(p)
      BY <1>1, <1>2, <1>3, <2>1, FinishingHas, StatusOff
    <2>2. CASE ~ Present(p)
      <3>1. Restated(previews, previews', p, "error", "error")
        BY <1>1, <1>3, <2>2, Unpresent
      <3> QED
        BY <1>1, <1>2, <1>3, <3>1, StatusOff
    <2> QED
      BY <2>1, <2>2
  <1>4. CASE Stepped("catch") /\ previews' = previews
    BY <1>1, <1>2, <1>4, StatusOn DEF Stepped
  <1> QED
    BY <1>1, <1>3, <1>4, FinishDoes

LEMMA CatchStatus == ASSUME Constants, Types, StatusInv, Catch PROVE StatusInv'
  <1>1. PICK p : p = worker.preview
    OBVIOUS
  <1>2. /\ worker.pc = "catch" /\ worker'.pc = "mark" /\ worker'.preview = p /\ UNCHANGED <<services, req>>
        /\ \/ previews' = previews
           \/ \E s \in {previews[p].status, "error"} : \E r : Restated(previews, previews', p, s, r)
    BY <1>1, CatchDoes DEF Stepped
  <1> QED
    BY <1>1, <1>2, StatusOn

LEMMA MarkErroredStatus == ASSUME Constants, Types, StatusInv, MarkErrored PROVE StatusInv'
  <1>1. PICK p, r : p = worker.preview /\ r = previews[p].run
    OBVIOUS
  <1>2. worker.pc = "mark" /\ worker' = NoRun /\ UNCHANGED <<services, req>> /\ Restated(previews, previews', p, "error", r)
    BY <1>1, MarkErroredDoes
  <1> QED
    BY <1>1, <1>2, StatusOff

LEMMA StepStatus ==
    ASSUME Constants, "row" \notin Failing, Types, StatusInv, [Next]_preview
    PROVE  StatusInv'
  <1>1. CASE TakeJob
    BY <1>1, TakeJobStatus
  <1>2. CASE BeginRun
    BY <1>2, BeginRunStatus
  <1>3. CASE Announce
    BY <1>3, AnnounceStatus
  <1>4. CASE Checkout
    BY <1>4, CheckoutStatus
  <1>5. CASE Build
    BY <1>5, BuildStatus
  <1>6. CASE Deploy
    BY <1>6, DeployStatus
  <1>7. CASE AssignDomain
    BY <1>7, AssignDomainStatus
  <1>8. CASE AssignRoute
    BY <1>8, AssignRouteStatus
  <1>9. CASE Finish
    BY <1>9, FinishStatus
  <1>10. CASE Catch
    BY <1>10, CatchStatus
  <1>11. CASE MarkErrored
    BY <1>11, MarkErroredStatus
  <1>12. CASE \E c \in Handlers : Event(c)
    BY <1>12, EventStatus
  <1>13. CASE \E c \in Users : Call(c)
    BY <1>13, CallStatus
  <1>14. CASE \E c \in Clients : Webhook(c) \/ RemovalStep(c) \/ Procedure(c)
    BY <1>14, ClientStatus DEF Acts
  <1>15. CASE UNCHANGED preview
    BY <1>15 DEF preview, StatusInv, Rows, Present, Active, Finishing, Leaving, PlaceOf
  <1> QED
    BY <1>1, <1>2, <1>3, <1>4, <1>5, <1>6, <1>7, <1>8, <1>9, <1>10, <1>11, <1>12, <1>13, <1>14, <1>15 DEF Next, RunStep

\* A preview shown as running is being run, a run that was left running shows as a
\* failed preview, and one shown as done has its service (deployPreviewApplication,
\* markDeploymentJobErrored), when the removal of rows does not fail.
THEOREM StatusTells == ASSUME Constants, "row" \notin Failing PROVE Spec => []StatusTellsTheRun
  <1>1. Init => Types /\ StatusInv
    <2>1. Init => Types
      BY InitTypes
    <2>2. Init => StatusInv
      BY DEF Init, StatusInv, Rows, Present, NoRun
    <2> QED
      BY <2>1, <2>2
  <1>2. Types /\ StatusInv /\ [Next]_preview => Types' /\ StatusInv'
    BY StepTypes, StepStatus
  <1>3. Types /\ StatusInv => StatusTellsTheRun
    <2>1. ASSUME NEW p, \A c \in Clients : req[c].todo = <<>> PROVE ~ Leaving(p)
      BY <2>1 DEF Leaving, PlaceOf, Place
    <2> QED
      BY <2>1 DEF StatusInv, StatusTellsTheRun
  <1> QED
    BY <1>1, <1>2, <1>3, PTL DEF Spec

-----------------------------------------------------------------------------
(* A pull request has no more previews than webhooks are handled at a time,  *)
(* and the application no more than that above its limit.                    *)

\* What holds where a webhook looks for the preview and makes it.
Arrived(c, next) ==
    /\ Place(next.todo) = "lookup" => previews' = previews /\ PlaceOf(c) = "apps" /\ ~ (Cardinality(Rows) > PreviewLimit)
    /\ Place(next.todo) = "comment" => previews' = previews /\ PlaceOf(c) = "lookup" /\ RowsOf(req[c].pr) = {}
    /\ Place(next.todo) = "insert" => previews' = previews /\ PlaceOf(c) = "comment"

LEMMA Arrivals ==
    ASSUME Constants, Types, NEW c \in Clients, Acts(c)
    PROVE  \E next : Moves(c, next) /\ Arrived(c, next)
  <1>1. CASE FindApplications(c)
    <2>1. previews' = previews
      BY <1>1, Zenon DEF FindApplications, world
    <2> QED
      BY <1>1, <2>1, FindApplicationsMoves, RestFits DEF Arrived, Same
  <1>2. CASE Lookup(c)
    <2>1. previews' = previews
      BY <1>2, Zenon DEF Lookup, world
    <2> QED
      BY <1>2, <2>1, LookupMoves, RestFits DEF Arrived, Same
  <1>3. CASE Comment(c)
    <2>1. previews' = previews
      BY <1>3, Zenon DEF Comment, world
    <2> QED
      BY <1>3, <2>1, CommentMoves, RestFits DEF Arrived, Same
  <1>4. CASE InsertPreview(c)
    BY <1>4, InsertPreviewMoves, RestFits DEF Arrived, Same
  <1>5. CASE EnsureDomain(c)
    BY <1>5, EnsureDomainMoves, RestFits DEF Arrived, Same
  <1>6. CASE WriteRoute(c)
    BY <1>6, WriteRouteMoves, RestFits DEF Arrived, Same
  <1>7. CASE Enqueue(c)
    BY <1>7, EnqueueMoves, RestFits DEF Arrived, Same
  <1>8. CASE Dequeue(c)
    BY <1>8, DequeueMoves, RestFits DEF Arrived, Same
  <1>9. CASE FindPreview(c)
    BY <1>9, FindPreviewMoves, RestFits DEF Arrived, Same
  <1>10. CASE ListPreviews(c)
    BY <1>10, ListPreviewsMoves, RestFits DEF Arrived, Same
  <1>11. CASE NextRemoval(c)
    BY <1>11, NextRemovalMoves, RestFits DEF Arrived, Same
  <1>12. CASE RemoveRecord(c)
    BY <1>12, RemoveRecordMoves, RestFits DEF Arrived, Same
  <1>13. CASE RemoveService(c)
    BY <1>13, RemoveServiceMoves, RestFits DEF Arrived, Same
  <1>14. CASE RemoveDeployments(c)
    BY <1>14, RemoveDeploymentsMoves, RestFits DEF Arrived, Same
  <1>22. CASE RemoveCode(c)
    BY <1>22, RemoveCodeMoves, RestFits DEF Arrived, Same
  <1>15. CASE RemoveRoute(c)
    BY <1>15, RemoveRouteMoves, RestFits DEF Arrived, Same
  <1>16. CASE DropRow(c)
    BY <1>16, DropRowMoves, RestFits DEF Arrived, Same
  <1>17. CASE DropDomain(c)
    BY <1>17, DropDomainMoves, RestFits DEF Arrived, Same
  <1>18. CASE CheckNotRunning(c)
    BY <1>18, CheckNotRunningMoves, RestFits DEF Arrived, Same
  <1>19. CASE CheckNotActive(c)
    BY <1>19, CheckNotActiveMoves, RestFits DEF Arrived, Same
  <1>20. CASE DropDomains(c)
    BY <1>20, DropDomainsMoves, RestFits DEF Arrived, Same
  <1>21. CASE DropApplication(c)
    BY <1>21, DropApplicationMoves, RestFits DEF Arrived, Same
  <1> QED
    BY Zenon, <1>1, <1>2, <1>3, <1>4, <1>5, <1>6, <1>7, <1>8, <1>9, <1>10, <1>11, <1>12, <1>13, <1>14, <1>15, <1>16, <1>17, <1>18, <1>19, <1>20, <1>21, <1>22 DEF Acts, Webhook, RemovalStep, Procedure

\* The worker makes and removes no row.
LEMMA RunKeeps ==
    ASSUME Constants, Types, RunStep
    PROVE  /\ Rows' = Rows /\ \A p \in Ids : previews'[p].pr = previews[p].pr
           /\ UNCHANGED <<application, pulls, req, inserted, calls>>
  <1>1. \A p, s, r : Restated(previews, previews', p, s, r) => Rows' = Rows /\ \A q \in Ids : previews'[q].pr = previews[q].pr
    BY SameRows DEF Restated
  <1>2. previews' = previews => Rows' = Rows /\ \A q \in Ids : previews'[q].pr = previews[q].pr
    BY DEF Rows, Present
  <1>3. CASE TakeJob
    BY <1>1, <1>3, TakeJobDoes DEF rest
  <1>4. CASE BeginRun
    BY <1>1, <1>2, <1>4, BeginRunDoes DEF rest
  <1>5. CASE Announce
    <2>1. UNCHANGED <<world, req, inserted, calls>>
      BY <1>5, Zenon DEF Announce
    <2> QED
      BY <1>2, <2>1 DEF world, rest
  <1>6. CASE Checkout
    <2>1. UNCHANGED <<application, pulls, previews, req, inserted, calls>>
      BY <1>6, Zenon DEF Checkout, rest
    <2> QED
      BY <1>2, <2>1
  <1>7. CASE Build
    <2>1. UNCHANGED <<world, req, rest>>
      BY <1>7, Zenon DEF Build
    <2> QED
      BY <1>2, <2>1 DEF world, rest
  <1>8. CASE Deploy
    <2>1. UNCHANGED <<application, pulls, previews, req, inserted, calls>>
      BY <1>8, Zenon DEF Deploy, rest
    <2> QED
      BY <1>2, <2>1
  <1>9. CASE AssignDomain
    <2>1. UNCHANGED <<application, pulls, previews, req, inserted, calls>>
      BY <1>9, Zenon DEF AssignDomain, rest
    <2> QED
      BY <1>2, <2>1
  <1>10. CASE AssignRoute
    <2>1. UNCHANGED <<application, pulls, previews, req, inserted, calls>>
      BY <1>10, Zenon DEF AssignRoute, rest
    <2> QED
      BY <1>2, <2>1
  <1>11. CASE Finish
    BY <1>1, <1>2, <1>11, FinishDoes DEF rest
  <1>12. CASE Catch
    BY <1>1, <1>2, <1>12, CatchDoes DEF rest
  <1>13. CASE MarkErrored
    BY <1>1, <1>2, <1>13, MarkErroredDoes DEF rest
  <1> QED
    BY <1>3, <1>4, <1>5, <1>6, <1>7, <1>8, <1>9, <1>10, <1>11, <1>12, <1>13 DEF RunStep

LEMMA RowsFinite == ASSUME Constants PROVE IsFiniteSet(Rows) /\ Cardinality(Rows) \in Nat
  <1>1. IsFiniteSet(Ids)
    BY FS_Interval DEF Ids, Constants
  <1>2. Rows \in SUBSET Ids
    BY DEF Rows
  <1> QED
    BY <1>1, <1>2, FS_Subset, FS_CardinalityType

LEMMA WebhookOps ==
    ASSUME Constants, Types, NEW c \in Clients
    PROVE  /\ PlaceOf(c) \in {"apps", "lookup", "comment", "insert", "ensure", "route"} => req[c].op \in Deploys
           /\ Deploys \subseteq Events /\ Events = Deploys \cup {"closed"}
  <1>1. Deploys \subseteq Events /\ Events = Deploys \cup {"closed"}
    BY DEF Deploys, Events
  <1>2. ASSUME PlaceOf(c) \in {"apps", "lookup", "comment", "insert", "ensure", "route"}
       PROVE  req[c].op \in Deploys
    <2>1. req[c].todo # <<>> /\ PlaceOf(c) = Head(req[c].todo)
      BY <1>2 DEF PlaceOf, Place
    <2>2. req[c].op \in Ops /\ req[c].todo \in Todos(req[c].op)
      BY <2>1, Acting
    <2>3. Follows(req[c].op, Head(req[c].todo), Place(Tail(req[c].todo)))
      BY <2>2, Tails
    <2> QED
      BY <1>2, <2>1, <2>3 DEF Follows
  <1> QED
    BY <1>1, <1>2

\* Two finite sets that shrink, and two of which one grows as the other shrinks.
LEMMA Shrunk ==
    ASSUME NEW A, NEW B, IsFiniteSet(A), IsFiniteSet(B), NEW n \in Nat, Cardinality(A) + Cardinality(B) <= n,
           NEW AA \in SUBSET A, NEW BB \in SUBSET B
    PROVE  Cardinality(AA) + Cardinality(BB) <= n
  <1>1. /\ Cardinality(A) \in Nat /\ Cardinality(B) \in Nat
        /\ IsFiniteSet(AA) /\ Cardinality(AA) <= Cardinality(A)
        /\ IsFiniteSet(BB) /\ Cardinality(BB) <= Cardinality(B)
    BY FS_Subset, FS_CardinalityType
  <1>2. Cardinality(AA) \in Nat /\ Cardinality(BB) \in Nat
    BY <1>1, FS_CardinalityType
  <1> QED
    BY <1>1, <1>2

LEMMA Traded ==
    ASSUME NEW A, NEW B, IsFiniteSet(A), IsFiniteSet(B), NEW n \in Nat, Cardinality(A) + Cardinality(B) <= n,
           NEW x, NEW y \in B
    PROVE  Cardinality(A \cup {x}) + Cardinality(B \ {y}) <= n
  <1>1. /\ Cardinality(A) \in Nat /\ Cardinality(B) \in Nat
        /\ IsFiniteSet(A \cup {x}) /\ Cardinality(A \cup {x}) \in {Cardinality(A), Cardinality(A) + 1}
        /\ IsFiniteSet(B \ {y}) /\ Cardinality(B \ {y}) = Cardinality(B) - 1
    BY FS_AddElement, FS_RemoveElement, FS_CardinalityType
  <1> QED
    BY <1>1

\* The webhooks that will make a preview, by the places they have come to.
LEMMA CreatorsAre ==
    /\ \A pr : Creating(pr) = {c \in Clients : PlaceOf(c) \in {"comment", "insert"} /\ req[c].pr = pr}
    /\ Admitted = {c \in Clients : PlaceOf(c) \in {"lookup", "comment", "insert"}}
  <1>1. \A c : \A step \in {"lookup", "comment", "insert"} : At(c, step) <=> PlaceOf(c) = step
    BY DEF At, PlaceOf, Place
  <1> QED
    BY <1>1 DEF Creating, Admitted

LEMMA CreatorsFinite ==
    ASSUME Constants, Types, IsFiniteSet(Handlers)
    PROVE  /\ Admitted \subseteq Handlers /\ \A pr : Creating(pr) \subseteq Admitted
           /\ IsFiniteSet(Admitted) /\ \A pr : IsFiniteSet(Creating(pr)) /\ IsFiniteSet(RowsOf(pr))
  <1>1. Admitted \subseteq Handlers
    <2>1. ASSUME NEW c \in Admitted PROVE c \in Handlers
      <3>1. c \in Clients /\ PlaceOf(c) \in {"lookup", "comment", "insert"}
        BY <2>1, CreatorsAre
      <3>2. req[c].op \in Events
        BY <3>1, WebhookOps
      <3> QED
        BY <3>1, <3>2 DEF Types, Procedures
    <2> QED
      BY <2>1
  <1>2. \A pr : Creating(pr) \subseteq Admitted
    BY CreatorsAre
  <1>3. \A pr : RowsOf(pr) \subseteq Rows
    BY DEF RowsOf
  <1> QED
    BY <1>1, <1>2, <1>3, RowsFinite, FS_Subset

\* Nobody comes to have a preview made, and no row is new.
LEMMA StillBounded ==
    ASSUME Constants, Types, IsFiniteSet(Handlers), PreviewsAreBounded,
           Rows' \subseteq Rows, \A pr \in PullRequests : RowsOf(pr)' \subseteq RowsOf(pr),
           Admitted' \subseteq Admitted, \A pr \in PullRequests : Creating(pr)' \subseteq Creating(pr)
    PROVE  PreviewsAreBounded'
  <1>1. Cardinality(Handlers) \in Nat /\ PreviewLimit \in Nat
    BY FS_CardinalityType DEF Constants
  <1>2. PreviewLimit + Cardinality(Handlers) \in Nat
    BY <1>1
  <1>3. Cardinality(Rows') + Cardinality(Admitted') <= PreviewLimit + Cardinality(Handlers)
    BY <1>2, CreatorsFinite, RowsFinite, Shrunk DEF PreviewsAreBounded
  <1>4. ASSUME NEW pr \in PullRequests
       PROVE  Cardinality(RowsOf(pr)') + Cardinality(Creating(pr)') <= Cardinality(Handlers)
    BY <1>1, CreatorsFinite, Shrunk DEF PreviewsAreBounded
  <1> QED
    BY <1>3, <1>4 DEF PreviewsAreBounded

LEMMA ClientBounded ==
    ASSUME Constants, Types, IsFiniteSet(Handlers), PreviewsAreBounded, NEW c \in Clients, Acts(c)
    PROVE  PreviewsAreBounded'
  <1>1. PICK next : Moves(c, next) /\ Arrived(c, next)
    BY Arrivals
  <1>2. \A p \in Rows' : KeptRow(p) \/ NewRow(c, p)
    BY ClientRows
  <1>3. /\ req'[c] = next /\ PlaceOf(c)' = Place(next.todo)
        /\ \A d \in Clients : d # c => req'[d] = req[d] /\ PlaceOf(d)' = PlaceOf(d)
    BY <1>1, MovedReq
  <1>4. /\ \A pr : Creating(pr)' = {d \in Clients : PlaceOf(d)' \in {"comment", "insert"} /\ req'[d].pr = pr}
        /\ Admitted' = {d \in Clients : PlaceOf(d)' \in {"lookup", "comment", "insert"}}
    <2>1. \A d : \A step \in {"lookup", "comment", "insert"} : At(d, step)' <=> PlaceOf(d)' = step
      BY DEF At, PlaceOf, Place
    <2> QED
      BY <2>1 DEF Creating, Admitted
  <1>5. Place(next.todo) \in {"lookup", "comment", "insert"} => next.pr = req[c].pr
    BY <1>1, RestFits DEF Moves
  <1>6. Cardinality(Handlers) \in Nat /\ PreviewLimit \in Nat /\ Cardinality(Rows) \in Nat
    BY FS_CardinalityType, RowsFinite DEF Constants
  <1>7. CASE \A p \in Rows' : KeptRow(p)
    <2>1. Rows' \subseteq Rows /\ \A pr : RowsOf(pr)' \subseteq RowsOf(pr)
      BY <1>7 DEF KeptRow, RowsOf
    <2>2. CASE Place(next.todo) \notin {"lookup", "comment"}
      <3>1. PlaceOf(c)' = "insert" => PlaceOf(c) = "comment"
        BY <1>1, <1>3 DEF Arrived
      <3>2. Admitted' \subseteq Admitted /\ \A pr : Creating(pr)' \subseteq Creating(pr)
        BY <1>3, <1>4, <1>5, <2>2, <3>1, CreatorsAre
      <3> QED
        BY <2>1, <3>2, StillBounded
    <2>3. CASE Place(next.todo) = "lookup"
      <3>1. PlaceOf(c) = "apps" /\ Rows' = Rows /\ Cardinality(Rows) <= PreviewLimit
        BY <1>1, <1>6, <2>3 DEF Arrived, Rows, Present
      <3>2. c \in Handlers
        BY <3>1, WebhookOps DEF Types, Procedures
      <3>3. Admitted' \subseteq Handlers /\ \A pr : Creating(pr)' \subseteq Creating(pr)
        BY <1>3, <1>4, <2>3, <3>2, CreatorsAre, CreatorsFinite
      <3>4. Cardinality(Rows') + Cardinality(Admitted') <= PreviewLimit + Cardinality(Handlers)
        <4>1. IsFiniteSet(Admitted') /\ Cardinality(Admitted') <= Cardinality(Handlers)
          BY <3>3, FS_Subset
        <4>2. Cardinality(Admitted') \in Nat
          BY <4>1, FS_CardinalityType
        <4> QED
          BY <1>6, <3>1, <4>1, <4>2
      <3>5. ASSUME NEW pr \in PullRequests
           PROVE  Cardinality(RowsOf(pr)') + Cardinality(Creating(pr)') <= Cardinality(Handlers)
        BY <1>6, <2>1, <3>3, CreatorsFinite, Shrunk DEF PreviewsAreBounded
      <3> QED
        BY <3>4, <3>5 DEF PreviewsAreBounded
    <2>4. CASE Place(next.todo) = "comment"
      <3>1. PlaceOf(c) = "lookup" /\ previews' = previews /\ RowsOf(req[c].pr) = {} /\ next.pr = req[c].pr
        BY <1>1, <1>5, <2>4 DEF Arrived
      <3>2. /\ Admitted' \subseteq Admitted
            /\ \A pr : pr # req[c].pr => Creating(pr)' \subseteq Creating(pr)
            /\ \A pr : Creating(pr)' \subseteq Handlers
        BY <1>3, <1>4, <2>4, <3>1, CreatorsAre, CreatorsFinite
      <3>3. Cardinality(Rows') + Cardinality(Admitted') <= PreviewLimit + Cardinality(Handlers)
        <4>1. PreviewLimit + Cardinality(Handlers) \in Nat
          BY <1>6
        <4> QED
          BY <2>1, <3>2, <4>1, CreatorsFinite, RowsFinite, Shrunk DEF PreviewsAreBounded
      <3>4. ASSUME NEW pr \in PullRequests
           PROVE  Cardinality(RowsOf(pr)') + Cardinality(Creating(pr)') <= Cardinality(Handlers)
        <4>1. CASE pr # req[c].pr
          BY <1>6, <2>1, <3>2, <4>1, CreatorsFinite, Shrunk DEF PreviewsAreBounded
        <4>2. CASE pr = req[c].pr
          <5>1. RowsOf(pr)' = {}
            BY <2>1, <3>1, <4>2
          <5>2. IsFiniteSet(Creating(pr)') /\ Cardinality(Creating(pr)') <= Cardinality(Handlers)
            BY <3>2, FS_Subset
          <5>3. Cardinality(Creating(pr)') \in Nat /\ Cardinality({}) = 0
            BY <5>2, FS_CardinalityType, FS_EmptySet
          <5> QED
            BY <1>6, <5>1, <5>2, <5>3
        <4> QED
          BY <4>1, <4>2
      <3> QED
        BY <3>3, <3>4 DEF PreviewsAreBounded
    <2> QED
      BY <2>2, <2>3, <2>4
  <1>8. ASSUME NEW p \in Rows', NewRow(c, p) PROVE PreviewsAreBounded'
    <2>1. PlaceOf(c) = "insert" /\ application
      BY <1>8, InsertPreviewMoves DEF NewRow
    <2>2. PICK mine, new : mine = req[c].pr /\ new = inserted + 1
      OBVIOUS
    <2>8. /\ new \in Ids /\ new \notin Rows /\ Rows' = Rows \cup {new}
          /\ \A q \in Ids : q # new => previews'[q] = previews[q]
          /\ previews'[new] = [pr |-> req[c].pr, status |-> "idle", run |-> "none"]
      <3>1. InsertPreview(c) /\ application
        BY <1>8 DEF NewRow
      <3> QED
        BY <2>2, <3>1, InsertPreviewDoes
    <2>9. previews'[new].pr = mine
      BY <2>2, <2>8
    <2>3. PlaceOf(c)' = "ensure"
      <3>1. PICK made : Moves(c, made) /\ Place(made.todo) = "ensure"
        BY <1>8, <2>1, InsertPreviewMoves DEF NewRow
      <3> QED
        BY <3>1, MovedReq
    <2>4. /\ Admitted' = Admitted \ {c} /\ c \in Admitted
          /\ \A pr : Creating(pr)' = Creating(pr) \ {c}
          /\ \A pr : pr = mine => c \in Creating(pr)
      BY <1>3, <1>4, <2>1, <2>2, <2>3, CreatorsAre
    <2>5. \A pr : RowsOf(pr)' = IF pr = mine THEN RowsOf(pr) \cup {new} ELSE RowsOf(pr)
      <3>1. \A q \in Rows : q \in Ids /\ q # new
        BY <2>8 DEF Rows
      <3>2. \A q \in Rows : previews'[q] = previews[q]
        BY <2>8, <3>1
      <3> QED
        BY <2>8, <2>9, <3>2 DEF RowsOf
    <2>6. Cardinality(Rows') + Cardinality(Admitted') <= PreviewLimit + Cardinality(Handlers)
      <3>1. PreviewLimit + Cardinality(Handlers) \in Nat
        BY <1>6
      <3> QED
        BY <2>4, <2>8, <3>1, CreatorsFinite, RowsFinite, Traded DEF PreviewsAreBounded
    <2>7. ASSUME NEW pr \in PullRequests
         PROVE  Cardinality(RowsOf(pr)') + Cardinality(Creating(pr)') <= Cardinality(Handlers)
      <3>1. CASE pr = mine
        <4>1. IsFiniteSet(RowsOf(pr)) /\ IsFiniteSet(Creating(pr))
          BY CreatorsFinite
        <4>2. Cardinality(RowsOf(pr)) + Cardinality(Creating(pr)) <= Cardinality(Handlers)
          BY DEF PreviewsAreBounded
        <4>3. c \in Creating(pr) /\ RowsOf(pr)' = RowsOf(pr) \cup {new} /\ Creating(pr)' = Creating(pr) \ {c}
          BY <2>4, <2>5, <3>1
        <4> QED
          BY <1>6, <4>1, <4>2, <4>3, Traded
      <3>2. CASE pr # mine
        BY <1>6, <2>4, <2>5, <3>2, CreatorsFinite, Shrunk DEF PreviewsAreBounded
      <3> QED
        BY <3>1, <3>2
    <2> QED
      BY <2>6, <2>7 DEF PreviewsAreBounded
  <1> QED
    BY <1>2, <1>7, <1>8

\* Whoever begins was at rest.
LEMMA BegunBounded ==
    ASSUME Constants, Types, IsFiniteSet(Handlers), PreviewsAreBounded, NEW c \in Clients, NEW r,
           req' = [req EXCEPT ![c] = r], req[c].todo = <<>>,
           previews' = previews, Place(r.todo) \in {"apps", "list", "find", "dequeue"}
    PROVE  PreviewsAreBounded'
  <1>1. Rows' = Rows /\ \A pr : RowsOf(pr)' = RowsOf(pr)
    BY DEF RowsOf, Rows, Present
  <1>2. /\ \A d \in Clients : d # c => req'[d] = req[d] /\ PlaceOf(d)' = PlaceOf(d)
        /\ PlaceOf(c)' = Place(r.todo)
    BY BegunLeaving DEF Types, Procedures
  <1>3. \A d : \A step \in {"lookup", "comment", "insert"} : At(d, step)' <=> PlaceOf(d)' = step
    BY DEF At, PlaceOf, Place
  <1>4. Admitted' \subseteq Admitted /\ \A pr : Creating(pr)' \subseteq Creating(pr)
    BY <1>2, <1>3, CreatorsAre DEF Creating, Admitted
  <1> QED
    BY <1>1, <1>4, StillBounded

LEMMA StepBounded ==
    ASSUME Constants, Types, IsFiniteSet(Handlers), PreviewsAreBounded, [Next]_preview
    PROVE  PreviewsAreBounded'
  <1>1. ASSUME NEW c \in Handlers, Event(c) PROVE PreviewsAreBounded'
    <2>1. c \in Clients
      BY DEF Clients
    <2>2. PICK op \in Events, r \in Calls :
             /\ req[c].todo = <<>> /\ req' = [req EXCEPT ![c] = r] /\ previews' = previews
             /\ Place(r.todo) = IF op = "closed" THEN "list" ELSE "apps"
      BY <1>1, <2>1, EventDoes
    <2> QED
      BY <2>1, <2>2, BegunBounded
  <1>2. ASSUME NEW c \in Users, Call(c) PROVE PreviewsAreBounded'
    <2>1. c \in Clients
      BY DEF Clients
    <2>2. PICK r \in Calls :
             /\ req[c].todo = <<>> /\ req' = [req EXCEPT ![c] = r] /\ UNCHANGED world
             /\ Place(r.todo) \in {"find", "dequeue"}
      BY <1>2, <2>1, CallDoes
    <2> QED
      BY <2>1, <2>2, BegunBounded DEF world
  <1>3. CASE RunStep
    <2>1. /\ Rows' = Rows /\ \A p \in Ids : previews'[p].pr = previews[p].pr
          /\ UNCHANGED req
      BY <1>3, RunKeeps
    <2>2. \A pr : RowsOf(pr)' = RowsOf(pr)
      BY <2>1 DEF RowsOf, Rows
    <2>3. Admitted' = Admitted /\ \A pr : Creating(pr)' = Creating(pr)
      BY <2>1 DEF Admitted, Creating, At
    <2> QED
      BY <2>1, <2>2, <2>3, StillBounded
  <1>4. CASE \E c \in Clients : Webhook(c) \/ RemovalStep(c) \/ Procedure(c)
    BY <1>4, ClientBounded DEF Acts
  <1>5. CASE UNCHANGED preview
    <2>1. previews' = previews /\ req' = req
      BY <1>5, Zenon DEF preview
    <2> QED
      BY <2>1 DEF PreviewsAreBounded, Creating, Admitted, At, RowsOf, Rows, Present
  <1> QED
    BY <1>1, <1>2, <1>3, <1>4, <1>5 DEF Next

\* A pull request has at most one preview for each webhook that may be under way,
\* and the application that many more than its limit, for any number of both
\* (github.ts looks the preview up and inserts it, and nothing in between holds
\* others off).
THEOREM PreviewsBounded ==
    ASSUME Constants, IsFiniteSet(Handlers)
    PROVE  Spec => []PreviewsAreBounded
  <1>1. Init => Types /\ PreviewsAreBounded
    <2>1. ASSUME Init PROVE PreviewsAreBounded
      <3>1. Rows = {} /\ \A pr : RowsOf(pr) = {}
        BY <2>1 DEF Init, Rows, Present, RowsOf
      <3>2. Admitted = {} /\ \A pr : Creating(pr) = {}
        BY <2>1 DEF Init, Rest, At, Admitted, Creating
      <3>3. Cardinality({}) = 0 /\ Cardinality(Handlers) \in Nat /\ PreviewLimit \in Nat
        BY FS_EmptySet, FS_CardinalityType DEF Constants
      <3> QED
        <4>1. \A pr : Cardinality(RowsOf(pr)) = 0 /\ Cardinality(Creating(pr)) = 0
          BY <3>1, <3>2, <3>3
        <4>2. Cardinality(Rows) = 0 /\ Cardinality(Admitted) = 0
          BY <3>1, <3>2, <3>3
        <4> QED
          BY <3>3, <4>1, <4>2 DEF PreviewsAreBounded
    <2> QED
      BY <2>1, InitTypes
  <1>2. Types /\ PreviewsAreBounded /\ [Next]_preview => Types' /\ PreviewsAreBounded'
    BY StepTypes, StepBounded
  <1> QED
    BY <1>1, <1>2, PTL DEF Spec

-----------------------------------------------------------------------------
(* A removed preview leaves nothing.                                        *)

RemovalPlaces == {"dns", "service", "deployments", "code", "unroute", "dropRow"}

\* Where the removals, the makings and the worker have come to, and what they
\* have done so far; the last conjunct is what they come to.
GoneInv ==
    \A p \in Ids \ disturbed :
        /\ \A c \in Clients : PlaceOf(c) \in RemovalPlaces /\ req[c].preview = p =>
            /\ ~ Active(p)
            /\ \A d \in Clients : PlaceOf(d) \in {"ensure", "route"} => req[d].preview # p
            /\ PlaceOf(c) \notin {"dns", "service"} => services[p] = 0
            /\ PlaceOf(c) = "dropRow" => p \notin routes
        /\ worker.pc \notin {"idle", "begin", "mark"} /\ worker.preview = p => Present(p)
        /\ \A c \in Clients : PlaceOf(c) \in {"ensure", "route"} /\ req[c].preview = p => Present(p)
        /\ ~ Present(p) => services[p] = 0 /\ p \notin routes

LEMMA BeingAre ==
    ASSUME NEW p
    PROVE  /\ BeingRemoved(p) <=> \E c \in Clients : PlaceOf(c) \in RemovalPlaces /\ req[c].preview = p
           /\ BeingMade(p) <=> \E c \in Clients : PlaceOf(c) \in {"ensure", "route"} /\ req[c].preview = p
  <1>1. \A c : \A step \in RemovalPlaces \cup {"ensure", "route"} : At(c, step) <=> PlaceOf(c) = step
    BY DEF At, PlaceOf, Place, RemovalPlaces
  <1>2. /\ Len(Removal) = 7 /\ Removal[1] = "dns" /\ Removal[2] = "service" /\ Removal[3] = "deployments"
        /\ Removal[4] = "code" /\ Removal[5] = "unroute" /\ Removal[6] = "dropRow"
    BY DEF Removal
  <1>3. 1..(Len(Removal) - 1) = {1, 2, 3, 4, 5, 6}
    BY <1>2
  <1>4. \A c : (\E i \in 1..(Len(Removal) - 1) : At(c, Removal[i])) <=> PlaceOf(c) \in RemovalPlaces
    BY <1>1, <1>2, <1>3 DEF RemovalPlaces
  <1> QED
    BY <1>1, <1>4 DEF BeingRemoved, BeingMade

\* What a handler's or procedure's step may change of what is left behind.
Changes(c) ==
    /\ disturbed \subseteq disturbed'
    /\ \A p \in Ids : Present(p) => Present(p)' \/ p \in disturbed' \/ (PlaceOf(c) = "dropRow" /\ req[c].preview = p)
    /\ \A p \in Ids : services'[p] \in {services[p], 0}
    /\ \A p \in Ids : p \in routes' => p \in routes \/ (PlaceOf(c) = "route" /\ req[c].preview = p)

\* Where it may come to.
Reaches(c, next) ==
    /\ Place(next.todo) = "ensure" => next.preview = inserted + 1 /\ \A p \in Ids : p = inserted + 1 => Present(p)'
    /\ Place(next.todo) = "route" => PlaceOf(c) = "ensure" /\ next.preview = req[c].preview
    /\ Place(next.todo) = "dns" =>
        /\ PlaceOf(c) = "nextRemoval"
        /\ \A p \in Ids : p = next.preview /\ (Active(p) \/ BeingMade(p)) => p \in disturbed'
    /\ Place(next.todo) \in RemovalPlaces \ {"dns"} => PlaceOf(c) \in RemovalPlaces /\ next.preview = req[c].preview
    /\ Place(next.todo) \in {"deployments", "code", "unroute", "dropRow"} =>
        \/ PlaceOf(c) \notin {"dns", "service"}
        \/ \A p \in Ids : p = req[c].preview => services'[p] = 0 \/ p \in disturbed'
    /\ Place(next.todo) = "dropRow" => \A p \in Ids : p = req[c].preview => p \notin routes' \/ p \in disturbed'

LEMMA QuietChanges ==
    ASSUME UNCHANGED <<previews, services, routes, disturbed>>, NEW c PROVE Changes(c)
  BY DEF Changes, Present

LEMMA DroppedChanges ==
    ASSUME NEW gone, Dropped(previews, previews', gone), disturbed' = disturbed \cup (gone \cap Rows),
           UNCHANGED services, routes' \subseteq routes, NEW c
    PROVE  Changes(c)
  BY DEF Changes, Present, Dropped, Rows

LEMMA ClientChanges ==
    ASSUME Constants, Types, NEW c \in Clients, Acts(c)
    PROVE  Changes(c) /\ \E next : Moves(c, next) /\ Reaches(c, next)
  <1>1. CASE FindApplications(c)
    <2>1. UNCHANGED <<previews, services, routes, disturbed>>
      BY <1>1, Zenon DEF FindApplications, world
    <2> QED
      BY <1>1, <2>1, QuietChanges, FindApplicationsMoves, RestFits DEF Reaches, Same, RemovalPlaces
  <1>2. CASE Lookup(c)
    <2>1. UNCHANGED <<previews, services, routes, disturbed>>
      BY <1>2, Zenon DEF Lookup, world
    <2> QED
      BY <1>2, <2>1, QuietChanges, LookupMoves, RestFits DEF Reaches, Same, RemovalPlaces
  <1>3. CASE Comment(c)
    <2>1. UNCHANGED <<previews, services, routes, disturbed>>
      BY <1>3, Zenon DEF Comment, world, rest
    <2> QED
      BY <1>3, <2>1, QuietChanges, CommentMoves, RestFits DEF Reaches, Same, RemovalPlaces
  <1>4. CASE EnsureDomain(c)
    <2>1. UNCHANGED <<previews, services, routes, disturbed>>
      BY <1>4, Zenon DEF EnsureDomain, rest
    <2> QED
      BY <1>4, <2>1, QuietChanges, EnsureDomainMoves, RestFits DEF Reaches, Same, RemovalPlaces
  <1>5. CASE Enqueue(c)
    <2>1. UNCHANGED <<previews, services, routes, disturbed>>
      BY <1>5, Zenon DEF Enqueue, world
    <2> QED
      BY <1>5, <2>1, QuietChanges, EnqueueMoves, RestFits DEF Reaches, Same, RemovalPlaces
  <1>6. CASE Dequeue(c)
    <2>1. UNCHANGED <<previews, services, routes, disturbed>>
      BY <1>6, Zenon DEF Dequeue, world
    <2> QED
      BY <1>6, <2>1, QuietChanges, DequeueMoves, RestFits DEF Reaches, Same, RemovalPlaces
  <1>7. CASE FindPreview(c)
    <2>1. UNCHANGED <<previews, services, routes, disturbed>>
      BY <1>7, Zenon DEF FindPreview, world, rest
    <2> QED
      BY <1>7, <2>1, QuietChanges, FindPreviewMoves, RestFits DEF Reaches, Same, RemovalPlaces
  <1>8. CASE ListPreviews(c)
    <2>1. UNCHANGED <<previews, services, routes, disturbed>>
      BY <1>8, Zenon DEF ListPreviews, world, rest
    <2> QED
      BY <1>8, <2>1, QuietChanges, ListPreviewsMoves, RestFits DEF Reaches, Same, RemovalPlaces
  <1>9. CASE RemoveRecord(c)
    <2>1. UNCHANGED <<previews, services, routes, disturbed>>
      BY <1>9, Zenon DEF RemoveRecord, world, rest
    <2> QED
      BY <1>9, <2>1, QuietChanges, RemoveRecordMoves, RestFits DEF Reaches, Same, RemovalPlaces
  <1>10. CASE CheckNotRunning(c)
    <2>1. UNCHANGED <<previews, services, routes, disturbed>>
      BY <1>10, Zenon DEF CheckNotRunning, world, rest
    <2> QED
      BY <1>10, <2>1, QuietChanges, CheckNotRunningMoves, RestFits DEF Reaches, Same, RemovalPlaces
  <1>11. CASE CheckNotActive(c)
    <2>1. UNCHANGED <<previews, services, routes, disturbed>>
      BY <1>11, Zenon DEF CheckNotActive, world, rest
    <2> QED
      BY <1>11, <2>1, QuietChanges, CheckNotActiveMoves, RestFits DEF Reaches, Same, RemovalPlaces
  <1>12. CASE InsertPreview(c)
    <2>1. UNCHANGED <<services, routes, disturbed>>
      BY <1>12, Zenon DEF InsertPreview
    <2>2. CASE application
      <3>1. PICK new : new = inserted + 1
        OBVIOUS
      <3>2. /\ new \in Ids /\ Rows' = Rows \cup {new}
        BY <1>12, <2>2, <3>1, InsertPreviewDoes
      <3>3. \A p \in Ids : (Present(p) => Present(p)') /\ (p = new => Present(p)')
        BY <3>2 DEF Rows
      <3>4. Changes(c)
        BY <2>1, <3>3 DEF Changes
      <3>5. PICK next : Moves(c, next) /\ next.preview = new /\ Place(next.todo) = "ensure"
        BY <1>12, <2>2, <3>1, InsertPreviewMoves
      <3>6. Reaches(c, next)
        BY <3>1, <3>3, <3>5 DEF Reaches, RemovalPlaces
      <3> QED
        BY <3>4, <3>5, <3>6
    <2>3. CASE ~ application
      <3>1. previews' = previews
        BY <1>12, <2>3, Zenon DEF InsertPreview
      <3>2. Moves(c, Rest)
        BY <1>12, <2>3, InsertPreviewMoves
      <3> QED
        BY <2>1, <3>1, <3>2, QuietChanges, RestFits DEF Reaches, RemovalPlaces
    <2> QED
      BY <2>2, <2>3
  <1>13. CASE WriteRoute(c)
    <2>1. UNCHANGED <<previews, services, disturbed>> /\ routes' = routes \cup {req[c].preview}
      BY <1>13, Zenon DEF WriteRoute, rest
    <2>2. PlaceOf(c) = "route"
      BY <1>13, WriteRouteMoves
    <2>3. Changes(c)
      BY <2>1, <2>2 DEF Changes, Present
    <2> QED
      BY <1>13, <2>3, WriteRouteMoves, RestFits DEF Reaches, Same, RemovalPlaces
  <1>14. CASE NextRemoval(c)
    <2>1. UNCHANGED <<previews, services, routes>> /\ disturbed \subseteq disturbed'
      BY <1>14 DEF NextRemoval, world
    <2>2. Changes(c)
      BY <2>1 DEF Changes, Present
    <2>3. PICK next :
             /\ Moves(c, next)
             /\ \/ next = Rest
                \/ /\ Place(next.todo) = "dns"
                   /\ \A p \in Ids : p = next.preview /\ (Active(p) \/ BeingMade(p)) => p \in disturbed'
      BY <1>14, NextRemovalMoves
    <2>4. Reaches(c, next)
      BY <1>14, <2>3, NextRemovalMoves, RestFits DEF Reaches, RemovalPlaces
    <2> QED
      BY <2>2, <2>3, <2>4
  <1>15. CASE RemoveService(c)
    <2>1. UNCHANGED <<previews, routes>> /\ disturbed \subseteq disturbed'
      BY <1>15 DEF RemoveService
    <2>2. PICK p \in Ids : p = req[c].preview
      BY MineIsId
    <2>3. services \in [Ids -> 0..MaxCalls]
      BY Before
    <2>4. services' = [services EXCEPT ![p] = 0] \/ (services' = services /\ p \in disturbed')
      BY <1>15, <2>2 DEF RemoveService
    <2>5. (\A q \in Ids : services'[q] \in {services[q], 0}) /\ (services'[p] = 0 \/ p \in disturbed')
      BY <2>3, <2>4
    <2>6. Changes(c)
      BY <2>1, <2>5 DEF Changes, Present
    <2>7. PICK next : Moves(c, next) /\ Same(c, next, "deployments") /\ PlaceOf(c) = "service"
      BY <1>15, RemoveServiceMoves
    <2>8. Reaches(c, next)
      BY <2>2, <2>5, <2>7 DEF Reaches, Same, RemovalPlaces
    <2> QED
      BY <2>6, <2>7, <2>8
  <1>16. CASE RemoveDeployments(c)
    <2>1. UNCHANGED <<services, routes, disturbed>>
      BY <1>16, RemoveDeploymentsDoes
    <2>2. Rows' = Rows
      BY <1>16, RemoveDeploymentsDoes, SameRows DEF Rows, Present
    <2>3. Changes(c)
      BY <2>1, <2>2 DEF Changes, Rows
    <2> QED
      BY <1>16, <2>3, RemoveDeploymentsMoves DEF Reaches, Same, RemovalPlaces
  <1>17. CASE RemoveCode(c)
    <2>1. UNCHANGED <<previews, services, routes, disturbed>>
      BY <1>17, Zenon DEF RemoveCode, rest
    <2> QED
      BY <1>17, <2>1, QuietChanges, RemoveCodeMoves DEF Reaches, Same, RemovalPlaces
  <1>18. CASE RemoveRoute(c)
    <2>1. /\ UNCHANGED <<previews, services>> /\ disturbed \subseteq disturbed' /\ routes' \subseteq routes
          /\ req[c].preview \notin routes' \/ req[c].preview \in disturbed'
      BY <1>18 DEF RemoveRoute
    <2>2. Changes(c)
      BY <2>1 DEF Changes, Present
    <2>3. PICK next : Moves(c, next) /\ Same(c, next, "dropRow") /\ PlaceOf(c) = "unroute"
      BY <1>18, RemoveRouteMoves
    <2>4. Reaches(c, next)
      BY <2>1, <2>3 DEF Reaches, Same, RemovalPlaces
    <2> QED
      BY <2>2, <2>3, <2>4
  <1>19. CASE DropRow(c)
    <2>1. UNCHANGED <<services, routes>> /\ disturbed \subseteq disturbed'
      BY <1>19 DEF DropRow
    <2>2. PlaceOf(c) = "dropRow"
      BY <1>19, DropRowMoves
    <2>3. \A p \in Ids : Present(p) => Present(p)' \/ p = req[c].preview
      BY <1>19, DropRowDoes DEF Dropped, Present
    <2>4. Changes(c)
      BY <2>1, <2>2, <2>3 DEF Changes
    <2> QED
      BY <1>19, <2>4, DropRowMoves DEF Reaches, Same, RemovalPlaces
  <1>20. CASE DropDomain(c)
    <2>1. /\ UNCHANGED services /\ routes' \subseteq routes
          /\ \/ UNCHANGED <<previews, disturbed>>
             \/ /\ req[c].preview \in domains /\ disturbed' = disturbed \cup {req[c].preview}
                /\ previews' = [previews EXCEPT ![req[c].preview] = NoRow]
      BY <1>20 DEF DropDomain
    <2>2. \A p \in Ids : Present(p) => Present(p)' \/ p \in disturbed'
      BY <2>1, Before DEF Present, PreviewRows
    <2>3. Changes(c)
      BY <2>1, <2>2 DEF Changes
    <2> QED
      BY <1>20, <2>3, DropDomainMoves, RestFits DEF Reaches, Same, RemovalPlaces
  <1>21. CASE DropDomains(c)
    <2>1. /\ UNCHANGED services /\ routes' \subseteq routes /\ disturbed' = disturbed \cup (req[c].left \cap domains)
          /\ previews' = [p \in Ids |-> IF p \in req[c].left \cap domains THEN NoRow ELSE previews[p]]
      BY <1>21 DEF DropDomains
    <2>2. Changes(c)
      BY <2>1 DEF Changes, Present
    <2> QED
      BY <1>21, <2>2, DropDomainsMoves DEF Reaches, Same, RemovalPlaces
  <1>22. CASE DropApplication(c)
    <2>1. UNCHANGED <<services, routes>> /\ disturbed' = disturbed \cup Rows
      BY <1>22 DEF DropApplication
    <2>2. Changes(c)
      BY <2>1 DEF Changes, Rows
    <2> QED
      BY <1>22, <2>2, DropApplicationMoves, RestFits DEF Reaches, Same, RemovalPlaces
  <1> QED
    BY Zenon, <1>1, <1>2, <1>3, <1>4, <1>5, <1>6, <1>7, <1>8, <1>9, <1>10, <1>11, <1>12, <1>13, <1>14, <1>15, <1>16, <1>17, <1>18, <1>19, <1>20, <1>21, <1>22 DEF Acts, Webhook, RemovalStep, Procedure

LEMMA ClientGone ==
    ASSUME Constants, Types, GoneInv, NEW c \in Clients, Acts(c)
    PROVE  GoneInv'
  <1>1. PICK next : Changes(c) /\ Moves(c, next) /\ Reaches(c, next)
    BY ClientChanges
  <1>2. /\ req'[c] = next /\ PlaceOf(c)' = Place(next.todo)
        /\ \A d \in Clients : d # c => req'[d] = req[d] /\ PlaceOf(d)' = PlaceOf(d)
    BY <1>1, MovedReq
  <1>3. worker' = worker
    BY ClientApart
  <1>4. \A d \in Clients : PlaceOf(d) \in RemovalPlaces \cup {"ensure", "route"} => req[d].preview # inserted + 1
    <2>1. ASSUME NEW d \in Clients, PlaceOf(d) \in RemovalPlaces \cup {"ensure", "route"}, req[d].preview = inserted + 1 PROVE FALSE
      <3>1. req[d].preview <= inserted
        BY <2>1 DEF Types, Known, Given, PlaceOf, PreviewSteps, RemovalPlaces
      <3>2. inserted \in Nat
        BY Before DEF Constants
      <3> QED
        BY <2>1, <3>1, <3>2
    <2> QED
      BY <2>1
  <1>5. ASSUME NEW p \in Ids \ disturbed'
       PROVE  /\ \A d \in Clients : PlaceOf(d)' \in RemovalPlaces /\ req'[d].preview = p =>
                  /\ ~ Active(p)'
                  /\ \A e \in Clients : PlaceOf(e)' \in {"ensure", "route"} => req'[e].preview # p
                  /\ PlaceOf(d)' \notin {"dns", "service"} => services'[p] = 0
                  /\ PlaceOf(d)' = "dropRow" => p \notin routes'
              /\ worker.pc \notin {"idle", "begin", "mark"} /\ worker.preview = p => Present(p)'
              /\ \A d \in Clients : PlaceOf(d)' \in {"ensure", "route"} /\ req'[d].preview = p => Present(p)'
              /\ ~ Present(p)' => services'[p] = 0 /\ p \notin routes'
    <2>1. p \in Ids \ disturbed
      BY <1>1, <1>5 DEF Changes
    <2>2. /\ \A d \in Clients : PlaceOf(d) \in RemovalPlaces /\ req[d].preview = p =>
              /\ ~ Active(p)
              /\ \A e \in Clients : PlaceOf(e) \in {"ensure", "route"} => req[e].preview # p
              /\ PlaceOf(d) \notin {"dns", "service"} => services[p] = 0
              /\ PlaceOf(d) = "dropRow" => p \notin routes
          /\ worker.pc \notin {"idle", "begin", "mark"} /\ worker.preview = p => Present(p)
          /\ \A d \in Clients : PlaceOf(d) \in {"ensure", "route"} /\ req[d].preview = p => Present(p)
          /\ ~ Present(p) => services[p] = 0 /\ p \notin routes
      BY <2>1 DEF GoneInv
    <2>3. /\ Present(p) => Present(p)' \/ (PlaceOf(c) = "dropRow" /\ req[c].preview = p)
          /\ services'[p] \in {services[p], 0}
          /\ p \in routes' => p \in routes \/ (PlaceOf(c) = "route" /\ req[c].preview = p)
      BY <1>1, <1>5 DEF Changes
    <2>4. Active(p)' <=> Active(p)
      BY <1>3 DEF Active
    <2>5. PlaceOf(c)' \in RemovalPlaces /\ next.preview = p =>
              /\ ~ Active(p)
              /\ \A e \in Clients : PlaceOf(e) \in {"ensure", "route"} => req[e].preview # p
      <3>1. CASE Place(next.todo) = "dns"
        BY <1>1, <1>5, <3>1, BeingAre DEF Reaches
      <3>2. CASE Place(next.todo) \in RemovalPlaces \ {"dns"}
        BY <1>1, <2>2, <3>2 DEF Reaches
      <3> QED
        BY <1>2, <3>1, <3>2
    <2>6. PlaceOf(c)' \in {"ensure", "route"} /\ next.preview = p =>
              /\ \A d \in Clients : PlaceOf(d) \in RemovalPlaces => req[d].preview # p
              /\ Present(p)'
      <3>1. CASE Place(next.todo) = "ensure"
        BY <1>1, <1>4, <3>1 DEF Reaches
      <3>2. CASE Place(next.todo) = "route"
        BY <1>1, <2>2, <2>3, <3>2 DEF Reaches
      <3> QED
        BY <1>2, <3>1, <3>2
    <2>7. ASSUME NEW d \in Clients, PlaceOf(d)' \in RemovalPlaces, req'[d].preview = p
         PROVE  /\ ~ Active(p)'
                /\ \A e \in Clients : PlaceOf(e)' \in {"ensure", "route"} => req'[e].preview # p
                /\ PlaceOf(d)' \notin {"dns", "service"} => services'[p] = 0
                /\ PlaceOf(d)' = "dropRow" => p \notin routes'
      <3>1. CASE d # c
        <4>1. PlaceOf(d) \in RemovalPlaces /\ req[d].preview = p /\ PlaceOf(d)' = PlaceOf(d)
          BY <1>2, <2>7, <3>1
        <4>2. ~ Active(p)' /\ (PlaceOf(d)' \notin {"dns", "service"} => services'[p] = 0)
          BY <2>2, <2>3, <2>4, <4>1
        <4>3. PlaceOf(d)' = "dropRow" => p \notin routes'
          BY <2>2, <2>3, <4>1
        <4>4. ASSUME NEW e \in Clients, PlaceOf(e)' \in {"ensure", "route"} PROVE req'[e].preview # p
          <5>1. CASE e = c
            BY <1>2, <2>6, <4>1, <4>4, <5>1
          <5>2. CASE e # c
            BY <1>2, <2>2, <4>1, <4>4, <5>2
          <5> QED
            BY <5>1, <5>2
        <4> QED
          BY <4>2, <4>3, <4>4
      <3>2. CASE d = c
        <4>1. Place(next.todo) \in RemovalPlaces /\ next.preview = p
          BY <1>2, <2>7, <3>2
        <4>2. ~ Active(p)' /\ \A e \in Clients : PlaceOf(e)' \in {"ensure", "route"} => req'[e].preview # p
          <5>1. ~ Active(p)'
            BY <1>2, <2>4, <2>5, <4>1
          <5>2. ASSUME NEW e \in Clients, PlaceOf(e)' \in {"ensure", "route"} PROVE req'[e].preview # p
            <6>1. e # c
              BY <1>2, <4>1, <5>2 DEF RemovalPlaces
            <6> QED
              BY <1>2, <2>5, <4>1, <5>2, <6>1
          <5> QED
            BY <5>1, <5>2
        <4>3. Place(next.todo) \notin {"dns", "service"} => services'[p] = 0
          BY <1>1, <1>5, <2>2, <2>3, <4>1 DEF Reaches, RemovalPlaces
        <4>4. Place(next.todo) = "dropRow" => p \notin routes'
          BY <1>1, <1>5, <4>1 DEF Reaches, RemovalPlaces
        <4> QED
          BY <1>2, <3>2, <4>2, <4>3, <4>4
      <3> QED
        BY <3>1, <3>2
    <2>8. worker.pc \notin {"idle", "begin", "mark"} /\ worker.preview = p => Present(p)'
      BY <2>2, <2>3 DEF Active, RemovalPlaces
    <2>9. ASSUME NEW d \in Clients, PlaceOf(d)' \in {"ensure", "route"}, req'[d].preview = p PROVE Present(p)'
      <3>1. CASE d = c
        BY <1>2, <2>6, <2>9, <3>1
      <3>2. CASE d # c
        <4>1. PlaceOf(d) \in {"ensure", "route"} /\ req[d].preview = p
          BY <1>2, <2>9, <3>2
        <4> QED
          BY <2>2, <2>3, <4>1 DEF RemovalPlaces
      <3> QED
        BY <3>1, <3>2
    <2>10. ASSUME ~ Present(p)' PROVE services'[p] = 0 /\ p \notin routes'
      <3>1. CASE ~ Present(p)
        BY <2>2, <2>3, <3>1
      <3>2. CASE PlaceOf(c) = "dropRow" /\ req[c].preview = p
        BY <2>2, <2>3, <3>2 DEF RemovalPlaces
      <3> QED
        BY <2>3, <2>10, <3>1, <3>2
    <2> QED
      BY <2>7, <2>8, <2>9, <2>10
  <1> QED
    BY <1>3, <1>5 DEF GoneInv

\* What a step of the worker changes of it.
RunChanges ==
    /\ disturbed \subseteq disturbed'
    /\ \A p \in Ids : Active(p)' => Active(p) \/ (BeingRemoved(p) => p \in disturbed')
    /\ worker'.pc \notin {"idle", "begin", "mark"} =>
        /\ worker'.preview = worker.preview
        /\ worker.pc \notin {"idle", "begin", "mark"} \/ Present(worker.preview)
    /\ \A p \in Ids : services'[p] = services[p] \/ (worker.pc = "deploy" /\ worker.preview = p)
    /\ \A p \in Ids : p \in routes' => p \in routes \/ (worker.pc = "route" /\ worker.preview = p)

LEMMA RunDoes ==
    ASSUME Constants, Types, RunStep
    PROVE  RunChanges
  <1>1. CASE TakeJob
    <2>1. PICK p \in Ids : p = Head(queue).preview /\ worker'.pc = "begin" /\ worker'.preview = p
      BY <1>1, TakeJobDoes DEF Job
    <2>2. disturbed' = IF BeingRemoved(p) THEN disturbed \cup {p} ELSE disturbed
      BY <1>1, <2>1 DEF TakeJob
    <2>3. UNCHANGED <<services, routes>>
      BY <1>1, Zenon DEF TakeJob
    <2>4. \A q \in Ids : Active(q)' => q = p
      BY <2>1 DEF Active
    <2> QED
      BY <2>1, <2>2, <2>3, <2>4 DEF RunChanges
  <1>2. CASE BeginRun
    <2>1. UNCHANGED <<services, routes, disturbed>>
      BY <1>2, Zenon DEF BeginRun
    <2> QED
      BY <1>2, <2>1, BeginRunDoes DEF RunChanges, Active, Stepped
  <1>3. CASE Announce
    <2>1. UNCHANGED <<services, routes, disturbed>>
      BY <1>3, Zenon DEF Announce, world
    <2>2. worker.pc = "comment" /\ (Stepped("checkout") \/ Stepped("catch"))
      BY <1>3, StepIs DEF Announce, Running, Pcs
    <2> QED
      BY <2>1, <2>2 DEF RunChanges, Active, Stepped
  <1>4. CASE Checkout
    <2>1. UNCHANGED <<services, routes, disturbed>>
      BY <1>4, Zenon DEF Checkout
    <2> QED
      BY <1>4, <2>1, CheckoutDoes DEF RunChanges, Active, Stepped
  <1>5. CASE Build
    <2>1. UNCHANGED <<services, routes, disturbed>>
      BY <1>5, Zenon DEF Build, world, rest
    <2> QED
      BY <1>5, <2>1, BuildDoes DEF RunChanges, Active, Stepped
  <1>6. CASE Deploy
    <2>1. UNCHANGED <<routes, disturbed>> /\ services' = [services EXCEPT ![worker.preview] = worker.built]
      BY <1>6, Zenon DEF Deploy, rest
    <2>2. worker.pc = "deploy" /\ (Stepped("ensure") \/ Stepped("catch"))
      BY <1>6, StepIs DEF Deploy, Running, Pcs
    <2>3. \A p \in Ids : services'[p] = services[p] \/ worker.preview = p
      BY <2>1, Before
    <2> QED
      BY <2>1, <2>2, <2>3 DEF RunChanges, Active, Stepped
  <1>7. CASE AssignDomain
    <2>1. UNCHANGED <<services, routes, disturbed>>
      BY <1>7, Zenon DEF AssignDomain, rest
    <2>2. worker.pc = "ensure" /\ (Stepped("route") \/ Stepped("finish"))
      BY <1>7, StepIs DEF AssignDomain, Running, Pcs
    <2> QED
      BY <2>1, <2>2 DEF RunChanges, Active, Stepped
  <1>8. CASE AssignRoute
    <2>1. UNCHANGED <<services, disturbed>> /\ routes' = routes \cup {worker.preview}
      BY <1>8, Zenon DEF AssignRoute, rest
    <2>2. worker.pc = "route" /\ Stepped("finish")
      BY <1>8, StepIs DEF AssignRoute, Running, Pcs
    <2> QED
      BY <2>1, <2>2 DEF RunChanges, Active, Stepped
  <1>9. CASE Finish
    <2>1. UNCHANGED <<services, routes, disturbed>>
      BY <1>9, Zenon DEF Finish, rest
    <2> QED
      BY <1>9, <2>1, FinishDoes, NoRunIs DEF RunChanges, Active, Stepped
  <1>10. CASE Catch
    <2>1. UNCHANGED <<services, routes, disturbed>>
      BY <1>10, Zenon DEF Catch, rest
    <2>2. worker.pc = "catch" /\ Stepped("mark")
      BY <1>10, StepIs DEF Catch, Running, Pcs
    <2> QED
      BY <2>1, <2>2 DEF RunChanges, Active, Stepped
  <1>11. CASE MarkErrored
    <2>1. UNCHANGED <<services, routes, disturbed>> /\ worker' = NoRun
      BY <1>11, Zenon DEF MarkErrored, rest
    <2> QED
      BY <2>1, NoRunIs DEF RunChanges, Active
  <1> QED
    BY Zenon, <1>1, <1>2, <1>3, <1>4, <1>5, <1>6, <1>7, <1>8, <1>9, <1>10, <1>11 DEF RunStep

LEMMA RunGone ==
    ASSUME Constants, Types, GoneInv, RunStep
    PROVE  GoneInv'
  <1>1. RunChanges /\ Rows' = Rows /\ req' = req
    BY RunDoes, RunKeeps
  <1>2. \A c \in Clients : PlaceOf(c)' = PlaceOf(c)
    BY <1>1 DEF PlaceOf
  <1>3. ASSUME NEW p \in Ids \ disturbed'
       PROVE  /\ \A d \in Clients : PlaceOf(d) \in RemovalPlaces /\ req[d].preview = p =>
                  /\ ~ Active(p)'
                  /\ \A e \in Clients : PlaceOf(e) \in {"ensure", "route"} => req[e].preview # p
                  /\ PlaceOf(d) \notin {"dns", "service"} => services'[p] = 0
                  /\ PlaceOf(d) = "dropRow" => p \notin routes'
              /\ worker'.pc \notin {"idle", "begin", "mark"} /\ worker'.preview = p => Present(p)
              /\ \A d \in Clients : PlaceOf(d) \in {"ensure", "route"} /\ req[d].preview = p => Present(p)
              /\ ~ Present(p) => services'[p] = 0 /\ p \notin routes'
    <2>1. p \in Ids \ disturbed
      BY <1>1, <1>3 DEF RunChanges
    <2>2. /\ \A d \in Clients : PlaceOf(d) \in RemovalPlaces /\ req[d].preview = p =>
              /\ ~ Active(p)
              /\ \A e \in Clients : PlaceOf(e) \in {"ensure", "route"} => req[e].preview # p
              /\ PlaceOf(d) \notin {"dns", "service"} => services[p] = 0
              /\ PlaceOf(d) = "dropRow" => p \notin routes
          /\ worker.pc \notin {"idle", "begin", "mark"} /\ worker.preview = p => Present(p)
          /\ \A d \in Clients : PlaceOf(d) \in {"ensure", "route"} /\ req[d].preview = p => Present(p)
          /\ ~ Present(p) => services[p] = 0 /\ p \notin routes
      BY <2>1 DEF GoneInv
    <2>3. worker.pc \in {"deploy", "route"} /\ worker.preview = p => Active(p) /\ Present(p)
      BY <2>2 DEF Active
    <2>4. /\ Active(p)' => Active(p) \/ ~ BeingRemoved(p)
          /\ services'[p] = services[p] \/ (worker.pc = "deploy" /\ worker.preview = p)
          /\ p \in routes' => p \in routes \/ (worker.pc = "route" /\ worker.preview = p)
      BY <1>1, <1>3 DEF RunChanges
    <2>5. ASSUME NEW d \in Clients, PlaceOf(d) \in RemovalPlaces, req[d].preview = p
         PROVE  /\ ~ Active(p)'
                /\ \A e \in Clients : PlaceOf(e) \in {"ensure", "route"} => req[e].preview # p
                /\ PlaceOf(d) \notin {"dns", "service"} => services'[p] = 0
                /\ PlaceOf(d) = "dropRow" => p \notin routes'
      <3>1. BeingRemoved(p) /\ ~ Active(p)
        BY <2>2, <2>5, BeingAre
      <3> QED
        BY <2>2, <2>3, <2>4, <2>5, <3>1
    <2>6. worker'.pc \notin {"idle", "begin", "mark"} /\ worker'.preview = p => Present(p)
      BY <1>1, <2>2 DEF RunChanges
    <2>7. ~ Present(p) => services'[p] = 0 /\ p \notin routes'
      BY <2>2, <2>3, <2>4
    <2> QED
      BY <2>2, <2>5, <2>6, <2>7
  <1>4. \A p \in Ids : Present(p)' <=> Present(p)
    BY <1>1 DEF Rows
  <1> QED
    BY <1>1, <1>2, <1>3, <1>4 DEF GoneInv

\* Whoever begins was at rest.
LEMMA BegunGone ==
    ASSUME Constants, Types, GoneInv, NEW c \in Clients, NEW r, req' = [req EXCEPT ![c] = r], req[c].todo = <<>>,
           UNCHANGED <<previews, services, routes, worker, disturbed>>, Place(r.todo) \in {"apps", "list", "find", "dequeue"}
    PROVE  GoneInv'
  <1>1. /\ \A d \in Clients : d # c => req'[d] = req[d] /\ PlaceOf(d)' = PlaceOf(d)
        /\ PlaceOf(c)' = Place(r.todo)
    BY BegunLeaving DEF Types, Procedures
  <1>2. \A d \in Clients : PlaceOf(d)' \in RemovalPlaces \cup {"ensure", "route"}
             => req'[d] = req[d] /\ PlaceOf(d)' = PlaceOf(d)
    BY <1>1 DEF RemovalPlaces
  <1>3. \A p \in Ids : (Active(p)' <=> Active(p)) /\ (Present(p)' <=> Present(p))
    BY DEF Active, Present
  <1> QED
    BY <1>2, <1>3 DEF GoneInv

LEMMA StepGone ==
    ASSUME Constants, Types, GoneInv, [Next]_preview
    PROVE  GoneInv'
  <1>1. ASSUME NEW c \in Handlers, Event(c) PROVE GoneInv'
    <2>1. c \in Clients
      BY DEF Clients
    <2>2. PICK op \in Events, r \in Calls :
             /\ req[c].todo = <<>> /\ req' = [req EXCEPT ![c] = r]
             /\ Place(r.todo) = IF op = "closed" THEN "list" ELSE "apps"
      BY <1>1, <2>1, EventDoes
    <2>3. UNCHANGED <<previews, services, routes, worker, disturbed>>
      BY <1>1, Zenon DEF Event
    <2> QED
      BY <2>1, <2>2, <2>3, BegunGone
  <1>2. ASSUME NEW c \in Users, Call(c) PROVE GoneInv'
    <2>1. c \in Clients
      BY DEF Clients
    <2>2. PICK r \in Calls :
             /\ req[c].todo = <<>> /\ req' = [req EXCEPT ![c] = r]
             /\ Place(r.todo) \in {"find", "dequeue"}
      BY <1>2, <2>1, CallDoes
    <2>3. UNCHANGED <<previews, services, routes, worker, disturbed>>
      BY <1>2, Zenon DEF Call, world
    <2> QED
      BY <2>1, <2>2, <2>3, BegunGone
  <1>3. CASE RunStep
    BY <1>3, RunGone
  <1>4. CASE \E c \in Clients : Webhook(c) \/ RemovalStep(c) \/ Procedure(c)
    BY <1>4, ClientGone DEF Acts
  <1>5. CASE UNCHANGED preview
    <2>1. UNCHANGED <<previews, services, routes, worker, req, disturbed>>
      BY <1>5, Zenon DEF preview
    <2>2. \A c : PlaceOf(c)' = PlaceOf(c)
      BY <2>1 DEF PlaceOf
    <2>3. \A p \in Ids : (Active(p)' <=> Active(p)) /\ (Present(p)' <=> Present(p))
      BY <2>1 DEF Active, Present
    <2> QED
      BY <2>1, <2>2, <2>3 DEF GoneInv
  <1> QED
    BY <1>1, <1>2, <1>3, <1>4, <1>5 DEF Next

\* Once nothing is under way, a preview without a row has neither a service nor a
\* route (removePreviewDeployment and the worker's preview branch), for any events,
\* procedures and failures: only those whose removal failed in a step, met
\* their run or creation, or whose row went by a cascade may leave something.
THEOREM NothingBehind ==
    ASSUME Constants
    PROVE  Spec => []NothingLeftBehind
  <1>1. Init => Types /\ GoneInv
    <2>1. ASSUME Init PROVE GoneInv
      <3>1. \A c \in Clients : PlaceOf(c) = "rest"
        BY <2>1 DEF Init, Rest, PlaceOf, Place
      <3>2. worker.pc = "idle" /\ routes = {} /\ services = [p \in Ids |-> 0]
        BY <2>1 DEF Init, NoRun
      <3> QED
        BY <3>1, <3>2 DEF GoneInv, RemovalPlaces
    <2> QED
      BY <2>1, InitTypes
  <1>2. Types /\ GoneInv /\ [Next]_preview => Types' /\ GoneInv'
    BY StepTypes, StepGone
  <1>3. GoneInv => NothingLeftBehind
    BY DEF GoneInv, NothingLeftBehind
  <1> QED
    BY <1>1, <1>2, <1>3, PTL DEF Spec

-----------------------------------------------------------------------------
(* A preview shown as done runs its branch's newest commit.                 *)

\* A push on its way to its job.
PushedBy(c, p) ==
    /\ req[c].op \in Pushes
    /\ \/ PlaceOf(c) \in {"apps", "lookup"} /\ req[c].pr = previews[p].pr
       \/ PlaceOf(c) = "enqueue" /\ req[c].preview = p
BeforeCheckout(p) == worker.preview = p /\ worker.type = "deploy" /\ worker.pc \in {"begin", "comment", "checkout"}
Coming(p) == (\E c \in Clients : PushedBy(c, p)) \/ Job(p, "deploy") \in Waiting(queue) \/ BeforeCheckout(p)

\* Every push is on its way to a checkout, or has been missed.
Fetched == \A p \in Rows \ missed : source[p] \in {0, pulls[previews[p].pr].head} \/ Coming(p)

\* What is built and served is what was checked out, until a removal takes it away.
Serves(p) == services[p] = source[p] /\ services[p] > 0
Served ==
    \A p \in Rows \ disturbed :
        /\ previews[p].status = "done" => ~ Active(p) /\ (Serves(p) \/ Leaving(p))
        /\ worker.preview = p /\ worker.pc = "deploy" => (worker.built = source[p] /\ worker.built > 0) \/ Leaving(p)
        /\ Finishing(p) => Serves(p) \/ Leaving(p)
CurrentInv == (application \/ Rows = {}) /\ Fetched /\ Served

\* A step of a handler or procedure keeps the waiting jobs or counts them missed.
Stays ==
    /\ missed \subseteq missed'
    /\ \A p \in Ids : Job(p, "deploy") \in Waiting(queue) => Job(p, "deploy") \in Waiting(queue') \/ p \in missed'

LEMMA SameStays == ASSUME missed \subseteq missed', queue' = queue PROVE Stays
  BY DEF Stays

LEMMA ClientStays ==
    ASSUME Constants, Types, NEW c \in Clients, Acts(c)
    PROVE  Stays
  <1>1. CASE Comment(c)
    <2>1. UNCHANGED <<missed, queue>>
      BY <1>1, Zenon DEF Comment, rest
    <2> QED
      BY <2>1, SameStays
  <1>2. CASE InsertPreview(c)
    <2>1. UNCHANGED <<missed, queue>>
      BY <1>2, Zenon DEF InsertPreview, rest
    <2> QED
      BY <2>1, SameStays
  <1>3. CASE EnsureDomain(c)
    <2>1. UNCHANGED <<missed, queue>>
      BY <1>3, Zenon DEF EnsureDomain, rest
    <2> QED
      BY <2>1, SameStays
  <1>4. CASE WriteRoute(c)
    <2>1. UNCHANGED <<missed, queue>>
      BY <1>4, Zenon DEF WriteRoute, rest
    <2> QED
      BY <2>1, SameStays
  <1>5. CASE FindPreview(c)
    <2>1. UNCHANGED <<missed, queue>>
      BY <1>5, Zenon DEF FindPreview, rest
    <2> QED
      BY <2>1, SameStays
  <1>6. CASE ListPreviews(c)
    <2>1. UNCHANGED <<missed, queue>>
      BY <1>6, Zenon DEF ListPreviews, rest
    <2> QED
      BY <2>1, SameStays
  <1>7. CASE NextRemoval(c)
    <2>1. UNCHANGED <<missed, queue>>
      BY <1>7, Zenon DEF NextRemoval, rest
    <2> QED
      BY <2>1, SameStays
  <1>8. CASE RemoveRecord(c)
    <2>1. UNCHANGED <<missed, queue>>
      BY <1>8, Zenon DEF RemoveRecord, rest
    <2> QED
      BY <2>1, SameStays
  <1>9. CASE RemoveService(c)
    <2>1. UNCHANGED <<missed, queue>>
      BY <1>9, Zenon DEF RemoveService, rest
    <2> QED
      BY <2>1, SameStays
  <1>10. CASE RemoveDeployments(c)
    <2>1. UNCHANGED <<missed, queue>>
      BY <1>10, Zenon DEF RemoveDeployments, rest
    <2> QED
      BY <2>1, SameStays
  <1>11. CASE RemoveCode(c)
    <2>1. UNCHANGED <<missed, queue>>
      BY <1>11, Zenon DEF RemoveCode, rest
    <2> QED
      BY <2>1, SameStays
  <1>12. CASE RemoveRoute(c)
    <2>1. UNCHANGED <<missed, queue>>
      BY <1>12, Zenon DEF RemoveRoute, rest
    <2> QED
      BY <2>1, SameStays
  <1>13. CASE DropRow(c)
    <2>1. UNCHANGED <<missed, queue>>
      BY <1>13, Zenon DEF DropRow, rest
    <2> QED
      BY <2>1, SameStays
  <1>14. CASE DropDomain(c)
    <2>1. UNCHANGED <<missed, queue>>
      BY <1>14, Zenon DEF DropDomain, rest
    <2> QED
      BY <2>1, SameStays
  <1>15. CASE CheckNotRunning(c)
    <2>1. UNCHANGED <<missed, queue>>
      BY <1>15, Zenon DEF CheckNotRunning, rest
    <2> QED
      BY <2>1, SameStays
  <1>16. CASE CheckNotActive(c)
    <2>1. UNCHANGED <<missed, queue>>
      BY <1>16, Zenon DEF CheckNotActive, rest
    <2> QED
      BY <2>1, SameStays
  <1>17. CASE DropDomains(c)
    <2>1. UNCHANGED <<missed, queue>>
      BY <1>17, Zenon DEF DropDomains, rest
    <2> QED
      BY <2>1, SameStays
  <1>18. CASE DropApplication(c)
    <2>1. UNCHANGED <<missed, queue>>
      BY <1>18, Zenon DEF DropApplication, rest
    <2> QED
      BY <2>1, SameStays
  <1>19. CASE FindApplications(c)
    <2>1. queue' = queue /\ missed \subseteq missed'
      BY <1>19 DEF FindApplications
    <2> QED
      BY <2>1, SameStays
  <1>20. CASE Lookup(c)
    <2>1. queue' = queue /\ missed \subseteq missed'
      BY <1>20 DEF Lookup
    <2> QED
      BY <2>1, SameStays
  <1>21. CASE Enqueue(c)
    <2>1. PICK p \in Ids, type \in {"deploy", "redeploy"} :
             /\ queue' = queue \/ queue' = Append(queue, Job(p, type))
             /\ missed' = missed \/ missed' = missed \cup {p}
      BY <1>21, MineIsId DEF Enqueue
    <2>2. Job(p, type) \in Jobs /\ queue \in Seq(Jobs)
      BY DEF Job, Jobs, Types, Data
    <2>3. Waiting(queue) \subseteq Waiting(queue')
      BY <2>1, <2>2, QueueAppend
    <2> QED
      BY <2>1, <2>3 DEF Stays
  <1>22. CASE Dequeue(c)
    <2>1. missed' = missed \cup {p \in Ids : \E i \in DOMAIN queue : queue[i] = Job(p, "deploy")}
      BY <1>22 DEF Dequeue
    <2> QED
      BY <2>1 DEF Stays, Waiting
  <1> QED
    BY Zenon, <1>1, <1>2, <1>3, <1>4, <1>5, <1>6, <1>7, <1>8, <1>9, <1>10, <1>11, <1>12, <1>13, <1>14, <1>15, <1>16, <1>17, <1>18, <1>19, <1>20, <1>21, <1>22 DEF Acts, Webhook, RemovalStep, Procedure

\* A push on its way to its job stays so, is dropped, or has its job.
LEMMA FindPushed ==
    ASSUME Constants, Types, application, NEW c \in Clients, FindApplications(c), NEW p \in Rows, PushedBy(c, p), p \notin missed'
    PROVE  PushedBy(c, p)'
  <1>1. PICK next : Moves(c, next) /\ ((next = Rest /\ Cardinality(Rows) > PreviewLimit) \/ Same(c, next, "lookup"))
    BY FindApplicationsMoves
  <1>2. PlaceOf(c) = "apps" /\ req[c].pr = previews[p].pr
    BY FindApplicationsMoves DEF PushedBy
  <1>3. req'[c] = next /\ PlaceOf(c)' = Place(next.todo)
    BY <1>1, MovedReq
  <1>4. ~ (Cardinality(Rows) > PreviewLimit)
    <2>1. ASSUME Cardinality(Rows) > PreviewLimit PROVE missed' = missed \cup RowsOf(req[c].pr)
      BY <2>1, Zenon DEF FindApplications
    <2>2. p \in RowsOf(req[c].pr)
      BY <1>2 DEF RowsOf
    <2> QED
      BY <2>1, <2>2
  <1>5. previews' = previews
    BY Zenon DEF FindApplications, world
  <1> QED
    BY <1>1, <1>2, <1>3, <1>4, <1>5, RestFits DEF Moves, Same, PushedBy, Pushes

LEMMA LookupPushed ==
    ASSUME Constants, Types, NEW c \in Clients, Lookup(c), NEW p \in Rows, PushedBy(c, p), p \notin missed'
    PROVE  PushedBy(c, p)'
  <1>1. PlaceOf(c) = "lookup" /\ req[c].pr = previews[p].pr /\ req[c].op \in Pushes
    BY LookupMoves DEF PushedBy
  <1>2. p \in RowsOf(req[c].pr)
    BY <1>1 DEF RowsOf
  <1>3. PICK next :
           /\ Moves(c, next) /\ next.op = req[c].op /\ Place(next.todo) = "enqueue"
           /\ \A q \in RowsOf(req[c].pr) : q # next.preview => q \in missed'
    BY <1>2, LookupMoves
  <1>4. next.preview = p
    BY <1>2, <1>3
  <1>5. req'[c] = next /\ PlaceOf(c)' = Place(next.todo)
    BY <1>3, MovedReq
  <1> QED
    BY <1>1, <1>3, <1>4, <1>5 DEF PushedBy

LEMMA EnqueuePushed ==
    ASSUME Constants, Types, application, NEW c \in Clients, Enqueue(c), NEW p \in Rows, PushedBy(c, p), p \notin missed'
    PROVE  Job(p, "deploy") \in Waiting(queue')
  <1>1. p = req[c].preview /\ req[c].op # "redeploy" /\ p \in Ids
    BY EnqueueMoves DEF PushedBy, Pushes, Rows
  <1>2. /\ queue' = IF Queued(p) \/ Active(p) THEN queue ELSE Append(queue, Job(p, "deploy"))
        /\ missed' = IF Active(p) \/ (Queued(p) /\ Job(p, "redeploy") \in {queue[i] : i \in DOMAIN queue})
                     THEN missed \cup {p} ELSE missed
    BY <1>1, Zenon DEF Enqueue
  <1>3. ~ Active(p)
    BY <1>2
  <1>4. Queued(p) => Job(p, "redeploy") \notin Waiting(queue)
    BY <1>2 DEF Waiting
  <1>5. CASE Queued(p)
    <2>1. PICK j \in Waiting(queue) : j.preview = p
      BY <1>5 DEF Queued, Waiting
    <2>2. j \in Jobs
      BY WaitingJobs
    <2>3. j = Job(p, "deploy") \/ j = Job(p, "redeploy")
      BY <2>1, <2>2 DEF Jobs, Job
    <2> QED
      BY <1>2, <1>4, <1>5, <2>1, <2>3
  <1>6. CASE ~ Queued(p)
    <2>1. Job(p, "deploy") \in Jobs /\ queue \in Seq(Jobs)
      BY <1>1 DEF Job, Jobs, Types, Data
    <2> QED
      BY <1>2, <1>3, <1>6, <2>1, QueueAppend
  <1> QED
    BY <1>5, <1>6

LEMMA PushedOn ==
    ASSUME Constants, Types, application, NEW c \in Clients, Acts(c), NEW p \in Rows, PushedBy(c, p), p \notin missed'
    PROVE  PushedBy(c, p)' \/ Job(p, "deploy") \in Waiting(queue')
  <1>1. CASE FindApplications(c)
    BY <1>1, FindPushed
  <1>2. CASE Lookup(c)
    BY <1>2, LookupPushed
  <1>3. ASSUME Comment(c) PROVE FALSE
    BY <1>3, CommentMoves DEF PushedBy
  <1>4. ASSUME InsertPreview(c) PROVE FALSE
    BY <1>4, InsertPreviewMoves DEF PushedBy
  <1>5. ASSUME EnsureDomain(c) PROVE FALSE
    BY <1>5, EnsureDomainMoves DEF PushedBy
  <1>6. ASSUME WriteRoute(c) PROVE FALSE
    BY <1>6, WriteRouteMoves DEF PushedBy
  <1>7. CASE Enqueue(c)
    BY <1>7, EnqueuePushed
  <1>8. ASSUME Dequeue(c) PROVE FALSE
    BY <1>8, DequeueMoves DEF PushedBy
  <1>9. ASSUME FindPreview(c) PROVE FALSE
    BY <1>9, FindPreviewMoves DEF PushedBy
  <1>10. ASSUME ListPreviews(c) PROVE FALSE
    BY <1>10, ListPreviewsMoves DEF PushedBy
  <1>11. ASSUME NextRemoval(c) PROVE FALSE
    BY <1>11, NextRemovalMoves DEF PushedBy
  <1>12. ASSUME RemoveRecord(c) PROVE FALSE
    BY <1>12, RemoveRecordMoves DEF PushedBy
  <1>13. ASSUME RemoveService(c) PROVE FALSE
    BY <1>13, RemoveServiceMoves DEF PushedBy
  <1>14. ASSUME RemoveDeployments(c) PROVE FALSE
    BY <1>14, RemoveDeploymentsMoves DEF PushedBy
  <1>22. ASSUME RemoveCode(c) PROVE FALSE
    BY <1>22, RemoveCodeMoves DEF PushedBy
  <1>15. ASSUME RemoveRoute(c) PROVE FALSE
    BY <1>15, RemoveRouteMoves DEF PushedBy
  <1>16. ASSUME DropRow(c) PROVE FALSE
    BY <1>16, DropRowMoves DEF PushedBy
  <1>17. ASSUME DropDomain(c) PROVE FALSE
    BY <1>17, DropDomainMoves DEF PushedBy
  <1>18. ASSUME CheckNotRunning(c) PROVE FALSE
    BY <1>18, CheckNotRunningMoves DEF PushedBy
  <1>19. ASSUME CheckNotActive(c) PROVE FALSE
    BY <1>19, CheckNotActiveMoves DEF PushedBy
  <1>20. ASSUME DropDomains(c) PROVE FALSE
    BY <1>20, DropDomainsMoves DEF PushedBy
  <1>21. ASSUME DropApplication(c) PROVE FALSE
    BY <1>21, DropApplicationMoves DEF PushedBy
  <1> QED
    BY Zenon, <1>1, <1>2, <1>3, <1>4, <1>5, <1>6, <1>7, <1>8, <1>9, <1>10, <1>11, <1>12, <1>13, <1>14, <1>15, <1>16, <1>17, <1>18, <1>19, <1>20, <1>21, <1>22 DEF Acts, Webhook, RemovalStep, Procedure

\* Only the application's deletion removes it.
LEMMA ApplicationStays ==
    ASSUME NEW c \in Clients, Acts(c)
    PROVE  application' = application \/ DropApplication(c)
  <1>1. ASSUME FindApplications(c) PROVE application' = application
    BY <1>1, Zenon DEF FindApplications, world
  <1>2. ASSUME Lookup(c) PROVE application' = application
    BY <1>2, Zenon DEF Lookup, world
  <1>3. ASSUME Comment(c) PROVE application' = application
    BY <1>3, Zenon DEF Comment, world
  <1>4. ASSUME InsertPreview(c) PROVE application' = application
    BY <1>4, Zenon DEF InsertPreview
  <1>5. ASSUME EnsureDomain(c) PROVE application' = application
    BY <1>5, Zenon DEF EnsureDomain
  <1>6. ASSUME WriteRoute(c) PROVE application' = application
    BY <1>6, Zenon DEF WriteRoute
  <1>7. ASSUME Enqueue(c) PROVE application' = application
    BY <1>7, Zenon DEF Enqueue, world
  <1>8. ASSUME Dequeue(c) PROVE application' = application
    BY <1>8, Zenon DEF Dequeue, world
  <1>9. ASSUME FindPreview(c) PROVE application' = application
    BY <1>9, Zenon DEF FindPreview, world
  <1>10. ASSUME ListPreviews(c) PROVE application' = application
    BY <1>10, Zenon DEF ListPreviews, world
  <1>11. ASSUME NextRemoval(c) PROVE application' = application
    BY <1>11, Zenon DEF NextRemoval, world
  <1>12. ASSUME RemoveRecord(c) PROVE application' = application
    BY <1>12, Zenon DEF RemoveRecord, world
  <1>13. ASSUME RemoveService(c) PROVE application' = application
    BY <1>13, Zenon DEF RemoveService
  <1>14. ASSUME RemoveDeployments(c) PROVE application' = application
    BY <1>14, Zenon DEF RemoveDeployments
  <1>15. ASSUME RemoveCode(c) PROVE application' = application
    BY <1>15, Zenon DEF RemoveCode
  <1>16. ASSUME RemoveRoute(c) PROVE application' = application
    BY <1>16, Zenon DEF RemoveRoute
  <1>17. ASSUME DropRow(c) PROVE application' = application
    BY <1>17, Zenon DEF DropRow
  <1>18. ASSUME DropDomain(c) PROVE application' = application
    BY <1>18, Zenon DEF DropDomain
  <1>19. ASSUME CheckNotRunning(c) PROVE application' = application
    BY <1>19, Zenon DEF CheckNotRunning, world
  <1>20. ASSUME CheckNotActive(c) PROVE application' = application
    BY <1>20, Zenon DEF CheckNotActive, world
  <1>21. ASSUME DropDomains(c) PROVE application' = application
    BY <1>21, Zenon DEF DropDomains
  <1> QED
    BY Zenon, <1>1, <1>2, <1>3, <1>4, <1>5, <1>6, <1>7, <1>8, <1>9, <1>10, <1>11, <1>12, <1>13, <1>14, <1>15, <1>16, <1>17, <1>18, <1>19, <1>20, <1>21 DEF Acts, Webhook, RemovalStep, Procedure

LEMMA ClientCurrent ==
    ASSUME Constants, Types, CurrentInv, NEW c \in Clients, Acts(c)
    PROVE  CurrentInv'
  <1>1. worker' = worker /\ pulls' = pulls
    BY ClientApart
  <1>2. Stays /\ disturbed \subseteq disturbed'
    BY ClientStays, ClientChanges DEF Changes
  <1>3. \A p \in Rows' : KeptRow(p) \/ NewRow(c, p)
    BY ClientRows
  <1>4. /\ \A p \in Rows' \ disturbed' : Leaving(p) => Leaving(p)'
        /\ \A p \in Ids : services'[p] = services[p] \/ Leaving(p)'
        /\ \A p \in Ids : source'[p] = source[p] \/ (Leaving(p)' /\ source'[p] = 0)
    BY ClientLeaving
  <1>5. ASSUME NEW p \in Rows', NewRow(c, p)
       PROVE  /\ previews'[p].status = "idle" /\ source'[p] = 0 /\ (worker.pc # "idle" => worker.preview # p)
    <2>1. PICK old \in Nat : old = inserted
      BY Before
    <2>2. p = old + 1 /\ previews'[p].status = "idle" /\ p \in Ids
      BY <1>5, <2>1 DEF NewRow, Rows
    <2>3. worker.pc # "idle" => worker.preview \in Nat /\ worker.preview <= old
      BY <2>1, Before DEF Workers, Ids
    <2>4. source[p] = 0
      <3>1. source[p] # 0 => p <= old
        BY <2>1, <2>2, Before
      <3> QED
        BY <2>1, <2>2, <3>1
    <2> QED
      BY <1>4, <2>1, <2>2, <2>3, <2>4
  <1>6. ASSUME NEW p \in Rows', p \notin missed'
       PROVE  source'[p] \in {0, pulls'[previews'[p].pr].head} \/ Coming(p)'
    <2>1. CASE NewRow(c, p)
      BY <1>5, <1>6, <2>1
    <2>2. CASE KeptRow(p)
      <3>1. p \in Rows /\ p \in Ids /\ previews'[p].pr = previews[p].pr /\ p \notin missed
        BY <1>2, <1>6, <2>2 DEF KeptRow, Rows, Stays
      <3>2. CASE source[p] \in {0, pulls[previews[p].pr].head}
        BY <1>1, <1>4, <3>1, <3>2
      <3>3. ASSUME NEW d \in Clients, PushedBy(d, p) PROVE Coming(p)'
        <4>1. CASE d = c
          <5>1. application
            BY <3>1 DEF CurrentInv
          <5>2. PushedBy(c, p)' \/ Job(p, "deploy") \in Waiting(queue')
            BY <1>6, <3>1, <3>3, <4>1, <5>1, PushedOn
          <5> QED
            BY <5>2 DEF Coming, Job
        <4>2. CASE d # c
          <5>1. req'[d] = req[d] /\ PlaceOf(d)' = PlaceOf(d)
            BY <4>2, Arrivals, MovedReq
          <5>2. PushedBy(d, p)'
            BY <3>1, <3>3, <5>1 DEF PushedBy
          <5> QED
            BY <5>2 DEF Coming
        <4> QED
          BY <4>1, <4>2
      <3>4. CASE Job(p, "deploy") \in Waiting(queue)
        <4>1. Job(p, "deploy") \in Waiting(queue')
          BY <1>2, <1>6, <3>1, <3>4 DEF Stays
        <4> QED
          BY <4>1 DEF Coming, Job
      <3>5. CASE BeforeCheckout(p)
        BY <1>1, <3>5 DEF Coming, BeforeCheckout
      <3> QED
        BY <3>1, <3>2, <3>3, <3>4, <3>5 DEF CurrentInv, Fetched, Coming
    <2> QED
      BY <1>3, <2>1, <2>2
  <1>7. Fetched'
    BY <1>6 DEF Fetched
  <1>8. \A p : (Active(p)' <=> Active(p)) /\ (Finishing(p)' <=> Finishing(p))
    BY <1>1 DEF Active, Finishing
  <1>9. ASSUME NEW p \in Rows', p \notin disturbed'
       PROVE  /\ previews'[p].status = "done" => ~ Active(p) /\ (Serves(p)' \/ Leaving(p)')
              /\ worker.preview = p /\ worker.pc = "deploy" => (worker.built = source'[p] /\ worker.built > 0) \/ Leaving(p)'
              /\ Finishing(p) => Serves(p)' \/ Leaving(p)'
    <2>1. CASE NewRow(c, p)
      BY <1>5, <2>1 DEF Finishing
    <2>2. CASE KeptRow(p)
      <3>1. p \in Rows /\ p \in Ids /\ previews'[p].status = previews[p].status /\ p \notin disturbed
        BY <1>2, <1>9, <2>2 DEF KeptRow, Rows
      <3>2. Leaving(p) => Leaving(p)'
        BY <1>4, <1>9
      <3>3. /\ previews[p].status = "done" => ~ Active(p) /\ (Serves(p) \/ Leaving(p))
            /\ worker.preview = p /\ worker.pc = "deploy" => (worker.built = source[p] /\ worker.built > 0) \/ Leaving(p)
            /\ Finishing(p) => Serves(p) \/ Leaving(p)
        BY <3>1 DEF CurrentInv, Served
      <3>4. Leaving(p)' \/ (services'[p] = services[p] /\ source'[p] = source[p])
        BY <1>4, <3>1
      <3>5. Serves(p) \/ Leaving(p) => Serves(p)' \/ Leaving(p)'
        BY <3>2, <3>4 DEF Serves
      <3> QED
        BY <3>1, <3>2, <3>3, <3>4, <3>5
    <2> QED
      BY <1>3, <2>1, <2>2
  <1>10. Served'
    BY <1>1, <1>8, <1>9 DEF Served
  <1>11. application' \/ Rows' = {}
    <2>1. ASSUME NEW p \in Rows' PROVE application'
      <3>1. application
        BY <1>3 DEF CurrentInv, KeptRow, NewRow
      <3>2. application' = application \/ DropApplication(c)
        BY ApplicationStays
      <3>3. ASSUME DropApplication(c) PROVE FALSE
        BY <3>3, DropApplicationDoes DEF Dropped, Rows, Present
      <3> QED
        BY <3>1, <3>2, <3>3
    <2> QED
      BY <2>1
  <1> QED
    BY <1>7, <1>10, <1>11 DEF CurrentInv

\* Who begins was at rest, and no push was on its way from there.
LEMMA BegunCurrent ==
    ASSUME Constants, Types, CurrentInv, NEW c \in Clients, NEW r, req' = [req EXCEPT ![c] = r], req[c].todo = <<>>,
           UNCHANGED <<application, previews, services, source, queue, worker, missed, disturbed>>,
           \A p \in Rows : \/ pulls'[previews[p].pr].head = pulls[previews[p].pr].head
                           \/ PushedBy(c, p)'
    PROVE  CurrentInv'
  <1>1. /\ \A d \in Clients : d # c => req'[d] = req[d] /\ PlaceOf(d)' = PlaceOf(d)
        /\ \A p : Leaving(p) => Leaving(p)'
    BY BegunLeaving DEF Types, Procedures
  <1>2. Rows' = Rows /\ \A p : (Active(p)' <=> Active(p)) /\ (Finishing(p)' <=> Finishing(p)) /\ (Serves(p)' <=> Serves(p))
    BY DEF Rows, Present, Active, Finishing, Serves
  <1>3. \A p : ~ PushedBy(c, p)
    BY DEF PushedBy, PlaceOf, Place
  <1>4. ASSUME NEW p, Coming(p) PROVE Coming(p)'
    <2>1. ASSUME NEW d \in Clients, PushedBy(d, p) PROVE Coming(p)'
      <3>1. d # c
        BY <1>3, <2>1
      <3> QED
        BY <1>1, <2>1, <3>1 DEF PushedBy, Coming
    <2>2. CASE Job(p, "deploy") \in Waiting(queue)
      BY <2>2 DEF Coming, Job
    <2>3. CASE BeforeCheckout(p)
      BY <2>3 DEF Coming, BeforeCheckout
    <2> QED
      BY <1>4, <2>1, <2>2, <2>3 DEF Coming
  <1>5. Fetched'
    <2>1. ASSUME NEW p \in Rows, p \notin missed
         PROVE  source[p] \in {0, pulls'[previews[p].pr].head} \/ Coming(p)'
      <3>1. CASE PushedBy(c, p)'
        BY <3>1 DEF Coming
      <3>2. CASE pulls'[previews[p].pr].head = pulls[previews[p].pr].head
        BY <1>4, <2>1, <3>2 DEF CurrentInv, Fetched
      <3> QED
        BY <3>1, <3>2
    <2> QED
      BY <1>2, <2>1 DEF Fetched
  <1>6. Served'
    BY <1>1, <1>2 DEF CurrentInv, Served
  <1> QED
    BY <1>2, <1>5, <1>6 DEF CurrentInv

LEMMA EventCurrent ==
    ASSUME Constants, Types, CurrentInv, NEW c \in Handlers, Event(c)
    PROVE  CurrentInv'
  <1>1. c \in Clients /\ DOMAIN req = Clients
    BY DEF Clients, Types, Procedures
  <1>2. PICK op \in Operations \cap Events, pr \in PullRequests, r \in Calls :
              /\ req[c].todo = <<>>
              /\ r.op = op /\ r.pr = pr /\ req' = [req EXCEPT ![c] = r]
              /\ Place(r.todo) = IF op = "closed" THEN "list" ELSE "apps"
              /\ pulls' = [pulls EXCEPT ![pr] = [open |-> op # "closed",
                                                 head |-> IF op \in Pushes THEN pulls[pr].head + 1 ELSE pulls[pr].head]]
              /\ UNCHANGED <<application, previews, services, source, queue, worker>>
    BY <1>1, EventDoes
  <1>5. UNCHANGED <<missed, disturbed>>
    BY Zenon DEF Event
  <1>3. req'[c] = r /\ PlaceOf(c)' = Place(r.todo)
    BY <1>1, <1>2, BegunLeaving
  <1>4. ASSUME NEW p \in Rows
       PROVE  pulls'[previews[p].pr].head = pulls[previews[p].pr].head \/ PushedBy(c, p)'
    <2>1. previews[p].pr \in PullRequests
      <3>1. p \in Ids /\ previews[p] # NoRow
        BY <1>4 DEF Rows, Present
      <3> QED
        BY <3>1, Before, RowTypes
    <2>2. CASE previews[p].pr = pr /\ op \in Pushes
      BY <1>2, <1>3, <2>2 DEF PushedBy, Pushes
    <2>3. CASE ~ (previews[p].pr = pr /\ op \in Pushes)
      BY <1>2, <2>1, <2>3 DEF Types, Data
    <2> QED
      BY <2>2, <2>3
  <1> QED
    BY <1>1, <1>2, <1>4, <1>5, BegunCurrent

LEMMA CallCurrent == ASSUME Constants, Types, CurrentInv, NEW c \in Users, Call(c) PROVE CurrentInv'
  <1>1. c \in Clients
    BY DEF Clients
  <1>2. PICK r \in Calls : req[c].todo = <<>> /\ req' = [req EXCEPT ![c] = r] /\ UNCHANGED <<world, queue, worker>>
    BY <1>1, CallDoes
  <1>3. UNCHANGED <<missed, disturbed>>
    BY Zenon DEF Call
  <1> QED
    BY <1>1, <1>2, <1>3, BegunCurrent DEF world

\* The worker goes on with its run, or ends it.
LEMMA RunServed ==
    ASSUME Constants, Types, CurrentInv, RunStep, worker.pc # "idle", NEW p \in Ids, p = worker.preview,
           worker'.pc # "idle" => worker'.preview = p,
           \A q \in Ids : q # p => services'[q] = services[q] /\ source'[q] = source[q] /\ previews'[q] = previews[q],
           p \in Rows \ disturbed =>
              /\ previews'[p].status = "done" => worker'.pc = "idle" /\ (Serves(p)' \/ Leaving(p))
              /\ worker'.pc = "deploy" => (worker'.built = source'[p] /\ worker'.built > 0) \/ Leaving(p)
              /\ worker'.pc \in {"ensure", "route", "finish"} => Serves(p)' \/ Leaving(p)
    PROVE  Served'
  <1>1. Rows' = Rows /\ req' = req /\ disturbed \subseteq disturbed'
    BY RunKeeps, RunDoes DEF RunChanges
  <1>2. \A q : Leaving(q)' <=> Leaving(q)
    BY <1>1, LeavingStays
  <1>3. ASSUME NEW q \in Rows \ disturbed
       PROVE  /\ previews'[q].status = "done" => ~ Active(q)' /\ (Serves(q)' \/ Leaving(q))
              /\ worker'.preview = q /\ worker'.pc = "deploy" => (worker'.built = source'[q] /\ worker'.built > 0) \/ Leaving(q)
              /\ Finishing(q)' => Serves(q)' \/ Leaving(q)
    <2>1. q \in Ids
      BY DEF Rows
    <2>2. CASE q = p
      <3>1. \A x : x = p => (Serves(x)' <=> (services'[p] = source'[p] /\ services'[p] > 0))
        BY DEF Serves
      <3>2. /\ previews'[p].status = "done" => worker'.pc = "idle" /\ ((services'[p] = source'[p] /\ services'[p] > 0) \/ Leaving(p))
            /\ worker'.pc = "deploy" => (worker'.built = source'[p] /\ worker'.built > 0) \/ Leaving(p)
            /\ worker'.pc \in {"ensure", "route", "finish"} => (services'[p] = source'[p] /\ services'[p] > 0) \/ Leaving(p)
        BY <1>3, <2>2 DEF Serves
      <3> QED
        BY <2>2, <3>1, <3>2 DEF Active, Finishing
    <2>3. CASE q # p
      <3>1. ~ Active(q)' /\ ~ Finishing(q)' /\ (worker'.pc = "deploy" => worker'.preview # q)
        BY <2>3 DEF Active, Finishing
      <3>2. Serves(q)' <=> Serves(q)
        BY <2>1, <2>3 DEF Serves
      <3> QED
        BY <1>3, <2>1, <2>3, <3>1, <3>2 DEF CurrentInv, Served
    <2> QED
      BY <2>2, <2>3
  <1> QED
    BY <1>1, <1>2, <1>3 DEF Served

LEMMA RunFetched ==
    ASSUME Constants, Types, CurrentInv, RunStep, UNCHANGED <<queue, source>>, missed \subseteq missed',
           \A p \in Rows : BeforeCheckout(p) => BeforeCheckout(p)' \/ p \in missed'
    PROVE  Fetched'
  <1>1. Rows' = Rows /\ req' = req /\ pulls' = pulls /\ \A p \in Ids : previews'[p].pr = previews[p].pr
    BY RunKeeps
  <1>2. ASSUME NEW p \in Rows, Coming(p), p \notin missed' PROVE Coming(p)'
    <2>1. ASSUME NEW d \in Clients, PushedBy(d, p) PROVE Coming(p)'
      BY <1>1, <2>1 DEF PushedBy, Coming, PlaceOf, Rows
    <2>2. CASE Job(p, "deploy") \in Waiting(queue)
      BY <2>2 DEF Coming, Job
    <2>3. CASE BeforeCheckout(p)
      BY <1>2, <2>3 DEF Coming
    <2> QED
      BY <1>2, <2>1, <2>2, <2>3 DEF Coming
  <1>3. \A p \in Rows : p \in Ids
    BY DEF Rows
  <1>4. ASSUME NEW p \in Rows, p \notin missed'
       PROVE  source'[p] \in {0, pulls'[previews'[p].pr].head} \/ Coming(p)'
    <2>1. source[p] \in {0, pulls[previews[p].pr].head} \/ Coming(p)
      BY <1>4 DEF CurrentInv, Fetched
    <2> QED
      BY <1>1, <1>2, <1>3, <1>4, <2>1
  <1> QED
    BY <1>1, <1>4 DEF Fetched

\* The application and the rows stay.
LEMMA RunApplication == ASSUME Constants, Types, CurrentInv, RunStep PROVE application' \/ Rows' = {}
  BY RunKeeps DEF CurrentInv

LEMMA TakeJobCurrent == ASSUME Constants, Types, CurrentInv, TakeJob PROVE CurrentInv'
  <1>1. PICK p \in Ids, type \in {"deploy", "redeploy"} :
           /\ worker.pc = "idle" /\ queue # <<>> /\ Head(queue) = Job(p, type) /\ queue' = Tail(queue)
           /\ worker'.pc = "begin" /\ worker'.preview = p /\ worker'.type = type
           /\ Restated(previews, previews', p, "running", previews[p].run)
           /\ UNCHANGED <<application, services, source>>
    BY TakeJobDoes
  <1>2. /\ Rows' = Rows /\ req' = req /\ pulls' = pulls /\ \A q \in Ids : previews'[q].pr = previews[q].pr
        /\ disturbed \subseteq disturbed'
    BY RunKeeps, RunDoes DEF RunStep, RunChanges
  <1>3. Waiting(queue) = Waiting(queue') \cup {Job(p, type)} /\ missed' = missed
    <2>1. missed' = missed
      BY Zenon DEF TakeJob
    <2> QED
      BY <1>1, <2>1, QueueTail DEF Types, Data
  <1>4. ASSUME NEW q \in Rows, Coming(q) PROVE Coming(q)'
    <2>1. ASSUME NEW d \in Clients, PushedBy(d, q) PROVE Coming(q)'
      BY <1>2, <2>1 DEF PushedBy, Coming, PlaceOf, Rows
    <2>2. CASE Job(q, "deploy") \in Waiting(queue')
      BY <2>2 DEF Coming, Job
    <2>3. CASE Job(q, "deploy") = Job(p, type)
      <3>1. q = p /\ type = "deploy"
        BY <2>3 DEF Job
      <3> QED
        BY <1>1, <3>1 DEF Coming, BeforeCheckout
    <2>4. ~ BeforeCheckout(q)
      BY <1>1 DEF BeforeCheckout
    <2> QED
      BY <1>3, <1>4, <2>1, <2>2, <2>3, <2>4 DEF Coming
  <1>5. \A q \in Rows : q \in Ids /\ previews[q] # NoRow
    BY DEF Rows, Present
  <1>6. Fetched'
    BY <1>1, <1>2, <1>3, <1>4, <1>5 DEF CurrentInv, Fetched
  <1>7. \A q : (Leaving(q)' <=> Leaving(q)) /\ (Serves(q)' <=> Serves(q))
    BY <1>1, <1>2, LeavingStays DEF Serves
  <1>8. ASSUME NEW q \in Rows \ disturbed PROVE previews'[q].status = "done" => q # p /\ (Serves(q) \/ Leaving(q))
    <2>1. CASE q = p
      BY <1>1, <1>5, <2>1 DEF Restated
    <2>2. CASE q # p
      BY <1>1, <1>5, <1>8, <2>2 DEF Restated, CurrentInv, Served
    <2> QED
      BY <2>1, <2>2
  <1>9. Served'
    BY <1>1, <1>2, <1>7, <1>8 DEF Served, Active, Finishing
  <1> QED
    BY <1>1, <1>2, <1>6, <1>9 DEF CurrentInv

\* What the invariant says of the run itself.
LEMMA RunIs ==
    ASSUME Types, CurrentInv, worker.pc # "idle", NEW p \in Rows \ disturbed, p = worker.preview
    PROVE  /\ previews[p].status # "done" /\ previews[p] # NoRow
           /\ worker.pc = "deploy" => (worker.built = source[p] /\ worker.built > 0) \/ Leaving(p)
           /\ worker.pc \in {"ensure", "route", "finish"} => (services[p] = source[p] /\ services[p] > 0) \/ Leaving(p)
  <1>1. Active(p)
    BY DEF Active
  <1> QED
    BY <1>1 DEF CurrentInv, Served, Serves, Finishing, Rows, Present

LEMMA BeginRunCurrent == ASSUME Constants, Types, CurrentInv, BeginRun PROVE CurrentInv'
  <1>1. RunStep
    BY DEF RunStep
  <1>2. PICK p \in Ids : p = worker.preview
    BY Before DEF Workers
  <1>3. /\ worker.pc = "begin" /\ worker'.preview = p /\ worker'.type = worker.type
        /\ worker'.pc = "comment" \/ (worker'.pc = "mark" /\ (worker.type = "deploy" => p \in missed'))
        /\ UNCHANGED <<services, source, queue>> /\ missed \subseteq missed'
        /\ \/ previews' = previews
           \/ \E s, r : s # "done" /\ Restated(previews, previews', p, s, r)
           \/ \E r : Restated(previews, previews', p, previews[p].status, r)
    <2>1. missed' = missed \/ Miss
      BY Zenon DEF BeginRun
    <2>2. worker'.pc = "mark" => Miss
      <3>1. Step("comment") \/ (Step("mark") /\ Miss)
        BY Zenon DEF BeginRun
      <3>2. Step("comment") => Stepped("comment")
        BY StepIs DEF Pcs
      <3> QED
        BY <3>1, <3>2 DEF Stepped
    <2>3. Miss => missed \subseteq missed' /\ (worker.type = "deploy" => p \in missed')
      BY <1>2 DEF Miss
    <2> QED
      BY <1>2, <2>1, <2>2, <2>3, BeginRunDoes DEF Stepped
  <1>4. Fetched'
    BY <1>1, <1>2, <1>3, RunFetched DEF BeforeCheckout
  <1>5. p \in Rows \ disturbed =>
           /\ previews'[p].status = "done" => worker'.pc = "idle" /\ (Serves(p)' \/ Leaving(p))
           /\ worker'.pc = "deploy" => (worker'.built = source'[p] /\ worker'.built > 0) \/ Leaving(p)
           /\ worker'.pc \in {"ensure", "route", "finish"} => Serves(p)' \/ Leaving(p)
    BY <1>2, <1>3, RunIs DEF Serves, Restated
  <1>6. \A q \in Ids : q # p => services'[q] = services[q] /\ source'[q] = source[q] /\ previews'[q] = previews[q]
    BY <1>3 DEF Restated
  <1>7. Served'
    BY <1>1, <1>2, <1>3, <1>5, <1>6, RunServed
  <1> QED
    BY <1>1, <1>4, <1>7, RunApplication DEF CurrentInv

LEMMA AnnounceCurrent == ASSUME Constants, Types, CurrentInv, Announce PROVE CurrentInv'
  <1>1. RunStep
    BY DEF RunStep
  <1>2. PICK p \in Ids : p = worker.preview
    BY Before DEF Workers
  <1>3. /\ worker.pc = "comment" /\ worker'.preview = p /\ worker'.type = worker.type
        /\ worker'.pc = "checkout" \/ (worker'.pc = "catch" /\ (worker.type = "deploy" => p \in missed'))
        /\ UNCHANGED <<previews, services, source, queue>> /\ missed \subseteq missed'

    <2>1. UNCHANGED <<previews, services, source, queue>> /\ worker.pc = "comment"
      BY Zenon DEF Announce, Running, world
    <2>2. (Stepped("checkout") /\ missed' = missed) \/ (Stepped("catch") /\ Miss)
      BY StepIs DEF Announce, Pcs
    <2>3. Miss => missed \subseteq missed' /\ (worker.type = "deploy" => p \in missed')
      BY <1>2 DEF Miss
    <2> QED
      BY <1>2, <2>1, <2>2, <2>3 DEF Stepped
  <1>4. Fetched'
    BY <1>1, <1>2, <1>3, RunFetched DEF BeforeCheckout
  <1>5. p \in Rows \ disturbed =>
           /\ previews'[p].status = "done" => worker'.pc = "idle" /\ (Serves(p)' \/ Leaving(p))
           /\ worker'.pc = "deploy" => (worker'.built = source'[p] /\ worker'.built > 0) \/ Leaving(p)
           /\ worker'.pc \in {"ensure", "route", "finish"} => Serves(p)' \/ Leaving(p)
    BY <1>2, <1>3, RunIs DEF Serves
  <1>6. \A q \in Ids : q # p => services'[q] = services[q] /\ source'[q] = source[q] /\ previews'[q] = previews[q]
    BY <1>3 DEF Restated
  <1>7. Served'
    BY <1>1, <1>2, <1>3, <1>5, <1>6, RunServed
  <1> QED
    BY <1>1, <1>4, <1>7, RunApplication DEF CurrentInv

LEMMA BuildCurrent == ASSUME Constants, Types, CurrentInv, Build PROVE CurrentInv'
  <1>1. RunStep
    BY DEF RunStep
  <1>2. PICK p \in Ids : p = worker.preview
    BY Before DEF Workers
  <1>3. /\ worker.pc = "build" /\ worker'.preview = p
        /\ worker'.pc = "catch" \/ (worker'.pc = "deploy" /\ worker'.built = source[p] /\ worker'.built > 0)
        /\ UNCHANGED <<previews, services, source, queue, missed>>
    <2>1. UNCHANGED <<previews, services, source, queue, missed>>
      BY Zenon DEF Build, world, rest
    <2>2. source[p] \in Nat
      BY <1>2, Before DEF Constants
    <2> QED
      BY <1>2, <2>1, <2>2, BuildDoes DEF Stepped
  <1>4. Fetched'
    BY <1>1, <1>2, <1>3, RunFetched DEF BeforeCheckout
  <1>5. p \in Rows \ disturbed =>
           /\ previews'[p].status = "done" => worker'.pc = "idle" /\ (Serves(p)' \/ Leaving(p))
           /\ worker'.pc = "deploy" => (worker'.built = source'[p] /\ worker'.built > 0) \/ Leaving(p)
           /\ worker'.pc \in {"ensure", "route", "finish"} => Serves(p)' \/ Leaving(p)
    BY <1>2, <1>3, RunIs DEF Serves
  <1>6. \A q \in Ids : q # p => services'[q] = services[q] /\ source'[q] = source[q] /\ previews'[q] = previews[q]
    BY <1>3 DEF Restated
  <1>7. Served'
    BY <1>1, <1>2, <1>3, <1>5, <1>6, RunServed
  <1> QED
    BY <1>1, <1>4, <1>7, RunApplication DEF CurrentInv

LEMMA DeployCurrent == ASSUME Constants, Types, CurrentInv, Deploy PROVE CurrentInv'
  <1>1. RunStep
    BY DEF RunStep
  <1>2. PICK p \in Ids : p = worker.preview
    BY Before DEF Workers
  <1>3. /\ worker.pc = "deploy" /\ worker'.preview = p /\ worker'.pc \in {"ensure", "catch"}
        /\ UNCHANGED <<previews, source, queue, missed>>
        /\ services'[p] = worker.built /\ \A q \in Ids : q # p => services'[q] = services[q]
    BY <1>2, StepIs, Before DEF Deploy, Running, Pcs, Stepped, rest
  <1>4. Fetched'
    BY <1>1, <1>2, <1>3, RunFetched DEF BeforeCheckout
  <1>5. p \in Rows \ disturbed =>
           /\ previews'[p].status = "done" => worker'.pc = "idle" /\ (Serves(p)' \/ Leaving(p))
           /\ worker'.pc = "deploy" => (worker'.built = source'[p] /\ worker'.built > 0) \/ Leaving(p)
           /\ worker'.pc \in {"ensure", "route", "finish"} => Serves(p)' \/ Leaving(p)
    BY <1>2, <1>3, RunIs DEF Serves
  <1>6. \A q \in Ids : q # p => services'[q] = services[q] /\ source'[q] = source[q] /\ previews'[q] = previews[q]
    BY <1>3 DEF Restated
  <1>7. Served'
    BY <1>1, <1>2, <1>3, <1>5, <1>6, RunServed
  <1> QED
    BY <1>1, <1>4, <1>7, RunApplication DEF CurrentInv

LEMMA AssignDomainCurrent == ASSUME Constants, Types, CurrentInv, AssignDomain PROVE CurrentInv'
  <1>1. RunStep
    BY DEF RunStep
  <1>2. PICK p \in Ids : p = worker.preview
    BY Before DEF Workers
  <1>3. /\ worker.pc = "ensure" /\ worker'.preview = p /\ worker'.pc \in {"route", "finish"}
        /\ UNCHANGED <<previews, services, source, queue, missed>>
    BY <1>2, StepIs DEF AssignDomain, Running, Pcs, Stepped, rest
  <1>4. Fetched'
    BY <1>1, <1>2, <1>3, RunFetched DEF BeforeCheckout
  <1>5. p \in Rows \ disturbed =>
           /\ previews'[p].status = "done" => worker'.pc = "idle" /\ (Serves(p)' \/ Leaving(p))
           /\ worker'.pc = "deploy" => (worker'.built = source'[p] /\ worker'.built > 0) \/ Leaving(p)
           /\ worker'.pc \in {"ensure", "route", "finish"} => Serves(p)' \/ Leaving(p)
    BY <1>2, <1>3, RunIs DEF Serves
  <1>6. \A q \in Ids : q # p => services'[q] = services[q] /\ source'[q] = source[q] /\ previews'[q] = previews[q]
    BY <1>3 DEF Restated
  <1>7. Served'
    BY <1>1, <1>2, <1>3, <1>5, <1>6, RunServed
  <1> QED
    BY <1>1, <1>4, <1>7, RunApplication DEF CurrentInv

LEMMA AssignRouteCurrent == ASSUME Constants, Types, CurrentInv, AssignRoute PROVE CurrentInv'
  <1>1. RunStep
    BY DEF RunStep
  <1>2. PICK p \in Ids : p = worker.preview
    BY Before DEF Workers
  <1>3. /\ worker.pc = "route" /\ worker'.preview = p /\ worker'.pc = "finish"
        /\ UNCHANGED <<previews, services, source, queue, missed>>
    BY <1>2, StepIs DEF AssignRoute, Running, Pcs, Stepped, rest
  <1>4. Fetched'
    BY <1>1, <1>2, <1>3, RunFetched DEF BeforeCheckout
  <1>5. p \in Rows \ disturbed =>
           /\ previews'[p].status = "done" => worker'.pc = "idle" /\ (Serves(p)' \/ Leaving(p))
           /\ worker'.pc = "deploy" => (worker'.built = source'[p] /\ worker'.built > 0) \/ Leaving(p)
           /\ worker'.pc \in {"ensure", "route", "finish"} => Serves(p)' \/ Leaving(p)
    BY <1>2, <1>3, RunIs DEF Serves
  <1>6. \A q \in Ids : q # p => services'[q] = services[q] /\ source'[q] = source[q] /\ previews'[q] = previews[q]
    BY <1>3 DEF Restated
  <1>7. Served'
    BY <1>1, <1>2, <1>3, <1>5, <1>6, RunServed
  <1> QED
    BY <1>1, <1>4, <1>7, RunApplication DEF CurrentInv

LEMMA FinishCurrent == ASSUME Constants, Types, CurrentInv, Finish PROVE CurrentInv'
  <1>1. RunStep
    BY DEF RunStep
  <1>2. PICK p \in Ids : p = worker.preview
    BY Before DEF Workers
  <1>3. /\ worker.pc = "finish" /\ (worker'.pc # "idle" => worker'.preview = p /\ worker'.pc = "catch" /\ previews' = previews)
        /\ UNCHANGED <<services, source, queue, missed>>
        /\ \/ previews' = previews
           \/ \E r : Restated(previews, previews', p, "done", r)
    <2>1. missed' = missed
      BY Zenon DEF Finish, rest
    <2> QED
      BY <1>2, <2>1, FinishDoes, NoRunIs DEF Stepped
  <1>4. Fetched'
    BY <1>1, <1>2, <1>3, RunFetched DEF BeforeCheckout
  <1>5. p \in Rows \ disturbed =>
           /\ previews'[p].status = "done" => worker'.pc = "idle" /\ (Serves(p)' \/ Leaving(p))
           /\ worker'.pc = "deploy" => (worker'.built = source'[p] /\ worker'.built > 0) \/ Leaving(p)
           /\ worker'.pc \in {"ensure", "route", "finish"} => Serves(p)' \/ Leaving(p)
    BY <1>2, <1>3, RunIs DEF Serves, Restated
  <1>6. \A q \in Ids : q # p => services'[q] = services[q] /\ source'[q] = source[q] /\ previews'[q] = previews[q]
    BY <1>3 DEF Restated
  <1>7. Served'
    BY <1>1, <1>2, <1>3, <1>5, <1>6, RunServed
  <1> QED
    BY <1>1, <1>4, <1>7, RunApplication DEF CurrentInv

LEMMA CatchCurrent == ASSUME Constants, Types, CurrentInv, Catch PROVE CurrentInv'
  <1>1. RunStep
    BY DEF RunStep
  <1>2. PICK p \in Ids : p = worker.preview
    BY Before DEF Workers
  <1>3. /\ worker.pc = "catch" /\ worker'.preview = p /\ worker'.pc = "mark"
        /\ UNCHANGED <<services, source, queue, missed>>
        /\ \/ previews' = previews
           \/ \E r : Restated(previews, previews', p, "error", r)
    <2>1. missed' = missed
      BY Zenon DEF Catch, rest
    <2> QED
      BY <1>2, <2>1, CatchDoes DEF Stepped
  <1>4. Fetched'
    BY <1>1, <1>2, <1>3, RunFetched DEF BeforeCheckout
  <1>5. p \in Rows \ disturbed =>
           /\ previews'[p].status = "done" => worker'.pc = "idle" /\ (Serves(p)' \/ Leaving(p))
           /\ worker'.pc = "deploy" => (worker'.built = source'[p] /\ worker'.built > 0) \/ Leaving(p)
           /\ worker'.pc \in {"ensure", "route", "finish"} => Serves(p)' \/ Leaving(p)
    BY <1>2, <1>3, RunIs DEF Serves, Restated
  <1>6. \A q \in Ids : q # p => services'[q] = services[q] /\ source'[q] = source[q] /\ previews'[q] = previews[q]
    BY <1>3 DEF Restated
  <1>7. Served'
    BY <1>1, <1>2, <1>3, <1>5, <1>6, RunServed
  <1> QED
    BY <1>1, <1>4, <1>7, RunApplication DEF CurrentInv

LEMMA MarkErroredCurrent == ASSUME Constants, Types, CurrentInv, MarkErrored PROVE CurrentInv'
  <1>1. RunStep
    BY DEF RunStep
  <1>2. PICK p \in Ids : p = worker.preview
    BY Before DEF Workers
  <1>3. /\ worker.pc = "mark" /\ worker'.pc = "idle"
        /\ UNCHANGED <<services, source, queue, missed>>
        /\ \E r : Restated(previews, previews', p, "error", r)
    <2>1. missed' = missed
      BY Zenon DEF MarkErrored, rest
    <2> QED
      BY <1>2, <2>1, MarkErroredDoes, NoRunIs
  <1>4. Fetched'
    BY <1>1, <1>2, <1>3, RunFetched DEF BeforeCheckout
  <1>5. p \in Rows \ disturbed =>
           /\ previews'[p].status = "done" => worker'.pc = "idle" /\ (Serves(p)' \/ Leaving(p))
           /\ worker'.pc = "deploy" => (worker'.built = source'[p] /\ worker'.built > 0) \/ Leaving(p)
           /\ worker'.pc \in {"ensure", "route", "finish"} => Serves(p)' \/ Leaving(p)
    BY <1>2, <1>3, RunIs DEF Serves, Restated
  <1>6. \A q \in Ids : q # p => services'[q] = services[q] /\ source'[q] = source[q] /\ previews'[q] = previews[q]
    BY <1>3 DEF Restated
  <1>7. Served'
    BY <1>1, <1>2, <1>3, <1>5, <1>6, RunServed
  <1> QED
    BY <1>1, <1>4, <1>7, RunApplication DEF CurrentInv

LEMMA CheckoutCurrent == ASSUME Constants, Types, CurrentInv, Checkout PROVE CurrentInv'
  <1>1. RunStep /\ Rows' = Rows /\ req' = req /\ pulls' = pulls
    BY RunKeeps DEF RunStep
  <1>2. PICK p \in Ids : p = worker.preview
    BY Before DEF Workers
  <1>3. /\ worker.pc = "checkout" /\ worker'.preview = p /\ worker'.pc = "build"
        /\ UNCHANGED <<previews, services, queue>>
    BY <1>2, CheckoutDoes DEF Stepped
  <1>4. IF worker.type = "deploy" /\ Present(p)
        THEN source' = [source EXCEPT ![p] = pulls[previews[p].pr].head] /\ missed' = missed \ {p}
        ELSE UNCHANGED <<source, missed>>
    BY <1>2, Zenon DEF Checkout
  <1>5. /\ \A q \in Ids : q # p => source'[q] = source[q]
        /\ missed \ {p} \subseteq missed'
        /\ worker.type = "deploy" /\ Present(p) => source'[p] = pulls[previews[p].pr].head
        /\ ~ (worker.type = "deploy" /\ Present(p)) => UNCHANGED <<source, missed>>
    BY <1>4, Before
  <1>6. ASSUME NEW q \in Rows, q \notin missed'
       PROVE  source'[q] \in {0, pulls[previews[q].pr].head} \/ Coming(q)'
    <2>1. q \in Ids /\ Present(q)
      BY DEF Rows
    <2>2. CASE q = p /\ worker.type = "deploy"
      BY <1>5, <2>1, <2>2
    <2>3. CASE ~ (q = p /\ worker.type = "deploy")
      <3>1. source'[q] = source[q] /\ q \notin missed
        BY <1>5, <1>6, <2>1, <2>3
      <3>2. ASSUME Coming(q) PROVE Coming(q)'
        <4>1. ASSUME NEW d \in Clients, PushedBy(d, q) PROVE Coming(q)'
          BY <1>1, <1>3, <4>1 DEF PushedBy, Coming, PlaceOf
        <4>2. CASE Job(q, "deploy") \in Waiting(queue)
          BY <1>3, <4>2 DEF Coming, Job
        <4>3. ~ BeforeCheckout(q)
          BY <1>2, <2>3 DEF BeforeCheckout
        <4> QED
          BY <3>2, <4>1, <4>2, <4>3 DEF Coming
      <3> QED
        BY <3>1, <3>2, <1>6 DEF CurrentInv, Fetched
    <2> QED
      BY <2>2, <2>3
  <1>7. Fetched'
    BY <1>1, <1>3, <1>6 DEF Fetched
  <1>8. p \in Rows \ disturbed => previews[p].status # "done"
    BY <1>2, <1>3, RunIs
  <1>9. Served'
    BY <1>1, <1>2, <1>3, <1>5, <1>8, RunServed
  <1> QED
    BY <1>1, <1>7, <1>9, RunApplication DEF CurrentInv

LEMMA StepCurrent ==
    ASSUME Constants, Types, CurrentInv, [Next]_preview
    PROVE  CurrentInv'
  <1>1. CASE TakeJob
    BY <1>1, TakeJobCurrent
  <1>2. CASE BeginRun
    BY <1>2, BeginRunCurrent
  <1>3. CASE Announce
    BY <1>3, AnnounceCurrent
  <1>4. CASE Checkout
    BY <1>4, CheckoutCurrent
  <1>5. CASE Build
    BY <1>5, BuildCurrent
  <1>6. CASE Deploy
    BY <1>6, DeployCurrent
  <1>7. CASE AssignDomain
    BY <1>7, AssignDomainCurrent
  <1>8. CASE AssignRoute
    BY <1>8, AssignRouteCurrent
  <1>9. CASE Finish
    BY <1>9, FinishCurrent
  <1>10. CASE Catch
    BY <1>10, CatchCurrent
  <1>11. CASE MarkErrored
    BY <1>11, MarkErroredCurrent
  <1>12. CASE \E c \in Handlers : Event(c)
    BY <1>12, EventCurrent
  <1>13. CASE \E c \in Users : Call(c)
    BY <1>13, CallCurrent
  <1>14. CASE \E c \in Clients : Webhook(c) \/ RemovalStep(c) \/ Procedure(c)
    BY <1>14, ClientCurrent DEF Acts
  <1>15. CASE UNCHANGED preview
    <2>1. UNCHANGED <<application, pulls, previews, services, source, queue, worker, req, missed, disturbed>>
      BY <1>15, Zenon DEF preview
    <2>2. /\ Rows' = Rows /\ \A c : PlaceOf(c)' = PlaceOf(c)
          /\ \A p : (Active(p)' <=> Active(p)) /\ (Finishing(p)' <=> Finishing(p)) /\ (Serves(p)' <=> Serves(p))
          /\ \A p : Leaving(p)' <=> Leaving(p)
      BY <2>1, LeavingStays DEF Rows, Present, PlaceOf, Active, Finishing, Serves
    <2>3. \A p : Coming(p)' <=> Coming(p)
      BY <2>1, <2>2 DEF Coming, PushedBy, BeforeCheckout, Waiting, Job
    <2> QED
      BY <2>1, <2>2, <2>3 DEF CurrentInv, Fetched, Served
  <1> QED
    BY <1>1, <1>2, <1>3, <1>4, <1>5, <1>6, <1>7, <1>8, <1>9, <1>10, <1>11, <1>12, <1>13, <1>14, <1>15 DEF Next, RunStep

\* At rest, a preview shown as done runs its branch's newest commit (myQueue.add of
\* a preview whose job waits or runs, and the worker's preview branch), for any
\* events, procedures and failures, unless a push was dropped or a removal was not
\* completed.
THEOREM DoneCurrent == ASSUME Constants PROVE Spec => []DoneIsCurrent
  <1>1. Init => Types /\ CurrentInv
    <2>1. Init => CurrentInv
      BY DEF Init, CurrentInv, Fetched, Served, Rows, Present
    <2> QED
      BY <2>1, InitTypes
  <1>2. Types /\ CurrentInv /\ [Next]_preview => Types' /\ CurrentInv'
    BY StepTypes, StepCurrent
  <1>3. ASSUME Types, CurrentInv PROVE DoneIsCurrent
    <2>1. SUFFICES ASSUME AtRest, NEW p \in Rows \ (missed \cup disturbed), previews[p].status = "done", ~ Queued(p)
                   PROVE  services[p] = pulls[previews[p].pr].head
      BY DEF DoneIsCurrent
    <2>2. \A c \in Clients : PlaceOf(c) = "rest"
      BY <2>1 DEF AtRest, PlaceOf, Place
    <2>3. ~ Leaving(p)
      BY <2>2 DEF Leaving
    <2>4. Job(p, "deploy") \notin Waiting(queue)
      BY <2>1 DEF Queued, Waiting, Job
    <2>5. ~ Coming(p)
      BY <2>1, <2>2, <2>4 DEF Coming, PushedBy, BeforeCheckout, AtRest
    <2>6. source[p] \in {0, pulls[previews[p].pr].head}
      BY <1>3, <2>1, <2>5 DEF CurrentInv, Fetched
    <2>7. services[p] = source[p] /\ services[p] > 0
      BY <1>3, <2>1, <2>3 DEF CurrentInv, Served, Serves
    <2> QED
      BY <2>6, <2>7
  <1> QED
    BY <1>1, <1>2, <1>3, PTL DEF Spec

=============================================================================
