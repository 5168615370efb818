------------------------- MODULE PreviewDeployments -------------------------
(***************************************************************************)
(* The preview deployments of one application: the pull-request webhooks that *)
(* create, redeploy and remove them, the procedures of the API, their jobs in *)
(* the deployment queue and the worker's preview branch, and on the server    *)
(* the Swarm services and the files that route to them.  One row per preview;  *)
(* its deployment rows are abstracted to the newest, the only one that may     *)
(* say "running".  The cancellation of a run is left out, and so are crashes;  *)
(* an event "reopened" does what "opened" does.                              *)
(***************************************************************************)
EXTENDS Naturals, Sequences, FiniteSets

CONSTANTS
    PullRequests,    \* the pull requests of the repository
    Handlers,        \* webhook handlers that may be under way
    Users,           \* API procedures that may be under way
    Operations,      \* the events and procedures of this instance
    Failing,         \* what may fail: "comment", "log", "build", "dns", "service",
                     \* "deployments", "code", "route", "row"
    PreviewLimit,    \* the application's previewLimit
    MaxPreviews,     \* bound: preview rows ever inserted
    MaxCalls         \* bound: events and procedures begun

VARIABLES
    application,     \* whether the application's row exists
    pulls,           \* on GitHub: whether each pull request is open, its newest commit
    previews,        \* the preview rows
    domains,         \* the previews that have a domain row
    routes,          \* the previews whose Traefik file is on the server
    services,        \* the commit each preview's Swarm service runs, 0 for no service
    source,          \* the commit each preview's checkout holds, 0 for no checkout
    queue,           \* the waiting jobs
    worker,          \* the worker: its step, job and whether the row is there
    req,             \* each handler's and procedure's local state
    missed,          \* history: previews with a push since their checkout whose
                     \* job was never added, was cancelled or failed before it
    disturbed,       \* history: previews whose removal failed in a step or met
                     \* their run or creation, or whose row went by a cascade
    inserted,        \* how much of MaxPreviews is used up
    calls            \* how much of MaxCalls is used up

Clients == Handlers \cup Users
preview == <<application, pulls, previews, domains, routes, services, source, queue, worker, req,
             missed, disturbed, inserted, calls>>
world == <<application, pulls, previews, domains, routes, services, source>>
rest == <<missed, disturbed, inserted, calls>>

Ids == 1..MaxPreviews
Statuses == {"idle", "running", "done", "error"}
RunStatuses == {"none", "running", "done", "error"}
NoRow == [pr |-> "none", status |-> "idle", run |-> "none"]
Present(p) == previews[p] # NoRow
Rows == {p \in Ids : Present(p)}
RowsOf(pr) == {p \in Rows : previews[p].pr = pr}

Events == {"opened", "synchronize", "labeled", "unlabeled", "closed"}
Removal == <<"dns", "service", "deployments", "code", "unroute", "dropRow", "nextRemoval">>
Program(op) ==
    CASE op \in {"opened", "synchronize", "labeled", "unlabeled"} ->
            <<"apps", "lookup", "comment", "insert", "ensure", "route", "enqueue">>
      [] op = "closed" -> <<"list", "nextRemoval">>
      [] op = "delete" -> <<"find", "nextRemoval">>
      [] op = "redeploy" -> <<"find", "enqueue">>
      [] op = "cancel" -> <<"dequeue">>
      [] op = "deleteDomain" -> <<"find", "dropDomain">>
      [] op = "deleteApplication" ->
            <<"dequeue", "notRunning", "notActive", "dequeue", "dropDomains", "dropApplication">>

Rest == [op |-> "none", pr |-> CHOOSE pr \in PullRequests : TRUE, preview |-> 1, left |-> {}, todo |-> <<>>]
NoRun == [pc |-> "idle", preview |-> 1, type |-> "deploy", built |-> 0]
At(c, step) == req[c].todo # <<>> /\ Head(req[c].todo) = step
Set(c, r) == req' = [req EXCEPT ![c] = IF r.todo = <<>> THEN Rest ELSE r]
Go(c, r) == Set(c, [r EXCEPT !.todo = Tail(@)])
Continue(c) == Go(c, req[c])
Jump(c, todo) == Set(c, [req[c] EXCEPT !.todo = todo])
Throw(c) == Jump(c, <<>>)

Init ==
    /\ application = TRUE
    /\ pulls = [pr \in PullRequests |-> [open |-> FALSE, head |-> 0]]
    /\ previews = [p \in Ids |-> NoRow]
    /\ domains = {} /\ routes = {}
    /\ services = [p \in Ids |-> 0] /\ source = [p \in Ids |-> 0]
    /\ queue = <<>> /\ worker = NoRun
    /\ req = [c \in Clients |-> Rest]
    /\ missed = {} /\ disturbed = {} /\ inserted = 0 /\ calls = 0

-----------------------------------------------------------------------------
(* Events of GitHub and calls of users.                                     *)

\* An event changes the pull request as it is sent; what the webhook does follows.
Event(c) ==
    /\ req[c].todo = <<>> /\ calls < MaxCalls
    /\ \E op \in Operations \cap Events, pr \in PullRequests :
        /\ pulls[pr].open = (op # "opened")
        /\ pulls' = [pulls EXCEPT ![pr] = [open |-> op # "closed",
                                           head |-> IF op \in {"opened", "synchronize"} THEN @.head + 1 ELSE @.head]]
        /\ Set(c, [Rest EXCEPT !.op = op, !.pr = pr, !.todo = Program(op)])
    /\ calls' = calls + 1
    /\ UNCHANGED <<application, previews, domains, routes, services, source, queue, worker, missed, disturbed, inserted>>

Call(c) ==
    /\ req[c].todo = <<>> /\ calls < MaxCalls /\ application
    /\ \E op \in Operations \ Events, p \in Ids :
        /\ IF op \in {"delete", "redeploy", "deleteDomain"}
           THEN Present(p)
           ELSE p = 1
        /\ op = "deleteDomain" => p \in domains
        /\ Set(c, [Rest EXCEPT !.op = op, !.preview = p, !.todo = Program(op)])
    /\ calls' = calls + 1
    /\ UNCHANGED <<world, queue, worker, missed, disturbed, inserted>>

-----------------------------------------------------------------------------
(* The webhook: the applications with their previews, the preview of this    *)
(* pull request, and a new one where there is none.                          *)

\* Whether this pull request has a preview comes after the limit.
FindApplications(c) ==
    /\ At(c, "apps")
    /\ LET over == Cardinality(Rows) > PreviewLimit
       IN /\ IF ~ application \/ over THEN Throw(c) ELSE Continue(c)
          /\ missed' = IF over THEN missed \cup RowsOf(req[c].pr) ELSE missed
    /\ UNCHANGED <<world, queue, worker, disturbed, inserted, calls>>

\* Mutant: every event gets a preview of its own.
LookupNothing(c) ==
    /\ At(c, "lookup")
    /\ IF req[c].op = "unlabeled" THEN Throw(c) ELSE Continue(c)
    /\ UNCHANGED <<world, queue, worker, rest>>

Lookup(c) ==
    /\ At(c, "lookup")
    /\ LET found == RowsOf(req[c].pr)
       IN \/ \E p \in found :
                /\ Set(c, [req[c] EXCEPT !.preview = p, !.todo = <<"enqueue">>])
                /\ missed' = missed \cup (found \ {p})
          \/ /\ found = {}
             /\ IF req[c].op = "unlabeled" THEN Throw(c) ELSE Continue(c)
             /\ UNCHANGED missed
    /\ UNCHANGED <<world, queue, worker, disturbed, inserted, calls>>

\* The comment on GitHub precedes the row.
Comment(c) ==
    /\ At(c, "comment")
    /\ Continue(c) \/ ("comment" \in Failing /\ Throw(c))
    /\ UNCHANGED <<world, queue, worker, rest>>

InsertPreview(c) ==
    /\ At(c, "insert") /\ inserted < MaxPreviews
    /\ IF application
       THEN /\ inserted' = inserted + 1
            /\ previews' = [previews EXCEPT ![inserted + 1] = [NoRow EXCEPT !.pr = req[c].pr]]
            /\ Go(c, [req[c] EXCEPT !.preview = inserted + 1])
       ELSE Throw(c) /\ UNCHANGED <<previews, inserted>>
    /\ UNCHANGED <<application, pulls, domains, routes, services, source, queue, worker, missed, disturbed, calls>>

\* The host is made of the application and the pull request; a unique index
\* keeps it to one domain.
HostTaken(p) == \E q \in domains : previews[q].pr = previews[p].pr

\* ensurePreviewDeploymentDomain throws: no row, a host already claimed, or the
\* DNS record could not be published and the new domain was taken back.
CannotEnsure(p) == ~ Present(p) \/ (p \notin domains /\ (HostTaken(p) \/ "dns" \in Failing))
CanEnsure(p) == Present(p) /\ (p \in domains \/ ~ HostTaken(p))

EnsureDomain(c) ==
    /\ At(c, "ensure")
    /\ \/ CanEnsure(req[c].preview) /\ domains' = domains \cup {req[c].preview} /\ Continue(c)
       \/ CannotEnsure(req[c].preview) /\ Throw(c) /\ UNCHANGED domains
    /\ UNCHANGED <<application, pulls, previews, routes, services, source, queue, worker, rest>>

\* manageDomain needs no row: it writes the file.
WriteRoute(c) ==
    /\ At(c, "route")
    /\ routes' = routes \cup {req[c].preview} /\ Continue(c)
    /\ UNCHANGED <<application, pulls, previews, domains, services, source, queue, worker, rest>>

-----------------------------------------------------------------------------
(* The queue.                                                               *)

Job(p, type) == [preview |-> p, type |-> type]
Queued(p) == \E i \in DOMAIN queue : queue[i].preview = p
Active(p) == worker.pc # "idle" /\ worker.preview = p

\* myQueue.add is a no-op while a job of the same preview waits or runs.  A push
\* dropped because of a waiting job is still deployed by it; one that finds its
\* job running may be too late for its checkout.
Enqueue(c) ==
    /\ At(c, "enqueue")
    /\ LET p == req[c].preview
           type == IF req[c].op = "redeploy" THEN "redeploy" ELSE "deploy"
       IN /\ queue' = IF ~ application \/ Queued(p) \/ Active(p) THEN queue ELSE Append(queue, Job(p, type))
          /\ missed' = IF Active(p) \/ (Queued(p) /\ Job(p, "redeploy") \in {queue[i] : i \in DOMAIN queue})
                       THEN missed \cup {p} ELSE missed
    /\ Continue(c)
    /\ UNCHANGED <<world, worker, disturbed, inserted, calls>>

\* cancelQueuedDeployment of the application takes its previews' jobs along.
Dequeue(c) ==
    /\ At(c, "dequeue")
    /\ queue' = <<>> /\ Continue(c)
    /\ missed' = missed \cup {p \in Ids : \E i \in DOMAIN queue : queue[i] = Job(p, "deploy")}
    /\ UNCHANGED <<world, worker, disturbed, inserted, calls>>

-----------------------------------------------------------------------------
(* Removal of a preview, of its domain, of the application.                  *)

FindPreview(c) ==
    /\ At(c, "find")
    /\ IF Present(req[c].preview) THEN Go(c, [req[c] EXCEPT !.left = {req[c].preview}]) ELSE Throw(c)
    /\ UNCHANGED <<world, queue, worker, rest>>

ListPreviews(c) ==
    /\ At(c, "list")
    /\ Go(c, [req[c] EXCEPT !.left = RowsOf(req[c].pr)])
    /\ UNCHANGED <<world, queue, worker, rest>>

\* A webhook has inserted the preview and not finished it; a removal is under way.
BeingMade(p) == \E c \in Clients : (At(c, "ensure") \/ At(c, "route")) /\ req[c].preview = p
BeingRemoved(p) ==
    \E c \in Clients : req[c].preview = p /\ \E i \in 1..(Len(Removal) - 1) : At(c, Removal[i])

\* One after the other; a preview that cannot be removed is passed over.
NextRemoval(c) ==
    /\ At(c, "nextRemoval")
    /\ \/ req[c].left = {} /\ Throw(c) /\ UNCHANGED disturbed
       \/ \E p \in req[c].left :
            /\ Set(c, [req[c] EXCEPT !.preview = p, !.left = @ \ {p}, !.todo = Removal])
            /\ disturbed' = IF Active(p) \/ BeingMade(p) THEN disturbed \cup {p} ELSE disturbed
    /\ UNCHANGED <<world, queue, worker, missed, inserted, calls>>

\* Without its row there is nothing to remove; a DNS record that cannot be
\* removed ends the removal before anything else is touched.
RemoveRecord(c) ==
    /\ At(c, "dns")
    /\ LET p == req[c].preview
       IN \/ Present(p) /\ Continue(c)
          \/ /\ ~ Present(p) \/ ("dns" \in Failing /\ p \in domains)
             /\ Jump(c, <<"nextRemoval">>)
    /\ UNCHANGED <<world, queue, worker, rest>>

\* Mutant: the application keeps its own name, and the preview's service stays.
RemoveNamesake(c) ==
    /\ At(c, "service") /\ Continue(c)
    /\ UNCHANGED <<application, pulls, previews, domains, routes, services, source, queue, worker, rest>>

\* The rest is attempted whatever fails.
RemoveService(c) ==
    /\ At(c, "service") /\ Continue(c)
    /\ LET p == req[c].preview
       IN \/ services' = [services EXCEPT ![p] = 0] /\ UNCHANGED disturbed
          \/ "service" \in Failing /\ disturbed' = disturbed \cup {p} /\ UNCHANGED services
    /\ UNCHANGED <<application, pulls, previews, domains, routes, source, queue, worker, missed, inserted, calls>>

\* The deployment rows and their logs.
RemoveDeployments(c) ==
    /\ At(c, "deployments") /\ Continue(c)
    /\ LET p == req[c].preview
       IN \/ previews' = IF Present(p) THEN [previews EXCEPT ![p].run = "none"] ELSE previews
          \/ "deployments" \in Failing /\ UNCHANGED previews
    /\ UNCHANGED <<application, pulls, domains, routes, services, source, queue, worker, rest>>

\* The checkout.
RemoveCode(c) ==
    /\ At(c, "code") /\ Continue(c)
    /\ \/ source' = [source EXCEPT ![req[c].preview] = 0]
       \/ "code" \in Failing /\ UNCHANGED source
    /\ UNCHANGED <<application, pulls, previews, domains, routes, services, queue, worker, rest>>

RemoveRoute(c) ==
    /\ At(c, "unroute") /\ Continue(c)
    /\ LET p == req[c].preview
       IN \/ routes' = routes \ {p} /\ UNCHANGED disturbed
          \/ "route" \in Failing /\ disturbed' = disturbed \cup {p} /\ UNCHANGED routes
    /\ UNCHANGED <<application, pulls, previews, domains, services, source, queue, worker, missed, inserted, calls>>

\* The domain goes with the row; a row that stays has lost its service.
DropRow(c) ==
    /\ At(c, "dropRow") /\ Continue(c)
    /\ LET p == req[c].preview
       IN \/ /\ previews' = [previews EXCEPT ![p] = NoRow]
             /\ domains' = domains \ {p}
             /\ UNCHANGED disturbed
          \/ "row" \in Failing /\ disturbed' = disturbed \cup {p} /\ UNCHANGED <<previews, domains>>
    /\ UNCHANGED <<application, pulls, routes, services, source, queue, worker, missed, inserted, calls>>

\* Removing a domain removes its route, then its row, and the preview's row
\* with it, which refers to the domain with ON DELETE CASCADE.
DropDomain(c) ==
    /\ At(c, "dropDomain") /\ Continue(c)
    /\ LET p == req[c].preview
       IN /\ routes' = IF p \in domains THEN routes \ {p} ELSE routes
          /\ previews' = IF p \in domains THEN [previews EXCEPT ![p] = NoRow] ELSE previews
          /\ domains' = domains \ {p}
          /\ disturbed' = IF p \in domains THEN disturbed \cup {p} ELSE disturbed
    /\ UNCHANGED <<application, pulls, services, source, queue, worker, missed, inserted, calls>>

CheckNotRunning(c) ==
    /\ At(c, "notRunning")
    /\ IF application /\ \A p \in Rows : previews[p].status # "running"
       THEN Go(c, [req[c] EXCEPT !.left = Rows]) ELSE Throw(c)
    /\ UNCHANGED <<world, queue, worker, rest>>

CheckNotActive(c) ==
    /\ At(c, "notActive")
    /\ IF worker.pc = "idle" THEN Continue(c) ELSE Throw(c)
    /\ UNCHANGED <<world, queue, worker, rest>>

\* The domains of the previews read before, one after the other in the code.
DropDomains(c) ==
    /\ At(c, "dropDomains") /\ Continue(c)
    /\ routes' = routes \ (req[c].left \cap domains)
    /\ previews' = [p \in Ids |-> IF p \in req[c].left \cap domains THEN NoRow ELSE previews[p]]
    /\ domains' = domains \ req[c].left
    /\ disturbed' = disturbed \cup (req[c].left \cap domains)
    /\ UNCHANGED <<application, pulls, services, source, queue, worker, missed, inserted, calls>>

DropApplication(c) ==
    /\ At(c, "dropApplication") /\ Continue(c)
    /\ application' = FALSE
    /\ previews' = [p \in Ids |-> NoRow] /\ domains' = {}
    /\ disturbed' = disturbed \cup Rows
    /\ UNCHANGED <<pulls, routes, services, source, queue, worker, missed, inserted, calls>>

-----------------------------------------------------------------------------
(* The worker.                                                              *)

Running(p) == worker.pc = p
Step(pc) == worker' = [worker EXCEPT !.pc = pc]
Status(p, status) == IF Present(p) THEN [previews EXCEPT ![p].status = status] ELSE previews
RowAndStatus(p, outcome) ==
    IF Present(p)
    THEN [previews EXCEPT ![p].status = outcome, ![p].run = IF @ = "none" THEN @ ELSE outcome]
    ELSE previews

TakeJob ==
    /\ worker.pc = "idle" /\ queue # <<>>
    /\ LET p == Head(queue).preview
       IN /\ worker' = [NoRun EXCEPT !.pc = "begin", !.preview = p, !.type = Head(queue).type]
          /\ previews' = Status(p, "running")
          /\ disturbed' = IF BeingRemoved(p) THEN disturbed \cup {p} ELSE disturbed
    /\ queue' = Tail(queue)
    /\ UNCHANGED <<application, pulls, domains, routes, services, source, req, missed, inserted, calls>>

\* A run that ends before its checkout has missed the push it is about.
Miss == missed' = IF worker.type = "deploy" THEN missed \cup {worker.preview} ELSE missed

\* createDeploymentPreview, which throws when the preview is gone; the row of a
\* run before that was left running becomes cancelled.  A log that cannot be
\* begun leaves a row of its own, already failed.
BeginRun ==
    /\ Running("begin")
    /\ LET p == worker.preview
       IN IF application /\ Present(p)
          THEN \/ Step("comment") /\ previews' = [previews EXCEPT ![p].run = "running"] /\ UNCHANGED missed
               \/ /\ "log" \in Failing /\ Step("mark") /\ Miss
                  /\ previews' = [previews EXCEPT ![p].run = "error", ![p].status = "error"]
          ELSE Step("mark") /\ Miss /\ UNCHANGED previews
    /\ UNCHANGED <<application, pulls, domains, routes, services, source, queue, req, disturbed, inserted, calls>>

Announce ==
    /\ Running("comment")
    /\ \/ Step("checkout") /\ UNCHANGED missed
       \/ "comment" \in Failing /\ Step("catch") /\ Miss
    /\ UNCHANGED <<world, queue, req, disturbed, inserted, calls>>

\* Mutant: a checkout that is there is not brought up to date.
CheckoutOnce ==
    /\ Running("checkout") /\ Step("build")
    /\ LET p == worker.preview
       IN IF worker.type = "deploy" /\ Present(p)
          THEN /\ source' = [source EXCEPT ![p] = IF @ = 0 THEN pulls[previews[p].pr].head ELSE @]
               /\ missed' = missed \ {p}
          ELSE UNCHANGED <<source, missed>>
    /\ UNCHANGED <<application, pulls, previews, domains, routes, services, queue, req, disturbed, inserted, calls>>

\* A deployment fetches the branch as it is now, a redeployment nothing.
Checkout ==
    /\ Running("checkout") /\ Step("build")
    /\ LET p == worker.preview
       IN IF worker.type = "deploy" /\ Present(p)
          THEN /\ source' = [source EXCEPT ![p] = pulls[previews[p].pr].head]
               /\ missed' = missed \ {p}
          ELSE UNCHANGED <<source, missed>>
    /\ UNCHANGED <<application, pulls, previews, domains, routes, services, queue, req, disturbed, inserted, calls>>

Build ==
    /\ Running("build")
    /\ LET commit == source[worker.preview]
       IN \/ commit # 0 /\ worker' = [worker EXCEPT !.pc = "deploy", !.built = commit]
          \/ (commit = 0 \/ "build" \in Failing) /\ Step("catch")
    /\ UNCHANGED <<world, queue, req, rest>>

\* A service whose tasks do not get healthy is there all the same.
Deploy ==
    /\ Running("deploy")
    /\ services' = [services EXCEPT ![worker.preview] = worker.built]
    /\ Step("ensure") \/ ("build" \in Failing /\ Step("catch"))
    /\ UNCHANGED <<application, pulls, previews, domains, routes, source, queue, req, rest>>

\* A domain that cannot be assigned is logged and passed over.
AssignDomain ==
    /\ Running("ensure")
    /\ LET p == worker.preview
       IN \/ CanEnsure(p) /\ domains' = domains \cup {p} /\ Step("route")
          \/ CannotEnsure(p) /\ Step("finish") /\ UNCHANGED domains
    /\ UNCHANGED <<application, pulls, previews, routes, services, source, queue, req, rest>>

AssignRoute ==
    /\ Running("route") /\ Step("finish")
    /\ routes' = routes \cup {worker.preview}
    /\ UNCHANGED <<application, pulls, previews, domains, services, source, queue, req, rest>>

Finish ==
    /\ Running("finish")
    /\ \/ worker' = NoRun /\ previews' = RowAndStatus(worker.preview, "done")
       \/ "comment" \in Failing /\ Step("catch") /\ UNCHANGED previews
    /\ UNCHANGED <<application, pulls, domains, routes, services, source, queue, req, rest>>

\* The comment about the failure comes before the two rows are written.
Catch ==
    /\ Running("catch") /\ Step("mark")
    /\ \/ previews' = RowAndStatus(worker.preview, "error")
       \/ "comment" \in Failing /\ UNCHANGED previews
    /\ UNCHANGED <<application, pulls, domains, routes, services, source, queue, req, rest>>

\* Mutant: the pipeline is trusted to have written the status.
MarkNothing ==
    /\ Running("mark") /\ worker' = NoRun
    /\ UNCHANGED <<world, queue, req, rest>>

\* markDeploymentJobErrored; the job fails.
MarkErrored ==
    /\ Running("mark") /\ worker' = NoRun
    /\ previews' = Status(worker.preview, "error")
    /\ UNCHANGED <<application, pulls, domains, routes, services, source, queue, req, rest>>

RunStep == TakeJob \/ BeginRun \/ Announce \/ Checkout \/ Build \/ Deploy
           \/ AssignDomain \/ AssignRoute \/ Finish \/ Catch \/ MarkErrored

Webhook(c) == FindApplications(c) \/ Lookup(c) \/ Comment(c) \/ InsertPreview(c)
              \/ EnsureDomain(c) \/ WriteRoute(c) \/ Enqueue(c)
RemovalStep(c) == ListPreviews(c) \/ NextRemoval(c) \/ RemoveRecord(c) \/ RemoveService(c)
                  \/ RemoveDeployments(c) \/ RemoveCode(c) \/ RemoveRoute(c) \/ DropRow(c)
Procedure(c) == FindPreview(c) \/ Dequeue(c) \/ CheckNotRunning(c) \/ CheckNotActive(c)
                \/ DropDomain(c) \/ DropDomains(c) \/ DropApplication(c)

Next == \/ RunStep
        \/ \E c \in Handlers : Event(c)
        \/ \E c \in Users : Call(c)
        \/ \E c \in Clients : Webhook(c) \/ RemovalStep(c) \/ Procedure(c)

Spec == Init /\ [][Next]_preview

-----------------------------------------------------------------------------
(* Properties.                                                              *)

\* Every variable keeps to its type.
TypeOK ==
    /\ application \in BOOLEAN
    /\ pulls \in [PullRequests -> [open : BOOLEAN, head : 0..MaxCalls]]
    /\ previews \in [Ids -> {NoRow} \cup [pr : PullRequests, status : Statuses, run : RunStatuses]]
    /\ domains \subseteq Rows /\ routes \subseteq Ids
    /\ missed \subseteq Ids /\ disturbed \subseteq Ids
    /\ services \in [Ids -> 0..MaxCalls] /\ source \in [Ids -> 0..MaxCalls]
    /\ \A i \in DOMAIN queue : queue[i] \in [preview : Ids, type : {"deploy", "redeploy"}]
    /\ \A i, j \in DOMAIN queue : i # j => queue[i].preview # queue[j].preview
    /\ inserted \in 0..MaxPreviews /\ calls \in 0..MaxCalls

AtRest == worker.pc = "idle" /\ \A c \in Clients : req[c].todo = <<>>

\* Once nothing is under way, a preview without a row has neither a service
\* running nor a route (removePreviewDeployment, and a job whose preview was
\* removed while it waited), unless a step of its removal failed, its removal
\* met its run or its creation, or its row went with its domain or application.
NothingLeftBehind ==
    AtRest => \A p \in Ids \ disturbed : ~ Present(p) => services[p] = 0 /\ p \notin routes

\* The webhooks that have found no preview and will make one, and those that
\* have found the application within its limit.
Creating(pr) == {c \in Clients : (At(c, "comment") \/ At(c, "insert")) /\ req[c].pr = pr}
Admitted == {c \in Clients : At(c, "lookup") \/ At(c, "comment") \/ At(c, "insert")}

\* Nothing keeps two webhooks of a pull request apart between the lookup and the
\* insertion: it may have one preview for each webhook handled at a time, and the
\* application that many more than its limit, but never more, in however many
\* rounds the webhooks come.
PreviewsAreBounded ==
    /\ \A pr \in PullRequests :
        Cardinality(RowsOf(pr)) + Cardinality(Creating(pr)) <= Cardinality(Handlers)
    /\ Cardinality(Rows) + Cardinality(Admitted) <= PreviewLimit + Cardinality(Handlers)

\* A preview shown as running is being run; a deployment row left running by a
\* run that is over shows as a failed preview; and a preview shown as done has
\* its service, as long as nothing removes it.
StatusTellsTheRun ==
    \A p \in Rows :
        /\ previews[p].status = "running" => Active(p)
        /\ previews[p].run = "running" /\ ~ Active(p) => previews[p].status = "error"
        /\ previews[p].status = "done" /\ (\A c \in Clients : req[c].todo = <<>>) => services[p] > 0

\* A preview shown as done runs its branch's newest commit, except when the push
\* was dropped (its job was running already, would fetch nothing, was cancelled or
\* failed before the checkout, another preview of the pull request was found, or
\* the application had too many) or a removal was not completed.
DoneIsCurrent ==
    AtRest => \A p \in Rows \ (missed \cup disturbed) :
        previews[p].status = "done" /\ ~ Queued(p) => services[p] = pulls[previews[p].pr].head
==============================================================================
