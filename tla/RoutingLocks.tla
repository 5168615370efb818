---------------------------- MODULE RoutingLocks ----------------------------
(***************************************************************************)
(* How deployments, service operations and domain changes keep out of each *)
(* other's way when they rewrite the routes of a Compose service.  Each    *)
(* mutation runs inside a database transaction that takes PostgreSQL       *)
(* advisory locks (compose-routing:<id>, domain-routing:<id>); a            *)
(* transaction pins one connection of the pool, also while it waits for a   *)
(* lock, and the work done under the locks queries through the same pool.   *)
(*                                                                         *)
(* A client is the deployment worker or one request handler.  What a        *)
(* mutation does to files, routers and DNS is left out; of its effects the  *)
(* model keeps which Compose service each domain is attached to.            *)
(***************************************************************************)
EXTENDS Integers, FiniteSets

CONSTANTS
    Composes,      \* Compose services, as numbers: locks are taken in order
    Domains,       \* domain rows
    Clients,       \* concurrent mutations
    Kinds,         \* the mutations they perform
    PoolSize,      \* connections of the database pool (postgres.js: 10)
    Unattached,    \* a domain that belongs to no Compose service
    Fresh,         \* a domain row that has not been created yet
    Absent         \* a domain row that has been removed; its id is never used again

VARIABLES
    attached,      \* domain.composeId of each domain row
    tx,            \* each client's transactions: [open, held]
    op             \* what each client is doing

vars == <<attached, tx, op>>

Attachments == Composes \cup {Unattached, Fresh, Absent}

\* service: startCompose, stopCompose, removeCompose.
\* create: createDomain and provisionServiceDomain on a Compose service, and
\*         deployCompose, which gives the service its default domain.
\* domain: the router's update, assignDomainToService, unassignDomain and
\*         removeDomainById (their new attachment is op.to).
\* rebuild: rebuildCompose.
AllKinds == {"service", "create", "domain", "rebuild"}

ASSUME LocksAssumption ==
    /\ Composes \subseteq Nat
    /\ {Unattached, Fresh, Absent} \cap Nat = {}
    /\ Unattached # Fresh /\ Unattached # Absent /\ Fresh # Absent
    /\ Kinds \subseteq AllKinds
    /\ PoolSize \in Nat \ {0}

ComposeLock(x) == <<"compose-routing", x>>
DomainLock(d) == <<"domain-routing", d>>
Locks == {ComposeLock(x) : x \in Composes} \cup {DomainLock(d) : d \in Domains}

\* A client has at most two transactions at a time, one inside the other.
Depths == {1, 2}
Closed == [open |-> FALSE, held |-> {}]
Idle == [kind |-> "none", pc |-> "idle", depth |-> 1, dom |-> Absent, to |-> Unattached, todo |-> {}]

InUse == {s \in Clients \X Depths : tx[s[1]][s[2]].open}
FreeConnections == PoolSize - Cardinality(InUse)
Free(lk) == \A c \in Clients, n \in Depths : lk \notin tx[c][n].held

Init ==
    /\ attached \in [Domains -> Attachments]
    /\ tx = [c \in Clients |-> [n \in Depths |-> Closed]]
    /\ op = [c \in Clients |-> Idle]

Goto(c, pc) == op' = [op EXCEPT ![c].pc = pc]

\* A mutation arrives.  A domain mutation knows its domain and the target it
\* was given; all others know their Compose service.
Begin(c) ==
    /\ op[c].pc = "idle"
    /\ \/ \E kind \in Kinds \ {"domain"}, x \in Composes :
            op' = [op EXCEPT ![c] = [Idle EXCEPT !.kind = kind, !.pc = "connect", !.to = x, !.todo = {x}]]
       \/ /\ "domain" \in Kinds
          /\ \E d \in Domains, x \in Attachments \ {Fresh} :
                /\ attached[d] \notin {Fresh, Absent}
                /\ op' = [op EXCEPT ![c] = [Idle EXCEPT !.kind = "domain", !.pc = "connect", !.dom = d,
                                                        !.to = x, !.todo = {x} \cap Composes]]
    /\ UNCHANGED <<attached, tx>>

\* db.transaction: take a connection out of the pool.
Connect(c) ==
    /\ op[c].pc = "connect"
    /\ FreeConnections > 0
    /\ tx' = [tx EXCEPT ![c][op[c].depth].open = TRUE]
    /\ Goto(c, IF op[c].kind = "domain" THEN "lockDomain" ELSE "lockComposes")
    /\ UNCHANGED <<attached>>

\* pg_advisory_xact_lock on the domain ...
LockDomain(c) ==
    /\ op[c].pc = "lockDomain"
    /\ Free(DomainLock(op[c].dom))
    /\ tx' = [tx EXCEPT ![c][1].held = @ \cup {DomainLock(op[c].dom)}]
    /\ Goto(c, "readDomain")
    /\ UNCHANGED attached

\* Mutant: a domain without a service is not filtered out.
ReadDomainUnfiltered(c) ==
    /\ op[c].pc = "readDomain"
    /\ op' = [op EXCEPT ![c].pc = "lockComposes", ![c].todo = @ \cup {attached[op[c].dom]}]
    /\ UNCHANGED <<attached, tx>>

\* Mutant: only the target is locked, not the service the domain comes from.
ReadDomainTargetOnly(c) ==
    /\ op[c].pc = "readDomain"
    /\ Goto(c, "lockComposes")
    /\ UNCHANGED <<attached, tx>>

\* ... then, on the same connection, the service the domain is attached to now.
ReadDomain(c) ==
    /\ op[c].pc = "readDomain"
    /\ op' = [op EXCEPT ![c].pc = "lockComposes",
                        ![c].todo = @ \cup ({attached[op[c].dom]} \cap Composes)]
    /\ UNCHANGED <<attached, tx>>

\* Mutant: the locks are taken in no particular order.
LockComposeUnsorted(c) ==
    /\ op[c].pc = "lockComposes"
    /\ \E x \in op[c].todo :
        /\ Free(ComposeLock(x))
        /\ tx' = [tx EXCEPT ![c][op[c].depth].held = @ \cup {ComposeLock(x)}]
        /\ op' = [op EXCEPT ![c].todo = @ \ {x}]
    /\ UNCHANGED attached

\* pg_advisory_xact_lock on each Compose service, in order.
LockCompose(c) ==
    /\ op[c].pc = "lockComposes"
    /\ \E x \in op[c].todo :
        /\ \A y \in op[c].todo : x <= y
        /\ Free(ComposeLock(x))
        /\ tx' = [tx EXCEPT ![c][op[c].depth].held = @ \cup {ComposeLock(x)}]
        /\ op' = [op EXCEPT ![c].todo = @ \ {x}]
    /\ UNCHANGED attached

\* rebuildCompose calls ensureDefaultServiceDomain without saying that it holds
\* the lock: a second transaction for the same lock begins.
LockAgain(c) ==
    /\ op[c].kind = "rebuild" /\ op[c].depth = 1
    /\ op' = [op EXCEPT ![c].pc = "connect", ![c].depth = 2, ![c].todo = {op[c].to}]

\* The mutation itself: it needs further connections of the pool for its
\* queries, and it may fail and change nothing.
Operate(c) ==
    /\ op[c].pc = "lockComposes" /\ op[c].todo = {}
    /\ FreeConnections > 0
    /\ \/ UNCHANGED attached
       \/ /\ op[c].kind = "create" \/ op[c].depth = 2
          /\ \E d \in Domains : attached[d] = Fresh /\ attached' = [attached EXCEPT ![d] = op[c].to]
       \/ /\ op[c].kind = "domain" /\ attached[op[c].dom] # Absent
          /\ attached' = [attached EXCEPT ![op[c].dom] = op[c].to]
    /\ Goto(c, "commit") \/ LockAgain(c)
    /\ UNCHANGED tx

\* COMMIT or ROLLBACK: the locks and the connection are given back.
Commit(c) ==
    /\ op[c].pc = "commit"
    /\ tx' = [tx EXCEPT ![c][op[c].depth] = Closed]
    /\ op' = [op EXCEPT ![c] = IF @.depth = 2 THEN [@ EXCEPT !.depth = 1] ELSE Idle]
    /\ UNCHANGED attached

Advance(c) == Connect(c) \/ LockDomain(c) \/ ReadDomain(c) \/ LockCompose(c) \/ Operate(c) \/ Commit(c)

Next == \E c \in Clients : Begin(c) \/ Advance(c)

Spec == Init /\ [][Next]_vars

\* Both the pool and PostgreSQL serve waiters first come, first served, so a
\* client whose turn comes again and again is served: strong fairness.
FairSpec == Spec /\ \A c \in Clients : SF_vars(Advance(c))

-----------------------------------------------------------------------------
(* Properties.                                                             *)

TypeOK ==
    /\ attached \in [Domains -> Attachments]
    /\ tx \in [Clients -> [Depths -> [open : BOOLEAN, held : SUBSET Locks]]]
    /\ op \in [Clients -> [kind : Kinds \cup {"none"},
                           pc : {"idle", "connect", "lockDomain", "readDomain", "lockComposes", "commit"},
                           depth : Depths, dom : Domains \cup {Absent}, to : Attachments,
                           todo : SUBSET Composes]]

\* The Compose services whose locks a client holds.
Mutating(c) == {x \in Composes : \E n \in Depths : ComposeLock(x) \in tx[c][n].held}

\* Routes are mutated as if each mutation had its services to itself, and no
\* domain leaves or enters a service that its mutation does not hold, although
\* the attachment is read while other mutations are under way.
Serial == INSTANCE SerialRouting WITH mutating <- [c \in Clients |-> Mutating(c)]
ImplementsSerialRouting == Serial!Spec

\* Nobody can go on: every connection is taken, a mutation that has its locks
\* wants a further one for its queries, and every other transaction waits for a
\* connection or for a lock that is not free.
WantsConnection(c) == op[c].pc = "connect" \/ (op[c].pc = "lockComposes" /\ op[c].todo = {})
WantsLock(c) ==
    \/ op[c].pc = "lockDomain" /\ ~ Free(DomainLock(op[c].dom))
    \/ op[c].pc = "lockComposes" /\ \E x \in op[c].todo :
            (\A y \in op[c].todo : x <= y) /\ ~ Free(ComposeLock(x))
Exhausted ==
    /\ FreeConnections = 0
    /\ \E c \in Clients : op[c].pc = "lockComposes" /\ op[c].todo = {}
    /\ \A c \in Clients : op[c].pc # "idle" => WantsConnection(c) \/ WantsLock(c)

\* A mutation that has begun ends, unless a redeploy of a Compose service is
\* under way or the waiting transactions exhaust the pool: whatever else happens,
\* the order of the locks keeps mutations from waiting for each other.
MutationEnds ==
    \A c \in Clients : op[c].pc # "idle"
        ~> op[c].pc = "idle" \/ Exhausted \/ \E b \in Clients : op[b].kind = "rebuild"

\* A redeploy ends like any other mutation, its default domain being non-fatal
\* (ensureComposeDefaultDomainNonFatal: "deployed without updating its public
\* domain").
RedeployEnds == \A c \in Clients : op[c].kind = "rebuild" ~> op[c].kind # "rebuild"
=============================================================================
