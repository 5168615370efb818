--------------------------- MODULE Routing_proofs ---------------------------
(***************************************************************************)
(* Proofs about how routes are mutated, in the database (RoutingLocks) and in *)
(* the files on a server (TraefikFiles).                                    *)
(*                                                                         *)
(* RoutingLocks, for any number of services, domains, clients and           *)
(* connections: its types, the exclusion of the locks, that a redeploy which *)
(* takes its own lock again never gets it, and that the routing locks        *)
(* implement SerialRouting.                                                 *)
(*                                                                         *)
(* TraefikFiles, for any number of sites, redirects and writers: types        *)
(* without further assumptions; that no update is lost and no router names a *)
(* missing middleware for redirects that run alone, reads that do not fail,   *)
(* and a lock whose holder is only ever replaced by the one writer left       *)
(* (OneWaiter).                                                             *)
(***************************************************************************)
EXTENDS RoutingLocks, TraefikFiles, FiniteSetTheorems, SequenceTheorems, TLAPS

-----------------------------------------------------------------------------
(* The locks.                                                               *)

\* A lock is held by one transaction.
OneHolder ==
    \A lk \in Locks : \A b, c \in Clients : \A m, n \in Depths :
        lk \in tx[b][m].held /\ lk \in tx[c][n].held => b = c /\ m = n

Locking == {"connect", "lockComposes"}
Holds(c, x) == ComposeLock(x) \in tx[c][1].held

\* A mutation of one Compose service waits for that service's lock or has it.
ServiceOK(c) ==
    op[c].kind \notin {"none", "domain"} /\ op[c].depth = 1 =>
        /\ op[c].to \in Composes
        /\ op[c].pc = "connect" => op[c].to \in op[c].todo
        /\ op[c].pc = "lockComposes" => op[c].to \in op[c].todo \/ Holds(c, op[c].to)

\* The second transaction of a redeploy waits for the lock the first one holds.
SelfBlocked(c) ==
    /\ op[c].depth = 2 => /\ op[c].pc \in Locking /\ op[c].kind = "rebuild"
                          /\ op[c].todo = {op[c].to} /\ op[c].to \in Composes /\ Holds(c, op[c].to)
    /\ tx[c][2].held = {}

\* A mutation of a domain has its lock when it has read the domain's service,
\* and then waits for every service concerned or has it.
DomainOK(c) ==
    /\ op[c].pc \in {"lockDomain", "readDomain"} => op[c].kind = "domain"
    /\ op[c].kind = "domain" =>
          /\ op[c].dom \in Domains /\ op[c].to # Fresh /\ attached[op[c].dom] # Fresh
          /\ op[c].pc \in {"connect", "lockDomain", "readDomain"} => {op[c].to} \cap Composes \subseteq op[c].todo
          /\ op[c].pc \in {"readDomain", "lockComposes"} => DomainLock(op[c].dom) \in tx[c][1].held
          /\ op[c].pc = "lockComposes" =>
                \A x \in {attached[op[c].dom], op[c].to} \cap Composes : x \in op[c].todo \/ Holds(c, x)

LocksInv ==
    /\ TypeOK /\ OneHolder
    /\ \A c \in Clients : ServiceOK(c) /\ SelfBlocked(c) /\ DomainOK(c)

-----------------------------------------------------------------------------
(* Locks and types.                                                        *)

\* Locks of services and domains are different, and each is of one row.
LEMMA LockNames ==
    /\ \A x, y : ComposeLock(x) = ComposeLock(y) => x = y
    /\ \A x, y : DomainLock(x) = DomainLock(y) => x = y
    /\ \A x, y : ComposeLock(x) # DomainLock(y)
    /\ \A x \in Composes : ComposeLock(x) \in Locks
    /\ \A d \in Domains : DomainLock(d) \in Locks
  BY DEF ComposeLock, DomainLock, Locks

Transactions == [Depths -> [open : BOOLEAN, held : SUBSET Locks]]
Operations ==
    [kind : Kinds \cup {"none"},
     pc : {"idle", "connect", "lockDomain", "readDomain", "lockComposes", "commit"},
     depth : Depths, dom : Domains \cup {Absent}, to : Attachments, todo : SUBSET Composes]

\* TypeOK in the names used here.
LEMMA Unfold ==
    TypeOK <=> /\ attached \in [Domains -> Attachments]
               /\ tx \in [Clients -> Transactions]
               /\ op \in [Clients -> Operations]
  BY DEF TypeOK, Transactions, Operations

\* What each step does, client by client.  A step of one client leaves the
\* transactions and the operation of every other alone.
LEMMA OneClient ==
    ASSUME TypeOK, NEW c \in Clients, Begin(c) \/ Advance(c)
    PROVE  \A b \in Clients \ {c} : op'[b] = op[b] /\ tx'[b] = tx[b]
  BY Unfold DEF Begin, Advance, Connect, LockDomain, ReadDomain, LockCompose, Operate, LockAgain, Commit, Goto

\* A mutation begins with the services it knows of still to be locked.
LEMMA BeginEffect ==
    ASSUME TypeOK, NEW c \in Clients, Begin(c)
    PROVE  /\ UNCHANGED <<attached, tx>>
           /\ op'[c] \in Operations /\ op'[c].pc = "connect" /\ op'[c].depth = 1
           /\ \/ /\ op'[c].kind # "domain" /\ op'[c].to \in Composes /\ op'[c].todo = {op'[c].to}
              \/ /\ op'[c].kind = "domain" /\ op'[c].dom \in Domains
                 /\ op'[c].to # Fresh /\ attached[op'[c].dom] # Fresh
                 /\ op'[c].todo = {op'[c].to} \cap Composes
  <1>1. CASE \E kind \in Kinds \ {"domain"}, x \in Composes :
               op' = [op EXCEPT ![c] = [Idle EXCEPT !.kind = kind, !.pc = "connect", !.to = x, !.todo = {x}]]
    <2>1. PICK kind \in Kinds \ {"domain"}, x \in Composes :
               op' = [op EXCEPT ![c] = [Idle EXCEPT !.kind = kind, !.pc = "connect", !.to = x, !.todo = {x}]]
      BY <1>1
    <2>2. op'[c] = [kind |-> kind, pc |-> "connect", depth |-> 1, dom |-> Absent, to |-> x, todo |-> {x}]
      BY <2>1, Unfold DEF Idle
    <2>3. op'[c] \in Operations
      BY <2>2 DEF Operations, Depths, Attachments
    <2>4. /\ op'[c].pc = "connect" /\ op'[c].depth = 1 /\ op'[c].kind # "domain"
          /\ op'[c].to \in Composes /\ op'[c].todo = {op'[c].to}
      BY <2>2
    <2> QED
      BY <2>3, <2>4 DEF Begin
  <1>2. CASE /\ "domain" \in Kinds
             /\ \E d \in Domains, x \in Attachments \ {Fresh} :
                  /\ attached[d] \notin {Fresh, Absent}
                  /\ op' = [op EXCEPT ![c] = [Idle EXCEPT !.kind = "domain", !.pc = "connect", !.dom = d,
                                                          !.to = x, !.todo = {x} \cap Composes]]
    <2>1. PICK d \in Domains, x \in Attachments \ {Fresh} :
                  /\ attached[d] \notin {Fresh, Absent}
                  /\ op' = [op EXCEPT ![c] = [Idle EXCEPT !.kind = "domain", !.pc = "connect", !.dom = d,
                                                          !.to = x, !.todo = {x} \cap Composes]]
      BY <1>2
    <2>2. op'[c] = [kind |-> "domain", pc |-> "connect", depth |-> 1, dom |-> d, to |-> x,
                    todo |-> {x} \cap Composes]
      BY <2>1, Unfold DEF Idle
    <2>3. op'[c] \in Operations
      <3>1. /\ "domain" \in Kinds \cup {"none"} /\ 1 \in Depths /\ d \in Domains \cup {Absent}
            /\ x \in Attachments /\ ({x} \cap Composes) \in SUBSET Composes
        BY <1>2, <2>1 DEF Depths
      <3> QED
        BY <2>2, <3>1 DEF Operations
    <2>4. /\ op'[c].pc = "connect" /\ op'[c].depth = 1 /\ op'[c].kind = "domain"
          /\ op'[c].dom = d /\ op'[c].to = x /\ op'[c].todo = {op'[c].to} \cap Composes
      BY <2>2
    <2> QED
      BY <2>1, <2>3, <2>4 DEF Begin
  <1> QED
    BY <1>1, <1>2 DEF Begin

Transaction == [open : BOOLEAN, held : SUBSET Locks]

\* Changing one transaction of one client.
LEMMA OneTransaction ==
    ASSUME TypeOK, NEW c \in Clients, NEW n \in Depths, NEW new \in Transaction,
           tx' = [tx EXCEPT ![c][n] = new]
    PROVE  /\ tx' \in [Clients -> Transactions]
           /\ tx'[c][n] = new
           /\ \A m \in Depths \ {n} : tx'[c][m] = tx[c][m]
           /\ \A b \in Clients \ {c} : tx'[b] = tx[b]
  BY Unfold DEF Transactions, Transaction

\* Taking a connection changes no lock.
LEMMA ConnectEffect ==
    ASSUME TypeOK, NEW c \in Clients, Connect(c)
    PROVE  /\ UNCHANGED attached /\ op[c].pc = "connect"
           /\ op' = [op EXCEPT ![c].pc = IF op[c].kind = "domain" THEN "lockDomain" ELSE "lockComposes"]
           /\ tx' \in [Clients -> Transactions]
           /\ \A b \in Clients, n \in Depths : tx'[b][n].held = tx[b][n].held
  <1> DEFINE n == op[c].depth
             new == [tx[c][n] EXCEPT !.open = TRUE]
  <1>1. n \in Depths /\ tx[c][n] \in Transaction
    <2>1. n \in Depths
      BY Unfold DEF Operations
    <2> QED
      BY Unfold, <2>1 DEF Transactions, Transaction
  <1>2. tx' = [tx EXCEPT ![c][n] = new]
    BY Unfold, <1>1 DEF Connect, Transactions
  <1>3. new \in Transaction /\ new.held = tx[c][n].held
    <2>1. \A r \in Transaction : [r EXCEPT !.open = TRUE] \in Transaction
                                 /\ [r EXCEPT !.open = TRUE].held = r.held
      BY DEF Transaction
    <2> QED
      BY <1>1, <2>1
  <1> HIDE DEF n, new
  <1>4. /\ tx' \in [Clients -> Transactions]
        /\ tx'[c][n] = new
        /\ \A m \in Depths \ {n} : tx'[c][m] = tx[c][m]
        /\ \A b \in Clients \ {c} : tx'[b] = tx[b]
    BY <1>1, <1>2, <1>3, OneTransaction
  <1>5. \A b \in Clients, m \in Depths : tx'[b][m].held = tx[b][m].held
    BY <1>3, <1>4
  <1> QED
    BY <1>4, <1>5 DEF Connect, Goto

\* A lock is taken by adding it to the locks of a transaction.
LEMMA TakingLock ==
    ASSUME TypeOK, NEW c \in Clients, NEW n \in Depths, NEW lk \in Locks,
           tx' = [tx EXCEPT ![c][n].held = @ \cup {lk}]
    PROVE  /\ tx' \in [Clients -> Transactions]
           /\ tx'[c][n].held = tx[c][n].held \cup {lk}
           /\ \A m \in Depths \ {n} : tx'[c][m] = tx[c][m]
           /\ \A b \in Clients \ {c} : tx'[b] = tx[b]
  <1> DEFINE new == [tx[c][n] EXCEPT !.held = tx[c][n].held \cup {lk}]
  <1>1. tx \in [Clients -> [Depths -> Transaction]]
    BY Unfold DEF Transactions, Transaction
  <1>2. new \in Transaction /\ new.held = tx[c][n].held \cup {lk}
    BY <1>1 DEF Transaction
  <1>3. tx' = [tx EXCEPT ![c][n] = new]
    BY <1>1
  <1> HIDE DEF new
  <1>4. /\ tx' \in [Clients -> Transactions]
        /\ tx'[c][n] = new
        /\ \A m \in Depths \ {n} : tx'[c][m] = tx[c][m]
        /\ \A b \in Clients \ {c} : tx'[b] = tx[b]
    <2>1. new \in Transaction /\ tx' = [tx EXCEPT ![c][n] = new]
      BY <1>2, <1>3
    <2> QED
      BY <2>1, OneTransaction
  <1> QED
    BY <1>2, <1>4

\* The domain's lock goes to the first transaction of its mutation.
LEMMA LockDomainEffect ==
    ASSUME TypeOK, NEW c \in Clients, LockDomain(c), op[c].dom \in Domains
    PROVE  /\ UNCHANGED attached /\ op[c].pc = "lockDomain"
           /\ op' = [op EXCEPT ![c].pc = "readDomain"]
           /\ Free(DomainLock(op[c].dom))
           /\ tx' \in [Clients -> Transactions]
           /\ tx'[c][1].held = tx[c][1].held \cup {DomainLock(op[c].dom)}
           /\ tx'[c][2] = tx[c][2]
           /\ \A b \in Clients \ {c} : tx'[b] = tx[b]
  <1>1. tx' = [tx EXCEPT ![c][1].held = @ \cup {DomainLock(op[c].dom)}] /\ 1 \in Depths /\ 2 \in Depths \ {1}
    BY DEF LockDomain, Depths
  <1>2. DomainLock(op[c].dom) \in Locks
    BY LockNames
  <1>3. /\ tx' \in [Clients -> Transactions]
        /\ tx'[c][1].held = tx[c][1].held \cup {DomainLock(op[c].dom)}
        /\ \A m \in Depths \ {1} : tx'[c][m] = tx[c][m]
        /\ \A b \in Clients \ {c} : tx'[b] = tx[b]
    BY <1>1, <1>2, TakingLock
  <1>4. tx'[c][2] = tx[c][2]
    BY <1>1, <1>3
  <1> QED
    BY <1>3, <1>4 DEF LockDomain, Goto

\* A service's lock goes to the client's current transaction.
LEMMA LockComposeEffect ==
    ASSUME TypeOK, NEW c \in Clients, LockCompose(c)
    PROVE  /\ UNCHANGED attached /\ op[c].pc = "lockComposes"
           /\ \E x \in op[c].todo :
                /\ x \in Composes /\ Free(ComposeLock(x))
                /\ op' = [op EXCEPT ![c].todo = @ \ {x}]
                /\ tx' \in [Clients -> Transactions]
                /\ tx'[c][op[c].depth].held = tx[c][op[c].depth].held \cup {ComposeLock(x)}
                /\ \A m \in Depths \ {op[c].depth} : tx'[c][m] = tx[c][m]
                /\ \A b \in Clients \ {c} : tx'[b] = tx[b]
  <1>1. PICK x \in op[c].todo :
            /\ Free(ComposeLock(x))
            /\ tx' = [tx EXCEPT ![c][op[c].depth].held = @ \cup {ComposeLock(x)}]
            /\ op' = [op EXCEPT ![c].todo = @ \ {x}]
    BY DEF LockCompose
  <1>2. x \in Composes /\ op[c].depth \in Depths /\ ComposeLock(x) \in Locks
    BY Unfold, LockNames DEF Operations
  <1>3. /\ tx' \in [Clients -> Transactions]
        /\ tx'[c][op[c].depth].held = tx[c][op[c].depth].held \cup {ComposeLock(x)}
        /\ \A m \in Depths \ {op[c].depth} : tx'[c][m] = tx[c][m]
        /\ \A b \in Clients \ {c} : tx'[b] = tx[b]
    BY <1>1, <1>2, TakingLock
  <1>4. UNCHANGED attached /\ op[c].pc = "lockComposes"
    BY DEF LockCompose
  <1> QED
    BY <1>1, <1>2, <1>3, <1>4

\* The end of a transaction gives its locks back.
LEMMA CommitEffect ==
    ASSUME TypeOK, NEW c \in Clients, Commit(c)
    PROVE  /\ UNCHANGED attached /\ op[c].pc = "commit"
           /\ op' = [op EXCEPT ![c] = IF op[c].depth = 2 THEN [op[c] EXCEPT !.depth = 1] ELSE Idle]
           /\ tx' \in [Clients -> Transactions]
           /\ tx'[c][op[c].depth].held = {}
           /\ \A m \in Depths \ {op[c].depth} : tx'[c][m] = tx[c][m]
           /\ \A b \in Clients \ {c} : tx'[b] = tx[b]
  <1>1. Closed \in Transaction /\ Closed.held = {}
    BY DEF Closed, Transaction
  <1>2. op[c].depth \in Depths
    BY Unfold DEF Operations
  <1>3. tx' = [tx EXCEPT ![c][op[c].depth] = Closed]
    BY DEF Commit
  <1>4. /\ tx' \in [Clients -> Transactions]
        /\ tx'[c][op[c].depth] = Closed
        /\ \A m \in Depths \ {op[c].depth} : tx'[c][m] = tx[c][m]
        /\ \A b \in Clients \ {c} : tx'[b] = tx[b]
    BY <1>1, <1>2, <1>3, OneTransaction
  <1>5. op' = [op EXCEPT ![c] = IF op[c].depth = 2 THEN [op[c] EXCEPT !.depth = 1] ELSE Idle]
    BY Unfold DEF Commit
  <1> QED
    BY <1>1, <1>4, <1>5 DEF Commit

\* What the mutation itself may do to the attachments, and where it goes on.
LEMMA OperateEffect ==
    ASSUME TypeOK, NEW c \in Clients, Operate(c)
    PROVE  /\ UNCHANGED tx /\ op[c].pc = "lockComposes" /\ op[c].todo = {}
           /\ \/ UNCHANGED attached
              \/ /\ op[c].kind = "create" \/ op[c].depth = 2
                 /\ \E d \in Domains : attached[d] = Fresh /\ attached' = [attached EXCEPT ![d] = op[c].to]
              \/ /\ op[c].kind = "domain" /\ attached[op[c].dom] # Absent
                 /\ attached' = [attached EXCEPT ![op[c].dom] = op[c].to]
           /\ \/ op' = [op EXCEPT ![c].pc = "commit"]
              \/ /\ op[c].kind = "rebuild" /\ op[c].depth = 1
                 /\ op' = [op EXCEPT ![c].pc = "connect", ![c].depth = 2, ![c].todo = {op[c].to}]
  BY DEF Operate, LockAgain, Goto

-----------------------------------------------------------------------------
(* What each step preserves.                                               *)

\* Every step keeps the types.
LEMMA TypeStep ==
    ASSUME LocksInv, NEW c \in Clients, Begin(c) \/ Advance(c)
    PROVE  TypeOK'
  <1> SUFFICES /\ attached' \in [Domains -> Attachments]
               /\ tx' \in [Clients -> Transactions]
               /\ op' \in [Clients -> Operations]
    BY DEF TypeOK, Transactions, Operations
  <1>0. /\ TypeOK /\ DomainOK(c) /\ op[c] \in Operations
        /\ attached \in [Domains -> Attachments]
        /\ tx \in [Clients -> Transactions] /\ op \in [Clients -> Operations]
    BY Unfold DEF LocksInv
  <1>1. ASSUME NEW pc \in {"idle", "connect", "lockDomain", "readDomain", "lockComposes", "commit"},
               op' = [op EXCEPT ![c].pc = pc]
        PROVE  op' \in [Clients -> Operations]
    <2>1. \A r \in Operations : [r EXCEPT !.pc = pc] \in Operations
      BY DEF Operations
    <2> QED
      BY <1>0, <1>1, <2>1
  <1>2. CASE Begin(c)
    <2>1. op'[c] \in Operations /\ UNCHANGED <<attached, tx>>
      BY <1>0, <1>2, BeginEffect
    <2>2. op' \in [Clients -> Operations]
      BY <1>0, <1>2, <2>1 DEF Begin
    <2> QED
      BY <1>0, <2>1, <2>2
  <1>3. CASE Connect(c)
    <2>1. /\ UNCHANGED attached /\ tx' \in [Clients -> Transactions]
          /\ op' = [op EXCEPT ![c].pc = IF op[c].kind = "domain" THEN "lockDomain" ELSE "lockComposes"]
      BY <1>0, <1>3, ConnectEffect
    <2> QED
      BY <1>0, <1>1, <2>1
  <1>4. CASE LockDomain(c)
    <2>1. PICK pc \in {"readDomain"} : op' = [op EXCEPT ![c].pc = pc]
      BY <1>4 DEF LockDomain, Goto
    <2>2. UNCHANGED attached /\ tx' \in [Clients -> Transactions]
      <3>1. op[c].pc = "lockDomain"
        BY <1>4 DEF LockDomain
      <3>2. op[c].dom \in Domains
        BY <1>0, <3>1 DEF DomainOK
      <3> QED
        BY <1>0, <1>4, <3>2, LockDomainEffect
    <2> QED
      BY <1>0, <1>1, <2>1, <2>2
  <1>5. CASE ReadDomain(c)
    <2>1. PICK new \in SUBSET Composes : op' = [op EXCEPT ![c].pc = "lockComposes", ![c].todo = @ \cup new]
      BY <1>5 DEF ReadDomain
    <2>2. \A r \in Operations : [r EXCEPT !.pc = "lockComposes", !.todo = r.todo \cup new] \in Operations
      BY DEF Operations
    <2>3. op' \in [Clients -> Operations]
      BY <1>0, <2>1, <2>2
    <2> QED
      BY <1>0, <1>5, <2>3 DEF ReadDomain
  <1>6. CASE LockCompose(c)
    <2>1. PICK x : op' = [op EXCEPT ![c].todo = @ \ {x}] /\ tx' \in [Clients -> Transactions] /\ UNCHANGED attached
      BY <1>0, <1>6, LockComposeEffect
    <2>2. \A r \in Operations : [r EXCEPT !.todo = r.todo \ {x}] \in Operations
      BY DEF Operations
    <2> QED
      BY <1>0, <2>1, <2>2
  <1>7. CASE Operate(c)
    <2>1. attached' \in [Domains -> Attachments]
      BY <1>0, <1>7 DEF Operate, LockAgain, Operations
    <2>2. \/ op' = [op EXCEPT ![c].pc = "commit"]
          \/ /\ op[c].kind = "rebuild" /\ op[c].depth = 1
             /\ op' = [op EXCEPT ![c].pc = "connect", ![c].depth = 2, ![c].todo = {op[c].to}]
      BY <1>7 DEF Operate, LockAgain, Goto
    <2>3. \A r \in Operations : r.to \in Composes =>
              [r EXCEPT !.pc = "connect", !.depth = 2, !.todo = {r.to}] \in Operations
      BY DEF Operations, Depths
    <2>4. op' \in [Clients -> Operations]
      <3>1. op[c].kind = "rebuild" /\ op[c].depth = 1 => op[c].to \in Composes
        BY <1>0 DEF LocksInv, ServiceOK
      <3> QED
        BY <1>0, <1>1, <2>2, <2>3, <3>1
    <2> QED
      BY <1>0, <1>7, <2>1, <2>4 DEF Operate, LockAgain
  <1>8. CASE Commit(c)
    <2>1. Idle \in Operations
      BY DEF Idle, Operations, Depths, Attachments
    <2>2. \A r \in Operations : [r EXCEPT !.depth = 1] \in Operations
      BY DEF Operations, Depths
    <2>3. /\ UNCHANGED attached /\ tx' \in [Clients -> Transactions]
          /\ op' = [op EXCEPT ![c] = IF op[c].depth = 2 THEN [op[c] EXCEPT !.depth = 1] ELSE Idle]
      BY <1>0, <1>8, CommitEffect
    <2> QED
      BY <1>0, <2>1, <2>2, <2>3
  <1> QED
    BY <1>2, <1>3, <1>4, <1>5, <1>6, <1>7, <1>8 DEF Advance

\* A step changes what is held only by giving locks back or by taking one that
\* is free.
LEMMA HeldStep ==
    ASSUME LocksInv, NEW c \in Clients, Begin(c) \/ Advance(c)
    PROVE  \/ \A b \in Clients, n \in Depths : tx'[b][n].held \subseteq tx[b][n].held
           \/ \E lk \in Locks, n \in Depths :
                /\ Free(lk)
                /\ tx'[c][n].held = tx[c][n].held \cup {lk}
                /\ \A m \in Depths \ {n} : tx'[c][m] = tx[c][m]
                /\ \A b \in Clients \ {c} : tx'[b] = tx[b]
  <1>0. TypeOK /\ DomainOK(c) /\ op[c] \in Operations
    BY Unfold DEF LocksInv
  <1>1. CASE UNCHANGED tx
    BY <1>1
  <1>2. CASE Connect(c)
    BY <1>0, <1>2, ConnectEffect
  <1>3. CASE LockDomain(c)
    <2>1. op[c].dom \in Domains
      BY <1>0, <1>3 DEF DomainOK, LockDomain
    <2>2. /\ Free(DomainLock(op[c].dom))
          /\ tx'[c][1].held = tx[c][1].held \cup {DomainLock(op[c].dom)}
          /\ tx'[c][2] = tx[c][2]
          /\ \A b \in Clients \ {c} : tx'[b] = tx[b]
      BY <1>0, <1>3, <2>1, LockDomainEffect
    <2>3. DomainLock(op[c].dom) \in Locks /\ 1 \in Depths /\ Depths \ {1} = {2}
      BY <2>1, LockNames DEF Depths
    <2> QED
      BY <2>2, <2>3
  <1>4. CASE LockCompose(c)
    <2>1. PICK x \in Composes :
                /\ Free(ComposeLock(x))
                /\ tx'[c][op[c].depth].held = tx[c][op[c].depth].held \cup {ComposeLock(x)}
                /\ \A m \in Depths \ {op[c].depth} : tx'[c][m] = tx[c][m]
                /\ \A b \in Clients \ {c} : tx'[b] = tx[b]
      BY <1>0, <1>4, LockComposeEffect
    <2>2. ComposeLock(x) \in Locks /\ op[c].depth \in Depths
      BY <1>0, LockNames DEF Operations
    <2> QED
      BY <2>1, <2>2
  <1>5. CASE Commit(c)
    <2>1. /\ tx'[c][op[c].depth].held = {}
          /\ \A m \in Depths \ {op[c].depth} : tx'[c][m] = tx[c][m]
          /\ \A b \in Clients \ {c} : tx'[b] = tx[b]
      BY <1>0, <1>5, CommitEffect
    <2> QED
      BY <2>1
  <1> QED
    BY <1>1, <1>2, <1>3, <1>4, <1>5 DEF Advance, Begin, ReadDomain, Operate, LockAgain

\* So a lock stays with one transaction.
LEMMA ExclusiveStep ==
    ASSUME LocksInv, NEW c \in Clients, Begin(c) \/ Advance(c)
    PROVE  OneHolder'
  <1>1. CASE \A b \in Clients, n \in Depths : tx'[b][n].held \subseteq tx[b][n].held
    BY <1>1 DEF LocksInv, OneHolder
  <1>2. ASSUME NEW lk \in Locks, NEW n \in Depths,
               Free(lk),
               tx'[c][n].held = tx[c][n].held \cup {lk},
               \A m \in Depths \ {n} : tx'[c][m] = tx[c][m],
               \A b \in Clients \ {c} : tx'[b] = tx[b]
        PROVE  OneHolder'
    <2>1. \A b \in Clients, m \in Depths :
              lk \in tx'[b][m].held => b = c /\ m = n
      BY <1>2 DEF Free
    <2>2. \A b \in Clients, m \in Depths, l \in Locks \ {lk} :
              l \in tx'[b][m].held => l \in tx[b][m].held
      BY <1>2
    <2> QED
      BY <2>1, <2>2 DEF LocksInv, OneHolder
  <1> QED
    BY <1>1, <1>2, HeldStep

\* A domain's service changes only at the hands of a mutation that has the
\* domain's lock, unless the domain is new; and no domain becomes new again.
LEMMA AttachedStep ==
    ASSUME LocksInv, NEW c \in Clients, Begin(c) \/ Advance(c)
    PROVE  \A d \in Domains : attached'[d] # attached[d] =>
              /\ attached'[d] # Fresh
              /\ \/ attached[d] = Fresh
                 \/ op[c].kind = "domain" /\ op[c].pc = "lockComposes" /\ op[c].dom = d
  <1>0. TypeOK /\ DomainOK(c) /\ ServiceOK(c) /\ SelfBlocked(c) /\ op[c] \in Operations
        /\ attached \in [Domains -> Attachments]
    BY Unfold DEF LocksInv
  <1>1. CASE UNCHANGED attached
    BY <1>1
  <1>2. CASE Operate(c)
    <2>0. op[c].pc = "lockComposes" /\ op[c].todo = {}
      BY <1>2 DEF Operate, LockAgain
    <2>1. CASE \E d \in Domains : attached[d] = Fresh /\ attached' = [attached EXCEPT ![d] = op[c].to]
               /\ (op[c].kind = "create" \/ op[c].depth = 2)
      <3>1. op[c].to \in Composes
        BY <1>0, <2>0, <2>1 DEF ServiceOK, SelfBlocked, Operations, Depths
      <3>2. op[c].to # Fresh
        BY <3>1, LocksAssumption
      <3> QED
        BY <1>0, <2>1, <3>2
    <2>2. CASE /\ op[c].kind = "domain" /\ attached' = [attached EXCEPT ![op[c].dom] = op[c].to]
      BY <1>0, <2>0, <2>2 DEF DomainOK
    <2> QED
      BY <1>1, <1>2, <2>1, <2>2 DEF Operate, LockAgain
  <1> QED
    BY <1>1, <1>2 DEF Advance, Begin, Connect, LockDomain, ReadDomain, LockCompose, Commit

\* What a client waits for or has is not disturbed by another client's step.
LEMMA OthersStep ==
    ASSUME LocksInv, NEW c \in Clients, Begin(c) \/ Advance(c), NEW b \in Clients \ {c}
    PROVE  ServiceOK(b)' /\ SelfBlocked(b)' /\ DomainOK(b)'
  <1>1. op'[b] = op[b] /\ tx'[b] = tx[b]
    BY OneClient DEF LocksInv
  <1>2. ServiceOK(b) /\ SelfBlocked(b) /\ DomainOK(b)
    BY DEF LocksInv
  <1>3. ServiceOK(b)' /\ SelfBlocked(b)'
    BY <1>1, <1>2 DEF ServiceOK, SelfBlocked, Holds
  <1>4. CASE op[b].kind = "domain" /\ attached'[op[b].dom] # attached[op[b].dom]
    <2>1. op[b].dom \in Domains /\ attached[op[b].dom] # Fresh
      BY <1>2, <1>4 DEF DomainOK
    <2>2. /\ attached'[op[b].dom] # Fresh
          /\ op[c].kind = "domain" /\ op[c].pc = "lockComposes" /\ op[c].dom = op[b].dom
      BY <1>4, <2>1, AttachedStep
    <2>3. DomainLock(op[b].dom) \in tx[c][1].held /\ DomainLock(op[b].dom) \in Locks
      BY <2>1, <2>2, LockNames DEF LocksInv, DomainOK
    <2>4. DomainLock(op[b].dom) \notin tx[b][1].held
      BY <2>3 DEF LocksInv, OneHolder, Depths
    <2>5. op[b].pc \notin {"readDomain", "lockComposes"}
      BY <1>2, <1>4, <2>4 DEF DomainOK
    <2> QED
      BY <1>1, <1>2, <1>3, <2>2, <2>5 DEF DomainOK
  <1>5. CASE ~(op[b].kind = "domain" /\ attached'[op[b].dom] # attached[op[b].dom])
    BY <1>1, <1>2, <1>3, <1>5 DEF DomainOK, Holds
  <1> QED
    BY <1>4, <1>5

\* A client's own step keeps what it waits for or has.
LEMMA OwnStep ==
    ASSUME LocksInv, NEW c \in Clients, Begin(c) \/ Advance(c)
    PROVE  ServiceOK(c)' /\ SelfBlocked(c)' /\ DomainOK(c)'
  <1>0. TypeOK /\ ServiceOK(c) /\ SelfBlocked(c) /\ DomainOK(c)
    BY DEF LocksInv
  <1>1. op[c] \in Operations /\ op \in [Clients -> Operations] /\ 1 \in Depths /\ 2 \in Depths
    BY <1>0, Unfold DEF Depths
  <1>2. CASE Begin(c)
    <2>1. UNCHANGED <<attached, tx>> /\ op'[c].pc = "connect" /\ op'[c].depth = 1
      BY <1>0, <1>2, BeginEffect
    <2>2. \/ /\ op'[c].kind # "domain" /\ op'[c].to \in Composes /\ op'[c].todo = {op'[c].to}
          \/ /\ op'[c].kind = "domain" /\ op'[c].dom \in Domains
             /\ op'[c].to # Fresh /\ attached[op'[c].dom] # Fresh
             /\ op'[c].todo = {op'[c].to} \cap Composes
      BY <1>0, <1>2, BeginEffect
    <2> QED
      BY <1>0, <2>1, <2>2 DEF ServiceOK, SelfBlocked, DomainOK
  <1>3. CASE Connect(c)
    <2>1. UNCHANGED attached /\ op[c].pc = "connect" /\ tx'[c][1].held = tx[c][1].held /\ tx'[c][2].held = tx[c][2].held
      BY <1>0, <1>1, <1>3, ConnectEffect
    <2>2. op'[c] = [op[c] EXCEPT !.pc = IF op[c].kind = "domain" THEN "lockDomain" ELSE "lockComposes"]
      BY <1>0, <1>1, <1>3, ConnectEffect
    <2>3. /\ op'[c].pc = IF op[c].kind = "domain" THEN "lockDomain" ELSE "lockComposes"
          /\ op'[c].kind = op[c].kind /\ op'[c].depth = op[c].depth /\ op'[c].dom = op[c].dom
          /\ op'[c].to = op[c].to /\ op'[c].todo = op[c].todo
      BY <1>1, <2>2 DEF Operations
    <2> QED
      BY <1>0, <2>1, <2>3 DEF ServiceOK, SelfBlocked, DomainOK, Holds, Locking
  <1>4. CASE LockDomain(c)
    <2>1. op[c].dom \in Domains /\ op[c].kind = "domain"
      BY <1>0, <1>4 DEF DomainOK, LockDomain
    <2>2. /\ UNCHANGED attached /\ op[c].pc = "lockDomain"
          /\ op' = [op EXCEPT ![c].pc = "readDomain"]
          /\ tx'[c][1].held = tx[c][1].held \cup {DomainLock(op[c].dom)}
          /\ tx'[c][2] = tx[c][2]
      BY <1>0, <1>4, <2>1, LockDomainEffect
    <2>3. /\ op'[c].pc = "readDomain"
          /\ op'[c].kind = op[c].kind /\ op'[c].depth = op[c].depth /\ op'[c].dom = op[c].dom
          /\ op'[c].to = op[c].to /\ op'[c].todo = op[c].todo
      BY <1>1, <2>2 DEF Operations
    <2> QED
      BY <1>0, <2>1, <2>2, <2>3 DEF ServiceOK, SelfBlocked, DomainOK, Holds, Locking
  <1>5. CASE ReadDomain(c)
    <2>1. /\ op[c].pc = "readDomain" /\ op[c].kind = "domain" /\ op[c].dom \in Domains
          /\ UNCHANGED <<attached, tx>>
      BY <1>0, <1>5 DEF DomainOK, ReadDomain
    <2>2. /\ op'[c].pc = "lockComposes" /\ op'[c].todo = op[c].todo \cup ({attached[op[c].dom]} \cap Composes)
          /\ op'[c].kind = op[c].kind /\ op'[c].depth = op[c].depth /\ op'[c].dom = op[c].dom
          /\ op'[c].to = op[c].to
      BY <1>1, <1>5 DEF ReadDomain, Operations
    <2> QED
      BY <1>0, <2>1, <2>2 DEF ServiceOK, SelfBlocked, DomainOK, Holds, Locking
  <1>6. CASE LockCompose(c)
    <2>1. PICK x \in op[c].todo :
                /\ x \in Composes
                /\ op' = [op EXCEPT ![c].todo = @ \ {x}]
                /\ tx'[c][op[c].depth].held = tx[c][op[c].depth].held \cup {ComposeLock(x)}
                /\ \A m \in Depths \ {op[c].depth} : tx'[c][m] = tx[c][m]
                /\ UNCHANGED attached /\ op[c].pc = "lockComposes"
      BY <1>0, <1>6, LockComposeEffect
    <2>2. /\ op'[c].todo = op[c].todo \ {x} /\ op'[c].pc = op[c].pc
          /\ op'[c].kind = op[c].kind /\ op'[c].depth = op[c].depth /\ op'[c].dom = op[c].dom
          /\ op'[c].to = op[c].to
      BY <1>1, <2>1 DEF Operations
    \* The second transaction never gets the lock.
    <2>3. op[c].depth = 1
      <3>1. op[c].depth = 2 => x = op[c].to /\ ComposeLock(x) \in tx[c][1].held
        BY <1>0, <2>1 DEF SelfBlocked, Holds
      <3>2. ComposeLock(op[c].to) \in tx[c][1].held => ~Free(ComposeLock(op[c].to))
        BY <1>1 DEF Free
      <3> QED
        BY <1>1, <1>6, <2>1, <3>1, <3>2 DEF LockCompose, Operations, Depths
    <2>4. tx'[c][1].held = tx[c][1].held \cup {ComposeLock(x)} /\ tx'[c][2] = tx[c][2]
      BY <1>1, <2>1, <2>3
    <2> QED
      BY <1>0, <2>1, <2>2, <2>3, <2>4 DEF ServiceOK, SelfBlocked, DomainOK, Holds
  <1>7. CASE Operate(c)
    <2>1. UNCHANGED tx /\ op[c].pc = "lockComposes" /\ op[c].todo = {} /\ op[c].depth = 1
      BY <1>0, <1>1, <1>7 DEF Operate, LockAgain, SelfBlocked, Operations, Depths
    <2>2. \/ op' = [op EXCEPT ![c].pc = "commit"]
          \/ /\ op[c].kind = "rebuild"
             /\ op' = [op EXCEPT ![c].pc = "connect", ![c].depth = 2, ![c].todo = {op[c].to}]
      BY <1>7 DEF Operate, LockAgain, Goto
    <2>3. /\ op'[c].kind = op[c].kind /\ op'[c].dom = op[c].dom /\ op'[c].to = op[c].to
          /\ \/ op'[c].pc = "commit" /\ op'[c].depth = 1
             \/ /\ op[c].kind = "rebuild" /\ op'[c].pc = "connect" /\ op'[c].depth = 2
                /\ op'[c].todo = {op[c].to}
      BY <1>1, <2>1, <2>2 DEF Operations
    <2>4. op[c].kind = "domain" => attached'[op[c].dom] # Fresh
      BY <1>0, <1>7, AttachedStep DEF DomainOK, Advance
    <2>5. op[c].kind = "rebuild" => op[c].to \in Composes /\ Holds(c, op[c].to)
      BY <1>0, <2>1 DEF ServiceOK
    <2> QED
      BY <1>0, <2>1, <2>3, <2>4, <2>5 DEF ServiceOK, SelfBlocked, DomainOK, Holds, Locking
  <1>8. CASE Commit(c)
    <2>1. op[c].pc = "commit" /\ op[c].depth = 1 /\ UNCHANGED attached
      BY <1>0, <1>1, <1>8 DEF Commit, SelfBlocked, Operations, Depths, Locking
    <2>2. op'[c] = Idle /\ tx'[c][2] = tx[c][2]
      BY <1>0, <1>1, <1>8, <2>1, CommitEffect
    <2> QED
      BY <1>0, <2>2 DEF ServiceOK, SelfBlocked, DomainOK, Idle
  <1> QED
    BY <1>2, <1>3, <1>4, <1>5, <1>6, <1>7, <1>8 DEF Advance

-----------------------------------------------------------------------------
(* Theorems.                                                               *)

\* The invariant holds when nothing has begun: no lock is held.
LEMMA InitInvariant == Init => LocksInv
  <1> SUFFICES ASSUME Init PROVE LocksInv
    OBVIOUS
  <1>1. \A c \in Clients : op[c] = Idle /\ \A n \in Depths : tx[c][n] = Closed
    BY DEF Init
  <1>2. Idle \in Operations /\ [n \in Depths |-> Closed] \in Transactions
    BY DEF Idle, Closed, Operations, Transactions, Depths, Attachments
  <1>3. TypeOK
    BY <1>2, Unfold DEF Init
  <1>4. OneHolder
    BY <1>1 DEF OneHolder, Closed
  <1>5. ASSUME NEW c \in Clients PROVE ServiceOK(c) /\ SelfBlocked(c) /\ DomainOK(c)
    BY <1>1 DEF ServiceOK, SelfBlocked, DomainOK, Idle, Closed, Depths
  <1> QED
    BY <1>3, <1>4, <1>5 DEF LocksInv

\* Every step keeps the invariant.
LEMMA NextInvariant == LocksInv /\ [Next]_vars => LocksInv'
  <1>1. ASSUME LocksInv, NEW c \in Clients, Begin(c) \/ Advance(c) PROVE LocksInv'
    <2>1. TypeOK' /\ OneHolder'
      BY <1>1, TypeStep, ExclusiveStep
    <2>2. \A b \in Clients : ServiceOK(b)' /\ SelfBlocked(b)' /\ DomainOK(b)'
      BY <1>1, OwnStep, OthersStep
    <2> QED
      BY <2>1, <2>2 DEF LocksInv
  <1>2. ASSUME LocksInv, UNCHANGED vars PROVE LocksInv'
    BY <1>2 DEF LocksInv, TypeOK, OneHolder, ServiceOK, SelfBlocked, DomainOK, Holds, vars
  <1> QED
    BY <1>1, <1>2 DEF Next

\* The inductive invariant holds in every reachable state, for any number of
\* services, domains, clients and connections.
THEOREM Invariance == Spec => []LocksInv
  BY InitInvariant, NextInvariant, PTL DEF Spec

\* The state of the locks, transactions and mutations keeps its types: in
\* particular a mutation only ever waits for locks of Compose services, never
\* for that of a domain without one.
THEOREM LocksTypeCorrect == Spec => []TypeOK
  <1>1. LocksInv => TypeOK
    BY DEF LocksInv
  <1> QED
    BY <1>1, Invariance, PTL

\* A redeploy that starts its default domain's transaction waits for the lock it
\* has itself, and is never given it: the second transaction holds no lock and
\* the redeploy stays between "connect" and "lockComposes".
THEOREM RedeployBlocksItself ==
    Spec => [](\A c \in Clients : op[c].depth = 2 =>
                  /\ op[c].pc \in Locking
                  /\ ComposeLock(op[c].to) \in tx[c][1].held
                  /\ tx[c][2].held = {})
  <1>1. LocksInv => \A c \in Clients : op[c].depth = 2 =>
                       /\ op[c].pc \in Locking
                       /\ ComposeLock(op[c].to) \in tx[c][1].held
                       /\ tx[c][2].held = {}
    BY DEF LocksInv, SelfBlocked, Holds
  <1> QED
    BY <1>1, Invariance, PTL

\* No client starts out with a service.
LEMMA InitSerial == Init => Serial!Init
  <1> SUFFICES ASSUME Init PROVE Serial!Init
    OBVIOUS
  <1>1. \A c \in Clients : Mutating(c) = {}
    BY DEF Init, Mutating, Closed
  <1> QED
    BY <1>1 DEF Init, Serial!Init, Serial!Attachments, Attachments

\* A client whose held locks a step leaves alone has the same services.
LEMMA SameServices ==
    ASSUME NEW c, \A n \in Depths : tx'[c][n].held = tx[c][n].held
    PROVE  Mutating(c)' = Mutating(c)
  BY DEF Mutating

\* Every step of a client is a step of SerialRouting or changes none of its
\* variables: the locks of Compose services are Enter, Commit is Leave, the
\* mutation is Attach.
LEMMA StepSerial ==
    ASSUME LocksInv, NEW c \in Clients, Begin(c) \/ Advance(c)
    PROVE  [Serial!Next]_(Serial!vars)
  <1>0. TypeOK /\ ServiceOK(c) /\ SelfBlocked(c) /\ DomainOK(c) /\ op[c] \in Operations
    BY Unfold DEF LocksInv
  <1>1. \A b \in Clients \ {c} : Mutating(b)' = Mutating(b)
    BY <1>0, OneClient, SameServices
  <1>2. CASE UNCHANGED attached /\ Mutating(c)' = Mutating(c)
    BY <1>1, <1>2 DEF Serial!vars
  <1>3. CASE Begin(c) \/ ReadDomain(c)
    BY <1>2, <1>3, SameServices DEF Begin, ReadDomain
  <1>4. CASE Connect(c)
    BY <1>0, <1>2, <1>4, ConnectEffect, SameServices
  <1>5. CASE LockDomain(c)
    <2>1. op[c].dom \in Domains
      BY <1>0, <1>5 DEF DomainOK, LockDomain
    <2>2. /\ UNCHANGED attached
          /\ tx'[c][1].held = tx[c][1].held \cup {DomainLock(op[c].dom)} /\ tx'[c][2] = tx[c][2]
      BY <1>0, <1>5, <2>1, LockDomainEffect
    <2>3. Mutating(c)' = Mutating(c)
      BY <2>2, LockNames DEF Mutating, Depths
    <2> QED
      BY <1>2, <2>2, <2>3
  <1>6. CASE LockCompose(c)
    <2>1. PICK x \in Composes :
                /\ Free(ComposeLock(x))
                /\ tx'[c][op[c].depth].held = tx[c][op[c].depth].held \cup {ComposeLock(x)}
                /\ \A m \in Depths \ {op[c].depth} : tx'[c][m] = tx[c][m]
                /\ UNCHANGED attached
      BY <1>0, <1>6, LockComposeEffect
    <2>2. Mutating(c)' = Mutating(c) \cup {x}
      BY <1>0, <2>1, LockNames DEF Mutating, Operations
    <2>3. \A b \in Clients : x \notin Mutating(b)
      BY <2>1 DEF Free, Mutating
    <2>4. [b \in Clients |-> Mutating(b)]' = [[b \in Clients |-> Mutating(b)] EXCEPT ![c] = @ \cup {x}]
      BY <1>1, <2>2
    <2>5. Serial!Enter(c, x)
      BY <2>1, <2>3, <2>4 DEF Serial!Enter
    <2> QED
      BY <2>5 DEF Serial!Next
  <1>7. CASE Operate(c)
    <2>1. UNCHANGED tx /\ op[c].pc = "lockComposes" /\ op[c].todo = {} /\ op[c].depth = 1
      BY <1>0, <1>7 DEF Operate, LockAgain, SelfBlocked, Operations, Depths
    <2>2. Mutating(c)' = Mutating(c)
      BY <2>1, SameServices
    <2>3. \A x \in Composes : Holds(c, x) => x \in Mutating(c)
      BY DEF Holds, Mutating, Depths
    <2>4. ASSUME NEW d \in Domains, NEW x \in Attachments, attached' = [attached EXCEPT ![d] = x],
                 {attached[d], x} \cap Composes \subseteq Mutating(c)
          PROVE  Serial!Next
      <3>1. UNCHANGED [b \in Clients |-> Mutating(b)]
        BY <1>1, <2>2
      <3>2. Serial!Attach(c, d, x)
        BY <2>4, <3>1 DEF Serial!Attach
      <3> QED
        BY <3>2 DEF Serial!Next, Serial!Attachments, Attachments
    <2>5. CASE op[c].kind = "create" /\ \E d \in Domains : attached[d] = Fresh /\ attached' = [attached EXCEPT ![d] = op[c].to]
      <3>1. op[c].to \in Composes /\ op[c].to \in Mutating(c)
        BY <1>0, <2>1, <2>3, <2>5 DEF ServiceOK
      <3>2. Fresh \notin Composes
        BY LocksAssumption
      <3>3. PICK d \in Domains : attached[d] = Fresh /\ attached' = [attached EXCEPT ![d] = op[c].to]
        BY <2>5
      <3>4. op[c].to \in Attachments /\ {attached[d], op[c].to} \cap Composes \subseteq Mutating(c)
        BY <3>1, <3>2, <3>3 DEF Attachments
      <3> QED
        BY <2>4, <3>3, <3>4
    <2>6. CASE op[c].kind = "domain" /\ attached' = [attached EXCEPT ![op[c].dom] = op[c].to]
      <3>1. /\ op[c].dom \in Domains /\ op[c].to \in Attachments
            /\ \A x \in {attached[op[c].dom], op[c].to} \cap Composes : Holds(c, x)
        BY <1>0, <2>1, <2>6 DEF DomainOK, Operations
      <3>2. {attached[op[c].dom], op[c].to} \cap Composes \subseteq Mutating(c)
        BY <2>3, <3>1
      <3> QED
        BY <2>4, <2>6, <3>1, <3>2
    <2> QED
      BY <1>2, <1>7, <2>1, <2>2, <2>5, <2>6 DEF Operate, LockAgain
  <1>8. CASE Commit(c)
    <2>1. op[c].depth = 1
      BY <1>0, <1>8 DEF Commit, SelfBlocked, Operations, Depths, Locking
    <2>2. tx'[c][1].held = {} /\ tx'[c][2].held = {} /\ UNCHANGED attached
      BY <1>0, <1>8, <2>1, CommitEffect DEF SelfBlocked, Depths
    <2>3. Mutating(c)' = {}
      BY <2>2 DEF Mutating, Depths
    <2>4. [b \in Clients |-> Mutating(b)]' = [[b \in Clients |-> Mutating(b)] EXCEPT ![c] = {}]
      BY <1>1, <2>3
    <2>5. Serial!Leave(c)
      BY <2>2, <2>4 DEF Serial!Leave
    <2> QED
      BY <2>5 DEF Serial!Next
  <1> QED
    BY <1>3, <1>4, <1>5, <1>6, <1>7, <1>8 DEF Advance

\* The routing locks implement SerialRouting: each mutation has its services to
\* itself, and no domain moves to or from a service its mutation does not hold,
\* although it reads the domain's service while other mutations are under way.
THEOREM LocksImplementSerialRouting == Spec => ImplementsSerialRouting
  <1>1. LocksInv /\ [Next]_vars => [Serial!Next]_(Serial!vars)
    <2>1. ASSUME UNCHANGED vars PROVE UNCHANGED Serial!vars
      BY <2>1 DEF vars, Serial!vars, Mutating
    <2> QED
      BY <2>1, StepSerial DEF Next
  <1> QED
    BY <1>1, InitSerial, Invariance, PTL DEF Spec, ImplementsSerialRouting, Serial!Spec

-----------------------------------------------------------------------------
(* The files.                                                               *)

\* Nobody dies, or there are two clients: then no two clients find the lock
\* directory of a dead one stale.  With three they may, and both theorems fail.
OneWaiter == MaxCrashes = 0 \/ \A a, b, c \in Writers : a = b \/ b = c \/ a = c
Orderly == Exclusive /\ ~ Unreadable /\ OneWaiter

-----------------------------------------------------------------------------
(* What is left to do.  A1 to A7 are the ends of a mutation of a domain with *)
(* a middleware of its own, B3 to B5 of one without, M1 and M2 of an update,  *)
(* C1 to C4 of a new or removed redirect.                                    *)

A1 == <<"release">>
A2 == <<"writeConf", "release">>
A3 == <<"writeMiddlewares", "writeConf", "release">>
A4 == <<"loadMiddlewares", "writeMiddlewares", "writeConf", "release">>
A5 == <<"loadConf", "loadMiddlewares", "writeMiddlewares", "writeConf", "release">>
A6 == <<"own", "loadConf", "loadMiddlewares", "writeMiddlewares", "writeConf", "release">>
A7 == <<"attempt", "own", "loadConf", "loadMiddlewares", "writeMiddlewares", "writeConf", "release">>
A8 == <<"takeOver", "attempt", "own", "loadConf", "loadMiddlewares", "writeMiddlewares", "writeConf", "release">>
B3 == <<"loadConf", "writeConf", "release">>
B4 == <<"own", "loadConf", "writeConf", "release">>
B5 == <<"attempt", "own", "loadConf", "writeConf", "release">>
B6 == <<"takeOver", "attempt", "own", "loadConf", "writeConf", "release">>
M1 == <<"writeMiddlewares">>
M2 == <<"loadMiddlewares", "writeMiddlewares">>
C1 == <<"writeConf">>
C2 == <<"writeMiddlewares", "writeConf">>
C3 == <<"loadConf", "writeMiddlewares", "writeConf">>
C4 == <<"loadMiddlewares", "loadConf", "writeMiddlewares", "writeConf">>

WithPath == {A1, A2, A3, A4, A5, A6, A7, A8}
WithoutPath == {A1, A2, B3, B4, B5, B6}
Todos == WithPath \cup WithoutPath \cup {M1, M2, C1, C2, C3, C4, <<>>}
Within == {A1, A2, A3, A4, A5, A6, B3, B4}
Remaining(kind, e) ==
    CASE kind = "manage" -> IF e \in Paths THEN WithPath ELSE WithoutPath
      [] kind = "remove" -> WithPath
      [] kind = "updateMiddleware" -> {M1, M2}
      [] kind \in {"addMiddleware", "removeMiddleware"} -> {C1, C2, C3, C4}
      [] OTHER -> {<<>>}

\* A client is idle or at a step of its mutation; a dead one is idle.
ProgramOK ==
    \A c \in Writers :
        /\ doing[c].todo \in Remaining(doing[c].kind, doing[c].key)
        /\ doing[c].kind # "none" => doing[c].key \in Entries /\ (doing[c].kind \in RouteKinds <=> doing[c].key \in Sites)
        /\ c \in dead => doing[c].todo = <<>>

MutationStates == [kind : Mutations \cup {"none"}, key : Entries \cup {Nobody}, uses : SUBSET Middlewares, todo : Todos,
                   attempts : 0..MaxTries, conf : Routers, middlewares : SUBSET Entries]
LockDirs == [dir : BOOLEAN, owner : Writers \cup {Nobody}, stale : BOOLEAN]
Kinded ==
    /\ conf \in Routers /\ middlewares \in SUBSET Entries /\ rows \in SUBSET Middlewares
    /\ unfinished \in SUBSET Entries /\ dead \in SUBSET Writers
    /\ lock \in LockDirs /\ doing \in [Writers -> MutationStates]

TypeIInv == Kinded /\ ProgramOK

\* The lock: whoever is inside has the directory, and from "own" on it bears his
\* name; nobody else is inside.  A directory without anybody inside, or one about
\* to be taken over, is that of a dead client.
HasLock(c) == doing[c].todo \in Within
Owning(c) == doing[c].todo \in {A6, B4}
Replacing(c) == doing[c].todo \in {A8, B6}
LockOK ==
    /\ MaxCrashes = 0 => dead = {}
    /\ \A c \in Writers : HasLock(c) => lock.dir /\ (~ Owning(c) => lock.owner = c)
    /\ \A b, c \in Writers : HasLock(b) /\ HasLock(c) => b = c
    /\ lock.stale => lock.dir /\ \A c \in Writers : ~ HasLock(c)
    /\ lock.dir => dead # {} \/ \E c \in Writers : HasLock(c)
    /\ \A c \in Writers : Replacing(c) => dead # {}

\* Redirects run alone.
AloneOK ==
    \A b, c \in Writers :
        b # c /\ doing[b].kind # "none" /\ doing[c].kind # "none" => {doing[b].kind, doing[c].kind} \subseteq RouteKinds

\* What a client has read it finds unchanged when it writes, and what it has
\* written of its own entry is there.
CopyOK(c) ==
    /\ doing[c].todo \in {A4, A3, A2, C2, C1} => doing[c].conf = conf
    /\ doing[c].todo \in {A3, M1, C3, C2} => doing[c].middlewares = middlewares
    /\ doing[c].kind \in RouteKinds => doing[c].uses = rows
    /\ doing[c].kind = "manage" /\ doing[c].key \in Paths /\ doing[c].todo = A2 => doing[c].key \in middlewares
    /\ doing[c].kind = "addMiddleware" /\ doing[c].todo = C1 => doing[c].key \in middlewares
    /\ doing[c].kind = "removeMiddleware" => doing[c].key \notin rows
CopiesOK == \A c \in Writers : CopyOK(c)

\* The entries that a mutation has really left without their middleware.
Midway(c) ==
    \/ doing[c].kind = "remove" /\ doing[c].todo = A2
    \/ doing[c].kind = "addMiddleware" /\ doing[c].todo \in {C2, C3, C4}
    \/ doing[c].kind = "removeMiddleware" /\ doing[c].todo = C1
Excused(e) == e \in unfinished \/ \E c \in Writers : doing[c].key = e /\ Midway(c)
FilesOK ==
    /\ \A m \in rows : m \in middlewares \/ Excused(m)
    /\ \A d \in DOMAIN conf :
        /\ d \in Paths => d \in middlewares \/ Excused(d)
        /\ \A m \in conf[d] : m \in middlewares \/ Excused(m)

IInv == TypeIInv /\ LockOK /\ AloneOK /\ CopiesOK /\ FilesOK

-----------------------------------------------------------------------------
(* Sequences.                                                               *)

LEMMA Heads ==
  /\ Head(A1) = "release" /\ Head(A2) = "writeConf" /\ Head(A3) = "writeMiddlewares"
  /\ Head(A4) = "loadMiddlewares" /\ Head(A5) = "loadConf" /\ Head(A6) = "own"
  /\ Head(A7) = "attempt" /\ Head(A8) = "takeOver"
  /\ Head(B3) = "loadConf" /\ Head(B4) = "own" /\ Head(B5) = "attempt" /\ Head(B6) = "takeOver"
  /\ Head(M1) = "writeMiddlewares" /\ Head(M2) = "loadMiddlewares"
  /\ Head(C1) = "writeConf" /\ Head(C2) = "writeMiddlewares" /\ Head(C3) = "loadConf"
  /\ Head(C4) = "loadMiddlewares"
  BY DEF A1, A2, A3, A4, A5, A6, A7, A8, B3, B4, B5, B6, M1, M2, C1, C2, C3, C4

LEMMA Tails ==
  /\ Tail(A2) = A1 /\ Tail(A3) = A2 /\ Tail(A4) = A3 /\ Tail(A5) = A4 /\ Tail(A6) = A5
  /\ Tail(A7) = A6 /\ Tail(A8) = A7
  /\ Tail(B3) = A2 /\ Tail(B4) = B3 /\ Tail(B5) = B4 /\ Tail(B6) = B5
  /\ Tail(M2) = M1 /\ Tail(C2) = C1 /\ Tail(C3) = C2 /\ Tail(C4) = C3
  BY DEF A1, A2, A3, A4, A5, A6, A7, A8, B3, B4, B5, B6, M1, M2, C1, C2, C3, C4

LEMMA Lengths ==
  /\ Len(A1) = 1 /\ Len(A2) = 2 /\ Len(A3) = 3 /\ Len(A4) = 4 /\ Len(A5) = 5 /\ Len(A6) = 6
  /\ Len(A7) = 7 /\ Len(A8) = 8
  /\ Len(B3) = 3 /\ Len(B4) = 4 /\ Len(B5) = 5 /\ Len(B6) = 6
  /\ Len(M1) = 1 /\ Len(M2) = 2 /\ Len(C1) = 1 /\ Len(C2) = 2 /\ Len(C3) = 3 /\ Len(C4) = 4
  /\ Len(<<>>) = 0
  BY DEF A1, A2, A3, A4, A5, A6, A7, A8, B3, B4, B5, B6, M1, M2, C1, C2, C3, C4

LastOf(t) == t[Len(t)]

LEMMA Lasts ==
  /\ \A t \in {A1, A2, A3, A4, A5, A6, A7, A8, B3, B4, B5, B6} : LastOf(t) = "release"
  /\ \A t \in {M1, M2, C1, C2, C3, C4} : LastOf(t) # "release"
<1>1. /\ LastOf(A1) = "release" /\ LastOf(A2) = "release" /\ LastOf(A3) = "release" /\ LastOf(A4) = "release"
      /\ LastOf(A5) = "release" /\ LastOf(A6) = "release"
  BY Lengths DEF LastOf, A1, A2, A3, A4, A5, A6
<1>2. /\ LastOf(A7) = "release" /\ LastOf(A8) = "release"
      /\ LastOf(B3) = "release" /\ LastOf(B4) = "release" /\ LastOf(B5) = "release" /\ LastOf(B6) = "release"
  BY Lengths DEF LastOf, A7, A8, B3, B4, B5, B6
<1>3. /\ LastOf(M1) # "release" /\ LastOf(M2) # "release" /\ LastOf(C1) # "release"
      /\ LastOf(C2) # "release" /\ LastOf(C3) # "release" /\ LastOf(C4) # "release"
  BY Lengths DEF LastOf, M1, M2, C1, C2, C3, C4
<1> QED BY <1>1, <1>2, <1>3

StepNames == Steps \cup {"attempt", "takeOver", "own", "release"}
LEMMA TodoTypes == \A t \in Todos : t \in Seq(StepNames)
<1> DEFINE Names == {"loadConf", "loadMiddlewares", "writeMiddlewares", "writeConf", "attempt", "takeOver",
                     "own", "release"}
<1>1. StepNames = Names
  BY DEF StepNames, Steps
<1>2. A1 \in Seq(Names) /\ A2 \in Seq(Names) /\ A3 \in Seq(Names) /\ A4 \in Seq(Names)
  BY DEF A1, A2, A3, A4
<1>3. A5 \in Seq(Names) /\ A6 \in Seq(Names)
  BY DEF A5, A6
<1>4. A7 \in Seq(Names) /\ A8 \in Seq(Names)
  BY DEF A7, A8
<1>5. B3 \in Seq(Names) /\ B4 \in Seq(Names) /\ B5 \in Seq(Names) /\ B6 \in Seq(Names)
  BY DEF B3, B4, B5, B6
<1>6. M1 \in Seq(Names) /\ M2 \in Seq(Names) /\ C1 \in Seq(Names) /\ C2 \in Seq(Names) /\ C3 \in Seq(Names)
      /\ C4 \in Seq(Names) /\ <<>> \in Seq(Names)
  BY DEF M1, M2, C1, C2, C3, C4
<1> HIDE DEF Names
<1> QED BY <1>1, <1>2, <1>3, <1>4, <1>5, <1>6 DEF Todos, WithPath, WithoutPath

\* A sequence put together from two.
LEMMA Joined ==
  ASSUME NEW S, NEW s \in Seq(S), NEW t \in Seq(S), NEW u \in Seq(S), Len(u) = Len(s) + Len(t),
         \A i \in 1..Len(u) : u[i] = IF i <= Len(s) THEN s[i] ELSE t[i - Len(s)]
  PROVE  s \o t = u
<1>1. s \o t \in Seq(S) /\ Len(s \o t) = Len(s) + Len(t)
  BY ConcatProperties, Zenon
<1>2. \A i \in 1..Len(s) + Len(t) : (s \o t)[i] = IF i <= Len(s) THEN s[i] ELSE t[i - Len(s)]
  BY ConcatProperties, Zenon
<1>3. \A i \in 1..Len(s \o t) : (s \o t)[i] = u[i]
  BY <1>1, <1>2, Zenon
<1> QED BY <1>1, <1>3, SeqEqual, Zenon

\* The sequences the programs are put together from.
LEMMA Concatenations ==
  /\ Locked(<<"loadConf", "loadMiddlewares", "writeMiddlewares", "writeConf">>) = A7
  /\ Locked(<<"loadConf", "writeConf">>) = B5
  /\ <<"loadConf">> \o <<"loadMiddlewares", "writeMiddlewares">> \o <<"writeConf">>
        = <<"loadConf", "loadMiddlewares", "writeMiddlewares", "writeConf">>
  /\ <<"loadConf">> \o <<>> \o <<"writeConf">> = <<"loadConf", "writeConf">>
  /\ <<"takeOver">> \o A7 = A8 /\ <<"takeOver">> \o B5 = B6
<1>1. <<"loadConf">> \o <<"loadMiddlewares", "writeMiddlewares">>
       = <<"loadConf", "loadMiddlewares", "writeMiddlewares">>
  <2> DEFINE s == <<"loadConf">>
             t == <<"loadMiddlewares", "writeMiddlewares">>
             u == <<"loadConf", "loadMiddlewares", "writeMiddlewares">>
  <2>1. s \in Seq(StepNames) /\ t \in Seq(StepNames) /\ u \in Seq(StepNames)
    BY DEF StepNames, Steps
  <2>2. /\ Len(s) = 1 /\ s[1] = "loadConf"
        /\ Len(t) = 2 /\ t[1] = "loadMiddlewares" /\ t[2] = "writeMiddlewares"
        /\ Len(u) = 3
        /\ u[1] = "loadConf" /\ u[2] = "loadMiddlewares" /\ u[3] = "writeMiddlewares"
    OBVIOUS
  <2> HIDE DEF s, t, u
  <2>3. Len(u) = Len(s) + Len(t)
    BY <2>2
  <2>4. \A i \in 1..Len(u) : u[i] = IF i <= Len(s) THEN s[i] ELSE t[i - Len(s)]
    BY <2>2
  <2>5. s \o t = u
    BY <2>1, <2>3, <2>4, Joined, Zenon
  <2> QED BY <2>5 DEF s, t, u
<1>2. <<"loadConf", "loadMiddlewares", "writeMiddlewares">> \o <<"writeConf">>
       = <<"loadConf", "loadMiddlewares", "writeMiddlewares", "writeConf">>
  <2> DEFINE s == <<"loadConf", "loadMiddlewares", "writeMiddlewares">>
             t == <<"writeConf">>
             u == <<"loadConf", "loadMiddlewares", "writeMiddlewares", "writeConf">>
  <2>1. s \in Seq(StepNames) /\ t \in Seq(StepNames) /\ u \in Seq(StepNames)
    BY DEF StepNames, Steps
  <2>2. /\ Len(s) = 3 /\ s[1] = "loadConf" /\ s[2] = "loadMiddlewares" /\ s[3] = "writeMiddlewares"
        /\ Len(t) = 1 /\ t[1] = "writeConf"
        /\ Len(u) = 4
        /\ u[1] = "loadConf" /\ u[2] = "loadMiddlewares" /\ u[3] = "writeMiddlewares" /\ u[4] = "writeConf"
    OBVIOUS
  <2> HIDE DEF s, t, u
  <2>3. Len(u) = Len(s) + Len(t)
    BY <2>2
  <2>4. \A i \in 1..Len(u) : u[i] = IF i <= Len(s) THEN s[i] ELSE t[i - Len(s)]
    BY <2>2
  <2>5. s \o t = u
    BY <2>1, <2>3, <2>4, Joined, Zenon
  <2> QED BY <2>5 DEF s, t, u
<1>3. <<"loadConf">> \o <<"writeConf">>
       = <<"loadConf", "writeConf">>
  <2> DEFINE s == <<"loadConf">>
             t == <<"writeConf">>
             u == <<"loadConf", "writeConf">>
  <2>1. s \in Seq(StepNames) /\ t \in Seq(StepNames) /\ u \in Seq(StepNames)
    BY DEF StepNames, Steps
  <2>2. /\ Len(s) = 1 /\ s[1] = "loadConf"
        /\ Len(t) = 1 /\ t[1] = "writeConf"
        /\ Len(u) = 2
        /\ u[1] = "loadConf" /\ u[2] = "writeConf"
    OBVIOUS
  <2> HIDE DEF s, t, u
  <2>3. Len(u) = Len(s) + Len(t)
    BY <2>2
  <2>4. \A i \in 1..Len(u) : u[i] = IF i <= Len(s) THEN s[i] ELSE t[i - Len(s)]
    BY <2>2
  <2>5. s \o t = u
    BY <2>1, <2>3, <2>4, Joined, Zenon
  <2> QED BY <2>5 DEF s, t, u
<1>4. <<"attempt", "own">> \o <<"loadConf", "loadMiddlewares", "writeMiddlewares", "writeConf">>
       = <<"attempt", "own", "loadConf", "loadMiddlewares", "writeMiddlewares", "writeConf">>
  <2> DEFINE s == <<"attempt", "own">>
             t == <<"loadConf", "loadMiddlewares", "writeMiddlewares", "writeConf">>
             u == <<"attempt", "own", "loadConf", "loadMiddlewares", "writeMiddlewares", "writeConf">>
  <2>1. s \in Seq(StepNames) /\ t \in Seq(StepNames) /\ u \in Seq(StepNames)
    BY DEF StepNames, Steps
  <2>2. /\ Len(s) = 2 /\ s[1] = "attempt" /\ s[2] = "own"
        /\ Len(t) = 4 /\ t[1] = "loadConf" /\ t[2] = "loadMiddlewares" /\ t[3] = "writeMiddlewares" /\ t[4] = "writeConf"
        /\ Len(u) = 6
        /\ u[1] = "attempt" /\ u[2] = "own" /\ u[3] = "loadConf" /\ u[4] = "loadMiddlewares"
        /\ u[5] = "writeMiddlewares" /\ u[6] = "writeConf"
    OBVIOUS
  <2> HIDE DEF s, t, u
  <2>3. Len(u) = Len(s) + Len(t)
    BY <2>2
  <2>4. \A i \in 1..Len(u) : u[i] = IF i <= Len(s) THEN s[i] ELSE t[i - Len(s)]
    BY <2>2
  <2>5. s \o t = u
    BY <2>1, <2>3, <2>4, Joined, Zenon
  <2> QED BY <2>5 DEF s, t, u
<1>5. <<"attempt", "own", "loadConf", "loadMiddlewares", "writeMiddlewares", "writeConf">> \o <<"release">>
       = <<"attempt", "own", "loadConf", "loadMiddlewares", "writeMiddlewares", "writeConf", "release">>
  <2> DEFINE s == <<"attempt", "own", "loadConf", "loadMiddlewares", "writeMiddlewares", "writeConf">>
             t == <<"release">>
             u == <<"attempt", "own", "loadConf", "loadMiddlewares", "writeMiddlewares", "writeConf", "release">>
  <2>1. s \in Seq(StepNames) /\ t \in Seq(StepNames) /\ u \in Seq(StepNames)
    BY DEF StepNames, Steps
  <2>2. /\ Len(s) = 6 /\ s[1] = "attempt" /\ s[2] = "own" /\ s[3] = "loadConf" /\ s[4] = "loadMiddlewares" /\ s[5] = "writeMiddlewares" /\ s[6] = "writeConf"
        /\ Len(t) = 1 /\ t[1] = "release"
        /\ Len(u) = 7
        /\ u[1] = "attempt" /\ u[2] = "own" /\ u[3] = "loadConf" /\ u[4] = "loadMiddlewares"
        /\ u[5] = "writeMiddlewares" /\ u[6] = "writeConf" /\ u[7] = "release"
    OBVIOUS
  <2> HIDE DEF s, t, u
  <2>3. Len(u) = Len(s) + Len(t)
    BY <2>2
  <2>4. \A i \in 1..Len(u) : u[i] = IF i <= Len(s) THEN s[i] ELSE t[i - Len(s)]
    BY <2>2
  <2>5. s \o t = u
    BY <2>1, <2>3, <2>4, Joined, Zenon
  <2> QED BY <2>5 DEF s, t, u
<1>6. <<"attempt", "own">> \o <<"loadConf", "writeConf">>
       = <<"attempt", "own", "loadConf", "writeConf">>
  <2> DEFINE s == <<"attempt", "own">>
             t == <<"loadConf", "writeConf">>
             u == <<"attempt", "own", "loadConf", "writeConf">>
  <2>1. s \in Seq(StepNames) /\ t \in Seq(StepNames) /\ u \in Seq(StepNames)
    BY DEF StepNames, Steps
  <2>2. /\ Len(s) = 2 /\ s[1] = "attempt" /\ s[2] = "own"
        /\ Len(t) = 2 /\ t[1] = "loadConf" /\ t[2] = "writeConf"
        /\ Len(u) = 4
        /\ u[1] = "attempt" /\ u[2] = "own" /\ u[3] = "loadConf" /\ u[4] = "writeConf"
    OBVIOUS
  <2> HIDE DEF s, t, u
  <2>3. Len(u) = Len(s) + Len(t)
    BY <2>2
  <2>4. \A i \in 1..Len(u) : u[i] = IF i <= Len(s) THEN s[i] ELSE t[i - Len(s)]
    BY <2>2
  <2>5. s \o t = u
    BY <2>1, <2>3, <2>4, Joined, Zenon
  <2> QED BY <2>5 DEF s, t, u
<1>7. <<"attempt", "own", "loadConf", "writeConf">> \o <<"release">>
       = <<"attempt", "own", "loadConf", "writeConf", "release">>
  <2> DEFINE s == <<"attempt", "own", "loadConf", "writeConf">>
             t == <<"release">>
             u == <<"attempt", "own", "loadConf", "writeConf", "release">>
  <2>1. s \in Seq(StepNames) /\ t \in Seq(StepNames) /\ u \in Seq(StepNames)
    BY DEF StepNames, Steps
  <2>2. /\ Len(s) = 4 /\ s[1] = "attempt" /\ s[2] = "own" /\ s[3] = "loadConf" /\ s[4] = "writeConf"
        /\ Len(t) = 1 /\ t[1] = "release"
        /\ Len(u) = 5
        /\ u[1] = "attempt" /\ u[2] = "own" /\ u[3] = "loadConf" /\ u[4] = "writeConf"
        /\ u[5] = "release"
    OBVIOUS
  <2> HIDE DEF s, t, u
  <2>3. Len(u) = Len(s) + Len(t)
    BY <2>2
  <2>4. \A i \in 1..Len(u) : u[i] = IF i <= Len(s) THEN s[i] ELSE t[i - Len(s)]
    BY <2>2
  <2>5. s \o t = u
    BY <2>1, <2>3, <2>4, Joined, Zenon
  <2> QED BY <2>5 DEF s, t, u
<1>8. <<"takeOver">> \o <<"attempt", "own", "loadConf", "loadMiddlewares", "writeMiddlewares", "writeConf", "release">>
       = <<"takeOver", "attempt", "own", "loadConf", "loadMiddlewares", "writeMiddlewares", "writeConf", "release">>
  <2> DEFINE s == <<"takeOver">>
             t == <<"attempt", "own", "loadConf", "loadMiddlewares", "writeMiddlewares", "writeConf", "release">>
             u == <<"takeOver", "attempt", "own", "loadConf", "loadMiddlewares", "writeMiddlewares", "writeConf", "release">>
  <2>1. s \in Seq(StepNames) /\ t \in Seq(StepNames) /\ u \in Seq(StepNames)
    BY DEF StepNames, Steps
  <2>2. /\ Len(s) = 1 /\ s[1] = "takeOver"
        /\ Len(t) = 7 /\ t[1] = "attempt" /\ t[2] = "own" /\ t[3] = "loadConf" /\ t[4] = "loadMiddlewares" /\ t[5] = "writeMiddlewares" /\ t[6] = "writeConf" /\ t[7] = "release"
        /\ Len(u) = 8
        /\ u[1] = "takeOver" /\ u[2] = "attempt" /\ u[3] = "own" /\ u[4] = "loadConf"
        /\ u[5] = "loadMiddlewares" /\ u[6] = "writeMiddlewares" /\ u[7] = "writeConf" /\ u[8] = "release"
    OBVIOUS
  <2> HIDE DEF s, t, u
  <2>3. Len(u) = Len(s) + Len(t)
    BY <2>2
  <2>4. \A i \in 1..Len(u) : u[i] = IF i <= Len(s) THEN s[i] ELSE t[i - Len(s)]
    BY <2>2
  <2>5. s \o t = u
    BY <2>1, <2>3, <2>4, Joined, Zenon
  <2> QED BY <2>5 DEF s, t, u
<1>9. <<"takeOver">> \o <<"attempt", "own", "loadConf", "writeConf", "release">>
       = <<"takeOver", "attempt", "own", "loadConf", "writeConf", "release">>
  <2> DEFINE s == <<"takeOver">>
             t == <<"attempt", "own", "loadConf", "writeConf", "release">>
             u == <<"takeOver", "attempt", "own", "loadConf", "writeConf", "release">>
  <2>1. s \in Seq(StepNames) /\ t \in Seq(StepNames) /\ u \in Seq(StepNames)
    BY DEF StepNames, Steps
  <2>2. /\ Len(s) = 1 /\ s[1] = "takeOver"
        /\ Len(t) = 5 /\ t[1] = "attempt" /\ t[2] = "own" /\ t[3] = "loadConf" /\ t[4] = "writeConf" /\ t[5] = "release"
        /\ Len(u) = 6
        /\ u[1] = "takeOver" /\ u[2] = "attempt" /\ u[3] = "own" /\ u[4] = "loadConf"
        /\ u[5] = "writeConf" /\ u[6] = "release"
    OBVIOUS
  <2> HIDE DEF s, t, u
  <2>3. Len(u) = Len(s) + Len(t)
    BY <2>2
  <2>4. \A i \in 1..Len(u) : u[i] = IF i <= Len(s) THEN s[i] ELSE t[i - Len(s)]
    BY <2>2
  <2>5. s \o t = u
    BY <2>1, <2>3, <2>4, Joined, Zenon
  <2> QED BY <2>5 DEF s, t, u
<1>10. <<"loadConf">> \o <<>> = <<"loadConf">>
  <2>1. <<"loadConf">> \in Seq(StepNames)
    BY DEF StepNames, Steps
  <2> QED BY <2>1, ConcatEmptySeq, Zenon
<1>11. Locked(<<"loadConf", "loadMiddlewares", "writeMiddlewares", "writeConf">>) = A7
  BY <1>4, <1>5, Zenon DEF Locked, A7
<1>12. Locked(<<"loadConf", "writeConf">>) = B5
  BY <1>6, <1>7, Zenon DEF Locked, B5
<1> QED BY <1>1, <1>2, <1>3, <1>8, <1>9, <1>10, <1>11, <1>12, Zenon DEF A7, A8, B5, B6

\* The program of a mutation begins where Remaining begins.
LEMMA Programs ==
  ASSUME NEW e \in Entries
  PROVE  /\ Program("manage", e) = IF e \in Paths THEN A7 ELSE B5
         /\ Program("remove", e) = A7 /\ Program("updateMiddleware", e) = M2
         /\ Program("addMiddleware", e) = C4 /\ Program("removeMiddleware", e) = C4
<1>1. Program("manage", e) = IF e \in Paths THEN A7 ELSE B5
  <2>1. Program("manage", e) =
          Locked(<<"loadConf">> \o (IF e \in Paths THEN <<"loadMiddlewares", "writeMiddlewares">> ELSE <<>>)
                   \o <<"writeConf">>)
    BY DEF Program
  <2>2. CASE e \in Paths
    BY <2>1, <2>2, Concatenations, Zenon
  <2>3. CASE e \notin Paths
    BY <2>1, <2>3, Concatenations, Zenon
  <2> QED BY <2>2, <2>3
<1>2. Program("remove", e) = A7
  <2>1. Program("remove", e) = Locked(<<"loadConf", "loadMiddlewares", "writeMiddlewares", "writeConf">>)
    BY DEF Program
  <2> QED BY <2>1, Concatenations, Zenon
<1>3. Program("updateMiddleware", e) = M2 /\ Program("addMiddleware", e) = C4 /\ Program("removeMiddleware", e) = C4
  BY DEF Program, M2, C4
<1> QED BY <1>1, <1>2, <1>3

\* The same of all of them, with the operators on sequences out of sight.
HeadOf(t) == Head(t)
LenOf(t) == Len(t)

LEMMA Signatures ==
  /\ HeadOf(A1) = "release" /\ HeadOf(A2) = "writeConf" /\ HeadOf(A3) = "writeMiddlewares"
  /\ HeadOf(A4) = "loadMiddlewares" /\ HeadOf(A5) = "loadConf" /\ HeadOf(A6) = "own"
  /\ HeadOf(A7) = "attempt" /\ HeadOf(A8) = "takeOver"
  /\ HeadOf(B3) = "loadConf" /\ HeadOf(B4) = "own" /\ HeadOf(B5) = "attempt" /\ HeadOf(B6) = "takeOver"
  /\ HeadOf(M1) = "writeMiddlewares" /\ HeadOf(M2) = "loadMiddlewares"
  /\ HeadOf(C1) = "writeConf" /\ HeadOf(C2) = "writeMiddlewares" /\ HeadOf(C3) = "loadConf"
  /\ HeadOf(C4) = "loadMiddlewares"
  /\ LenOf(<<>>) = 0 /\ LenOf(A1) = 1 /\ LenOf(A2) = 2 /\ LenOf(A3) = 3 /\ LenOf(A4) = 4
  /\ LenOf(A5) = 5 /\ LenOf(A6) = 6 /\ LenOf(A7) = 7 /\ LenOf(A8) = 8
  /\ LenOf(B3) = 3 /\ LenOf(B4) = 4 /\ LenOf(B5) = 5 /\ LenOf(B6) = 6
  /\ LenOf(M1) = 1 /\ LenOf(M2) = 2
  /\ LenOf(C1) = 1 /\ LenOf(C2) = 2 /\ LenOf(C3) = 3 /\ LenOf(C4) = 4
<1>1. \A t : HeadOf(t) = Head(t) /\ LenOf(t) = Len(t)
  BY DEF HeadOf, LenOf
<1> QED BY <1>1, Heads, Lengths, Zenon

LEMMA Distinct ==
  /\ \A t \in {A1, A2, A3, A4, A5, A6, A7, A8, B3, B4, B5, B6} : t \notin {M1, M2, C1, C2, C3, C4, <<>>}
  /\ \A t \in {M1, M2, C1, C2, C3, C4} : t # <<>>
  BY Signatures, Lasts

\* Where a client is, by what it has left to do.
LEMMA Places ==
  ASSUME NEW t \in Todos, t # <<>>
  PROVE  /\ Head(t) = "takeOver" <=> t \in {A8, B6}
         /\ Head(t) = "attempt" <=> t \in {A7, B5}
         /\ Head(t) = "own" <=> t \in {A6, B4}
         /\ Head(t) = "loadConf" <=> t \in {A5, B3, C3}
         /\ Head(t) = "loadMiddlewares" <=> t \in {A4, M2, C4}
         /\ Head(t) = "writeMiddlewares" <=> t \in {A3, M1, C2}
         /\ Head(t) = "writeConf" <=> t \in {A2, C1}
         /\ Head(t) = "release" <=> t = A1
         /\ Len(t) = 1 <=> t \in {A1, M1, C1}
         /\ LastOf(t) = "release" <=> t \in WithPath \cup WithoutPath
<1> DEFINE ByHead(x) ==
      /\ HeadOf(x) = "takeOver" <=> x \in {A8, B6}
      /\ HeadOf(x) = "attempt" <=> x \in {A7, B5}
      /\ HeadOf(x) = "own" <=> x \in {A6, B4}
      /\ HeadOf(x) = "loadConf" <=> x \in {A5, B3, C3}
      /\ HeadOf(x) = "loadMiddlewares" <=> x \in {A4, M2, C4}
      /\ HeadOf(x) = "writeMiddlewares" <=> x \in {A3, M1, C2}
      /\ HeadOf(x) = "writeConf" <=> x \in {A2, C1}
      /\ HeadOf(x) = "release" <=> x = A1
<1>1. t \in {A1, A2, A3, A4, A5, A6, A7, A8, B3, B4, B5, B6} \/ t \in {M1, M2, C1, C2, C3, C4}
  BY DEF Todos, WithPath, WithoutPath
<1>2. ByHead(t)
  <2>1. t \in {A1, A2, A3, A4, A5, A6, A7, A8} => ByHead(t)
    BY Signatures
  <2>2. t \in {B3, B4, B5, B6, M1, M2, C1, C2, C3, C4} => ByHead(t)
    BY Signatures
  <2> QED BY <1>1, <2>1, <2>2
<1>3. LenOf(t) = 1 <=> t \in {A1, M1, C1}
  BY <1>1, Signatures
<1>4. LastOf(t) = "release" <=> t \in WithPath \cup WithoutPath
  <2>1. t \in WithPath \cup WithoutPath <=> t \in {A1, A2, A3, A4, A5, A6, A7, A8, B3, B4, B5, B6}
    BY DEF WithPath, WithoutPath
  <2> QED BY <1>1, <2>1, Lasts, Zenon
<1> QED BY <1>2, <1>3, <1>4, Zenon DEF HeadOf, LenOf

\* The rest of a mutation remains one of that mutation.
LEMMA RestRemains ==
  ASSUME NEW kind, NEW e, NEW t \in Remaining(kind, e)
  PROVE  /\ t \in Todos
         /\ t # <<>> /\ t \notin {A1, M1, C1} => Tail(t) \in Remaining(kind, e)
         /\ t = A7 => A8 \in Remaining(kind, e)
         /\ t = B5 => B6 \in Remaining(kind, e)
         /\ t \in Within => A1 \in Remaining(kind, e)
         /\ t = A4 => A2 \in Remaining(kind, e)
<1> DEFINE TailOf(x) == Tail(x)
<1>1. /\ TailOf(A2) = A1 /\ TailOf(A3) = A2 /\ TailOf(A4) = A3 /\ TailOf(A5) = A4 /\ TailOf(A6) = A5
      /\ TailOf(A7) = A6 /\ TailOf(A8) = A7
      /\ TailOf(B3) = A2 /\ TailOf(B4) = B3 /\ TailOf(B5) = B4 /\ TailOf(B6) = B5
      /\ TailOf(M2) = M1 /\ TailOf(C2) = C1 /\ TailOf(C3) = C2 /\ TailOf(C4) = C3
  BY Tails
<1> HIDE DEF TailOf
<1>2. \/ Remaining(kind, e) = WithPath \/ Remaining(kind, e) = WithoutPath
      \/ Remaining(kind, e) = {M1, M2} \/ Remaining(kind, e) = {C1, C2, C3, C4} \/ Remaining(kind, e) = {<<>>}
  BY DEF Remaining
<1>3. CASE Remaining(kind, e) = WithPath
  <2>1. A8 \in Remaining(kind, e) /\ A1 \in Remaining(kind, e) /\ A2 \in Remaining(kind, e) /\ t \in Todos
    BY <1>3 DEF WithPath, Todos
  <2>2. t # B5
    BY <1>3, Signatures DEF WithPath
  <2>3. t \notin {A1, M1, C1} => TailOf(t) \in Remaining(kind, e)
    BY <1>1, <1>3 DEF WithPath
  <2> QED BY <2>1, <2>2, <2>3, Zenon DEF TailOf
<1>4. CASE Remaining(kind, e) = WithoutPath
  <2>1. B6 \in Remaining(kind, e) /\ A1 \in Remaining(kind, e) /\ A2 \in Remaining(kind, e) /\ t \in Todos
    BY <1>4 DEF WithoutPath, Todos
  <2>2. t # A7
    BY <1>4, Signatures DEF WithoutPath
  <2>3. t \notin {A1, M1, C1} => TailOf(t) \in Remaining(kind, e)
    BY <1>1, <1>4 DEF WithoutPath
  <2> QED BY <2>1, <2>2, <2>3, Zenon DEF TailOf
<1>5. CASE Remaining(kind, e) \in {{M1, M2}, {C1, C2, C3, C4}, {<<>>}}
  <2>1. t \in {M1, M2, C1, C2, C3, C4, <<>>} /\ t \in Todos
    BY <1>5 DEF Todos
  <2>2. t \notin {A7, B5, A4} /\ t \notin Within
    BY <2>1, Distinct DEF Within
  <2>3. t # <<>> /\ t \notin {A1, M1, C1} => TailOf(t) \in Remaining(kind, e)
    <3>1. CASE Remaining(kind, e) = {M1, M2}
      BY <1>1, <3>1
    <3>2. CASE Remaining(kind, e) = {C1, C2, C3, C4}
      BY <1>1, <3>2
    <3>3. CASE Remaining(kind, e) = {<<>>}
      BY <3>3
    <3> QED BY <1>5, <3>1, <3>2, <3>3
  <2> QED BY <2>1, <2>2, <2>3, Zenon DEF TailOf
<1> QED BY <1>2, <1>3, <1>4, <1>5

-----------------------------------------------------------------------------
(* Types.                                                                   *)

\* Files of routers: functions from some of the domains to sets of redirects.
LEMMA RouterFiles ==
  /\ NoRouters \in Routers
  /\ \A f \in Routers : /\ DOMAIN f \in SUBSET Sites /\ f = [d \in DOMAIN f |-> f[d]]
                        /\ \A d \in DOMAIN f : f[d] \in SUBSET Middlewares
  /\ \A S \in SUBSET Sites : \A f \in [S -> SUBSET Middlewares] : f \in Routers
<1>1. \A S \in SUBSET Sites : \A f \in [S -> SUBSET Middlewares] : f \in Routers
  BY DEF Routers
<1>2. NoRouters \in [{} -> SUBSET Middlewares] /\ {} \in SUBSET Sites
  BY DEF NoRouters
<1>3. ASSUME NEW f \in Routers
      PROVE  /\ DOMAIN f \in SUBSET Sites /\ f = [d \in DOMAIN f |-> f[d]]
             /\ \A d \in DOMAIN f : f[d] \in SUBSET Middlewares
  <2>1. PICK S \in SUBSET Sites : f \in [S -> SUBSET Middlewares]
    BY DEF Routers
  <2> QED BY <2>1
<1> QED BY <1>1, <1>2, <1>3

LEMMA IdleType == NoMutation \in MutationStates /\ NoMutation.kind = "none" /\ NoMutation.todo = <<>>
  <1>1. NoRouters \in Routers /\ <<>> \in Todos /\ 0 \in 0..MaxTries
    BY RouterFiles, TraefikAssumption DEF Todos
  <1> QED BY <1>1 DEF NoMutation, MutationStates

\* What the invariant says of one client.
LEMMA Location ==
  ASSUME TypeIInv, NEW c \in Writers
  PROVE  /\ doing[c] \in MutationStates /\ doing[c].todo \in Todos
         /\ Active(c) <=> doing[c].kind # "none"
         /\ Active(c) => c \notin dead
         /\ At(c, "takeOver") <=> doing[c].todo \in {A8, B6}
         /\ At(c, "attempt") <=> doing[c].todo \in {A7, B5}
         /\ At(c, "own") <=> doing[c].todo \in {A6, B4}
         /\ At(c, "loadConf") <=> doing[c].todo \in {A5, B3, C3}
         /\ At(c, "loadMiddlewares") <=> doing[c].todo \in {A4, M2, C4}
         /\ At(c, "writeMiddlewares") <=> doing[c].todo \in {A3, M1, C2}
         /\ At(c, "writeConf") <=> doing[c].todo \in {A2, C1}
         /\ At(c, "release") <=> doing[c].todo = A1
         /\ Inside(c) <=> doing[c].todo \in Within
<1> DEFINE t == doing[c].todo
<1>1. doing[c] \in MutationStates /\ t \in Todos /\ t \in Remaining(doing[c].kind, doing[c].key)
  BY DEF TypeIInv, Kinded, ProgramOK, MutationStates
<1>2. <<>> \notin WithPath \cup WithoutPath \cup {M1, M2, C1, C2, C3, C4}
  BY Distinct DEF WithPath, WithoutPath
<1>3. Active(c) <=> doing[c].kind # "none"
  <2>1. doing[c].kind \in RouteKinds \cup MiddlewareKinds \cup {"none"}
    BY <1>1, TraefikAssumption DEF MutationStates
  <2> QED BY <1>1, <1>2, <2>1 DEF Remaining, Active, RouteKinds, MiddlewareKinds
<1>4. Active(c) => c \notin dead
  BY DEF TypeIInv, ProgramOK, Active
<1>5. CASE t = <<>>
  <2>1. t \notin Within /\ t \notin {A7, A8, A6, A5, A4, A3, A2, A1, B3, B4, B5, B6, M1, M2, C1, C2, C3, C4}
    BY <1>2, <1>5 DEF Within, WithPath, WithoutPath
  <2> QED BY <1>1, <1>3, <1>4, <1>5, <2>1 DEF At, Inside, Active
<1>6. CASE t # <<>>
  <2>1. Inside(c) <=> LastOf(t) = "release" /\ Head(t) # "attempt" /\ Head(t) # "takeOver"
    BY <1>6 DEF Inside, At, Active, LastOf
  <2>2. t \in Within <=> t \in WithPath \cup WithoutPath /\ t \notin {A7, B5} /\ t \notin {A8, B6}
    <3>1. Within \cap {A7, B5, A8, B6} = {}
      BY Signatures DEF Within
    <3> QED BY <3>1 DEF Within, WithPath, WithoutPath
  <2>3. Inside(c) <=> t \in Within
    BY <1>1, <1>6, <2>1, <2>2, Places
  <2> QED BY <1>1, <1>3, <1>4, <1>6, <2>3, Places DEF At, Active
<1> QED BY <1>5, <1>6

\* One client's mutation goes on or ends.
LEMMA OneMoves ==
  ASSUME TypeIInv, NEW c \in Writers, Active(c), NEW x \in MutationStates, doing' = [doing EXCEPT ![c] = x],
         x = NoMutation \/ /\ x.kind = doing[c].kind /\ x.key = doing[c].key
                           /\ x.todo \in Remaining(doing[c].kind, doing[c].key),
         dead' = dead \/ (dead' = dead \cup {c} /\ x = NoMutation)
  PROVE  /\ doing' \in [Writers -> MutationStates] /\ ProgramOK' /\ dead' \in SUBSET Writers
         /\ doing'[c] = x /\ \A b \in Writers \ {c} : doing'[b] = doing[b]
<1>1. doing \in [Writers -> MutationStates] /\ ProgramOK /\ dead \in SUBSET Writers
  BY DEF TypeIInv, Kinded
<1>2. doing' \in [Writers -> MutationStates] /\ doing'[c] = x /\ \A b \in Writers \ {c} : doing'[b] = doing[b]
  BY <1>1
<1>3. c \notin dead
  BY Location
<1>4. <<>> \in Remaining("none", NoMutation.key)
  BY DEF Remaining
<1>5. x.todo \in Remaining(x.kind, x.key)
      /\ (x.kind # "none" => x.key \in Entries /\ (x.kind \in RouteKinds <=> x.key \in Sites))
      /\ (c \in dead' => x.todo = <<>>)
  BY <1>1, <1>3, <1>4, IdleType DEF ProgramOK
<1>6. \A b \in Writers \ {c} : b \in dead' => b \in dead
  OBVIOUS
<1> QED BY <1>1, <1>2, <1>5, <1>6 DEF ProgramOK

LEMMA Continues ==
  ASSUME TypeIInv, NEW c \in Writers, Active(c), Continue(c)
  PROVE  /\ doing' = [doing EXCEPT ![c] = doing'[c]]
         /\ doing'[c] = IF doing[c].todo \in {A1, M1, C1} THEN NoMutation ELSE [doing[c] EXCEPT !.todo = Tail(doing[c].todo)]
         /\ doing'[c] \in MutationStates
         /\ doing'[c] = NoMutation \/ /\ doing'[c].kind = doing[c].kind /\ doing'[c].key = doing[c].key
                                      /\ doing'[c].todo \in Remaining(doing[c].kind, doing[c].key)
<1> DEFINE t == doing[c].todo
<1>1. doing \in [Writers -> MutationStates] /\ doing[c] \in MutationStates /\ t \in Todos /\ t # <<>>
      /\ t \in Remaining(doing[c].kind, doing[c].key)
  BY Location DEF TypeIInv, Kinded, ProgramOK, Active
<1>2. Len(t) = 1 <=> t \in {A1, M1, C1}
  BY <1>1, Places
<1>3. doing' = [doing EXCEPT ![c] = IF t \in {A1, M1, C1} THEN NoMutation ELSE [doing[c] EXCEPT !.todo = Tail(t)]]
  BY <1>2, Zenon DEF Continue, Rest
<1>4. t \notin {A1, M1, C1} => Tail(t) \in Remaining(doing[c].kind, doing[c].key) /\ Tail(t) \in Todos
  BY <1>1, RestRemains
<1>5. t \notin {A1, M1, C1} => [doing[c] EXCEPT !.todo = Tail(t)] \in MutationStates
  BY <1>1, <1>4 DEF MutationStates
<1> HIDE DEF t
<1>6. doing'[c] = IF t \in {A1, M1, C1} THEN NoMutation ELSE [doing[c] EXCEPT !.todo = Tail(t)]
  BY <1>1, <1>3
<1>7. doing'[c] \in MutationStates
  BY <1>5, <1>6, IdleType
<1>8. t \notin {A1, M1, C1} => /\ doing'[c].kind = doing[c].kind /\ doing'[c].key = doing[c].key
                               /\ doing'[c].todo \in Remaining(doing[c].kind, doing[c].key)
  BY <1>1, <1>4, <1>6 DEF MutationStates
<1> QED BY <1>3, <1>6, <1>7, <1>8 DEF t

\* A mutation keeps what it is about and what it has read.
Keeps(c) ==
    /\ doing'[c].kind = doing[c].kind /\ doing'[c].key = doing[c].key /\ doing'[c].uses = doing[c].uses
    /\ doing'[c].conf = doing[c].conf /\ doing'[c].middlewares = doing[c].middlewares
OthersKeep(c) == \A b \in Writers \ {c} : doing'[b] = doing[b]
OpsOK == doing \in [Writers -> MutationStates] /\ ProgramOK /\ dead \in SUBSET Writers

\* The next command, or the end.
LEMMA NextCommand ==
  ASSUME TypeIInv, NEW c \in Writers, Active(c), Continue(c), UNCHANGED dead
  PROVE  /\ OpsOK' /\ OthersKeep(c)
         /\ doing[c].todo \in {A1, M1, C1} => doing'[c] = NoMutation
         /\ doing[c].todo \notin {A1, M1, C1} => Keeps(c) /\ doing'[c].todo = Tail(doing[c].todo)
<1>1. /\ doing' = [doing EXCEPT ![c] = doing'[c]]
      /\ doing'[c] = IF doing[c].todo \in {A1, M1, C1} THEN NoMutation ELSE [doing[c] EXCEPT !.todo = Tail(doing[c].todo)]
      /\ doing'[c] \in MutationStates
      /\ doing'[c] = NoMutation \/ /\ doing'[c].kind = doing[c].kind /\ doing'[c].key = doing[c].key
                                   /\ doing'[c].todo \in Remaining(doing[c].kind, doing[c].key)
  BY Continues
<1>2. OpsOK' /\ OthersKeep(c)
  BY <1>1, OneMoves, Zenon DEF OpsOK, OthersKeep
<1>3. ASSUME doing[c].todo \notin {A1, M1, C1}
      PROVE  Keeps(c) /\ doing'[c].todo = Tail(doing[c].todo)
  <2>1. doing[c] \in MutationStates /\ doing'[c] = [doing[c] EXCEPT !.todo = Tail(doing[c].todo)]
    BY <1>1, <1>3, Location
  <2> QED BY <2>1 DEF Keeps, MutationStates
<1> QED BY <1>1, <1>2, <1>3

\* A mutation that ends.
LEMMA Ends ==
  ASSUME TypeIInv, NEW c \in Writers, Active(c), doing' = [doing EXCEPT ![c] = NoMutation],
         dead' = dead \/ dead' = dead \cup {c}
  PROVE  OpsOK' /\ OthersKeep(c) /\ doing'[c] = NoMutation
  BY IdleType, OneMoves, Zenon DEF OpsOK, OthersKeep

LEMMA IntoOpsOK == TypeIInv <=> /\ conf \in Routers /\ middlewares \in SUBSET Entries /\ rows \in SUBSET Middlewares
                                /\ unfinished \in SUBSET Entries /\ lock \in LockDirs /\ OpsOK
  BY DEF TypeIInv, Kinded, OpsOK

LEMMA BeginMoves ==
  ASSUME TypeIInv, NEW c \in Writers, BeginMutation(c)
  PROVE  /\ TypeIInv' /\ OthersKeep(c)
         /\ doing'[c].kind \in Mutations /\ doing'[c].uses = rows
         /\ Exclusive => \A b \in Writers : Active(b) => {doing'[c].kind, doing[b].kind} \subseteq RouteKinds
         /\ rows' = CASE doing'[c].kind = "addMiddleware" -> rows \cup {doing'[c].key}
                      [] doing'[c].kind = "removeMiddleware" -> rows \ {doing'[c].key}
                      [] OTHER -> rows
         /\ doing'[c].todo = CASE doing'[c].kind = "manage" -> IF doing'[c].key \in Paths THEN A7 ELSE B5
                               [] doing'[c].kind = "remove" -> A7
                               [] doing'[c].kind = "updateMiddleware" -> M2
                               [] OTHER -> C4
<1>1. PICK kind \in Mutations, e \in Entries :
        /\ kind \in RouteKinds <=> e \in Sites
        /\ Exclusive => \A b \in Writers : Active(b) => {kind, doing[b].kind} \subseteq RouteKinds
        /\ doing' = [doing EXCEPT ![c] = [NoMutation EXCEPT !.kind = kind, !.key = e, !.uses = rows, !.todo = Program(kind, e)]]
        /\ rows' = CASE kind = "addMiddleware" -> rows \cup {e}
                     [] kind = "removeMiddleware" -> rows \ {e}
                     [] OTHER -> rows
  BY DEF BeginMutation
<1> DEFINE p == Program(kind, e)
           x == [NoMutation EXCEPT !.kind = kind, !.key = e, !.uses = rows, !.todo = p]
<1>2. kind \in RouteKinds \cup MiddlewareKinds
  BY TraefikAssumption
<1>3. /\ p = CASE kind = "manage" -> IF e \in Paths THEN A7 ELSE B5
               [] kind = "remove" -> A7
               [] kind = "updateMiddleware" -> M2
               [] OTHER -> C4
      /\ p \in Remaining(kind, e)
  <2>1. p = CASE kind = "manage" -> IF e \in Paths THEN A7 ELSE B5
               [] kind = "remove" -> A7
               [] kind = "updateMiddleware" -> M2
               [] OTHER -> C4
    BY <1>2, Programs DEF RouteKinds, MiddlewareKinds
  <2> HIDE DEF p
  <2> QED BY <1>2, <2>1 DEF RouteKinds, MiddlewareKinds, Remaining, WithPath, WithoutPath
<1> HIDE DEF p
<1>4. doing' = [doing EXCEPT ![c] = x]
  BY <1>1, Zenon DEF p
<1>5. doing \in [Writers -> MutationStates] /\ ProgramOK /\ dead \in SUBSET Writers /\ rows \in SUBSET Middlewares
  BY DEF TypeIInv, Kinded
<1>6. x \in MutationStates /\ x.kind = kind /\ x.key = e /\ x.uses = rows /\ x.todo = p
  <2>1. p \in Todos
    BY <1>3, RestRemains
  <2> QED BY <1>5, <2>1, IdleType DEF MutationStates
<1> HIDE DEF x
<1>7. doing' \in [Writers -> MutationStates] /\ doing'[c] = x /\ OthersKeep(c)
  BY <1>4, <1>5, <1>6 DEF OthersKeep
<1>8. ProgramOK'
  <2>1. c \notin dead /\ dead' = dead
    BY DEF BeginMutation
  <2>3. kind # "none" => e \in Entries /\ (kind \in RouteKinds <=> e \in Sites)
    BY <1>1
  <2>4. /\ doing'[c].todo \in Remaining(doing'[c].kind, doing'[c].key)
        /\ doing'[c].kind # "none" => doing'[c].key \in Entries /\ (doing'[c].kind \in RouteKinds <=> doing'[c].key \in Sites)
        /\ c \in dead' => doing'[c].todo = <<>>
    BY <1>3, <1>6, <1>7, <2>1, <2>3, Zenon
  <2> QED BY <1>5, <1>7, <2>1, <2>4, Zenon DEF ProgramOK, OthersKeep
<1>9. rows' \in SUBSET Middlewares
  <2>1. kind = "addMiddleware" => e \in Middlewares
    BY <1>1 DEF Entries, RouteKinds
  <2> QED BY <1>1, <1>5, <2>1
<1>10. UNCHANGED <<conf, middlewares, lock, dead, unfinished>>
  BY DEF BeginMutation
<1>11. TypeIInv'
  BY <1>5, <1>7, <1>8, <1>9, <1>10 DEF TypeIInv, Kinded
<1> QED BY <1>1, <1>3, <1>6, <1>7, <1>11, Zenon

LEMMA AttemptMoves ==
  ASSUME TypeIInv, NEW c \in Writers, Attempt(c)
  PROVE  /\ TypeIInv' /\ OthersKeep(c) /\ Keeps(c)
         /\ \/ doing[c].todo = A7 /\ doing'[c].todo = A6
            \/ doing[c].todo = B5 /\ doing'[c].todo = B4
<1>1. Active(c) /\ Continue(c) /\ UNCHANGED <<conf, middlewares, rows, dead, unfinished>>
      /\ lock' = [dir |-> TRUE, owner |-> Nobody, stale |-> FALSE] /\ doing[c].todo \in {A7, B5}
  BY Location DEF Attempt, At
<1>2. doing[c].todo \notin {A1, M1, C1}
  BY <1>1, Signatures
<1>3. OpsOK' /\ OthersKeep(c) /\ Keeps(c) /\ doing'[c].todo = Tail(doing[c].todo)
  BY <1>1, <1>2, NextCommand
<1>4. lock' \in LockDirs
  BY <1>1 DEF LockDirs
<1>5. TypeIInv'
  BY <1>1, <1>3, <1>4 DEF TypeIInv, Kinded, OpsOK
<1> QED BY <1>1, <1>3, <1>5, Tails, Zenon

LEMMA RetryMoves ==
  ASSUME TypeIInv, NEW c \in Writers, Retry(c)
  PROVE  /\ TypeIInv' /\ OthersKeep(c) /\ Keeps(c)
         /\ \/ doing[c].todo = A7 /\ (doing'[c].todo = A7 \/ (doing'[c].todo = A8 /\ lock.stale))
            \/ doing[c].todo = B5 /\ (doing'[c].todo = B5 \/ (doing'[c].todo = B6 /\ lock.stale))
<1> DEFINE n == doing[c].attempts + 1
           t == IF lock.stale THEN <<"takeOver">> \o doing[c].todo ELSE doing[c].todo
           x == [doing[c] EXCEPT !.attempts = n, !.todo = t]
<1>1. /\ Active(c) /\ doing[c].todo \in {A7, B5} /\ doing[c].attempts < MaxTries
      /\ doing' = [doing EXCEPT ![c].attempts = @ + 1, ![c].todo = IF lock.stale THEN <<"takeOver">> \o @ ELSE @]
      /\ UNCHANGED <<conf, middlewares, rows, lock, dead, unfinished>>
  BY Location DEF Retry, At
<1>2. /\ doing \in [Writers -> MutationStates] /\ doing[c] \in MutationStates
      /\ doing[c].todo \in Remaining(doing[c].kind, doing[c].key)
  BY DEF TypeIInv, Kinded, ProgramOK
<1>3. doing' = [doing EXCEPT ![c] = x]
  BY <1>1, <1>2 DEF MutationStates
<1>4. n \in 0..MaxTries
  BY <1>1, <1>2, TraefikAssumption DEF MutationStates
<1>5. \/ doing[c].todo = A7 /\ (t = A7 \/ (t = A8 /\ lock.stale))
      \/ doing[c].todo = B5 /\ (t = B5 \/ (t = B6 /\ lock.stale))
  <2>1. <<"takeOver">> \o A7 = A8 /\ <<"takeOver">> \o B5 = B6
    BY Concatenations
  <2>2. CASE lock.stale
    <3>1. t = <<"takeOver">> \o doing[c].todo
      BY <2>2
    <3> HIDE DEF t
    <3> QED BY <1>1, <2>1, <2>2, <3>1, Zenon
  <2>3. CASE ~ lock.stale
    <3>1. t = doing[c].todo
      BY <2>3
    <3> HIDE DEF t
    <3> QED BY <1>1, <3>1
  <2> QED BY <2>2, <2>3
<1> HIDE DEF n, t
<1>6. t \in Remaining(doing[c].kind, doing[c].key)
  BY <1>2, <1>5, RestRemains, Zenon
<1>7. t \in Todos
  BY <1>6, RestRemains
<1>8. /\ x \in MutationStates /\ x.kind = doing[c].kind /\ x.key = doing[c].key /\ x.uses = doing[c].uses
      /\ x.conf = doing[c].conf /\ x.middlewares = doing[c].middlewares /\ x.todo = t
  BY <1>2, <1>4, <1>7 DEF MutationStates
<1> HIDE DEF x
<1>9. OpsOK' /\ OthersKeep(c) /\ doing'[c] = x
  BY <1>1, <1>3, <1>6, <1>8, OneMoves, Zenon DEF OpsOK, OthersKeep
<1>10. Keeps(c) /\ doing'[c].todo = t
  BY <1>8, <1>9, Zenon DEF Keeps
<1>11. TypeIInv'
  BY <1>1, <1>9 DEF TypeIInv, Kinded, OpsOK
<1> QED BY <1>5, <1>9, <1>10, <1>11

LEMMA TakeOverMoves ==
  ASSUME TypeIInv, NEW c \in Writers, TakeOver(c)
  PROVE  /\ TypeIInv' /\ OthersKeep(c) /\ Keeps(c)
         /\ \/ doing[c].todo = A8 /\ doing'[c].todo = A7
            \/ doing[c].todo = B6 /\ doing'[c].todo = B5
<1>1. Active(c) /\ Continue(c) /\ UNCHANGED <<conf, middlewares, rows, dead, unfinished>>
      /\ lock' = NoLock /\ doing[c].todo \in {A8, B6}
  BY Location DEF TakeOver, At
<1>2. doing[c].todo \notin {A1, M1, C1}
  BY <1>1, Signatures
<1>3. OpsOK' /\ OthersKeep(c) /\ Keeps(c) /\ doing'[c].todo = Tail(doing[c].todo)
  BY <1>1, <1>2, NextCommand
<1>4. lock' \in LockDirs
  BY <1>1 DEF LockDirs, NoLock
<1>5. TypeIInv'
  BY <1>1, <1>3, <1>4 DEF TypeIInv, Kinded, OpsOK
<1> QED BY <1>1, <1>3, <1>5, Tails, Zenon

LEMMA GiveUpMoves ==
  ASSUME TypeIInv, NEW c \in Writers, GiveUp(c)
  PROVE  TypeIInv' /\ OthersKeep(c) /\ doing'[c] = NoMutation
<1>1. /\ Active(c) /\ doing' = [doing EXCEPT ![c] = NoMutation]
      /\ UNCHANGED <<conf, middlewares, rows, lock, dead, unfinished>>
  BY DEF GiveUp, At
<1>2. OpsOK' /\ OthersKeep(c) /\ doing'[c] = NoMutation
  BY <1>1, Ends
<1> QED BY <1>1, <1>2 DEF TypeIInv, Kinded, OpsOK

LEMMA OwnMoves ==
  ASSUME TypeIInv, NEW c \in Writers, Own(c)
  PROVE  /\ TypeIInv' /\ OthersKeep(c)
         /\ ~ lock.dir => doing'[c] = NoMutation /\ UNCHANGED lock
         /\ lock.dir => /\ lock' = [lock EXCEPT !.owner = c] /\ Keeps(c)
                        /\ \/ doing[c].todo = A6 /\ doing'[c].todo = A5
                           \/ doing[c].todo = B4 /\ doing'[c].todo = B3
<1>1. Active(c) /\ doing[c].todo \in {A6, B4} /\ UNCHANGED <<conf, middlewares, rows, dead, unfinished>>
  BY Location DEF Own, At
<1>2. doing[c].todo \notin {A1, M1, C1}
  BY <1>1, Signatures
<1>3. CASE lock.dir
  <2>1. lock' = [lock EXCEPT !.owner = c] /\ Continue(c)
    BY <1>3 DEF Own
  <2>2. OpsOK' /\ OthersKeep(c) /\ Keeps(c) /\ doing'[c].todo = Tail(doing[c].todo)
    BY <1>1, <1>2, <2>1, NextCommand
  <2>3. lock' \in LockDirs
    BY <2>1 DEF TypeIInv, Kinded, LockDirs
  <2>4. TypeIInv'
    BY <1>1, <2>2, <2>3 DEF TypeIInv, Kinded, OpsOK
  <2> QED BY <1>1, <1>3, <2>1, <2>2, <2>4, Tails, Zenon
<1>4. CASE ~ lock.dir
  <2>1. doing' = [doing EXCEPT ![c] = NoMutation] /\ UNCHANGED lock
    BY <1>4 DEF Own
  <2>2. OpsOK' /\ OthersKeep(c) /\ doing'[c] = NoMutation
    BY <1>1, <2>1, Ends
  <2> QED BY <1>1, <1>4, <2>1, <2>2 DEF TypeIInv, Kinded, OpsOK
<1> QED BY <1>3, <1>4

LEMMA ReleaseMoves ==
  ASSUME TypeIInv, NEW c \in Writers, Release(c)
  PROVE  TypeIInv' /\ OthersKeep(c) /\ doing[c].todo = A1 /\ doing'[c] = NoMutation
<1>1. Active(c) /\ Continue(c) /\ UNCHANGED <<conf, middlewares, rows, dead, unfinished>>
      /\ lock' = (IF lock.dir /\ lock.owner = c THEN NoLock ELSE lock) /\ doing[c].todo = A1
  BY Location DEF Release, At
<1>2. OpsOK' /\ OthersKeep(c) /\ doing'[c] = NoMutation
  BY <1>1, NextCommand
<1>3. lock' \in LockDirs
  BY <1>1 DEF LockDirs, NoLock, TypeIInv, Kinded
<1> QED BY <1>1, <1>2, <1>3 DEF TypeIInv, Kinded, OpsOK

\* What is written to the application's file is a file of routers.
LEMMA Written ==
  ASSUME TypeIInv, NEW c \in Writers
  PROVE  /\ doing[c].key \in Sites => WithRouter(c) \in Routers
         /\ doing[c].key \in Middlewares => WithMiddleware(c) \in Routers
         /\ WithoutRouter(c) \in Routers /\ WithoutMiddleware(c) \in Routers
<1> DEFINE f == doing[c].conf
           e == doing[c].key
<1>1. f \in Routers /\ doing[c].uses \in SUBSET Middlewares
  BY Location DEF MutationStates
<1>2. DOMAIN f \in SUBSET Sites /\ \A d \in DOMAIN f : f[d] \in SUBSET Middlewares
  BY <1>1, RouterFiles
<1>3. e \in Sites => WithRouter(c) \in Routers
  <2>1. ASSUME e \in Sites
        PROVE  WithRouter(c) \in [DOMAIN f \cup {e} -> SUBSET Middlewares] /\ DOMAIN f \cup {e} \in SUBSET Sites
    BY <1>1, <1>2, <2>1 DEF WithRouter
  <2> QED BY <2>1, RouterFiles
<1>4. e \in Middlewares => WithMiddleware(c) \in Routers
  <2>1. ASSUME e \in Middlewares
        PROVE  WithMiddleware(c) \in [DOMAIN f -> SUBSET Middlewares]
    BY <1>1, <1>2, <2>1 DEF WithMiddleware
  <2> QED BY <1>2, <2>1, RouterFiles
<1>5. WithoutRouter(c) \in Routers
  <2>1. WithoutRouter(c) \in [DOMAIN f \ {e} -> SUBSET Middlewares] /\ DOMAIN f \ {e} \in SUBSET Sites
    BY <1>1, <1>2 DEF WithoutRouter
  <2> QED BY <2>1, RouterFiles
<1>6. WithoutMiddleware(c) \in Routers
  <2>1. WithoutMiddleware(c) \in [DOMAIN f -> SUBSET Middlewares]
    BY <1>1, <1>2 DEF WithoutMiddleware
  <2> QED BY <1>2, <2>1, RouterFiles
<1> QED BY <1>3, <1>4, <1>5, <1>6

LEMMA LoadConfMoves ==
  ASSUME TypeIInv, NEW c \in Writers, LoadConf(c)
  PROVE  /\ TypeIInv' /\ OthersKeep(c)
         /\ doing'[c].kind = doing[c].kind /\ doing'[c].key = doing[c].key /\ doing'[c].uses = doing[c].uses
         /\ doing'[c].conf = conf /\ doing'[c].middlewares = doing[c].middlewares
         /\ \/ doing[c].todo = A5 /\ doing'[c].todo = A4
            \/ doing[c].todo = B3 /\ doing'[c].todo = A2
            \/ doing[c].todo = C3 /\ doing'[c].todo = C2
<1> DEFINE t == Tail(doing[c].todo)
           x == [doing[c] EXCEPT !.conf = conf, !.todo = t]
<1>1. /\ Active(c) /\ doing[c].todo \in {A5, B3, C3}
      /\ doing' = [doing EXCEPT ![c].conf = conf, ![c].todo = Tail(@)]
      /\ UNCHANGED <<conf, middlewares, rows, lock, dead, unfinished>>
  BY Location DEF LoadConf, At
<1>2. /\ doing \in [Writers -> MutationStates] /\ doing[c] \in MutationStates /\ conf \in Routers
      /\ doing[c].todo \in Remaining(doing[c].kind, doing[c].key)
  BY DEF TypeIInv, Kinded, ProgramOK
<1>3. doing' = [doing EXCEPT ![c] = x]
  BY <1>1, <1>2 DEF MutationStates
<1>4. doing[c].todo \notin {A1, M1, C1, <<>>}
  BY <1>1, Signatures
<1>5. t \in Remaining(doing[c].kind, doing[c].key) /\ t \in Todos
  BY <1>2, <1>4, RestRemains
<1>6. \/ doing[c].todo = A5 /\ t = A4
      \/ doing[c].todo = B3 /\ t = A2
      \/ doing[c].todo = C3 /\ t = C2
  BY <1>1, Tails, Zenon
<1> HIDE DEF t
<1>7. /\ x \in MutationStates /\ x.kind = doing[c].kind /\ x.key = doing[c].key /\ x.uses = doing[c].uses
      /\ x.conf = conf /\ x.middlewares = doing[c].middlewares /\ x.todo = t
  BY <1>2, <1>5 DEF MutationStates
<1> HIDE DEF x
<1>8. OpsOK' /\ OthersKeep(c) /\ doing'[c] = x
  BY <1>1, <1>3, <1>5, <1>7, OneMoves, Zenon DEF OpsOK, OthersKeep
<1>9. TypeIInv'
  BY <1>1, <1>8 DEF TypeIInv, Kinded, OpsOK
<1> QED BY <1>6, <1>7, <1>8, <1>9, Zenon

LEMMA LoadMiddlewaresMoves ==
  ASSUME TypeIInv, NEW c \in Writers, LoadMiddlewares(c)
  PROVE  /\ TypeIInv' /\ OthersKeep(c)
         /\ doing'[c].kind = doing[c].kind /\ doing'[c].key = doing[c].key /\ doing'[c].uses = doing[c].uses
         /\ doing'[c].conf = doing[c].conf
         /\ doing'[c].middlewares = middlewares \/ Unreadable
         /\ \/ doing[c].todo = A4 /\ doing'[c].todo = A3
            \/ /\ doing[c].todo = A4 /\ doing'[c].todo = A2
               /\ doing[c].kind = "remove" /\ (middlewares = {} \/ Unreadable)
            \/ doing[c].todo = M2 /\ doing'[c].todo = M1
            \/ doing[c].todo = C4 /\ doing'[c].todo = C3
<1>1. /\ Active(c) /\ doing[c].todo \in {A4, M2, C4}
      /\ UNCHANGED <<conf, middlewares, rows, lock, dead, unfinished>>
  BY Location DEF LoadMiddlewares, At
<1>2. /\ doing \in [Writers -> MutationStates] /\ doing[c] \in MutationStates /\ middlewares \in SUBSET Entries
      /\ doing[c].todo \in Remaining(doing[c].kind, doing[c].key)
  BY DEF TypeIInv, Kinded, ProgramOK
<1>3. doing[c].todo \notin {A1, M1, C1, <<>>}
  BY <1>1, Signatures
<1>4. PICK t \in {Tail(doing[c].todo), Tail(Tail(doing[c].todo))}, m \in {middlewares, {}} :
        /\ doing' = [doing EXCEPT ![c].middlewares = m, ![c].todo = t]
        /\ m = middlewares \/ Unreadable
        /\ t = Tail(doing[c].todo)
           \/ (doing[c].kind \in RouteKinds \ {"manage"} /\ (middlewares = {} \/ Unreadable))
  <2>1. CASE doing' = [doing EXCEPT ![c].middlewares = middlewares, ![c].todo = Tail(@)]
    <3>1. doing' = [doing EXCEPT ![c].middlewares = middlewares, ![c].todo = Tail(doing[c].todo)]
      BY <1>2, <2>1 DEF MutationStates
    <3> QED BY <3>1
  <2>2. CASE /\ middlewares = {} \/ Unreadable
             /\ doing[c].kind \in RouteKinds
             /\ doing' = [doing EXCEPT ![c].middlewares = {},
                                       ![c].todo = IF doing[c].kind = "manage" THEN Tail(@) ELSE Tail(Tail(@))]
    <3>1. CASE doing[c].kind = "manage"
      <4>1. doing' = [doing EXCEPT ![c].middlewares = {}, ![c].todo = Tail(doing[c].todo)]
        BY <1>2, <2>2, <3>1 DEF MutationStates
      <4> QED BY <2>2, <4>1
    <3>2. CASE doing[c].kind # "manage"
      <4>1. doing' = [doing EXCEPT ![c].middlewares = {}, ![c].todo = Tail(Tail(doing[c].todo))]
        BY <1>2, <2>2, <3>2 DEF MutationStates
      <4> QED BY <2>2, <3>2, <4>1
    <3> QED BY <3>1, <3>2
  <2> QED BY <2>1, <2>2 DEF LoadMiddlewares
<1> DEFINE x == [doing[c] EXCEPT !.middlewares = m, !.todo = t]
<1>5. doing' = [doing EXCEPT ![c] = x]
  BY <1>2, <1>4 DEF MutationStates
<1>6. CASE t = Tail(doing[c].todo)
  <2>1. t \in Remaining(doing[c].kind, doing[c].key) /\ t \in Todos
    BY <1>2, <1>3, <1>6, RestRemains
  <2>2. \/ doing[c].todo = A4 /\ t = A3
        \/ doing[c].todo = M2 /\ t = M1
        \/ doing[c].todo = C4 /\ t = C3
    BY <1>1, <1>6, Tails, Zenon
  <2>3. /\ x \in MutationStates /\ x.kind = doing[c].kind /\ x.key = doing[c].key /\ x.uses = doing[c].uses
        /\ x.conf = doing[c].conf /\ x.middlewares = m /\ x.todo = t
    BY <1>2, <2>1 DEF MutationStates
  <2> HIDE DEF x
  <2>4. OpsOK' /\ OthersKeep(c) /\ doing'[c] = x
    BY <1>1, <1>5, <2>1, <2>3, OneMoves, Zenon DEF OpsOK, OthersKeep
  <2>5. TypeIInv'
    BY <1>1, <2>4 DEF TypeIInv, Kinded, OpsOK
  <2> QED BY <1>4, <2>2, <2>3, <2>4, <2>5, Zenon
<1>7. CASE t # Tail(doing[c].todo)
  <2>1. doing[c].kind = "remove" /\ (middlewares = {} \/ Unreadable) /\ t = Tail(Tail(doing[c].todo))
    BY <1>4, <1>7 DEF RouteKinds
  <2>2. doing[c].todo = A4
    BY <1>1, <1>2, <2>1, Distinct DEF Remaining, WithPath
  <2>3. t = A2 /\ t \in Remaining(doing[c].kind, doing[c].key) /\ t \in Todos
    <3>1. A2 \in Remaining(doing[c].kind, doing[c].key)
      BY <1>2, <2>2, RestRemains
    <3>2. A2 \in Todos
      BY <3>1, RestRemains
    <3> QED BY <2>1, <2>2, <3>1, <3>2, Tails, Zenon
  <2>4. /\ x \in MutationStates /\ x.kind = doing[c].kind /\ x.key = doing[c].key /\ x.uses = doing[c].uses
        /\ x.conf = doing[c].conf /\ x.middlewares = m /\ x.todo = t
    BY <1>2, <2>3 DEF MutationStates
  <2> HIDE DEF x
  <2>5. OpsOK' /\ OthersKeep(c) /\ doing'[c] = x
    BY <1>1, <1>5, <2>3, <2>4, OneMoves, Zenon DEF OpsOK, OthersKeep
  <2>6. TypeIInv'
    BY <1>1, <2>5 DEF TypeIInv, Kinded, OpsOK
  <2> QED BY <1>4, <2>1, <2>2, <2>3, <2>4, <2>5, <2>6, Zenon
<1> QED BY <1>6, <1>7

LEMMA WriteMiddlewaresMoves ==
  ASSUME TypeIInv, NEW c \in Writers, WriteMiddlewares(c)
  PROVE  /\ TypeIInv' /\ OthersKeep(c)
         /\ \/ doing[c].todo = M1 /\ doing'[c] = NoMutation
            \/ doing[c].todo = A3 /\ doing'[c].todo = A2 /\ Keeps(c)
            \/ doing[c].todo = C2 /\ doing'[c].todo = C1 /\ Keeps(c)
<1>1. Active(c) /\ Continue(c) /\ UNCHANGED <<conf, rows, lock, dead, unfinished>>
      /\ middlewares' = WithEntry(c) /\ doing[c].todo \in {A3, M1, C2}
  BY Location DEF WriteMiddlewares, At
<1>2. A3 \notin {A1, M1, C1} /\ C2 \notin {A1, M1, C1}
  BY Signatures
<1>3. /\ OpsOK' /\ OthersKeep(c)
      /\ doing[c].todo \in {A1, M1, C1} => doing'[c] = NoMutation
      /\ doing[c].todo \notin {A1, M1, C1} => Keeps(c) /\ doing'[c].todo = Tail(doing[c].todo)
  BY <1>1, NextCommand
<1>4. WithEntry(c) \in SUBSET Entries
  <2>1. doing[c].middlewares \in SUBSET Entries /\ doing[c].kind # "none"
    BY <1>1, Location DEF MutationStates
  <2>2. doing[c].key \in Entries
    BY <2>1 DEF TypeIInv, ProgramOK
  <2> QED BY <2>1, <2>2 DEF WithEntry
<1>5. TypeIInv'
  BY <1>1, <1>3, <1>4 DEF TypeIInv, Kinded, OpsOK
<1> QED BY <1>1, <1>2, <1>3, <1>5, Tails, Zenon

LEMMA WriteConfMoves ==
  ASSUME TypeIInv, NEW c \in Writers, WriteConf(c)
  PROVE  /\ TypeIInv' /\ OthersKeep(c)
         /\ \/ doing[c].todo = C1 /\ doing'[c] = NoMutation
            \/ doing[c].todo = A2 /\ doing'[c].todo = A1 /\ Keeps(c)
<1>1. Active(c) /\ Continue(c) /\ UNCHANGED <<middlewares, rows, lock, dead>>
      /\ unfinished' = unfinished \ {doing[c].key} /\ doing[c].todo \in {A2, C1}
      /\ conf' = CASE doing[c].kind = "manage" -> WithRouter(c)
                   [] doing[c].kind = "remove" -> WithoutRouter(c)
                   [] doing[c].kind = "addMiddleware" -> WithMiddleware(c)
                   [] OTHER -> WithoutMiddleware(c)
  BY Location DEF WriteConf, At
<1>2. A2 \notin {A1, M1, C1}
  BY Signatures
<1>3. /\ OpsOK' /\ OthersKeep(c)
      /\ doing[c].todo \in {A1, M1, C1} => doing'[c] = NoMutation
      /\ doing[c].todo \notin {A1, M1, C1} => Keeps(c) /\ doing'[c].todo = Tail(doing[c].todo)
  BY <1>1, NextCommand
<1>4. conf' \in Routers
  <2>1. doing[c].kind # "none"
    BY <1>1, Location
  <2>2. doing[c].key \in Entries /\ (doing[c].kind \in RouteKinds <=> doing[c].key \in Sites)
    BY <2>1 DEF TypeIInv, ProgramOK
  <2>3. /\ doing[c].kind = "manage" => doing[c].key \in Sites
        /\ doing[c].kind = "addMiddleware" => doing[c].key \in Middlewares
    BY <2>2 DEF RouteKinds, Entries
  <2> QED BY <1>1, <2>3, Written
<1>5. unfinished' \in SUBSET Entries
  BY <1>1 DEF TypeIInv, Kinded
<1>6. TypeIInv'
  BY <1>1, <1>3, <1>4, <1>5 DEF TypeIInv, Kinded, OpsOK
<1> QED BY <1>1, <1>2, <1>3, <1>6, Tails, Zenon

LEMMA LeftType == ASSUME TypeIInv, NEW c \in Writers, Active(c) PROVE Left(c) \in SUBSET Entries
<1>1. doing[c].kind # "none" /\ unfinished \in SUBSET Entries
  BY Location DEF TypeIInv, Kinded
<1>2. doing[c].key \in Entries
  BY <1>1 DEF TypeIInv, ProgramOK
<1> QED BY <1>1, <1>2 DEF Left

LEMMA FailMoves ==
  ASSUME TypeIInv, NEW c \in Writers, Fail(c)
  PROVE  /\ TypeIInv' /\ OthersKeep(c)
         /\ doing[c].todo \in {A5, A4, A3, A2, B3, M2, M1, C4, C3, C2, C1}
         /\ doing[c].todo \in Within => Keeps(c) /\ doing'[c].todo = A1
         /\ doing[c].todo \notin Within => doing'[c] = NoMutation
<1>1. Active(c) /\ UNCHANGED <<conf, middlewares, rows, lock, dead>> /\ unfinished' = Left(c)
      /\ doing' = [doing EXCEPT ![c] = IF Inside(c) THEN [doing[c] EXCEPT !.todo = <<"release">>] ELSE NoMutation]
  BY DEF Fail
<1>2. doing[c].todo \in {A5, A4, A3, A2, B3, M2, M1, C4, C3, C2, C1}
  <2>1. At(c, "loadConf") \/ At(c, "loadMiddlewares") \/ At(c, "writeMiddlewares") \/ At(c, "writeConf")
    BY DEF Fail, At, Steps
  <2> QED BY <2>1, Location
<1>3. /\ doing \in [Writers -> MutationStates] /\ doing[c] \in MutationStates
      /\ doing[c].todo \in Remaining(doing[c].kind, doing[c].key)
  BY DEF TypeIInv, Kinded, ProgramOK
<1>4. unfinished' \in SUBSET Entries
  BY <1>1, LeftType
<1>5. CASE doing[c].todo \in Within
  <2> DEFINE x == [doing[c] EXCEPT !.todo = A1]
  <2>1. doing' = [doing EXCEPT ![c] = x]
    <3>1. Inside(c)
      BY <1>5, Location
    <3> QED BY <1>1, <3>1 DEF A1
  <2>2. A1 \in Remaining(doing[c].kind, doing[c].key)
    BY <1>3, <1>5, RestRemains
  <2>3. A1 \in Todos
    BY <2>2, RestRemains
  <2>4. /\ x \in MutationStates /\ x.kind = doing[c].kind /\ x.key = doing[c].key /\ x.uses = doing[c].uses
        /\ x.conf = doing[c].conf /\ x.middlewares = doing[c].middlewares /\ x.todo = A1
    BY <1>3, <2>3 DEF MutationStates
  <2> HIDE DEF x
  <2>5. OpsOK' /\ OthersKeep(c) /\ doing'[c] = x
    BY <1>1, <2>1, <2>2, <2>4, OneMoves, Zenon DEF OpsOK, OthersKeep
  <2>6. TypeIInv'
    BY <1>1, <1>4, <2>5 DEF TypeIInv, Kinded, OpsOK
  <2> QED BY <1>2, <1>5, <2>4, <2>5, <2>6, Zenon DEF Keeps
<1>6. CASE doing[c].todo \notin Within
  <2>1. doing' = [doing EXCEPT ![c] = NoMutation]
    <3>1. ~ Inside(c)
      BY <1>6, Location
    <3> QED BY <1>1, <3>1
  <2>2. OpsOK' /\ OthersKeep(c) /\ doing'[c] = NoMutation
    BY <1>1, <2>1, Ends
  <2>3. TypeIInv'
    BY <1>1, <1>4, <2>2 DEF TypeIInv, Kinded, OpsOK
  <2> QED BY <1>2, <1>6, <2>2, <2>3
<1> QED BY <1>5, <1>6

LEMMA CrashMoves ==
  ASSUME TypeIInv, NEW c \in Writers, Crash(c)
  PROVE  TypeIInv' /\ OthersKeep(c) /\ Active(c) /\ doing'[c] = NoMutation
<1>1. Active(c) /\ UNCHANGED <<conf, middlewares, rows, lock>> /\ unfinished' = Left(c)
      /\ doing' = [doing EXCEPT ![c] = NoMutation] /\ dead' = dead \cup {c}
  BY DEF Crash
<1>2. OpsOK' /\ OthersKeep(c) /\ doing'[c] = NoMutation
  BY <1>1, Ends
<1>3. unfinished' \in SUBSET Entries
  BY <1>1, LeftType
<1> QED BY <1>1, <1>2, <1>3 DEF TypeIInv, Kinded, OpsOK

LEMMA ExpireTypes == ASSUME TypeIInv, Expire PROVE TypeIInv'
<1>1. UNCHANGED <<conf, middlewares, rows, doing, dead, unfinished>> /\ lock' = [lock EXCEPT !.stale = TRUE]
  BY DEF Expire
<1>2. lock' \in LockDirs
  BY <1>1 DEF TypeIInv, Kinded, LockDirs
<1> QED BY <1>1, <1>2 DEF TypeIInv, Kinded, ProgramOK

LEMMA TypesStart == FilesInit => TypeIInv
<1> SUFFICES ASSUME FilesInit PROVE TypeIInv
  OBVIOUS
<1>1. \A c \in Writers : doing[c] = NoMutation
  BY DEF FilesInit
<1>2. doing \in [Writers -> MutationStates]
  BY IdleType DEF FilesInit
<1>3. lock \in LockDirs
  BY DEF FilesInit, NoLock, LockDirs
<1>4. ProgramOK
  BY <1>1, IdleType DEF ProgramOK, Remaining
<1> QED BY <1>2, <1>3, <1>4, RouterFiles DEF FilesInit, TypeIInv, Kinded, Entries

LEMMA TypesKept == TypeIInv /\ [FilesNext]_fileVars => TypeIInv'
<1> SUFFICES ASSUME TypeIInv, [FilesNext]_fileVars PROVE TypeIInv'
  OBVIOUS
<1>1. CASE UNCHANGED fileVars
  BY <1>1 DEF fileVars, TypeIInv, Kinded, ProgramOK
<1>2. CASE Expire
  BY <1>2, ExpireTypes
<1>3. ASSUME NEW c \in Writers,
             \/ BeginMutation(c) \/ Attempt(c) \/ Retry(c) \/ TakeOver(c) \/ GiveUp(c) \/ Own(c) \/ Release(c)
             \/ LoadConf(c) \/ LoadMiddlewares(c) \/ WriteMiddlewares(c) \/ WriteConf(c)
             \/ Fail(c) \/ Crash(c)
      PROVE  TypeIInv'
  BY <1>3, BeginMoves, AttemptMoves, RetryMoves, TakeOverMoves, GiveUpMoves, OwnMoves, ReleaseMoves,
     LoadConfMoves, LoadMiddlewaresMoves, WriteMiddlewaresMoves, WriteConfMoves, FailMoves, CrashMoves, Zenon
<1> QED BY <1>1, <1>2, <1>3 DEF FilesNext

LEMMA TypesImplied == TypeIInv => FilesTypeOK
<1> SUFFICES ASSUME TypeIInv PROVE FilesTypeOK
  OBVIOUS
<1>1. ASSUME NEW c \in Writers
      PROVE  /\ doing[c].kind \in Mutations \cup {"none"} /\ doing[c].key \in Entries \cup {Nobody}
             /\ doing[c].uses \subseteq Middlewares /\ doing[c].attempts \in 0..MaxTries
             /\ doing[c].conf \in Routers /\ doing[c].middlewares \subseteq Entries
             /\ doing[c].todo \in Seq(StepNames)
  <2>1. doing[c] \in MutationStates /\ doing[c].todo \in Todos
    BY Location
  <2> QED BY <2>1, TodoTypes DEF MutationStates
<1>2. \A c \in Writers : doing[c].todo \in Seq(Steps \cup {"attempt", "takeOver", "own", "release"})
  BY <1>1 DEF StepNames
<1> QED BY <1>1, <1>2 DEF TypeIInv, Kinded, LockDirs, FilesTypeOK

\* Every file, row, lock and mutation has its type, whatever the commands do
\* and whichever client dies: no mutation is left with a command it does not
\* have, and none makes more than MaxTries attempts at the lock.
THEOREM FilesTypeCorrect == FilesSpec => []FilesTypeOK
<1>1. FilesSpec => []TypeIInv
  BY TypesStart, TypesKept, PTL DEF FilesSpec
<1> QED BY <1>1, TypesImplied, PTL

-----------------------------------------------------------------------------
(* The lock.                                                                *)

LEMMA Outside ==
  /\ {A7, A8, B5, B6, M1, M2, C1, C2, C3, C4, <<>>} \cap Within = {}
  /\ {A6, B4} \cap {A1, A2, A3, A4, A5, B3} = {}
  /\ \A t \in {A8, B6} : t \notin {A1, A2, A3, A4, A5, A6, A7, B3, B4, B5, M1, M2, C1, C2, C3, C4, <<>>}
  /\ NoMutation.todo \notin Within /\ NoMutation.todo \notin {A8, B6}
<1>1. {A7, A8, B5, B6} \cap Within = {}
  BY Signatures DEF Within
<1>2. {M1, M2, C1, C2, C3, C4, <<>>} \cap Within = {}
  BY Distinct DEF Within
<1>3. {A6, B4} \cap {A1, A2, A3, A4, A5, B3} = {}
  BY Signatures
<1>4. \A t \in {A8, B6} : t \notin {A1, A2, A3, A4, A5, A6, A7, B3, B4, B5}
  BY Signatures
<1>5. \A t \in {A8, B6} : t \notin {M1, M2, C1, C2, C3, C4, <<>>}
  BY Distinct
<1>6. NoMutation.todo = <<>>
  BY IdleType
<1> QED BY <1>1, <1>2, <1>3, <1>4, <1>5, <1>6

\* A step outside the lock's own.
LEMMA LockUntouched ==
  ASSUME LockOK, UNCHANGED <<lock, dead>>, NEW c \in Writers, OthersKeep(c),
         HasLock(c)' <=> HasLock(c), ~ Owning(c), Replacing(c)' => Replacing(c) \/ dead # {}
  PROVE  LockOK'
<1>1. ASSUME NEW b \in Writers
      PROVE  (HasLock(b)' <=> HasLock(b)) /\ (Owning(b) => Owning(b)') /\ (Replacing(b)' => Replacing(b) \/ dead # {})
  BY DEF OthersKeep, HasLock, Owning, Replacing
<1> QED BY <1>1, Zenon DEF LockOK

LEMMA BeginLock == ASSUME TypeIInv, LockOK, NEW c \in Writers, BeginMutation(c) PROVE LockOK'
<1>1. OthersKeep(c) /\ doing'[c].todo \in {A7, B5, M2, C4}
  BY BeginMoves
<1>2. doing[c].todo = <<>> /\ UNCHANGED <<lock, dead>>
  BY DEF BeginMutation, Active
<1>3. ~ HasLock(c) /\ ~ HasLock(c)' /\ ~ Owning(c) /\ ~ Replacing(c)'
  <2>1. {A6, B4} \subseteq Within
    BY DEF Within
  <2> QED BY <1>1, <1>2, <2>1, Outside DEF HasLock, Owning, Replacing
<1> QED BY <1>1, <1>2, <1>3, LockUntouched

LEMMA AttemptLock == ASSUME TypeIInv, LockOK, NEW c \in Writers, Attempt(c) PROVE LockOK'
<1>1. OthersKeep(c) /\ doing'[c].todo \in {A6, B4}
  BY AttemptMoves
<1>2. ~ lock.dir /\ lock' = [dir |-> TRUE, owner |-> Nobody, stale |-> FALSE] /\ dead' = dead
  BY DEF Attempt
<1>3. \A b \in Writers : ~ HasLock(b)
  BY <1>2 DEF LockOK
<1>4. HasLock(c)' /\ Owning(c)' /\ ~ Replacing(c)'
  BY <1>1, Outside DEF HasLock, Owning, Replacing, Within
<1>5. \A b \in Writers \ {c} : ~ HasLock(b)' /\ (Replacing(b)' => Replacing(b))
  BY <1>1, <1>3 DEF OthersKeep, HasLock, Replacing
<1>6. lock'.dir /\ ~ lock'.stale
  BY <1>2
<1> QED BY <1>2, <1>4, <1>5, <1>6, Zenon DEF LockOK

LEMMA RetryLock == ASSUME TypeIInv, LockOK, NEW c \in Writers, Retry(c) PROVE LockOK'
<1>1. OthersKeep(c) /\ doing[c].todo \in {A7, B5} /\ doing'[c].todo \in {A7, B5, A8, B6}
      /\ (Replacing(c)' => lock.stale)
  <2>1. A7 \notin {A8, B6} /\ B5 \notin {A8, B6}
    BY Outside
  <2> QED BY <2>1, RetryMoves DEF Replacing
<1>2. UNCHANGED <<lock, dead>>
  BY DEF Retry
<1>3. lock.stale => dead # {}
  BY DEF LockOK
<1>4. ~ HasLock(c) /\ ~ HasLock(c)' /\ ~ Owning(c)
  <2>1. {A6, B4} \subseteq Within
    BY DEF Within
  <2> QED BY <1>1, <2>1, Outside DEF HasLock, Owning
<1> QED BY <1>1, <1>2, <1>3, <1>4, LockUntouched

\* Who takes the lock over is the only client left: nobody is inside.
LEMMA LastOne ==
  ASSUME TypeIInv, LockOK, OneWaiter, NEW c \in Writers, Active(c), dead # {}
  PROVE  \A b \in Writers \ {c} : b \in dead /\ doing[b].todo = <<>>
<1>1. PICK d : d \in dead
  OBVIOUS
<1>2. d \in Writers /\ d # c
  BY <1>1, Location DEF TypeIInv, Kinded
<1>3. MaxCrashes # 0
  BY DEF LockOK
<1>4. \A b \in Writers \ {c} : b = d
  BY <1>2, <1>3 DEF OneWaiter
<1> QED BY <1>1, <1>4 DEF TypeIInv, ProgramOK

LEMMA TakeOverLock == ASSUME TypeIInv, LockOK, OneWaiter, NEW c \in Writers, TakeOver(c) PROVE LockOK'
<1>1. OthersKeep(c) /\ doing[c].todo \in {A8, B6} /\ doing'[c].todo \in {A7, B5}
  BY TakeOverMoves
<1>2. Active(c) /\ lock' = NoLock /\ dead' = dead
  BY DEF TakeOver, At
<1>3. dead # {}
  BY <1>1 DEF LockOK, Replacing
<1>4. \A b \in Writers \ {c} : doing'[b].todo = <<>>
  BY <1>1, <1>2, <1>3, LastOne DEF OthersKeep
<1>5. \A b \in Writers : ~ HasLock(b)'
  <2>1. \A t \in {A7, B5, <<>>} : t \notin Within
    BY Outside
  <2> QED BY <1>1, <1>4, <2>1 DEF HasLock
<1>6. ~ lock'.dir /\ ~ lock'.stale
  BY <1>2 DEF NoLock
<1> QED BY <1>2, <1>3, <1>5, <1>6, Zenon DEF LockOK

LEMMA GiveUpLock == ASSUME TypeIInv, LockOK, NEW c \in Writers, GiveUp(c) PROVE LockOK'
<1>1. OthersKeep(c) /\ doing'[c] = NoMutation /\ doing[c].todo \in {A7, B5}
  BY GiveUpMoves, Location DEF GiveUp
<1>2. UNCHANGED <<lock, dead>>
  BY DEF GiveUp
<1>3. ~ HasLock(c) /\ ~ HasLock(c)' /\ ~ Owning(c) /\ ~ Replacing(c)'
  <2>1. {A6, B4} \subseteq Within
    BY DEF Within
  <2> QED BY <1>1, <2>1, Outside DEF HasLock, Owning, Replacing
<1> QED BY <1>1, <1>2, <1>3, LockUntouched

LEMMA OwnLock == ASSUME TypeIInv, LockOK, NEW c \in Writers, Own(c) PROVE LockOK'
<1>1. doing[c].todo \in {A6, B4} /\ dead' = dead
  BY Location DEF Own
<1>2. HasLock(c)
  BY <1>1 DEF HasLock, Within
<1>3. lock.dir /\ ~ lock.stale
  BY <1>2 DEF LockOK
<1>4. OthersKeep(c) /\ lock' = [lock EXCEPT !.owner = c] /\ doing'[c].todo \in {A5, B3}
  BY <1>3, OwnMoves
<1>5. lock'.dir /\ ~ lock'.stale /\ lock'.owner = c
  BY <1>3, <1>4 DEF TypeIInv, Kinded, LockDirs
<1>6. HasLock(c)' /\ ~ Replacing(c)'
  BY <1>4, Outside DEF HasLock, Within, Replacing
<1>7. \A b \in Writers \ {c} : ~ HasLock(b)' /\ (Replacing(b)' => Replacing(b))
  BY <1>2, <1>4 DEF LockOK, OthersKeep, HasLock, Replacing
<1> QED BY <1>1, <1>5, <1>6, <1>7, Zenon DEF LockOK

LEMMA ReleaseLock == ASSUME TypeIInv, LockOK, NEW c \in Writers, Release(c) PROVE LockOK'
<1>1. doing[c].todo = A1 /\ OthersKeep(c) /\ doing'[c] = NoMutation /\ dead' = dead
  BY ReleaseMoves DEF Release
<1>2. HasLock(c) /\ ~ Owning(c)
  BY <1>1, Outside DEF HasLock, Owning, Within
<1>3. lock.dir /\ lock.owner = c
  BY <1>2 DEF LockOK
<1>4. lock' = NoLock
  BY <1>3 DEF Release
<1>5. ~ lock'.dir /\ ~ lock'.stale
  BY <1>4 DEF NoLock
<1>6. \A b \in Writers : ~ HasLock(b)' /\ (Replacing(b)' => Replacing(b))
  BY <1>1, <1>2, Outside DEF LockOK, OthersKeep, HasLock, Replacing
<1> QED BY <1>1, <1>5, <1>6, Zenon DEF LockOK

LEMMA FilesLock ==
  ASSUME TypeIInv, LockOK, NEW c \in Writers,
         LoadConf(c) \/ LoadMiddlewares(c) \/ WriteMiddlewares(c) \/ WriteConf(c) \/ Fail(c)
  PROVE  LockOK'
<1>1. UNCHANGED <<lock, dead>> /\ OthersKeep(c)
  BY LoadConfMoves, LoadMiddlewaresMoves, WriteMiddlewaresMoves, WriteConfMoves, FailMoves
  DEF LoadConf, LoadMiddlewares, WriteMiddlewares, WriteConf, Fail
<1>2. \/ doing[c].todo \in {A5, A4, A3, A2, B3} /\ doing'[c].todo \in {A4, A3, A2, A1}
      \/ doing[c].todo \in {C4, C3, C2, C1, M2, M1} /\ doing'[c].todo \in {C3, C2, C1, M1, <<>>}
  <2>1. CASE LoadConf(c)
    BY <2>1, LoadConfMoves
  <2>2. CASE LoadMiddlewares(c)
    BY <2>2, LoadMiddlewaresMoves
  <2>3. CASE WriteMiddlewares(c)
    BY <2>3, WriteMiddlewaresMoves, IdleType
  <2>4. CASE WriteConf(c)
    BY <2>4, WriteConfMoves, IdleType
  <2>5. CASE Fail(c)
    <3>1. doing[c].todo \in Within => doing[c].todo \in {A5, A4, A3, A2, B3} /\ doing'[c].todo = A1
      BY <2>5, FailMoves, Outside
    <3>2. doing[c].todo \notin Within => doing[c].todo \in {C4, C3, C2, C1, M2, M1} /\ doing'[c].todo = <<>>
      BY <2>5, FailMoves, IdleType DEF Within
    <3> QED BY <3>1, <3>2
  <2> QED BY <2>1, <2>2, <2>3, <2>4, <2>5
<1>3. (HasLock(c)' <=> HasLock(c)) /\ ~ Owning(c) /\ ~ Replacing(c)'
  <2>1. {A6, B4, A5, A4, A3, A2, A1, B3} \subseteq Within
    BY DEF Within
  <2> QED BY <1>2, <2>1, Outside DEF HasLock, Owning, Replacing
<1> QED BY <1>1, <1>3, LockUntouched

LEMMA CrashLock == ASSUME TypeIInv, LockOK, NEW c \in Writers, Crash(c) PROVE LockOK'
<1>1. OthersKeep(c) /\ doing'[c] = NoMutation
  BY CrashMoves
<1>2. dead' = dead \cup {c} /\ lock' = lock /\ Cardinality(dead) < MaxCrashes
  BY DEF Crash
<1>3. MaxCrashes # 0
  <2>1. SUFFICES ASSUME MaxCrashes = 0 PROVE FALSE
    OBVIOUS
  <2>2. dead = {}
    BY <2>1 DEF LockOK
  <2>3. Cardinality(dead) = 0
    BY <2>2, FS_EmptySet
  <2> QED BY <1>2, <2>1, <2>3
<1>4. ~ HasLock(c)' /\ ~ Replacing(c)' /\ dead' # {}
  BY <1>1, <1>2, Outside DEF HasLock, Replacing
<1>5. \A b \in Writers \ {c} : (HasLock(b)' <=> HasLock(b)) /\ (Owning(b)' <=> Owning(b)) /\ (Replacing(b)' <=> Replacing(b))
  BY <1>1 DEF OthersKeep, HasLock, Owning, Replacing
<1> QED BY <1>2, <1>3, <1>4, <1>5, Zenon DEF LockOK

LEMMA ExpireLock == ASSUME TypeIInv, LockOK, Expire PROVE LockOK'
<1>1. UNCHANGED <<doing, dead>> /\ lock' = [lock EXCEPT !.stale = TRUE] /\ lock.dir /\ \A c \in Writers : ~ Inside(c)
  BY DEF Expire
<1>2. \A c \in Writers : ~ HasLock(c)
  BY <1>1, Location DEF HasLock
<1>3. lock'.dir /\ lock'.owner = lock.owner
  BY <1>1 DEF TypeIInv, Kinded, LockDirs
<1>4. \A c \in Writers : (HasLock(c)' <=> HasLock(c)) /\ (Owning(c)' <=> Owning(c)) /\ (Replacing(c)' <=> Replacing(c))
  BY <1>1 DEF HasLock, Owning, Replacing
<1> QED BY <1>1, <1>2, <1>3, <1>4, Zenon DEF LockOK

-----------------------------------------------------------------------------
(* Redirects alone, copies and files.                                       *)

LEMMA AloneKept ==
  ASSUME AloneOK, NEW c \in Writers, OthersKeep(c), doing'[c].kind = doing[c].kind \/ doing'[c].kind = "none"
  PROVE  AloneOK'
  BY DEF AloneOK, OthersKeep

LEMMA BeginAlone == ASSUME TypeIInv, Exclusive, AloneOK, NEW c \in Writers, BeginMutation(c) PROVE AloneOK'
<1>1. /\ OthersKeep(c)
      /\ \A b \in Writers : Active(b) => {doing'[c].kind, doing[b].kind} \subseteq RouteKinds
  BY BeginMoves
<1>2. \A b \in Writers : doing[b].kind # "none" => {doing'[c].kind, doing[b].kind} \subseteq RouteKinds
  BY <1>1, Location
<1> QED BY <1>1, <1>2 DEF AloneOK, OthersKeep

\* Without a copy.
LEMMA Copyless ==
  {A8, A7, A6, A5, A1, B6, B5, B4, B3, M2, C4, <<>>} \cap {A4, A3, A2, M1, C1, C2, C3} = {}
<1>1. {A8, A7, A6, A5, A1, B6, B5, B4, B3} \cap {A4, A3, A2} = {}
  BY Signatures
<1>2. {A8, A7, A6, A5, A1, B6, B5, B4, B3} \cap {M1, C1, C2, C3} = {}
  BY Distinct
<1>3. {M2, C4} \cap {M1, C1, C2, C3} = {}
  BY Signatures
<1>4. {M2, C4, <<>>} \cap {A4, A3, A2} = {} /\ <<>> \notin {M1, C1, C2, C3}
  BY Distinct
<1> QED BY <1>1, <1>2, <1>3, <1>4

LEMMA NoCopy ==
  ASSUME NEW c \in Writers, CopyOK(c), UNCHANGED rows,
         doing'[c].todo \in {A8, A7, A6, A5, A1, B6, B5, B4, B3, M2, C4, <<>>}, Keeps(c) \/ doing'[c] = NoMutation
  PROVE  CopyOK(c)'
<1>1. doing'[c].todo \notin {A4, A3, A2, C2, C1} /\ doing'[c].todo \notin {A3, M1, C3, C2}
  BY Copyless
<1>2. CASE Keeps(c)
  BY <1>1, <1>2 DEF CopyOK, Keeps
<1>3. CASE doing'[c] = NoMutation
  <2>1. doing'[c].kind = "none"
    BY <1>3, IdleType
  <2> QED BY <1>1, <2>1 DEF CopyOK, RouteKinds
<1> QED BY <1>2, <1>3

LEMMA CopiesUnseen ==
  ASSUME CopiesOK, UNCHANGED <<conf, middlewares, rows>>, NEW c \in Writers, OthersKeep(c), CopyOK(c)'
  PROVE  CopiesOK'
<1>1. \A b \in Writers \ {c} : CopyOK(b)'
  BY DEF CopiesOK, CopyOK, OthersKeep
<1> QED BY <1>1 DEF CopiesOK

\* Nobody else has a copy of what a client is about to change.
LEMMA OnlyCopy ==
  ASSUME TypeIInv, LockOK, AloneOK, NEW c \in Writers, doing[c].todo \in {A3, A2, M1, C2, C1},
         NEW b \in Writers, b # c
  PROVE  doing[b].todo \notin {A4, A3, A2, M1, C1, C2, C3}
<1>1. ASSUME NEW a \in Writers, doing[a].todo \in {M1, C1, C2, C3}
      PROVE  doing[a].kind \notin RouteKinds /\ doing[a].kind # "none"
  <2>1. doing[a].todo \in Remaining(doing[a].kind, doing[a].key)
    BY DEF TypeIInv, ProgramOK
  <2>2. doing[a].todo \notin WithPath \cup WithoutPath /\ doing[a].todo # <<>>
    BY <1>1, Distinct DEF WithPath, WithoutPath
  <2>3. doing[a].kind \in RouteKinds \cup MiddlewareKinds \cup {"none"}
    BY Location, TraefikAssumption DEF MutationStates
  <2> QED BY <2>1, <2>2, <2>3 DEF Remaining, RouteKinds, MiddlewareKinds
<1>2. ASSUME NEW a \in Writers, doing[a].todo \in {A4, A3, A2}
      PROVE  HasLock(a) /\ doing[a].kind # "none"
  <2>1. doing[a].todo # <<>>
    BY <1>2, Distinct
  <2> QED BY <1>2, <2>1, Location DEF HasLock, Within, Active
<1>3. SUFFICES ASSUME doing[b].todo \in {A4, A3, A2, M1, C1, C2, C3} PROVE FALSE
  OBVIOUS
<1>4. CASE doing[b].todo \in {A4, A3, A2} /\ doing[c].todo \in {A3, A2}
  BY <1>2, <1>4 DEF LockOK
<1>5. CASE doing[b].todo \in {M1, C1, C2, C3} \/ doing[c].todo \in {M1, C2, C1}
  <2>1. doing[b].kind # "none" /\ doing[c].kind # "none" /\ ~ ({doing[b].kind, doing[c].kind} \subseteq RouteKinds)
    BY <1>1, <1>2, <1>3, <1>5
  <2> QED BY <2>1 DEF AloneOK
<1> QED BY <1>3, <1>4, <1>5

\* Another client's files have changed, which it has no copy of.
LEMMA OthersCopies ==
  ASSUME TypeIInv, LockOK, AloneOK, CopiesOK, NEW c \in Writers, doing[c].todo \in {A3, A2, M1, C2, C1},
         OthersKeep(c), UNCHANGED rows, NEW b \in Writers, b # c
  PROVE  CopyOK(b)'
<1>1. doing'[b] = doing[b] /\ doing[b].todo \notin {A4, A3, A2, M1, C1, C2, C3}
  BY OnlyCopy DEF OthersKeep
<1> QED BY <1>1 DEF CopiesOK, CopyOK

\* A step that changes no file.
LEMMA FilesUnseen ==
  ASSUME FilesOK, UNCHANGED <<conf, middlewares, rows>>, unfinished \subseteq unfinished',
         NEW c \in Writers, OthersKeep(c),
         Midway(c) => (Midway(c)' /\ doing'[c].key = doing[c].key) \/ doing[c].key \in unfinished'
  PROVE  FilesOK'
<1>1. ASSUME NEW e, Excused(e) PROVE Excused(e)'
  <2>1. CASE e \in unfinished
    BY <2>1 DEF Excused
  <2>2. ASSUME NEW b \in Writers \ {c}, doing[b].key = e, Midway(b)
        PROVE  Excused(e)'
    BY <2>2 DEF Excused, OthersKeep, Midway
  <2>3. CASE doing[c].key = e /\ Midway(c)
    BY <2>3 DEF Excused
  <2> QED BY <1>1, <2>1, <2>2, <2>3 DEF Excused
<1> QED BY <1>1, Zenon DEF FilesOK

LEMMA NotMidway ==
  ASSUME NEW c \in Writers, doing[c].todo \in {A8, A7, A6, A5, A4, A3, A1, B6, B5, B4, B3, M2, M1, <<>>}
  PROVE  ~ Midway(c)
<1>1. A2 \notin {A8, A7, A6, A5, A4, A3, A1, B6, B5, B4, B3}
  BY Signatures
<1>2. A2 \notin {M2, M1, <<>>}
  BY Distinct
<1>3. {C4, C3, C2, C1} \cap {A8, A7, A6, A5, A4, A3, A1, B6, B5, B4, B3, <<>>} = {}
  BY Distinct
<1>4. {C4, C3, C2, C1} \cap {M2, M1} = {}
  BY Signatures
<1> QED BY <1>1, <1>2, <1>3, <1>4 DEF Midway

LEMMA LockStepFiles ==
  ASSUME TypeIInv, CopiesOK, FilesOK, NEW c \in Writers,
         Attempt(c) \/ Retry(c) \/ TakeOver(c) \/ GiveUp(c) \/ Own(c) \/ Release(c)
  PROVE  CopiesOK' /\ FilesOK'
<1>1. UNCHANGED <<conf, middlewares, rows, unfinished>>
  BY DEF Attempt, Retry, TakeOver, GiveUp, Own, Release
<1>2. /\ OthersKeep(c) /\ (Keeps(c) \/ doing'[c] = NoMutation)
      /\ doing[c].todo \in {A8, A7, A6, A1, B6, B5, B4}
      /\ doing'[c].todo \in {A8, A7, A6, A5, B6, B5, B4, B3, <<>>}
  <2>1. CASE Attempt(c)
    BY <2>1, AttemptMoves
  <2>2. CASE Retry(c)
    BY <2>2, RetryMoves
  <2>3. CASE TakeOver(c)
    BY <2>3, TakeOverMoves
  <2>4. CASE GiveUp(c)
    BY <2>4, GiveUpMoves, IdleType, Location DEF GiveUp
  <2>5. CASE Own(c)
    BY <2>5, OwnMoves, IdleType, Location DEF Own
  <2>6. CASE Release(c)
    BY <2>6, ReleaseMoves, IdleType
  <2> QED BY <2>1, <2>2, <2>3, <2>4, <2>5, <2>6
<1>3. CopyOK(c)'
  BY <1>1, <1>2, NoCopy DEF CopiesOK
<1>4. ~ Midway(c)
  BY <1>2, NotMidway
<1> QED BY <1>1, <1>2, <1>3, <1>4, CopiesUnseen, FilesUnseen

LEMMA BeginFiles ==
  ASSUME TypeIInv, Exclusive, CopiesOK, FilesOK, NEW c \in Writers, BeginMutation(c)
  PROVE  CopiesOK' /\ FilesOK'
<1>1. UNCHANGED <<conf, middlewares, unfinished>> /\ doing[c].todo = <<>>
  BY DEF BeginMutation, Active
<1>2. /\ OthersKeep(c) /\ doing'[c].kind \in Mutations /\ doing'[c].uses = rows
      /\ \A b \in Writers : Active(b) => {doing'[c].kind, doing[b].kind} \subseteq RouteKinds
      /\ rows' = CASE doing'[c].kind = "addMiddleware" -> rows \cup {doing'[c].key}
                   [] doing'[c].kind = "removeMiddleware" -> rows \ {doing'[c].key}
                   [] OTHER -> rows
      /\ doing'[c].todo = CASE doing'[c].kind = "manage" -> IF doing'[c].key \in Paths THEN A7 ELSE B5
                            [] doing'[c].kind = "remove" -> A7
                            [] doing'[c].kind = "updateMiddleware" -> M2
                            [] OTHER -> C4
  BY BeginMoves, Zenon
<1>3. doing'[c].todo \in {A7, B5, M2, C4}
  BY <1>2
<1>4. doing'[c].todo \notin {A4, A3, A2, C2, C1} /\ doing'[c].todo \notin {A3, M1, C3, C2}
  BY <1>3, Copyless
<1>5. CopyOK(c)'
  BY <1>2, <1>4 DEF CopyOK, RouteKinds
<1>6. ASSUME NEW b \in Writers, b # c
      PROVE  CopyOK(b)'
  <2>1. doing'[b] = doing[b] /\ CopyOK(b) /\ (doing[b].kind # "none" => Active(b))
    BY <1>2, <1>6, Location DEF OthersKeep, CopiesOK
  <2>2. doing[b].kind # "none" => doing[b].kind \in RouteKinds /\ rows' = rows
    <3>1. ASSUME doing[b].kind # "none"
          PROVE  doing[b].kind \in RouteKinds /\ doing'[c].kind \in RouteKinds
      BY <1>2, <2>1, <3>1
    <3> QED BY <1>2, <3>1 DEF RouteKinds
  <2> QED BY <1>1, <2>1, <2>2 DEF CopyOK, RouteKinds
<1>7. \A e : Excused(e) => Excused(e)'
  <2>1. ~ Midway(c)
    BY <1>1, NotMidway
  <2> QED BY <1>1, <1>2, <2>1 DEF Excused, OthersKeep, Midway
<1>8. \A m \in rows' : m \in rows \/ Excused(m)'
  <2>1. doing'[c].kind = "addMiddleware" => Midway(c)'
    BY <1>2 DEF Midway
  <2>2. \A m : doing'[c].kind = "addMiddleware" /\ doing'[c].key = m => Excused(m)'
    BY <2>1 DEF Excused
  <2> QED BY <1>2, <2>2
<1> QED BY <1>1, <1>5, <1>6, <1>7, <1>8 DEF CopiesOK, FilesOK

LEMMA LoadConfFiles ==
  ASSUME TypeIInv, CopiesOK, FilesOK, NEW c \in Writers, LoadConf(c)
  PROVE  CopiesOK' /\ FilesOK'
<1>1. UNCHANGED <<conf, middlewares, rows, unfinished>>
  BY DEF LoadConf
<1>2. /\ OthersKeep(c)
      /\ doing'[c].kind = doing[c].kind /\ doing'[c].key = doing[c].key /\ doing'[c].uses = doing[c].uses
      /\ doing'[c].conf = conf /\ doing'[c].middlewares = doing[c].middlewares
      /\ \/ doing[c].todo = A5 /\ doing'[c].todo = A4
         \/ doing[c].todo = B3 /\ doing'[c].todo = A2
         \/ doing[c].todo = C3 /\ doing'[c].todo = C2
  BY LoadConfMoves
<1>3. CopyOK(c) /\ doing[c].todo \in Remaining(doing[c].kind, doing[c].key)
  BY DEF CopiesOK, TypeIInv, ProgramOK
<1>4. A4 \notin {A3, M1, C3, C2} /\ A2 \notin {A3, M1, C3, C2, C1} /\ A4 \notin {A2, C1} /\ C2 \notin {C1, A2}
      /\ B3 \notin WithPath
  <2>1. A4 # A3 /\ A2 # A3 /\ A4 # A2 /\ C2 # C1 /\ B3 \notin WithPath
    BY Signatures DEF WithPath
  <2>2. A4 \notin {M1, C3, C2, C1} /\ A2 \notin {M1, C3, C2, C1} /\ C2 # A2
    BY Distinct
  <2> QED BY <2>1, <2>2
<1>5. CASE doing[c].todo = B3 /\ doing'[c].todo = A2
  <2>1. doing[c].kind = "manage" => doing[c].key \notin Paths
    BY <1>3, <1>4, <1>5 DEF Remaining
  <2>2. CopyOK(c)'
    BY <1>1, <1>2, <1>3, <1>4, <1>5, <2>1 DEF CopyOK
  <2>3. ~ Midway(c)
    BY <1>5, NotMidway
  <2> QED BY <1>1, <1>2, <2>2, <2>3, CopiesUnseen, FilesUnseen
<1>6. CASE doing[c].todo = A5 /\ doing'[c].todo = A4
  <2>1. CopyOK(c)'
    BY <1>1, <1>2, <1>3, <1>4, <1>6 DEF CopyOK
  <2>2. ~ Midway(c)
    BY <1>6, NotMidway
  <2> QED BY <1>1, <1>2, <2>1, <2>2, CopiesUnseen, FilesUnseen
<1>7. CASE doing[c].todo = C3 /\ doing'[c].todo = C2
  <2>1. CopyOK(c)'
    BY <1>1, <1>2, <1>3, <1>4, <1>7 DEF CopyOK
  <2>2. Midway(c) => Midway(c)'
    <3>1. C3 # C1 /\ C3 # A2
      BY Signatures, Distinct
    <3> QED BY <1>2, <1>7, <3>1 DEF Midway
  <2> QED BY <1>1, <1>2, <2>1, <2>2, CopiesUnseen, FilesUnseen
<1> QED BY <1>2, <1>5, <1>6, <1>7

LEMMA LoadMiddlewaresFiles ==
  ASSUME TypeIInv, ~ Unreadable, CopiesOK, FilesOK, NEW c \in Writers, LoadMiddlewares(c)
  PROVE  CopiesOK' /\ FilesOK'
<1>1. UNCHANGED <<conf, middlewares, rows, unfinished>>
  BY DEF LoadMiddlewares
<1>2. /\ OthersKeep(c)
      /\ doing'[c].kind = doing[c].kind /\ doing'[c].key = doing[c].key /\ doing'[c].uses = doing[c].uses
      /\ doing'[c].conf = doing[c].conf /\ doing'[c].middlewares = middlewares
      /\ \/ doing[c].todo = A4 /\ doing'[c].todo = A3
         \/ doing[c].todo = A4 /\ doing'[c].todo = A2 /\ doing[c].kind = "remove"
         \/ doing[c].todo = M2 /\ doing'[c].todo = M1
         \/ doing[c].todo = C4 /\ doing'[c].todo = C3
  BY LoadMiddlewaresMoves
<1>3. CopyOK(c)
  BY DEF CopiesOK
<1>4. A3 \notin {A2, C1} /\ A2 # C1 /\ M1 \notin {A4, A3, A2, C2, C1} /\ C3 \notin {A4, A3, A2, C2, C1}
  <2>1. A3 # A2 /\ M1 \notin {C2, C1} /\ C3 \notin {C2, C1}
    BY Signatures
  <2>2. A3 # C1 /\ A2 # C1 /\ M1 \notin {A4, A3, A2} /\ C3 \notin {A4, A3, A2}
    BY Distinct
  <2> QED BY <2>1, <2>2
<1>5. CopyOK(c)'
  <2>1. CASE doing[c].todo = A4 /\ doing'[c].todo = A3
    BY <1>1, <1>2, <1>3, <1>4, <2>1 DEF CopyOK
  <2>2. CASE doing[c].todo = A4 /\ doing'[c].todo = A2 /\ doing[c].kind = "remove"
    BY <1>1, <1>2, <1>3, <1>4, <2>2 DEF CopyOK
  <2>3. CASE doing[c].todo = M2 /\ doing'[c].todo = M1
    BY <1>1, <1>2, <1>3, <1>4, <2>3 DEF CopyOK
  <2>4. CASE doing[c].todo = C4 /\ doing'[c].todo = C3
    BY <1>1, <1>2, <1>3, <1>4, <2>4 DEF CopyOK
  <2> QED BY <1>2, <2>1, <2>2, <2>3, <2>4
<1>6. Midway(c) => Midway(c)'
  <2>1. CASE doing[c].todo \in {A4, M2}
    BY <2>1, NotMidway
  <2>2. CASE doing[c].todo = C4 /\ doing'[c].todo = C3
    <3>1. C4 # A2 /\ C4 # C1
      BY Signatures, Distinct
    <3> QED BY <1>2, <2>2, <3>1 DEF Midway
  <2> QED BY <1>2, <2>1, <2>2
<1> QED BY <1>1, <1>2, <1>5, <1>6, CopiesUnseen, FilesUnseen

LEMMA StoppedFiles ==
  ASSUME TypeIInv, CopiesOK, FilesOK, NEW c \in Writers, Fail(c) \/ Crash(c)
  PROVE  CopiesOK' /\ FilesOK'
<1>1. UNCHANGED <<conf, middlewares, rows>> /\ unfinished' = Left(c)
  BY DEF Fail, Crash
<1>2. OthersKeep(c) /\ ((Keeps(c) /\ doing'[c].todo = A1) \/ doing'[c] = NoMutation)
  BY FailMoves, CrashMoves
<1>3. CopyOK(c)'
  BY <1>1, <1>2, NoCopy, IdleType DEF CopiesOK
<1>4. unfinished \subseteq unfinished' /\ (Midway(c) => doing[c].key \in unfinished')
  BY <1>1 DEF Left, Midway, Dangling
<1> QED BY <1>1, <1>2, <1>3, <1>4, CopiesUnseen, FilesUnseen

LEMMA WriteMiddlewaresFiles ==
  ASSUME TypeIInv, LockOK, AloneOK, CopiesOK, FilesOK, NEW c \in Writers, WriteMiddlewares(c)
  PROVE  CopiesOK' /\ FilesOK'
<1> DEFINE e == doing[c].key
           kind == doing[c].kind
<1>1. UNCHANGED <<conf, rows, unfinished>> /\ middlewares' = WithEntry(c)
  BY DEF WriteMiddlewares
<1>2. /\ OthersKeep(c)
      /\ \/ doing[c].todo = M1 /\ doing'[c] = NoMutation
         \/ doing[c].todo = A3 /\ doing'[c].todo = A2 /\ Keeps(c)
         \/ doing[c].todo = C2 /\ doing'[c].todo = C1 /\ Keeps(c)
  BY WriteMiddlewaresMoves
<1>3. CopyOK(c) /\ doing[c].todo \in Remaining(kind, e) /\ doing[c].kind \in RouteKinds \cup MiddlewareKinds \cup {"none"}
  BY Location, TraefikAssumption DEF CopiesOK, TypeIInv, ProgramOK, MutationStates
<1>4. doing[c].middlewares = middlewares
  BY <1>2, <1>3 DEF CopyOK
<1>5. CopyOK(c)'
  <2>1. CASE doing'[c] = NoMutation
    <3>1. NoMutation.todo = <<>> /\ NoMutation.kind = "none" /\ <<>> \notin {A4, A3, A2, C2, C1} /\ <<>> \notin {A3, M1, C3, C2}
      BY IdleType, Copyless
    <3> QED BY <2>1, <3>1 DEF CopyOK, RouteKinds
  <2>2. CASE doing[c].todo = A3 /\ doing'[c].todo = A2 /\ Keeps(c)
    <3>1. A2 \notin {A3, M1, C3, C2, C1}
      BY Signatures, Distinct
    <3> QED BY <1>1, <1>3, <1>4, <2>2, <3>1 DEF CopyOK, Keeps, WithEntry
  <2>3. CASE doing[c].todo = C2 /\ doing'[c].todo = C1 /\ Keeps(c)
    <3>1. C1 \notin {A2, A3, M1, C3, C2}
      BY Signatures, Distinct
    <3> QED BY <1>1, <1>3, <1>4, <2>3, <3>1 DEF CopyOK, Keeps, WithEntry
  <2> QED BY <1>2, <2>1, <2>2, <2>3
<1>6. CopiesOK'
  <2>1. \A b \in Writers \ {c} : CopyOK(b)'
    BY <1>1, <1>2, OthersCopies
  <2> QED BY <1>5, <2>1 DEF CopiesOK
<1>7. ASSUME NEW m, m \in middlewares \/ Excused(m)
      PROVE  m \in middlewares' \/ Excused(m)'
  <2>1. m \in middlewares \/ m \in unfinished \/ \E b \in Writers : doing[b].key = m /\ Midway(b)
    BY <1>7 DEF Excused
  <2>2. CASE m \in unfinished
    BY <1>1, <2>2 DEF Excused
  <2>3. ASSUME NEW b \in Writers \ {c}, doing[b].key = m, Midway(b)
        PROVE  Excused(m)'
    BY <1>2, <2>3 DEF Excused, OthersKeep, Midway
  <2>4. CASE doing[c].key = m /\ Midway(c)
    <3>1. doing[c].todo = C2 /\ kind = "addMiddleware"
      <4>1. doing[c].todo \in {C2}
        BY <1>2, <2>4, NotMidway
      <4>2. C2 # A2 /\ C2 # C1
        BY Signatures, Distinct
      <4> QED BY <2>4, <4>1, <4>2 DEF Midway
    <3> QED BY <1>1, <2>4, <3>1 DEF WithEntry
  <2>5. CASE m \in middlewares
    <3>1. CASE m # e
      BY <1>1, <1>4, <2>5, <3>1 DEF WithEntry
    <3>2. CASE m = e /\ kind \notin {"remove", "removeMiddleware"}
      BY <1>1, <1>4, <2>5, <3>2 DEF WithEntry
    <3>3. CASE m = e /\ kind = "remove"
      <4>1. doing[c].todo = A3
        <5>1. M1 \notin WithPath /\ C2 \notin WithPath
          BY Distinct DEF WithPath
        <5> QED BY <1>2, <1>3, <3>3, <5>1 DEF Remaining
      <4>2. doing'[c].todo = A2 /\ Keeps(c)
        <5>1. A3 # M1 /\ A3 # C2
          BY Distinct
        <5> QED BY <1>2, <4>1, <5>1
      <4>3. Midway(c)' /\ doing'[c].key = m
        BY <3>3, <4>2 DEF Midway, Keeps
      <4> QED BY <4>3 DEF Excused
    <3>4. CASE m = e /\ kind = "removeMiddleware"
      <4>1. doing[c].todo = C2
        <5>1. M1 \notin {C1, C2, C3, C4} /\ A3 \notin {C1, C2, C3, C4}
          BY Signatures, Distinct
        <5> QED BY <1>2, <1>3, <3>4, <5>1 DEF Remaining
      <4>2. doing'[c].todo = C1 /\ Keeps(c)
        <5>1. C2 # M1 /\ C2 # A3
          BY Signatures, Distinct
        <5> QED BY <1>2, <4>1, <5>1
      <4>3. Midway(c)' /\ doing'[c].key = m
        BY <3>4, <4>2 DEF Midway, Keeps
      <4> QED BY <4>3 DEF Excused
    <3> QED BY <3>1, <3>2, <3>3, <3>4
  <2> QED BY <2>1, <2>2, <2>3, <2>4, <2>5
<1> HIDE DEF e, kind
<1>8. FilesOK'
  BY <1>1, <1>7 DEF FilesOK
<1> QED BY <1>6, <1>8

LEMMA WriteConfFiles ==
  ASSUME TypeIInv, LockOK, AloneOK, CopiesOK, FilesOK, NEW c \in Writers, WriteConf(c)
  PROVE  CopiesOK' /\ FilesOK'
<1> DEFINE e == doing[c].key
           kind == doing[c].kind
<1>1. /\ UNCHANGED <<middlewares, rows>> /\ unfinished' = unfinished \ {e}
      /\ conf' = CASE kind = "manage" -> WithRouter(c)
                   [] kind = "remove" -> WithoutRouter(c)
                   [] kind = "addMiddleware" -> WithMiddleware(c)
                   [] OTHER -> WithoutMiddleware(c)
  BY DEF WriteConf
<1>2. /\ OthersKeep(c)
      /\ \/ doing[c].todo = C1 /\ doing'[c] = NoMutation
         \/ doing[c].todo = A2 /\ doing'[c].todo = A1 /\ Keeps(c)
  BY WriteConfMoves
<1>3. /\ CopyOK(c) /\ doing[c].todo \in Remaining(kind, e)
      /\ kind \in RouteKinds \cup MiddlewareKinds \cup {"none"}
      /\ kind # "none" => e \in Entries /\ (kind \in RouteKinds <=> e \in Sites)
  BY Location, TraefikAssumption DEF CopiesOK, TypeIInv, ProgramOK, MutationStates
<1>4. doing[c].conf = conf
  BY <1>2, <1>3 DEF CopyOK
<1>5. CopiesOK'
  <2>1. CopyOK(c)'
    BY <1>1, <1>2, <1>3, NoCopy, IdleType
  <2>2. \A b \in Writers \ {c} : CopyOK(b)'
    BY <1>1, <1>2, OthersCopies
  <2> QED BY <2>1, <2>2 DEF CopiesOK
<1>6. \A m : m # e /\ (m \in middlewares \/ Excused(m)) => m \in middlewares' \/ Excused(m)'
  BY <1>1, <1>2 DEF Excused, OthersKeep, Midway
<1>7. \/ doing[c].todo = A2 /\ kind \in {"manage", "remove"}
      \/ doing[c].todo = C1 /\ kind \in {"addMiddleware", "removeMiddleware"}
  <2>1. A2 \notin {M1, M2} /\ A2 \notin {C1, C2, C3, C4} /\ A2 # <<>>
    BY Distinct
  <2>2. C1 \notin WithPath /\ C1 \notin WithoutPath /\ C1 # <<>> /\ C1 \notin {M1, M2}
    BY Signatures, Distinct DEF WithPath, WithoutPath
  <2> QED BY <1>2, <1>3, <2>1, <2>2 DEF Remaining, RouteKinds, MiddlewareKinds
<1>8. conf \in Routers /\ rows \in SUBSET Middlewares /\ Sites \cap Middlewares = {} /\ Paths \subseteq Sites
  BY TraefikAssumption DEF TypeIInv, Kinded
<1>9. \A d \in DOMAIN conf : d \in Sites /\ conf[d] \in SUBSET Middlewares
  BY <1>8, RouterFiles
<1>10. CASE kind = "manage"
  <2>1. e \in Sites /\ conf' = WithRouter(c) /\ doing[c].uses = rows /\ (e \in Paths => e \in middlewares)
    BY <1>1, <1>3, <1>7, <1>10 DEF CopyOK, RouteKinds
  <2>2. /\ DOMAIN conf' = DOMAIN conf \cup {e} /\ conf'[e] = rows
        /\ \A d \in DOMAIN conf \ {e} : conf'[d] = conf[d]
    BY <1>4, <2>1 DEF WithRouter
  <2>3. \A m \in rows : m # e /\ (m \in middlewares' \/ Excused(m)')
    BY <1>6, <1>8, <2>1 DEF FilesOK
  <2>4. ASSUME NEW d \in DOMAIN conf'
        PROVE  /\ d \in Paths => d \in middlewares' \/ Excused(d)'
               /\ \A m \in conf'[d] : m \in middlewares' \/ Excused(m)'
    <3>1. CASE d = e
      BY <1>1, <2>1, <2>2, <2>3, <3>1
    <3>2. CASE d # e
      <4>1. d \in DOMAIN conf /\ conf'[d] = conf[d] /\ e \notin conf[d]
        BY <1>8, <1>9, <2>1, <2>2, <3>2
      <4> QED BY <1>6, <3>2, <4>1 DEF FilesOK
    <3> QED BY <3>1, <3>2
  <2>5. FilesOK'
    BY <1>1, <2>3, <2>4 DEF FilesOK
  <2> QED BY <1>5, <2>5
<1>11. CASE kind = "remove"
  <2>1. e \in Sites /\ conf' = WithoutRouter(c)
    BY <1>1, <1>3, <1>11 DEF RouteKinds
  <2>2. /\ DOMAIN conf' = DOMAIN conf \ {e}
        /\ \A d \in DOMAIN conf \ {e} : conf'[d] = conf[d]
    BY <1>4, <2>1 DEF WithoutRouter
  <2>3. \A m \in rows : m # e /\ (m \in middlewares' \/ Excused(m)')
    BY <1>6, <1>8, <2>1 DEF FilesOK
  <2>4. ASSUME NEW d \in DOMAIN conf'
        PROVE  /\ d \in Paths => d \in middlewares' \/ Excused(d)'
               /\ \A m \in conf'[d] : m \in middlewares' \/ Excused(m)'
    <3>1. d \in DOMAIN conf /\ d # e /\ conf'[d] = conf[d] /\ e \notin conf[d]
      BY <1>8, <1>9, <2>1, <2>2
    <3> QED BY <1>6, <3>1 DEF FilesOK
  <2>5. FilesOK'
    BY <1>1, <2>3, <2>4 DEF FilesOK
  <2> QED BY <1>5, <2>5
<1>12. CASE kind = "addMiddleware"
  <2>1. e \in Middlewares /\ conf' = WithMiddleware(c) /\ e \in middlewares
    BY <1>1, <1>3, <1>7, <1>12, Distinct DEF CopyOK, RouteKinds, Entries
  <2>2. DOMAIN conf' = DOMAIN conf /\ \A d \in DOMAIN conf : conf'[d] = conf[d] \cup {e}
    BY <1>4, <2>1 DEF WithMiddleware
  <2>3. \A m \in rows : m \in middlewares' \/ Excused(m)'
    BY <1>1, <1>6, <2>1 DEF FilesOK
  <2>4. ASSUME NEW d \in DOMAIN conf'
        PROVE  /\ d \in Paths => d \in middlewares' \/ Excused(d)'
               /\ \A m \in conf'[d] : m \in middlewares' \/ Excused(m)'
    <3>1. d \in DOMAIN conf /\ conf'[d] = conf[d] \cup {e} /\ d # e
      BY <1>8, <1>9, <2>1, <2>2
    <3> QED BY <1>1, <1>6, <2>1, <3>1 DEF FilesOK
  <2>5. FilesOK'
    BY <1>1, <2>3, <2>4 DEF FilesOK
  <2> QED BY <1>5, <2>5
<1>13. CASE kind = "removeMiddleware"
  <2>1. e \in Middlewares /\ conf' = WithoutMiddleware(c) /\ e \notin rows
    BY <1>1, <1>3, <1>13 DEF CopyOK, RouteKinds, Entries
  <2>2. DOMAIN conf' = DOMAIN conf /\ \A d \in DOMAIN conf : conf'[d] = conf[d] \ {e}
    BY <1>4, <2>1 DEF WithoutMiddleware
  <2>3. \A m \in rows : m \in middlewares' \/ Excused(m)'
    BY <1>6, <2>1 DEF FilesOK
  <2>4. ASSUME NEW d \in DOMAIN conf'
        PROVE  /\ d \in Paths => d \in middlewares' \/ Excused(d)'
               /\ \A m \in conf'[d] : m \in middlewares' \/ Excused(m)'
    <3>1. d \in DOMAIN conf /\ conf'[d] = conf[d] \ {e} /\ d # e
      BY <1>8, <1>9, <2>1, <2>2
    <3> QED BY <1>6, <3>1 DEF FilesOK
  <2>5. FilesOK'
    BY <1>1, <2>3, <2>4 DEF FilesOK
  <2> QED BY <1>5, <2>5
<1> QED BY <1>7, <1>10, <1>11, <1>12, <1>13

-----------------------------------------------------------------------------
(* The theorems.                                                            *)

LEMMA InvariantStarts == FilesInit => IInv
<1> SUFFICES ASSUME FilesInit PROVE IInv
  OBVIOUS
<1>1. TypeIInv
  BY TypesStart
<1>2. \A c \in Writers : doing[c] = NoMutation
  BY DEF FilesInit
<1>3. \A c \in Writers : doing[c].todo = <<>> /\ doing[c].kind = "none"
  BY <1>2, IdleType
<1>4. \A c \in Writers : ~ HasLock(c) /\ ~ Replacing(c)
  BY <1>3, Outside, IdleType DEF HasLock, Replacing
<1>5. LockOK
  BY <1>4 DEF FilesInit, NoLock, LockOK
<1>6. CopiesOK
  <2>1. <<>> \notin {A4, A3, A2, M1, C1, C2, C3}
    BY Copyless
  <2> QED BY <1>3, <2>1 DEF CopiesOK, CopyOK, RouteKinds
<1>7. FilesOK
  BY DEF FilesInit, NoRouters, FilesOK
<1> QED BY <1>1, <1>3, <1>5, <1>6, <1>7 DEF IInv, AloneOK

LEMMA InvariantKept == ASSUME Orderly PROVE IInv /\ [FilesNext]_fileVars => IInv'
<1> SUFFICES ASSUME IInv, [FilesNext]_fileVars PROVE IInv'
  OBVIOUS
<1> USE DEF IInv
<1>1. TypeIInv'
  BY TypesKept
<1>2. CASE UNCHANGED fileVars
  BY <1>1, <1>2 DEF fileVars, LockOK, HasLock, Owning, Replacing, AloneOK, CopiesOK, CopyOK, FilesOK, Excused, Midway
<1>3. CASE Expire
  <2>1. UNCHANGED <<conf, middlewares, rows, doing, dead, unfinished>>
    BY <1>3 DEF Expire
  <2> QED BY <1>1, <1>3, <2>1, ExpireLock DEF AloneOK, CopiesOK, CopyOK, FilesOK, Excused, Midway
<1>4. ASSUME NEW c \in Writers, BeginMutation(c)
      PROVE  IInv'
  BY <1>1, <1>4, BeginLock, BeginAlone, BeginFiles DEF Orderly
<1>5. ASSUME NEW c \in Writers, Attempt(c) \/ Retry(c) \/ TakeOver(c) \/ GiveUp(c) \/ Own(c) \/ Release(c)
      PROVE  IInv'
  <2>1. LockOK'
    BY <1>5, AttemptLock, RetryLock, TakeOverLock, GiveUpLock, OwnLock, ReleaseLock DEF Orderly
  <2>2. OthersKeep(c) /\ (doing'[c].kind = doing[c].kind \/ doing'[c].kind = "none")
    BY <1>5, AttemptMoves, RetryMoves, TakeOverMoves, GiveUpMoves, OwnMoves, ReleaseMoves, IdleType DEF Keeps
  <2> QED BY <1>1, <1>5, <2>1, <2>2, AloneKept, LockStepFiles
<1>6. ASSUME NEW c \in Writers,
             LoadConf(c) \/ LoadMiddlewares(c) \/ WriteMiddlewares(c) \/ WriteConf(c) \/ Fail(c) \/ Crash(c)
      PROVE  IInv'
  <2>1. LockOK'
    BY <1>6, FilesLock, CrashLock
  <2>2. OthersKeep(c) /\ (doing'[c].kind = doing[c].kind \/ doing'[c].kind = "none")
    BY <1>6, LoadConfMoves, LoadMiddlewaresMoves, WriteMiddlewaresMoves, WriteConfMoves, FailMoves, CrashMoves,
       IdleType DEF Keeps
  <2>3. CopiesOK' /\ FilesOK'
    BY <1>6, LoadConfFiles, LoadMiddlewaresFiles, WriteMiddlewaresFiles, WriteConfFiles, StoppedFiles DEF Orderly
  <2> QED BY <1>1, <2>1, <2>2, <2>3, AloneKept
<1> QED BY <1>2, <1>3, <1>4, <1>5, <1>6 DEF FilesNext

LEMMA InvariantHolds == ASSUME Orderly PROVE FilesSpec => []IInv
  BY InvariantStarts, InvariantKept, PTL DEF FilesSpec

\* Traefik drops a router that names a middleware it does not have.  For
\* redirects that run alone, reads of middlewares.yml that do not fail and a lock
\* that only the last client left ever takes over, no router in the files names a
\* missing one except while the mutation of that entry is under way or after it
\* has failed, whichever command fails or client dies.
THEOREM RoutersComplete == ASSUME Orderly PROVE FilesSpec => []NoDanglingMiddleware
<1>1. IInv => NoDanglingMiddleware
  <2> SUFFICES ASSUME IInv PROVE NoDanglingMiddleware
    OBVIOUS
  <2>1. ASSUME NEW e, Excused(e) PROVE Pending(e)
    <3>1. ASSUME NEW c \in Writers, doing[c].key = e, Midway(c)
          PROVE  Pending(e)
      <4>1. Dangling(doing[c].kind) /\ Active(c)
        BY <3>1, Location DEF Midway, Dangling, IInv
      <4> QED BY <3>1, <4>1 DEF Pending
    <3> QED BY <2>1, <3>1 DEF Excused, Pending
  <2> QED BY <2>1 DEF IInv, FilesOK, NoDanglingMiddleware
<1> QED BY <1>1, InvariantHolds, PTL

\* What a mutation of the files changes.
LEMMA OwnEntries == ASSUME IInv, Orderly, [FilesNext]_fileVars, NEW c \in Writers, doing'[c] # doing[c] PROVE OnlyOwnEntries(c)
<1> DEFINE e == doing[c].key
<1>1. CASE UNCHANGED <<conf, middlewares>>
  BY <1>1 DEF OnlyOwnEntries
<1>2. CASE FilesNext /\ ~ UNCHANGED <<conf, middlewares>>
  <2>1. PICK b \in Writers : WriteMiddlewares(b) \/ WriteConf(b)
    BY <1>2 DEF FilesNext, BeginMutation, Attempt, Retry, TakeOver, GiveUp, Own, Release, LoadConf, LoadMiddlewares, Fail,
       Crash, Expire
  <2>2. b = c
    BY <2>1, WriteMiddlewaresMoves, WriteConfMoves DEF IInv, OthersKeep
  <2>3. CASE WriteMiddlewares(c)
    <3>1. UNCHANGED conf /\ middlewares' = WithEntry(c) /\ doing[c].todo \in {M1, A3, C2}
      BY <2>3, WriteMiddlewaresMoves DEF WriteMiddlewares, IInv
    <3>2. doing[c].middlewares = middlewares
      BY <3>1 DEF IInv, CopiesOK, CopyOK
    <3> QED BY <3>1, <3>2 DEF WithEntry, OnlyOwnEntries
  <2>4. CASE WriteConf(c)
    <3>1. /\ UNCHANGED middlewares /\ doing[c].todo \in {C1, A2}
          /\ conf' \in {WithRouter(c), WithoutRouter(c), WithMiddleware(c), WithoutMiddleware(c)}
      BY <2>4, WriteConfMoves DEF WriteConf, IInv
    <3>2. doing[c].conf = conf
      BY <3>1 DEF IInv, CopiesOK, CopyOK
    <3>3. CASE conf' = WithRouter(c)
      BY <3>1, <3>2, <3>3 DEF WithRouter, OnlyOwnEntries
    <3>4. CASE conf' = WithoutRouter(c)
      BY <3>1, <3>2, <3>4 DEF WithoutRouter, OnlyOwnEntries
    <3>5. CASE conf' = WithMiddleware(c)
      BY <3>1, <3>2, <3>5 DEF WithMiddleware, OnlyOwnEntries
    <3>6. CASE conf' = WithoutMiddleware(c)
      BY <3>1, <3>2, <3>6 DEF WithoutMiddleware, OnlyOwnEntries
    <3> QED BY <3>1, <3>3, <3>4, <3>5, <3>6
  <2> QED BY <2>1, <2>2, <2>3, <2>4
<1> QED BY <1>1, <1>2 DEF fileVars

\* "Serialize Traefik read/modify/write mutations across requests and
\* processes": under the same conditions a mutation writes nothing but its own
\* router or middleware, so that none takes another one back.
THEOREM UpdatesKept == ASSUME Orderly PROVE FilesSpec => NoLostUpdate
<1>1. IInv /\ [FilesNext]_fileVars => [\A c \in Writers : doing'[c] # doing[c] => OnlyOwnEntries(c)]_fileVars
  BY OwnEntries
<1> QED BY <1>1, InvariantHolds, PTL DEF FilesSpec, NoLostUpdate

=============================================================================
