---------------------------- MODULE TraefikFiles ----------------------------
(***************************************************************************)
(* The dynamic configuration of Traefik on one remote server: the routers of *)
(* one application in its own file and the middlewares of all applications   *)
(* in a shared one.  Every mutation reads the files, changes its copy and    *)
(* writes it back, one SSH command after the other.  Domain routes do so     *)
(* under withTraefikMutationLock, a lock directory on the server that may    *)
(* be taken over after ten minutes; redirects do not, nor do basic-auth      *)
(* users, which are kept in the same way.  (On the platform's own host a      *)
(* redirect's files are read and written without an await in between, and a   *)
(* removal writes the application's file first; that is not modelled.)        *)
(***************************************************************************)
EXTENDS Naturals, FiniteSets, Sequences

CONSTANTS
    Sites,         \* domains of the application
    Paths,         \* those whose router needs a middleware of its own (internalPath, stripPath)
    Middlewares,   \* redirects of the application
    Writers,       \* requests and jobs of the platform's processes
    Nobody,        \* a lock directory without an owner file
    Mutations,     \* the mutations clients perform
    MaxTries,      \* attempts to get the lock (the code: 150, one every 0.2 s)
    MaxCrashes,    \* bound: clients that die
    Exclusive,     \* whether the mutations without a lock run one at a time, alone
    Unreadable     \* whether middlewares.yml may exist and yet not be read

VARIABLES
    conf,          \* the application's file: its routers, each with its middlewares
    middlewares,   \* middlewares.yml: the entries of this application's domains and middlewares
    rows,          \* the redirects in the database
    lock,          \* the lock directory
    doing,         \* each client's mutation
    dead,          \* clients that have died
    unfinished     \* history: entries a mutation of which stopped half-way
                   \* and was not repeated since

fileVars == <<conf, middlewares, rows, lock, doing, dead, unfinished>>

RouteKinds == {"manage", "remove"}
MiddlewareKinds == {"addMiddleware", "updateMiddleware", "removeMiddleware"}

ASSUME TraefikAssumption ==
    /\ Paths \subseteq Sites /\ Sites \cap Middlewares = {}
    /\ Nobody \notin Writers
    /\ Mutations \subseteq RouteKinds \cup MiddlewareKinds
    /\ MaxTries \in Nat \ {0} /\ MaxCrashes \in Nat
    /\ Exclusive \in BOOLEAN /\ Unreadable \in BOOLEAN

\* The middleware of a domain's path is named after the domain.
Entries == Sites \cup Middlewares
Routers == UNION {[S -> SUBSET Middlewares] : S \in SUBSET Sites}
NoRouters == [d \in {} |-> {}]
NoLock == [dir |-> FALSE, owner |-> Nobody, stale |-> FALSE]

Locked(steps) == <<"attempt", "own">> \o steps \o <<"release">>

\* Mutant: the router is published before its middleware.
RouterFirst(kind, e) ==
    CASE kind = "manage" ->
            Locked(<<"loadConf">> \o (IF e \in Paths THEN <<"loadMiddlewares">> ELSE <<>>)
                     \o <<"writeConf">> \o (IF e \in Paths THEN <<"writeMiddlewares">> ELSE <<>>))
      [] kind = "remove" -> Locked(<<"loadConf", "loadMiddlewares", "writeMiddlewares", "writeConf">>)
      [] kind = "updateMiddleware" -> <<"loadMiddlewares", "writeMiddlewares">>
      [] OTHER -> <<"loadMiddlewares", "loadConf", "writeMiddlewares", "writeConf">>

\* The commands of a mutation, in order.
Program(kind, e) ==
    CASE kind = "manage" ->
            Locked(<<"loadConf">>
                     \o (IF e \in Paths THEN <<"loadMiddlewares", "writeMiddlewares">> ELSE <<>>)
                     \o <<"writeConf">>)
      [] kind = "remove" -> Locked(<<"loadConf", "loadMiddlewares", "writeMiddlewares", "writeConf">>)
      [] kind = "updateMiddleware" -> <<"loadMiddlewares", "writeMiddlewares">>
      [] OTHER -> <<"loadMiddlewares", "loadConf", "writeMiddlewares", "writeConf">>

\* A mutation: the entry it is about, the application's middlewares as read
\* before it began, the commands to come, failed attempts to get the lock, and
\* its copies of the two files.
NoMutation == [kind |-> "none", key |-> Nobody, uses |-> {}, todo |-> <<>>, attempts |-> 0,
               conf |-> NoRouters, middlewares |-> {}]

Active(c) == doing[c].todo # <<>>
At(c, step) == Active(c) /\ Head(doing[c].todo) = step
Rest(c) == IF Len(doing[c].todo) = 1 THEN NoMutation ELSE [doing[c] EXCEPT !.todo = Tail(doing[c].todo)]
Continue(c) == doing' = [doing EXCEPT ![c] = Rest(c)]

\* Holding the lock, as the client sees it.
Inside(c) == Active(c) /\ doing[c].todo[Len(doing[c].todo)] = "release" /\ ~ At(c, "attempt") /\ ~ At(c, "takeOver")

FilesInit ==
         /\ rows \in SUBSET Middlewares
         /\ middlewares = rows
         /\ conf = NoRouters
         /\ lock = NoLock
         /\ doing = [c \in Writers |-> NoMutation]
         /\ dead = {} /\ unfinished = {}

\* A request loads the application with its redirects; a new or removed one is in the database before the files change.
BeginMutation(c) ==
    /\ c \notin dead /\ ~ Active(c)
    /\ \E kind \in Mutations, e \in Entries :
        /\ kind \in RouteKinds <=> e \in Sites
        /\ Exclusive => \A b \in Writers : Active(b) => {kind, doing[b].kind} \subseteq RouteKinds
        /\ kind = "addMiddleware" => e \notin rows
        /\ kind \in {"updateMiddleware", "removeMiddleware"} => e \in rows
        /\ doing' = [doing EXCEPT ![c] = [NoMutation EXCEPT !.kind = kind, !.key = e, !.uses = rows,
                                                            !.todo = Program(kind, e)]]
        /\ rows' = CASE kind = "addMiddleware" -> rows \cup {e}
                     [] kind = "removeMiddleware" -> rows \ {e}
                     [] OTHER -> rows
    /\ UNCHANGED <<conf, middlewares, lock, dead, unfinished>>

-----------------------------------------------------------------------------
(* The lock.                                                               *)

\* Mutant: mkdir -p, which succeeds on a directory that exists.
AttemptAnyway(c) ==
    /\ At(c, "attempt") /\ doing[c].attempts < MaxTries
    /\ lock' = [dir |-> TRUE, owner |-> Nobody, stale |-> FALSE]
    /\ Continue(c)
    /\ UNCHANGED <<conf, middlewares, rows, dead, unfinished>>

\* mkdir succeeds ...
Attempt(c) ==
    /\ At(c, "attempt") /\ doing[c].attempts < MaxTries
    /\ ~ lock.dir
    /\ lock' = [dir |-> TRUE, owner |-> Nobody, stale |-> FALSE]
    /\ Continue(c)
    /\ UNCHANGED <<conf, middlewares, rows, dead, unfinished>>

\* Mutant: one round too many.
RetryOnceMore(c) ==
    /\ At(c, "attempt") /\ doing[c].attempts <= MaxTries
    /\ lock.dir
    /\ doing' = [doing EXCEPT ![c].attempts = @ + 1,
                              ![c].todo = IF lock.stale THEN <<"takeOver">> \o @ ELSE @]
    /\ UNCHANGED <<conf, middlewares, rows, lock, dead, unfinished>>

\* ... or the directory is there: if it is found to be stale it will be removed.
Retry(c) ==
    /\ At(c, "attempt") /\ doing[c].attempts < MaxTries
    /\ lock.dir
    /\ doing' = [doing EXCEPT ![c].attempts = @ + 1,
                              ![c].todo = IF lock.stale THEN <<"takeOver">> \o @ ELSE @]
    /\ UNCHANGED <<conf, middlewares, rows, lock, dead, unfinished>>

\* rm -rf, whatever directory is there by now.
TakeOver(c) ==
    /\ At(c, "takeOver")
    /\ lock' = NoLock
    /\ Continue(c)
    /\ UNCHANGED <<conf, middlewares, rows, dead, unfinished>>

\* "Timed out waiting for the Traefik configuration lock": nothing was changed.
GiveUp(c) ==
    /\ At(c, "attempt") /\ doing[c].attempts = MaxTries
    /\ doing' = [doing EXCEPT ![c] = NoMutation]
    /\ UNCHANGED <<conf, middlewares, rows, lock, dead, unfinished>>

\* Write the token into the directory; without the directory the script fails.
Own(c) ==
    /\ At(c, "own")
    /\ IF lock.dir
       THEN lock' = [lock EXCEPT !.owner = c] /\ Continue(c)
       ELSE doing' = [doing EXCEPT ![c] = NoMutation] /\ UNCHANGED lock
    /\ UNCHANGED <<conf, middlewares, rows, dead, unfinished>>

\* Remove the directory if the token is still one's own.
Release(c) ==
    /\ At(c, "release")
    /\ lock' = IF lock.dir /\ lock.owner = c THEN NoLock ELSE lock
    /\ Continue(c)
    /\ UNCHANGED <<conf, middlewares, rows, dead, unfinished>>

-----------------------------------------------------------------------------
(* The files.                                                              *)

LoadConf(c) ==
    /\ At(c, "loadConf")
    /\ doing' = [doing EXCEPT ![c].conf = conf, ![c].todo = Tail(@)]
    /\ UNCHANGED <<conf, middlewares, rows, lock, dead, unfinished>>

\* createPathMiddlewares takes a file it cannot read for an empty one;
\* removePathMiddlewares then leaves it alone.
LoadMiddlewares(c) ==
    /\ At(c, "loadMiddlewares")
    /\ \/ doing' = [doing EXCEPT ![c].middlewares = middlewares, ![c].todo = Tail(@)]
       \/ /\ middlewares = {} \/ Unreadable
          /\ doing[c].kind \in RouteKinds
          /\ doing' = [doing EXCEPT ![c].middlewares = {},
                                    ![c].todo = IF doing[c].kind = "manage" THEN Tail(@) ELSE Tail(Tail(@))]
    /\ UNCHANGED <<conf, middlewares, rows, lock, dead, unfinished>>

\* The client's copy of middlewares.yml with its own entry set or deleted; an
\* update sets the entry only if it is there, so that the entries are the same.
WithEntry(c) ==
    CASE doing[c].kind \in {"manage", "addMiddleware"} -> doing[c].middlewares \cup {doing[c].key}
      [] doing[c].kind \in {"remove", "removeMiddleware"} -> doing[c].middlewares \ {doing[c].key}
      [] OTHER -> doing[c].middlewares

WriteMiddlewares(c) ==
    /\ At(c, "writeMiddlewares")
    /\ middlewares' = WithEntry(c)
    /\ Continue(c)
    /\ UNCHANGED <<conf, rows, lock, dead, unfinished>>

\* manageDomain: the router with the application's middlewares as loaded before.
WithRouter(c) ==
    [d \in DOMAIN doing[c].conf \cup {doing[c].key} |-> IF d = doing[c].key THEN doing[c].uses ELSE doing[c].conf[d]]

\* removeDomain; a file left without routers is removed.
WithoutRouter(c) == [d \in DOMAIN doing[c].conf \ {doing[c].key} |-> doing[c].conf[d]]

\* addMiddleware, deleteMiddleware: every router of the application.
WithMiddleware(c) == [d \in DOMAIN doing[c].conf |-> doing[c].conf[d] \cup {doing[c].key}]
WithoutMiddleware(c) == [d \in DOMAIN doing[c].conf |-> doing[c].conf[d] \ {doing[c].key}]

WriteConf(c) ==
    /\ At(c, "writeConf")
    /\ conf' = CASE doing[c].kind = "manage" -> WithRouter(c)
                 [] doing[c].kind = "remove" -> WithoutRouter(c)
                 [] doing[c].kind = "addMiddleware" -> WithMiddleware(c)
                 [] OTHER -> WithoutMiddleware(c)
    /\ Continue(c)
    /\ unfinished' = unfinished \ {doing[c].key}
    /\ UNCHANGED <<middlewares, rows, lock, dead>>

-----------------------------------------------------------------------------
(* Failures.                                                               *)

Steps == {"loadConf", "loadMiddlewares", "writeMiddlewares", "writeConf"}

\* The mutations in the middle of which a router may name a missing middleware.
Dangling(kind) == kind \in {"remove", "addMiddleware", "removeMiddleware"}
Left(c) == IF Dangling(doing[c].kind) THEN unfinished \cup {doing[c].key} ELSE unfinished

\* A command fails: the mutation stops there, and a lock is given back.  A
\* domain mutation survives a read of middlewares.yml that fails.
Fail(c) ==
    /\ Active(c) /\ Head(doing[c].todo) \in Steps
    /\ ~ (At(c, "loadMiddlewares") /\ doing[c].kind \in RouteKinds)
    /\ doing' = [doing EXCEPT ![c] = IF Inside(c) THEN [doing[c] EXCEPT !.todo = <<"release">>] ELSE NoMutation]
    /\ unfinished' = Left(c)
    /\ UNCHANGED <<conf, middlewares, rows, lock, dead>>

\* The client's process dies, or its connection for good: at "release" this is
\* also the release that fails.
Crash(c) ==
    /\ Active(c) /\ Cardinality(dead) < MaxCrashes
    /\ dead' = dead \cup {c}
    /\ doing' = [doing EXCEPT ![c] = NoMutation]
    /\ unfinished' = Left(c)
    /\ UNCHANGED <<conf, middlewares, rows, lock>>

\* Ten minutes pass: longer than any mutation that is still under way.
Expire ==
    /\ lock.dir /\ ~ lock.stale
    /\ \A c \in Writers : ~ Inside(c)
    /\ lock' = [lock EXCEPT !.stale = TRUE]
    /\ UNCHANGED <<conf, middlewares, rows, doing, dead, unfinished>>

-----------------------------------------------------------------------------
FilesNext ==
         \/ \E c \in Writers :
             \/ BeginMutation(c)
             \/ Attempt(c) \/ Retry(c) \/ TakeOver(c) \/ GiveUp(c) \/ Own(c) \/ Release(c)
             \/ LoadConf(c) \/ LoadMiddlewares(c) \/ WriteMiddlewares(c) \/ WriteConf(c)
             \/ Fail(c) \/ Crash(c)
         \/ Expire

FilesSpec == FilesInit /\ [][FilesNext]_fileVars

-----------------------------------------------------------------------------
(* Properties.                                                             *)

\* Everything has its type; a mutation makes at most MaxTries attempts.
FilesTypeOK ==
    /\ conf \in Routers
    /\ middlewares \subseteq Entries /\ rows \subseteq Middlewares /\ unfinished \subseteq Entries
    /\ lock \in [dir : BOOLEAN, owner : Writers \cup {Nobody}, stale : BOOLEAN]
    /\ dead \subseteq Writers
    /\ \A c \in Writers :
        /\ doing[c].kind \in Mutations \cup {"none"} /\ doing[c].key \in Entries \cup {Nobody}
        /\ doing[c].todo \in Seq(Steps \cup {"attempt", "takeOver", "own", "release"})
        /\ doing[c].uses \subseteq Middlewares /\ doing[c].attempts \in 0..MaxTries
        /\ doing[c].conf \in Routers /\ doing[c].middlewares \subseteq Entries

\* What a write of middlewares.yml changes is the writer's entry; what a write
\* of the application's file changes is the writer's router or, in the routers
\* that are there, the writer's middleware.  A copy that has become stale since
\* it was read would take other mutations back: withTraefikMutationLock is there
\* to "Serialize Traefik read/modify/write mutations across requests and
\* processes".
OnlyOwnEntries(c) ==
    LET e == doing[c].key IN
    /\ middlewares' \ {e} = middlewares \ {e}
    /\ DOMAIN conf' \ {e} = DOMAIN conf \ {e}
    /\ \A d \in DOMAIN conf \ {e} : conf'[d] \ {e} = conf[d] \ {e}

NoLostUpdate == [][\A c \in Writers : doing'[c] # doing[c] => OnlyOwnEntries(c)]_fileVars

Pending(e) ==
    e \in unfinished \/ \E c \in Writers : Active(c) /\ doing[c].key = e /\ Dangling(doing[c].kind)

\* Traefik drops a router that names a middleware it does not have.  Such a
\* router is never in the files, except for a domain whose removal, or a
\* redirect a mutation of which, is under way or has failed: manageDomain writes
\* the path's middleware first.
NoDanglingMiddleware ==
    \A d \in DOMAIN conf :
        /\ d \in Paths => d \in middlewares \/ Pending(d)
        /\ \A m \in conf[d] : m \in middlewares \/ Pending(m)
=============================================================================
