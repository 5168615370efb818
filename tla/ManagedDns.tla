----------------------------- MODULE ManagedDns -----------------------------
(***************************************************************************)
(* One DNS zone: its records in the database, those of domains and those of  *)
(* the user, and the zone file that the name server reads.  A domain's       *)
(* record is changed in a transaction that locks the record's owner name;     *)
(* the zone is published afterwards, and when that fails a second            *)
(* transaction takes the change back.  The routes of a domain and the undoing *)
(* of a route are left to ComposeLifecycle, and the database's statements     *)
(* outside these transactions do not fail.                                   *)
(***************************************************************************)
EXTENDS Naturals, Sequences, FiniteSets

CONSTANTS
    Domains,         \* ids of managed domains
    Hosts,           \* names within the zone
    Clients,         \* procedures that may be under way
    Operations,      \* the procedures of this instance
    Faults,          \* what may fail: "reload", "timeout"
    HandedOn,        \* whether a host may be claimed while the domain that is
                     \* leaving it may still take it back (nothing forbids it)
    MaxCalls         \* bound: procedures begun

VARIABLES
    zone,            \* the row of dns_zone: whether it exists, its status
    records,         \* the rows of dns_record
    hosts,           \* the domain rows: each domain's host, NoHost without a row
    published,       \* the zone file
    publisher,       \* who holds the zone's publish lock
    call,            \* each procedure's local state
    begun            \* how much of MaxCalls is used up

dns == <<zone, records, hosts, published, publisher, call, begun>>

User == "user"
NoHost == "no host"
Nobody == "nobody"
NoFile == [present |-> FALSE, records |-> {}]
FileOf(r) == [present |-> TRUE, records |-> r]
Address(d, h) == [host |-> h, type |-> "A", by |-> d]
Linked(d) == {r \in records : r.by = d}
OfDomains(r) == {x \in r : x.by \in Domains}
At(c, step) == call[c].todo # <<>> /\ Head(call[c].todo) = step

\* Mutant: the records are read before the lock is held.
PublishStale == <<"find", "read", "take", "write">>

\* publishDnsZone: the zone is looked up, the lock taken, the zone and its
\* records are read, and the file is written.
PublishSteps == <<"find", "take", "read", "write">>

Program(op) ==
    CASE op = "add" -> <<"insert", "sync">> \o PublishSteps
      [] op = "move" -> <<"rename", "sync">> \o PublishSteps
      [] op = "remove" -> <<"unlink">> \o PublishSteps \o <<"dropDomain">>
      [] op = "publish" -> PublishSteps
      [] op = "deleteZone" -> <<"find", "take", "check", "unpublish", "dropZone">>
      [] op \in {"upsertA", "upsertCNAME"} -> <<"upsert">>
      [] op = "deleteRecords" -> <<"deleteRecord">>

\* A procedure: its domain and host, the host the domain had, the records it has
\* read or will restore, and whether it is taking its change back.
Rest == [op |-> "none", todo |-> <<>>, domain |-> CHOOSE d \in Domains : TRUE, host |-> NoHost,
         old |-> NoHost, previous |-> {}, read |-> {}, undoing |-> FALSE]
Quiet == \A c \in Clients : call[c].todo = <<>>

Set(c, r) == call' = [call EXCEPT ![c] = IF r.todo = <<>> THEN Rest ELSE r]
Go(c, r) == Set(c, [r EXCEPT !.todo = Tail(@)])
Continue(c) == Go(c, call[c])
Jump(c, todo) == Set(c, [call[c] EXCEPT !.todo = todo])

\* How the caller takes a failure: createDomain deletes the row, the procedure
\* update takes the old host back and brings the record in line with it.
AfterFailure(c) ==
    CASE call[c].op = "add" -> <<"forget">>
      [] call[c].op = "move" -> <<"renameBack", "resync">> \o PublishSteps
      [] OTHER -> <<>>

\* Publishing has failed: the first time the change is taken back and published
\* again, the second time the failure is passed on.
FailPublish(c) ==
    IF call[c].undoing
    THEN Set(c, [call[c] EXCEPT !.todo = AfterFailure(c), !.undoing = FALSE])
    ELSE IF call[c].op \in {"publish", "deleteZone"} THEN Jump(c, <<>>)
    ELSE Set(c, [call[c] EXCEPT !.todo = <<"restore">> \o PublishSteps \o <<"failed">>, !.undoing = TRUE])

Init ==
    /\ zone = [exists |-> TRUE, status |-> "pending"]
    /\ records = {} /\ hosts = [d \in Domains |-> NoHost]
    /\ published = NoFile /\ publisher = Nobody
    /\ call = [c \in Clients |-> Rest] /\ begun = 0

-----------------------------------------------------------------------------
(* What a procedure does to the rows.                                       *)

Changing == {"add", "move", "remove", "resync"}
Claimed(h) == \E d \in Domains : hosts[d] = h
Taken(c, h) == Claimed(h) \/ (~ HandedOn /\ \E q \in Clients \ {c} : call[q].op = "move" /\ call[q].old = h)

\* The mutations of one domain hold its routing lock; a creation holds the one of
\* its Compose service (that of an application's domain holds none).
BeginCall(c) ==
    /\ call[c].todo = <<>> /\ begun < MaxCalls
    /\ \E op \in Operations, d \in Domains, h \in Hosts :
        /\ op \in Changing => \A q \in Clients : call[q].op \in Changing => call[q].domain # d
        /\ op \in {"add", "move"} => ~ Taken(c, h)
        /\ op = "add" <=> op \in Changing /\ hosts[d] = NoHost
        /\ op \notin Changing => d = Rest.domain
        /\ Set(c, [Rest EXCEPT !.op = op, !.todo = Program(op), !.domain = d, !.host = h, !.old = hosts[d]])
    /\ begun' = begun + 1
    /\ UNCHANGED <<zone, records, hosts, published, publisher>>

\* The row with its new host, which is unique.
ClaimHost(c) ==
    /\ At(c, "insert") \/ At(c, "rename")
    /\ IF Taken(c, call[c].host) THEN Jump(c, <<>>) /\ UNCHANGED hosts
       ELSE hosts' = [hosts EXCEPT ![call[c].domain] = call[c].host] /\ Continue(c)
    /\ UNCHANGED <<zone, records, published, publisher, begun>>

\* Mutant: only address records are looked for.
SyncBesideAlias(c) ==
    LET d == call[c].domain
        h == hosts[d] IN
    /\ At(c, "sync") \/ At(c, "resync")
    /\ IF ~ zone.exists \/ \E r \in records : r.host = h /\ r.by # d /\ r.type = "A"
       THEN Jump(c, IF At(c, "resync") THEN <<>> ELSE AfterFailure(c)) /\ UNCHANGED records
       ELSE /\ records' = (records \ Linked(d)) \cup {Address(d, h)}
            /\ Go(c, [call[c] EXCEPT !.previous = Linked(d), !.undoing = FALSE,
                                     !.op = IF At(c, "resync") THEN "resync" ELSE @])
    /\ UNCHANGED <<zone, hosts, published, publisher, begun>>

\* The transaction of syncManagedDnsRecordForDomain.
Sync(c) ==
    LET d == call[c].domain
        h == hosts[d] IN
    /\ At(c, "sync") \/ At(c, "resync")
    /\ IF ~ zone.exists \/ \E r \in records : r.host = h /\ r.by # d
       THEN Jump(c, IF At(c, "resync") THEN <<>> ELSE AfterFailure(c)) /\ UNCHANGED records
       ELSE /\ records' = (records \ Linked(d)) \cup {Address(d, h)}
            /\ Go(c, [call[c] EXCEPT !.previous = Linked(d), !.undoing = FALSE,
                                     !.op = IF At(c, "resync") THEN "resync" ELSE @])
    /\ UNCHANGED <<zone, hosts, published, publisher, begun>>

\* The transaction of deleteManagedDnsRecordForDomain; without a record nothing is published.
Unlink(c) ==
    LET linked == Linked(call[c].domain) IN
    /\ At(c, "unlink")
    /\ records' = records \ linked
    /\ IF linked = {} THEN Jump(c, <<"dropDomain">>) ELSE Go(c, [call[c] EXCEPT !.previous = linked])
    /\ UNCHANGED <<zone, hosts, published, publisher, begun>>

\* Mutant: the change is taken back without its predecessor.
RestoreNothing(c) ==
    /\ At(c, "restore")
    /\ records' = records \ Linked(call[c].domain)
    /\ Continue(c)
    /\ UNCHANGED <<zone, hosts, published, publisher, begun>>

\* The second transaction locks nothing; the unique index of managed addresses and
\* the foreign key of the zone may refuse it.
Restore(c) ==
    LET d == call[c].domain
        previous == call[c].previous IN
    /\ At(c, "restore")
    /\ IF previous = {} \/ (zone.exists /\ \A r \in OfDomains(records \ Linked(d)), x \in previous : r.host # x.host)
       THEN records' = (records \ Linked(d)) \cup previous /\ Continue(c)
       ELSE Jump(c, AfterFailure(c)) /\ UNCHANGED records
    /\ UNCHANGED <<zone, hosts, published, publisher, begun>>

\* The change has been taken back: the caller does its part.
Failed(c) ==
    /\ At(c, "failed")
    /\ Set(c, [call[c] EXCEPT !.todo = AfterFailure(c), !.undoing = FALSE])
    /\ UNCHANGED <<zone, records, hosts, published, publisher, begun>>

Forget(c) ==
    /\ At(c, "forget") \/ At(c, "dropDomain")
    /\ hosts' = [hosts EXCEPT ![call[c].domain] = NoHost]
    /\ Continue(c)
    /\ UNCHANGED <<zone, records, published, publisher, begun>>

RenameBack(c) ==
    /\ At(c, "renameBack")
    /\ IF Claimed(call[c].old) THEN Jump(c, <<>>) /\ UNCHANGED hosts
       ELSE hosts' = [hosts EXCEPT ![call[c].domain] = call[c].old] /\ Continue(c)
    /\ UNCHANGED <<zone, records, published, publisher, begun>>

\* upsertDnsRecord: an alias stands alone at its name.
UpsertRecord(c) ==
    LET type == IF call[c].op = "upsertA" THEN "A" ELSE "CNAME"
        owner == {r \in records : r.host = call[c].host} IN
    /\ At(c, "upsert")
    /\ records' = IF zone.exists /\ \A r \in owner : (r.type = "CNAME") = (type = "CNAME")
                  THEN records \cup {[host |-> call[c].host, type |-> type, by |-> User]} ELSE records
    /\ Continue(c)
    /\ UNCHANGED <<zone, hosts, published, publisher, begun>>

DeleteRecord(c) ==
    /\ At(c, "deleteRecord")
    /\ records' = {r \in records : r.by # User \/ r.host # call[c].host}
    /\ Continue(c)
    /\ UNCHANGED <<zone, hosts, published, publisher, begun>>

-----------------------------------------------------------------------------
(* Publishing and deleting the zone, under its publish lock.                 *)

Release(c) == publisher' = IF publisher = c THEN Nobody ELSE publisher

\* A zone that is gone is not published, which is no failure.  (publishDnsZone
\* looks for it once more, and fails where the look under the lock would.)
FindZone(c) ==
    /\ At(c, "find")
    /\ IF zone.exists THEN Continue(c)
       ELSE Jump(c, IF call[c].op = "deleteZone" THEN <<>> ELSE SubSeq(call[c].todo, 5, Len(call[c].todo)))
    /\ UNCHANGED <<zone, records, hosts, published, publisher, begun>>

TakeLock(c) ==
    /\ At(c, "take")
    /\ \/ publisher = Nobody /\ publisher' = c /\ Continue(c)
       \/ /\ publisher # Nobody /\ "timeout" \in Faults
          /\ FailPublish(c) /\ UNCHANGED publisher
    /\ UNCHANGED <<zone, records, hosts, published, begun>>

\* Mutant: the zone that was found before the lock is published.
ReadAnyZone(c) ==
    /\ At(c, "read")
    /\ Go(c, [call[c] EXCEPT !.read = records]) /\ UNCHANGED publisher
    /\ UNCHANGED <<zone, records, hosts, published, begun>>

ReadZone(c) ==
    /\ At(c, "read")
    /\ IF zone.exists THEN Go(c, [call[c] EXCEPT !.read = records]) /\ UNCHANGED publisher
       ELSE FailPublish(c) /\ Release(c)
    /\ UNCHANGED <<zone, records, hosts, published, begun>>

\* The file is written and the name server told; the outcome is the zone's status.
WriteFile(c) ==
    /\ At(c, "write")
    /\ \/ /\ published' = FileOf(call[c].read)
          /\ zone' = [zone EXCEPT !.status = "active"] /\ Continue(c)
       \/ /\ "reload" \in Faults
          /\ published' \in {published, FileOf(call[c].read)}
          /\ zone' = [zone EXCEPT !.status = "error"] /\ FailPublish(c)
    /\ Release(c)
    /\ UNCHANGED <<records, hosts, begun>>

\* deleteDnsZone reads the zone again; records of domains keep it.
CheckZone(c) ==
    /\ At(c, "check")
    /\ IF zone.exists /\ OfDomains(records) = {} THEN Continue(c) /\ UNCHANGED publisher
       ELSE Jump(c, <<>>) /\ Release(c)
    /\ UNCHANGED <<zone, records, hosts, published, begun>>

\* The file goes first; when the name server cannot be told it is published again,
\* as it is now, under the lock that is still held.
Unpublish(c) ==
    /\ At(c, "unpublish")
    /\ \/ published' = NoFile /\ Continue(c) /\ UNCHANGED <<zone, publisher>>
       \/ /\ published.present /\ "reload" \in Faults
          /\ \/ published' = FileOf(records) /\ zone' = [zone EXCEPT !.status = "active"]
             \/ published' \in {NoFile, FileOf(records)} /\ zone' = [zone EXCEPT !.status = "error"]
          /\ Jump(c, <<>>) /\ Release(c)
    /\ UNCHANGED <<records, hosts, begun>>

\* The row, with its records by cascade.
DropZone(c) ==
    /\ At(c, "dropZone")
    /\ zone' = [exists |-> FALSE, status |-> "pending"] /\ records' = {}
    /\ Continue(c) /\ Release(c)
    /\ UNCHANGED <<hosts, published, begun>>

-----------------------------------------------------------------------------
Procedure(c) ==
    \/ BeginCall(c) \/ ClaimHost(c) \/ Sync(c) \/ Unlink(c) \/ Restore(c) \/ Failed(c)
    \/ Forget(c) \/ RenameBack(c) \/ UpsertRecord(c) \/ DeleteRecord(c)
    \/ FindZone(c) \/ TakeLock(c) \/ ReadZone(c) \/ WriteFile(c)
    \/ CheckZone(c) \/ Unpublish(c) \/ DropZone(c)

Next == \E c \in Clients : Procedure(c)

Spec == Init /\ [][Next]_dns

-----------------------------------------------------------------------------
(* Properties.                                                              *)

\* Every variable keeps to its type, and what will be restored are records of domains.
TypeOK ==
    /\ zone \in [exists : BOOLEAN, status : {"pending", "active", "error"}]
    /\ records \cup published.records
          \subseteq [host : Hosts, type : {"A", "CNAME"}, by : Domains \cup {User}]
    /\ hosts \in [Domains -> Hosts \cup {NoHost}]
    /\ publisher \in Clients \cup {Nobody}
    /\ \A c \in Clients : call[c].host \in Hosts \cup {NoHost} /\ OfDomains(call[c].previous) = call[c].previous

\* When no procedure is under way and the last publication succeeded, the zone file
\* has the domains' records of the database, whatever was published, failed and
\* was taken back at the same time.
PublishedIsCurrent ==
    Quiet /\ zone.exists /\ zone.status = "active" =>
        OfDomains(published.records) = OfDomains(records)

\* When no procedure is under way, every domain has one record, at its own host:
\* a change that could not be published has left the one before it.
DomainsHaveTheirRecords ==
    Quiet /\ zone.exists =>
        \A d \in Domains : Linked(d) = IF hosts[d] = NoHost THEN {} ELSE {Address(d, hosts[d])}

\* A name that has an alias has nothing else, whoever made its records ("CNAME
\* cannot coexist with other records at").  It fails with a publication: what
\* Restore brings back may meet an alias made meanwhile.
AliasStandsAlone ==
    \A r, x \in records : r.type = "CNAME" /\ x.host = r.host => x = r

\* No publication that waited for the deletion of the zone brings its file back.
DeletedZoneIsUnpublished == ~ zone.exists => published = NoFile
=============================================================================
