-------------------------- MODULE ManagedDns_proofs --------------------------
(***************************************************************************)
(* Proofs about ManagedDns, for any number of domains, hosts and procedures: *)
(* the file of a deleted zone stays gone; while no lock times out, a zone     *)
(* shown as active is published as it is; while nothing fails, an alias       *)
(* stands alone at its name (Dns_alias.cfg shows what a failure does); and,   *)
(* whatever fails, every domain is left with its record.                     *)
(***************************************************************************)
EXTENDS ManagedDns, TLAPS, SequenceTheorems

Steps == {"insert", "rename", "sync", "resync", "unlink", "dropDomain", "forget", "renameBack", "restore",
          "failed", "upsert", "deleteRecord", "find", "take", "read", "write", "check", "unpublish", "dropZone"}

\* The steps that only follow another one of the publish lock.
Guarded == {"take", "read", "write", "check", "unpublish", "dropZone"}

\* What may follow a step: `next` is "rest" after the last one.  A change of the
\* records of a domain is followed by a publication, and taking a change back
\* follows nothing, a failure jumps to it.
Follows(op, step, next) ==
    /\ op = "deleteZone" => step \in {"find"} \cup Guarded
    /\ CASE step \in {"sync", "resync", "unlink", "restore"} -> next = "find"
         [] step = "find" -> next = "take"
         [] step = "take" -> next = IF op = "deleteZone" THEN "check" ELSE "read"
         [] step = "read" -> next = "write" /\ op # "deleteZone"
         [] step = "check" -> next = "unpublish"
         [] step = "unpublish" -> next = "dropZone"
         [] OTHER -> next \notin Guarded \cup {"restore"}

Path(op, todo) ==
    /\ todo \in Seq(Steps)
    /\ \A i \in 1..Len(todo) : Follows(op, todo[i], IF i < Len(todo) THEN todo[i + 1] ELSE "rest")

\* Where a procedure is.
Place(c) == IF call[c].todo = <<>> THEN "rest" ELSE Head(call[c].todo)

Names == Hosts \cup {NoHost}
Owners == Domains \cup {User, Rest.domain}
Records == [host : Names, type : {"A", "CNAME"}, by : Owners]
Requests ==
    [op : Operations \cup {"none", "resync"}, todo : Seq(Steps), domain : Domains \cup {Rest.domain}, host : Names,
     old : Names, previous : SUBSET Records, read : SUBSET Records, undoing : BOOLEAN]
Zones == [exists : BOOLEAN, status : {"pending", "active", "error"}]

Shape ==
    /\ call \in [Clients -> Requests] /\ \A c \in Clients : Path(call[c].op, call[c].todo)
    /\ records \subseteq Records /\ hosts \in [Domains -> Names] /\ zone \in Zones

-----------------------------------------------------------------------------
(* The inductive invariants.                                                *)

\* Between reading the zone and being done with it a procedure has the lock, and
\* the zone it has found does not go away.
Locked ==
    /\ \A c \in Clients : Place(c) \in {"read", "write", "check", "unpublish", "dropZone"} => publisher = c
    /\ \A c \in Clients : Place(c) \in {"write", "unpublish", "dropZone"} => zone.exists
    /\ \A c \in Clients : Place(c) = "dropZone" => published = NoFile
    /\ ~ zone.exists => published = NoFile

LockInv == Shape /\ Locked

\* Procedures that will publish the records as they are by then.
Pending(c) == call[c].op # "deleteZone" /\ Place(c) \in {"find", "take", "read"}
Promised == \E c \in Clients : Pending(c)
AtWrite == \E c \in Clients : Place(c) = "write"

\* What is not up to date is about to be published; and who writes or removes the
\* file with less than all the records has somebody behind.
Followed ==
    zone.exists =>
        /\ zone.status = "active" =>
              OfDomains(published.records) = OfDomains(records) \/ Promised \/ AtWrite
        /\ \A c \in Clients : Place(c) = "write" => OfDomains(call[c].read) = OfDomains(records) \/ Promised
        /\ \A c \in Clients : Place(c) \in {"unpublish", "dropZone"} => OfDomains(records) = {} \/ Promised

\* Without failures a change is only taken back when the zone is gone.
AliasInv ==
    /\ \A r \in records : r.type = "CNAME" => r.by = User
    /\ AliasStandsAlone
    /\ \A c \in Clients : Place(c) = "restore" => ~ zone.exists

-----------------------------------------------------------------------------
(* Procedures and their steps.                                              *)

LEMMA PublicationLast ==
    ASSUME NEW a, NEW b, NEW c, NEW d, NEW e, NEW f
    PROVE  <<a, b>> \o <<c, d, e, f>> = <<a, b, c, d, e, f>>
  <1> DEFINE S == {a, b, c, d, e, f}
             long == <<a, b>> \o <<c, d, e, f>>
  <1>1. <<a, b>> \in Seq(S) /\ <<c, d, e, f>> \in Seq(S) /\ Len(<<a, b>>) = 2 /\ Len(<<c, d, e, f>>) = 4
    OBVIOUS
  <1>2. /\ long \in Seq(S) /\ Len(long) = 2 + 4
        /\ \A i \in 1..2 + 4 : long[i] = IF i <= 2 THEN <<a, b>>[i] ELSE <<c, d, e, f>>[i - 2]
    BY <1>1, ConcatProperties
  <1> HIDE DEF long
  <1>3. Len(long) = 6 /\ long[1] = a /\ long[2] = b /\ long[3] = c /\ long[4] = d /\ long[5] = e /\ long[6] = f
    BY <1>2
  <1>4. long = <<a, b, c, d, e, f>>
    BY <1>2, <1>3
  <1> QED
    BY <1>4 DEF long

LEMMA PublicationWithin ==
    ASSUME NEW a, NEW b, NEW c, NEW d, NEW e, NEW f
    PROVE  <<a>> \o <<b, c, d, e>> \o <<f>> = <<a, b, c, d, e, f>>
  <1> DEFINE S == {a, b, c, d, e, f}
             short == <<a>> \o <<b, c, d, e>>
             long == short \o <<f>>
  <1>1. /\ <<a>> \in Seq(S) /\ <<b, c, d, e>> \in Seq(S) /\ <<f>> \in Seq(S)
        /\ Len(<<a>>) = 1 /\ Len(<<b, c, d, e>>) = 4 /\ Len(<<f>>) = 1
    OBVIOUS
  <1>2. /\ short \in Seq(S) /\ Len(short) = 1 + 4
        /\ \A i \in 1..1 + 4 : short[i] = IF i <= 1 THEN <<a>>[i] ELSE <<b, c, d, e>>[i - 1]
    BY <1>1, ConcatProperties
  <1> HIDE DEF short
  <1>3. Len(short) = 5 /\ short[1] = a /\ short[2] = b /\ short[3] = c /\ short[4] = d /\ short[5] = e
    BY <1>2
  <1>4. /\ long \in Seq(S) /\ Len(long) = Len(short) + Len(<<f>>)
        /\ \A i \in 1..Len(short) + Len(<<f>>) : long[i] = IF i <= Len(short) THEN short[i] ELSE <<f>>[i - Len(short)]
    BY <1>1, <1>2, ConcatProperties
  <1> HIDE DEF long
  <1>5. /\ Len(long) = 6 /\ long[1] = a /\ long[2] = b /\ long[3] = c /\ long[4] = d /\ long[5] = e /\ long[6] = f
    BY <1>1, <1>3, <1>4
  <1>6. long \in Seq(S)
    BY <1>4
  <1>7. long = <<a, b, c, d, e, f>>
    BY <1>5, <1>6
  <1> QED
    BY <1>7 DEF long, short

\* A procedure that has more to do goes on with what may follow its step.
LEMMA TailPath ==
    ASSUME NEW op, NEW todo, Path(op, todo), todo # <<>>
    PROVE  /\ Path(op, Tail(todo)) /\ Head(todo) \in Steps
           /\ Follows(op, Head(todo), IF Tail(todo) = <<>> THEN "rest" ELSE Head(Tail(todo)))
  <1>1. /\ todo \in Seq(Steps) /\ Len(todo) \in Nat \ {0} /\ Head(todo) = todo[1] /\ todo[1] \in Steps
        /\ Tail(todo) \in Seq(Steps) /\ Len(Tail(todo)) = Len(todo) - 1
        /\ \A i \in 1..Len(Tail(todo)) : Tail(todo)[i] = todo[i + 1]
    BY EmptySeq, HeadTailProperties, ElementOfSeq DEF Path
  <1>2. Len(todo) \in Int /\ Len(Tail(todo)) = Len(todo) - 1
    BY <1>1
  <1>3. \A i \in 1..Len(todo) : Follows(op, todo[i], IF i < Len(todo) THEN todo[i + 1] ELSE "rest")
    BY DEF Path
  <1>4. Path(op, Tail(todo))
    <2> SUFFICES ASSUME NEW i \in 1..Len(Tail(todo))
                 PROVE  Follows(op, Tail(todo)[i], IF i < Len(Tail(todo)) THEN Tail(todo)[i + 1] ELSE "rest")
      BY <1>1 DEF Path
    <2>1. PICK k \in 1..Len(todo) : k = i + 1
      BY <1>2
    <2>2. Tail(todo)[i] = todo[k]
      BY <1>1, <2>1
    <2>3. Follows(op, todo[k], IF k < Len(todo) THEN todo[k + 1] ELSE "rest")
      BY <1>3
    <2>4. CASE k < Len(todo)
      <3>1. i < Len(Tail(todo)) /\ i + 1 \in 1..Len(Tail(todo)) /\ i + 1 = k
        BY <1>2, <2>1, <2>4
      <3>2. Tail(todo)[i + 1] = todo[k + 1]
        BY <1>1, <3>1
      <3> QED
        BY <2>2, <2>3, <2>4, <3>1, <3>2
    <2>5. CASE ~ (k < Len(todo))
      <3>1. ~ (i < Len(Tail(todo)))
        BY <1>2, <2>1, <2>5
      <3> QED
        BY <2>2, <2>3, <2>5, <3>1
    <2> QED
      BY <2>4, <2>5
  <1>5. Follows(op, todo[1], IF 1 < Len(todo) THEN todo[2] ELSE "rest")
    <2>1. 1 \in 1..Len(todo) /\ 1 + 1 = 2
      BY <1>1
    <2> QED
      BY <1>3, <2>1
  <1>6. CASE 1 < Len(todo)
    <2>1. 1 \in 1..Len(Tail(todo)) /\ 1 + 1 = 2 /\ Len(Tail(todo)) # 0
      BY <1>2, <1>6
    <2>2. Tail(todo) # <<>> /\ Head(Tail(todo)) = Tail(todo)[1] /\ Tail(todo)[1] = todo[2]
      BY <1>1, <2>1, EmptySeq
    <2> QED
      BY <1>1, <1>4, <1>5, <1>6, <2>2
  <1>7. CASE ~ (1 < Len(todo))
    <2>1. Len(Tail(todo)) = 0
      BY <1>1, <1>2, <1>7
    <2>2. Tail(todo) = <<>>
      BY <1>1, <2>1, EmptySeq
    <2> QED
      BY <1>1, <1>4, <1>5, <1>7, <2>2
  <1> QED
    BY <1>6, <1>7

\* Where a publication is passed over, what follows it follows.
LEMMA SkipPath ==
    ASSUME NEW op, op # "deleteZone", NEW todo, Path(op, todo), todo # <<>>, Head(todo) = "find"
    PROVE  LET rest == SubSeq(todo, 5, Len(todo))
           IN  /\ Path(op, rest)
               /\ rest # <<>> => Head(rest) \notin Guarded \cup {"restore"}
  <1> DEFINE rest == SubSeq(todo, 5, Len(todo))
  <1>1. /\ todo \in Seq(Steps) /\ Len(todo) \in Nat \ {0} /\ todo[1] = "find"
        /\ \A i \in 1..Len(todo) : todo[i] \in Steps
        /\ \A i \in 1..Len(todo) : Follows(op, todo[i], IF i < Len(todo) THEN todo[i + 1] ELSE "rest")
    BY EmptySeq, ElementOfSeq DEF Path
  <1>2. 1 < Len(todo) /\ todo[2] = "take"
    <2>1. Follows(op, todo[1], IF 1 < Len(todo) THEN todo[2] ELSE "rest")
      <3>1. 1 \in 1..Len(todo) /\ 1 + 1 = 2
        BY <1>1
      <3> QED
        BY <1>1, <3>1
    <2> QED
      BY <1>1, <2>1 DEF Follows
  <1>3. 2 < Len(todo) /\ todo[3] = "read"
    <2>1. Follows(op, todo[2], IF 2 < Len(todo) THEN todo[3] ELSE "rest")
      <3>1. 2 \in 1..Len(todo) /\ 2 + 1 = 3
        BY <1>1, <1>2
      <3> QED
        BY <1>1, <3>1
    <2> QED
      BY <1>2, <2>1 DEF Follows
  <1>4. 3 < Len(todo) /\ todo[4] = "write"
    <2>1. Follows(op, todo[3], IF 3 < Len(todo) THEN todo[4] ELSE "rest")
      <3>1. 3 \in 1..Len(todo) /\ 3 + 1 = 4
        BY <1>1, <1>3
      <3> QED
        BY <1>1, <3>1
    <2> QED
      BY <1>3, <2>1 DEF Follows
  <1>5. Follows(op, todo[4], IF 4 < Len(todo) THEN todo[5] ELSE "rest")
    <2>1. 4 \in 1..Len(todo) /\ 4 + 1 = 5
      BY <1>1, <1>4
    <2> QED
      BY <1>1, <2>1
  <1>6. Len(todo) \in Int /\ Len(todo) >= 4
    BY <1>1, <1>4
  <1>7. /\ rest \in Seq(Steps) /\ Len(rest) = Len(todo) - 4
        /\ \A i \in 1..Len(todo) - 4 : rest[i] = todo[i + 4]
    <2>1. \A i \in 5..Len(todo) : todo[i] \in Steps
      BY <1>1
    <2>2. /\ rest \in Seq(Steps) /\ Len(rest) = IF 5 <= Len(todo) THEN Len(todo) - 5 + 1 ELSE 0
          /\ \A i \in 1..Len(todo) - 5 + 1 : rest[i] = todo[5 + i - 1]
      BY <1>6, <2>1, SubSeqProperties
    <2> HIDE DEF rest
    <2>3. Len(rest) = Len(todo) - 4
      <3>1. Len(rest) = IF 5 <= Len(todo) THEN Len(todo) - 5 + 1 ELSE 0
        BY <2>2
      <3>2. PICK n \in Int : n = Len(todo) /\ n >= 4
        BY <1>6
      <3>3. PICK m : m = Len(rest)
        OBVIOUS
      <3>4. m = IF 5 <= n THEN n - 5 + 1 ELSE 0
        BY <3>1, <3>2, <3>3, Zenon
      <3>5. m = n - 4
        BY <3>2, <3>4
      <3> QED
        BY <3>2, <3>3, <3>5
    <2>4. \A i \in 1..Len(todo) - 4 : i \in 1..Len(todo) - 5 + 1 /\ 5 + i - 1 = i + 4
      BY <1>6
    <2> QED
      BY <2>2, <2>3, <2>4
  <1> HIDE DEF rest
  <1>8. Path(op, rest)
    <2> SUFFICES ASSUME NEW i \in 1..Len(rest)
                 PROVE  Follows(op, rest[i], IF i < Len(rest) THEN rest[i + 1] ELSE "rest")
      BY <1>7 DEF Path
    <2>1. PICK k \in 1..Len(todo) : k = i + 4
      BY <1>6, <1>7
    <2>2. rest[i] = todo[k]
      BY <1>7, <2>1
    <2>3. Follows(op, todo[k], IF k < Len(todo) THEN todo[k + 1] ELSE "rest")
      BY <1>1
    <2>4. CASE k < Len(todo)
      <3>1. i < Len(rest) /\ i + 1 \in 1..Len(todo) - 4 /\ (i + 1) + 4 = k + 1
        BY <1>6, <1>7, <2>1, <2>4
      <3>2. rest[i + 1] = todo[k + 1]
        BY <1>7, <3>1
      <3> QED
        BY <2>2, <2>3, <2>4, <3>1, <3>2
    <2>5. CASE ~ (k < Len(todo))
      <3>1. ~ (i < Len(rest))
        BY <1>6, <1>7, <2>1, <2>5
      <3> QED
        BY <2>2, <2>3, <2>5, <3>1
    <2> QED
      BY <2>4, <2>5
  <1>9. rest # <<>> => Head(rest) \notin Guarded \cup {"restore"}
    <2> SUFFICES ASSUME rest # <<>>
                 PROVE  Head(rest) \notin Guarded \cup {"restore"}
      OBVIOUS
    <2>1. Len(rest) \in Nat \ {0} /\ Head(rest) = rest[1]
      BY <1>7, EmptySeq
    <2>2. 4 < Len(todo) /\ 1 \in 1..Len(todo) - 4 /\ 1 + 4 = 5
      BY <1>6, <1>7, <2>1
    <2>3. Head(rest) = todo[5]
      BY <1>7, <2>1, <2>2
    <2>4. Follows(op, "write", todo[5])
      BY <1>4, <1>5, <2>2
    <2> QED
      BY <2>3, <2>4 DEF Follows
  <1> QED
    BY <1>8, <1>9 DEF rest

\* Sequences of steps, one after the other.
LEMMA Path1 ==
    ASSUME NEW op, NEW a \in Steps,
           Follows(op, a, "rest")
    PROVE  Path(op, <<a>>) /\ <<a>> # <<>> /\ Head(<<a>>) = a
  <1> DEFINE todo == <<a>>
  <1>1. todo \in Seq(Steps) /\ Len(todo) = 1 /\ todo # <<>> /\ Head(todo) = a
    OBVIOUS
  <1>2. todo[1] = a
    OBVIOUS
  <1> HIDE DEF todo
  <1>3. ASSUME NEW i \in 1..Len(todo)
        PROVE  Follows(op, todo[i], IF i < Len(todo) THEN todo[i + 1] ELSE "rest")
    BY <1>1, <1>2
  <1>4. Path(op, todo)
    BY <1>1, <1>3 DEF Path
  <1> QED
    BY <1>1, <1>4 DEF todo

LEMMA Path4 ==
    ASSUME NEW op, NEW a \in Steps, NEW b \in Steps, NEW c \in Steps, NEW d \in Steps,
           Follows(op, a, b), Follows(op, b, c), Follows(op, c, d), Follows(op, d, "rest")
    PROVE  Path(op, <<a, b, c, d>>) /\ <<a, b, c, d>> # <<>> /\ Head(<<a, b, c, d>>) = a
  <1> DEFINE todo == <<a, b, c, d>>
  <1>1. todo \in Seq(Steps) /\ Len(todo) = 4 /\ todo # <<>> /\ Head(todo) = a
    OBVIOUS
  <1>2. todo[1] = a /\ todo[2] = b /\ todo[3] = c /\ todo[4] = d
    OBVIOUS
  <1> HIDE DEF todo
  <1>3. ASSUME NEW i \in 1..Len(todo)
        PROVE  Follows(op, todo[i], IF i < Len(todo) THEN todo[i + 1] ELSE "rest")
    BY <1>1, <1>2
  <1>4. Path(op, todo)
    BY <1>1, <1>3 DEF Path
  <1> QED
    BY <1>1, <1>4 DEF todo

LEMMA Path5 ==
    ASSUME NEW op, NEW a \in Steps, NEW b \in Steps, NEW c \in Steps, NEW d \in Steps, NEW e \in Steps,
           Follows(op, a, b), Follows(op, b, c), Follows(op, c, d), Follows(op, d, e), Follows(op, e, "rest")
    PROVE  Path(op, <<a, b, c, d, e>>) /\ <<a, b, c, d, e>> # <<>> /\ Head(<<a, b, c, d, e>>) = a
  <1> DEFINE todo == <<a, b, c, d, e>>
  <1>1. todo \in Seq(Steps) /\ Len(todo) = 5 /\ todo # <<>> /\ Head(todo) = a
    OBVIOUS
  <1>2. todo[1] = a /\ todo[2] = b /\ todo[3] = c /\ todo[4] = d /\ todo[5] = e
    OBVIOUS
  <1> HIDE DEF todo
  <1>3. ASSUME NEW i \in 1..Len(todo)
        PROVE  Follows(op, todo[i], IF i < Len(todo) THEN todo[i + 1] ELSE "rest")
    BY <1>1, <1>2
  <1>4. Path(op, todo)
    BY <1>1, <1>3 DEF Path
  <1> QED
    BY <1>1, <1>4 DEF todo

LEMMA Path6 ==
    ASSUME NEW op, NEW a \in Steps, NEW b \in Steps, NEW c \in Steps, NEW d \in Steps, NEW e \in Steps, NEW f \in Steps,
           Follows(op, a, b), Follows(op, b, c), Follows(op, c, d), Follows(op, d, e), Follows(op, e, f), Follows(op, f, "rest")
    PROVE  Path(op, <<a, b, c, d, e, f>>) /\ <<a, b, c, d, e, f>> # <<>> /\ Head(<<a, b, c, d, e, f>>) = a
  <1> DEFINE todo == <<a, b, c, d, e, f>>
  <1>1. todo \in Seq(Steps) /\ Len(todo) = 6 /\ todo # <<>> /\ Head(todo) = a
    OBVIOUS
  <1>2. todo[1] = a /\ todo[2] = b /\ todo[3] = c /\ todo[4] = d /\ todo[5] = e /\ todo[6] = f
    OBVIOUS
  <1> HIDE DEF todo
  <1>3. ASSUME NEW i \in 1..Len(todo)
        PROVE  Follows(op, todo[i], IF i < Len(todo) THEN todo[i + 1] ELSE "rest")
    BY <1>1, <1>2
  <1>4. Path(op, todo)
    BY <1>1, <1>3 DEF Path
  <1> QED
    BY <1>1, <1>4 DEF todo

Procedures == {"add", "move", "remove", "publish", "deleteZone", "upsertA", "upsertCNAME", "deleteRecords"}

LEMMA Programs ==
    ASSUME NEW op \in Procedures
    PROVE  /\ Path(op, Program(op)) /\ Program(op) # <<>>
           /\ Head(Program(op)) \in {"insert", "rename", "unlink", "find", "upsert", "deleteRecord"}
  <1>1. CASE op = "add"
    <2>1. Program(op) = <<"insert", "sync", "find", "take", "read", "write">>
      BY <1>1, PublicationLast DEF Program, PublishSteps
    <2>2. "insert" \in Steps /\ "sync" \in Steps /\ "find" \in Steps /\ "take" \in Steps /\ "read" \in Steps /\ "write" \in Steps
      BY DEF Steps
    <2>3. /\ Follows(op, "insert", "sync")
          /\ Follows(op, "sync", "find")
          /\ Follows(op, "find", "take")
          /\ Follows(op, "take", "read")
          /\ Follows(op, "read", "write")
          /\ Follows(op, "write", "rest")
      BY <1>1 DEF Follows, Guarded
    <2>4. Path(op, <<"insert", "sync", "find", "take", "read", "write">>) /\ <<"insert", "sync", "find", "take", "read", "write">> # <<>> /\ Head(<<"insert", "sync", "find", "take", "read", "write">>) = "insert"
      BY <2>2, <2>3, Path6
    <2> QED
      BY <1>1, <2>1, <2>4
  <1>2. CASE op = "move"
    <2>1. Program(op) = <<"rename", "sync", "find", "take", "read", "write">>
      BY <1>2, PublicationLast DEF Program, PublishSteps
    <2>2. "rename" \in Steps /\ "sync" \in Steps /\ "find" \in Steps /\ "take" \in Steps /\ "read" \in Steps /\ "write" \in Steps
      BY DEF Steps
    <2>3. /\ Follows(op, "rename", "sync")
          /\ Follows(op, "sync", "find")
          /\ Follows(op, "find", "take")
          /\ Follows(op, "take", "read")
          /\ Follows(op, "read", "write")
          /\ Follows(op, "write", "rest")
      BY <1>2 DEF Follows, Guarded
    <2>4. Path(op, <<"rename", "sync", "find", "take", "read", "write">>) /\ <<"rename", "sync", "find", "take", "read", "write">> # <<>> /\ Head(<<"rename", "sync", "find", "take", "read", "write">>) = "rename"
      BY <2>2, <2>3, Path6
    <2> QED
      BY <1>2, <2>1, <2>4
  <1>3. CASE op = "remove"
    <2>1. Program(op) = <<"unlink", "find", "take", "read", "write", "dropDomain">>
      BY <1>3, PublicationWithin DEF Program, PublishSteps
    <2>2. "unlink" \in Steps /\ "find" \in Steps /\ "take" \in Steps /\ "read" \in Steps /\ "write" \in Steps /\ "dropDomain" \in Steps
      BY DEF Steps
    <2>3. /\ Follows(op, "unlink", "find")
          /\ Follows(op, "find", "take")
          /\ Follows(op, "take", "read")
          /\ Follows(op, "read", "write")
          /\ Follows(op, "write", "dropDomain")
          /\ Follows(op, "dropDomain", "rest")
      BY <1>3 DEF Follows, Guarded
    <2>4. Path(op, <<"unlink", "find", "take", "read", "write", "dropDomain">>) /\ <<"unlink", "find", "take", "read", "write", "dropDomain">> # <<>> /\ Head(<<"unlink", "find", "take", "read", "write", "dropDomain">>) = "unlink"
      BY <2>2, <2>3, Path6
    <2> QED
      BY <1>3, <2>1, <2>4
  <1>4. CASE op = "publish"
    <2>1. Program(op) = <<"find", "take", "read", "write">>
      BY <1>4 DEF Program, PublishSteps
    <2>2. "find" \in Steps /\ "take" \in Steps /\ "read" \in Steps /\ "write" \in Steps
      BY DEF Steps
    <2>3. /\ Follows(op, "find", "take")
          /\ Follows(op, "take", "read")
          /\ Follows(op, "read", "write")
          /\ Follows(op, "write", "rest")
      BY <1>4 DEF Follows, Guarded
    <2>4. Path(op, <<"find", "take", "read", "write">>) /\ <<"find", "take", "read", "write">> # <<>> /\ Head(<<"find", "take", "read", "write">>) = "find"
      BY <2>2, <2>3, Path4
    <2> QED
      BY <1>4, <2>1, <2>4
  <1>5. CASE op = "deleteZone"
    <2>1. Program(op) = <<"find", "take", "check", "unpublish", "dropZone">>
      BY <1>5 DEF Program
    <2>2. "find" \in Steps /\ "take" \in Steps /\ "check" \in Steps /\ "unpublish" \in Steps /\ "dropZone" \in Steps
      BY DEF Steps
    <2>3. /\ Follows(op, "find", "take")
          /\ Follows(op, "take", "check")
          /\ Follows(op, "check", "unpublish")
          /\ Follows(op, "unpublish", "dropZone")
          /\ Follows(op, "dropZone", "rest")
      BY <1>5 DEF Follows, Guarded
    <2>4. Path(op, <<"find", "take", "check", "unpublish", "dropZone">>) /\ <<"find", "take", "check", "unpublish", "dropZone">> # <<>> /\ Head(<<"find", "take", "check", "unpublish", "dropZone">>) = "find"
      BY <2>2, <2>3, Path5
    <2> QED
      BY <1>5, <2>1, <2>4
  <1>6. CASE op \in {"upsertA", "upsertCNAME", "deleteRecords"}
    BY <1>6, Path1 DEF Program, Follows, Steps, Guarded
  <1> QED
    BY <1>1, <1>2, <1>3, <1>4, <1>5, <1>6 DEF Procedures

\* What follows a failure.
LEMMA Failures ==
    ASSUME NEW c
    PROVE  /\ Path(call[c].op, AfterFailure(c))
           /\ AfterFailure(c) # <<>> => Head(AfterFailure(c)) \in {"forget", "renameBack"}
           /\ \A op : Path(op, <<>>)
           /\ call[c].op # "deleteZone" =>
                 /\ Path(call[c].op, <<"restore">> \o PublishSteps \o <<"failed">>)
                 /\ <<"restore">> \o PublishSteps \o <<"failed">> # <<>>
                 /\ Head(<<"restore">> \o PublishSteps \o <<"failed">>) = "restore"
  <1>1. \A op : Path(op, <<>>)
    <2>1. <<>> \in Seq(Steps) /\ Len(<<>>) = 0
      BY EmptySeq
    <2> QED
      BY <2>1 DEF Path
  <1>2. Path(call[c].op, AfterFailure(c)) /\ (AfterFailure(c) # <<>> => Head(AfterFailure(c)) \in {"forget", "renameBack"})
    <2>1. CASE call[c].op = "add"
      BY <2>1, Path1 DEF AfterFailure, Follows, Steps, Guarded
    <2>2. CASE call[c].op = "move"
      <3>1. AfterFailure(c) = <<"renameBack", "resync", "find", "take", "read", "write">>
        BY <2>2, PublicationLast DEF AfterFailure, PublishSteps
      <3>2. "renameBack" \in Steps /\ "resync" \in Steps /\ "find" \in Steps /\ "take" \in Steps /\ "read" \in Steps /\ "write" \in Steps
        BY DEF Steps
      <3>3. /\ Follows(call[c].op, "renameBack", "resync")
            /\ Follows(call[c].op, "resync", "find")
            /\ Follows(call[c].op, "find", "take")
            /\ Follows(call[c].op, "take", "read")
            /\ Follows(call[c].op, "read", "write")
            /\ Follows(call[c].op, "write", "rest")
        BY <2>2 DEF Follows, Guarded
      <3>4. Path(call[c].op, <<"renameBack", "resync", "find", "take", "read", "write">>) /\ <<"renameBack", "resync", "find", "take", "read", "write">> # <<>> /\ Head(<<"renameBack", "resync", "find", "take", "read", "write">>) = "renameBack"
        BY <3>2, <3>3, Path6
      <3> QED
        BY <2>2, <3>1, <3>4
    <2>3. CASE call[c].op \notin {"add", "move"}
      BY <1>1, <2>3 DEF AfterFailure
    <2> QED
      BY <2>1, <2>2, <2>3
  <1>3. ASSUME call[c].op # "deleteZone"
        PROVE  /\ Path(call[c].op, <<"restore">> \o PublishSteps \o <<"failed">>)
               /\ <<"restore">> \o PublishSteps \o <<"failed">> # <<>>
               /\ Head(<<"restore">> \o PublishSteps \o <<"failed">>) = "restore"
    <2>1. <<"restore">> \o PublishSteps \o <<"failed">> = <<"restore", "find", "take", "read", "write", "failed">>
      BY PublicationWithin DEF PublishSteps
    <2>2. "restore" \in Steps /\ "find" \in Steps /\ "take" \in Steps /\ "read" \in Steps /\ "write" \in Steps /\ "failed" \in Steps
      BY DEF Steps
    <2>3. /\ Follows(call[c].op, "restore", "find")
          /\ Follows(call[c].op, "find", "take")
          /\ Follows(call[c].op, "take", "read")
          /\ Follows(call[c].op, "read", "write")
          /\ Follows(call[c].op, "write", "failed")
          /\ Follows(call[c].op, "failed", "rest")
      BY <1>3 DEF Follows, Guarded
    <2>4. Path(call[c].op, <<"restore", "find", "take", "read", "write", "failed">>) /\ <<"restore", "find", "take", "read", "write", "failed">> # <<>> /\ Head(<<"restore", "find", "take", "read", "write", "failed">>) = "restore"
      BY <2>2, <2>3, Path6
    <2> QED
      BY <1>3, <2>1, <2>4
  <1> QED
    BY <1>1, <1>2, <1>3

-----------------------------------------------------------------------------
(* What a step does to the procedures.                                      *)

\* The other procedures stay where they are, and what c holds has its shape.
Others(c) ==
    /\ call' \in [Clients -> Requests]
    /\ \A d \in Clients \ {c} : call'[d] = call[d] /\ Place(d)' = Place(d)
    /\ \A d \in Clients : Path(call'[d].op, call'[d].todo)

LEMMA RestShape == Rest \in Requests /\ Path(Rest.op, Rest.todo) /\ Rest.todo = <<>> /\ Rest.op = "none"
  <1>1. <<>> \in Seq(Steps) /\ Len(<<>>) = 0
    BY EmptySeq
  <1>2. Rest.domain \in Domains \cup {Rest.domain}
    OBVIOUS
  <1>3. Rest.todo = <<>> /\ Rest.op = "none"
    BY DEF Rest
  <1>4. /\ Rest = [op |-> Rest.op, todo |-> Rest.todo, domain |-> Rest.domain, host |-> Rest.host, old |-> Rest.old,
                   previous |-> Rest.previous, read |-> Rest.read, undoing |-> Rest.undoing]
        /\ Rest.host = NoHost /\ Rest.old = NoHost /\ Rest.previous = {} /\ Rest.read = {} /\ Rest.undoing = FALSE
    BY DEF Rest
  <1>5. Rest \in Requests
    BY <1>1, <1>2, <1>3, <1>4 DEF Requests, Names
  <1> QED
    BY <1>1, <1>3, <1>5 DEF Path

LEMMA Places ==
    ASSUME Shape, NEW c \in Clients
    PROVE  /\ call[c] \in Requests /\ Path(call[c].op, call[c].todo) /\ Place(c) \in Steps \cup {"rest"}
           /\ Place(c) = "rest" <=> call[c].todo = <<>>
           /\ Place(c) # "rest" => Place(c) = Head(call[c].todo)
  <1>1. call[c] \in Requests /\ Path(call[c].op, call[c].todo) /\ call[c].todo \in Seq(Steps)
    BY DEF Shape, Path
  <1>2. call[c].todo # <<>> => Head(call[c].todo) \in Steps
    BY <1>1, HeadTailProperties
  <1>3. "rest" \notin Steps
    BY DEF Steps
  <1> QED
    BY <1>1, <1>2, <1>3 DEF Place

LEMMA AtPlace ==
    ASSUME NEW c, NEW step, At(c, step)
    PROVE  call[c].todo # <<>> /\ Place(c) = step /\ Place(c) = Head(call[c].todo)
  BY DEF At, Place

LEMMA SetMoves ==
    ASSUME Shape, NEW c \in Clients, NEW r \in Requests, Path(r.op, r.todo), Set(c, r)
    PROVE  /\ Others(c)
           /\ r.todo = <<>> => call'[c] = Rest /\ Place(c)' = "rest"
           /\ r.todo # <<>> => call'[c] = r /\ Place(c)' = Head(r.todo)
  <1>1. call \in [Clients -> Requests] /\ \A d \in Clients : Path(call[d].op, call[d].todo)
    BY DEF Shape
  <1>2. call' = [call EXCEPT ![c] = IF r.todo = <<>> THEN Rest ELSE r]
    BY DEF Set
  <1>3. call'[c] = IF r.todo = <<>> THEN Rest ELSE r
    BY <1>1, <1>2
  <1>4. call' \in [Clients -> Requests]
    BY <1>1, <1>2, RestShape
  <1>5. \A d \in Clients \ {c} : call'[d] = call[d] /\ Place(d)' = Place(d)
    BY <1>1, <1>2 DEF Place
  <1>6. Path(call'[c].op, call'[c].todo)
    BY <1>3, RestShape
  <1>7. Others(c)
    BY <1>1, <1>4, <1>5, <1>6 DEF Others
  <1>8. r.todo = <<>> => call'[c] = Rest /\ Place(c)' = "rest"
    BY <1>3, RestShape DEF Place
  <1>9. r.todo # <<>> => call'[c] = r /\ Place(c)' = Head(r.todo)
    BY <1>3 DEF Place
  <1> QED
    BY <1>7, <1>8, <1>9

\* Going on: with what may follow.  The request may change, but not whether it
\* deletes the zone.
LEMMA GoMoves ==
    ASSUME Shape, NEW c \in Clients, Place(c) # "rest",
           NEW r \in Requests, r.todo = call[c].todo, Path(r.op, call[c].todo), Go(c, r)
    PROVE  /\ Others(c) /\ Follows(r.op, Place(c), Place(c)')
           /\ Place(c)' # "rest" => call'[c].op = r.op /\ call'[c].read = r.read
  <1>1. call[c].todo # <<>> /\ Place(c) = Head(call[c].todo) /\ call[c].todo \in Seq(Steps)
    BY Places DEF Path
  <1> DEFINE next == [r EXCEPT !.todo = Tail(@)]
  <1>2. Tail(call[c].todo) \in Seq(Steps)
    BY <1>1, HeadTailProperties
  <1>3. next \in Requests /\ next.op = r.op /\ next.read = r.read /\ next.todo = Tail(call[c].todo)
    BY <1>2 DEF Requests
  <1>4. /\ Path(r.op, Tail(call[c].todo))
        /\ Follows(r.op, Place(c), IF Tail(call[c].todo) = <<>> THEN "rest" ELSE Head(Tail(call[c].todo)))
    BY <1>1, TailPath
  <1>5. Set(c, next)
    BY DEF Go
  <1> HIDE DEF next
  <1>6. Path(next.op, next.todo)
    BY <1>3, <1>4
  <1>7. /\ Others(c)
        /\ next.todo = <<>> => call'[c] = Rest /\ Place(c)' = "rest"
        /\ next.todo # <<>> => call'[c] = next /\ Place(c)' = Head(next.todo)
    BY <1>3, <1>5, <1>6, SetMoves
  <1>8. Place(c)' = IF Tail(call[c].todo) = <<>> THEN "rest" ELSE Head(Tail(call[c].todo))
    BY <1>3, <1>7
  <1>9. Place(c)' # "rest" => call'[c].op = r.op /\ call'[c].read = r.read
    BY <1>3, <1>7
  <1> QED
    BY <1>4, <1>7, <1>8, <1>9

LEMMA ContinueMoves ==
    ASSUME Shape, NEW c \in Clients, Place(c) # "rest", Continue(c)
    PROVE  /\ Others(c) /\ Follows(call[c].op, Place(c), Place(c)')
           /\ Place(c)' # "rest" => call'[c].op = call[c].op /\ call'[c].read = call[c].read
  <1>1. call[c] \in Requests /\ Path(call[c].op, call[c].todo) /\ Go(c, call[c])
    BY Places DEF Continue
  <1> QED
    BY <1>1, GoMoves

LEMMA JumpMoves ==
    ASSUME Shape, NEW c \in Clients, NEW todo, Path(call[c].op, todo), Jump(c, todo)
    PROVE  /\ Others(c)
           /\ todo = <<>> => call'[c] = Rest /\ Place(c)' = "rest"
           /\ todo # <<>> => Place(c)' = Head(todo) /\ call'[c].op = call[c].op
  <1> DEFINE next == [call[c] EXCEPT !.todo = todo]
  <1>1. call[c] \in Requests /\ todo \in Seq(Steps)
    BY Places DEF Path
  <1>2. next \in Requests /\ next.op = call[c].op /\ next.todo = todo
    BY <1>1 DEF Requests
  <1>3. Set(c, next)
    BY DEF Jump
  <1> HIDE DEF next
  <1>4. /\ Others(c)
        /\ next.todo = <<>> => call'[c] = Rest /\ Place(c)' = "rest"
        /\ next.todo # <<>> => call'[c] = next /\ Place(c)' = Head(next.todo)
    BY <1>2, <1>3, SetMoves
  <1> QED
    BY <1>2, <1>4

\* A procedure that leaves off, and one that leaves it to its caller.
LEMMA EndMoves ==
    ASSUME Shape, NEW c \in Clients, Jump(c, <<>>)
    PROVE  Others(c) /\ Place(c)' = "rest"
  BY Failures, JumpMoves

LEMMA CallerMoves ==
    ASSUME Shape, NEW c \in Clients,
           \/ Jump(c, AfterFailure(c))
           \/ Set(c, [call[c] EXCEPT !.todo = AfterFailure(c), !.undoing = FALSE])
    PROVE  Others(c) /\ Place(c)' \in {"rest", "forget", "renameBack"}
  <1>1. /\ call[c] \in Requests /\ Path(call[c].op, AfterFailure(c))
        /\ AfterFailure(c) # <<>> => Head(AfterFailure(c)) \in {"forget", "renameBack"}
    BY Places, Failures
  <1>2. CASE Jump(c, AfterFailure(c))
    BY <1>1, <1>2, JumpMoves
  <1>3. CASE Set(c, [call[c] EXCEPT !.todo = AfterFailure(c), !.undoing = FALSE])
    <2> DEFINE next == [call[c] EXCEPT !.todo = AfterFailure(c), !.undoing = FALSE]
    <2>1. AfterFailure(c) \in Seq(Steps)
      BY <1>1 DEF Path
    <2>2. next \in Requests /\ next.op = call[c].op /\ next.todo = AfterFailure(c)
      BY <1>1, <2>1 DEF Requests
    <2>3. Set(c, next)
      BY <1>3
    <2> HIDE DEF next
    <2> QED
      BY <1>1, <2>2, <2>3, SetMoves
  <1> QED
    BY <1>2, <1>3

LEMMA FailPublishMoves ==
    ASSUME Shape, NEW c \in Clients, FailPublish(c)
    PROVE  Others(c) /\ Place(c)' \in {"rest", "forget", "renameBack", "restore"}
  <1>1. call[c] \in Requests
    BY Places
  <1>2. CASE call[c].undoing
    BY <1>2, CallerMoves DEF FailPublish
  <1>3. CASE ~ call[c].undoing /\ call[c].op \in {"publish", "deleteZone"}
    BY <1>3, EndMoves DEF FailPublish
  <1>4. CASE ~ call[c].undoing /\ call[c].op \notin {"publish", "deleteZone"}
    <2> DEFINE todo == <<"restore">> \o PublishSteps \o <<"failed">>
               next == [call[c] EXCEPT !.todo = todo, !.undoing = TRUE]
    <2>1. Path(call[c].op, todo) /\ todo # <<>> /\ Head(todo) = "restore"
      BY <1>4, Failures
    <2>2. Set(c, next)
      BY <1>4 DEF FailPublish
    <2> HIDE DEF todo
    <2>3. todo \in Seq(Steps)
      BY <2>1 DEF Path
    <2>4. next \in Requests /\ next.op = call[c].op /\ next.todo = todo
      BY <1>1, <2>3 DEF Requests
    <2> HIDE DEF next
    <2> QED
      BY <2>1, <2>2, <2>4, SetMoves
  <1> QED
    BY <1>2, <1>3, <1>4

-----------------------------------------------------------------------------
(* The steps that do not hold the publish lock.                              *)

Outside(c) ==
    \/ BeginCall(c) \/ ClaimHost(c) \/ Sync(c) \/ Unlink(c) \/ Restore(c) \/ Failed(c)
    \/ Forget(c) \/ RenameBack(c) \/ UpsertRecord(c) \/ DeleteRecord(c) \/ FindZone(c)
UnderLock(c) == TakeLock(c) \/ ReadZone(c) \/ WriteFile(c) \/ CheckZone(c) \/ Unpublish(c) \/ DropZone(c)

\* Such a step leaves the zone, its file and the lock alone, and c without the
\* lock; where it changes records of domains, c will publish them.
Apart(c) ==
    /\ Others(c) /\ UNCHANGED <<zone, published, publisher>>
    /\ records' \subseteq Records /\ hosts' \in [Domains -> Names]
    /\ Place(c) \notin Guarded
    /\ Place(c)' \notin (Guarded \ {"take"}) \cup {"restore"}
    /\ Pending(c)' \/ (OfDomains(records') = OfDomains(records) /\ (Pending(c) => ~ zone.exists))

LEMMA HeadFollows ==
    ASSUME Shape, NEW c \in Clients, Place(c) # "rest"
    PROVE  \E next : Follows(call[c].op, Place(c), next)
  <1>1. Path(call[c].op, call[c].todo) /\ call[c].todo # <<>> /\ Place(c) = Head(call[c].todo)
    BY Places
  <1> QED
    BY <1>1, TailPath

LEMMA SameKind ==
    ASSUME NEW op, NEW op2, op # "deleteZone", op2 # "deleteZone", NEW todo, Path(op, todo)
    PROVE  Path(op2, todo)
  <1>1. ASSUME NEW step, NEW next, Follows(op, step, next)
        PROVE  Follows(op2, step, next)
    BY <1>1 DEF Follows
  <1> QED
    BY <1>1 DEF Path

LEMMA BeginApart ==
    ASSUME Shape, Operations \subseteq Procedures, NEW c \in Clients, BeginCall(c)
    PROVE  Apart(c)
  <1>1. PICK op \in Operations, d \in Domains, h \in Hosts :
            Set(c, [Rest EXCEPT !.op = op, !.todo = Program(op), !.domain = d, !.host = h, !.old = hosts[d]])
    BY DEF BeginCall
  <1>2. /\ call[c].todo = <<>> /\ UNCHANGED <<zone, records, hosts, published, publisher>>
    BY DEF BeginCall
  <1>3. /\ Path(op, Program(op)) /\ Program(op) # <<>>
        /\ Head(Program(op)) \in {"insert", "rename", "unlink", "find", "upsert", "deleteRecord"}
    BY Programs
  <1> DEFINE r == [Rest EXCEPT !.op = op, !.todo = Program(op), !.domain = d, !.host = h, !.old = hosts[d]]
  <1>4. r \in Requests /\ r.op = op /\ r.todo = Program(op)
    <2>1. Program(op) \in Seq(Steps) /\ hosts[d] \in Names /\ h \in Names
      BY <1>3 DEF Path, Shape, Names
    <2> QED
      BY <2>1, RestShape DEF Requests
  <1>5. Set(c, r)
    BY <1>1
  <1> HIDE DEF r
  <1>6. Others(c) /\ Place(c)' \in {"insert", "rename", "unlink", "find", "upsert", "deleteRecord"}
    BY <1>3, <1>4, <1>5, SetMoves
  <1>7. Place(c) = "rest" /\ ~ Pending(c)
    BY <1>2 DEF Place, Pending
  <1>8. OfDomains(records') = OfDomains(records)
    BY <1>2
  <1> QED
    BY <1>2, <1>6, <1>7, <1>8 DEF Apart, Shape, Guarded

LEMMA ClaimApart ==
    ASSUME Shape, NEW c \in Clients, ClaimHost(c) \/ Forget(c) \/ RenameBack(c)
    PROVE  Apart(c)
  <1>1. /\ UNCHANGED <<zone, records, published, publisher>>
        /\ Place(c) \in {"insert", "rename", "forget", "dropDomain", "renameBack"}
        /\ Jump(c, <<>>) \/ Continue(c)
        /\ hosts' = hosts \/ \E h \in Names : hosts' = [hosts EXCEPT ![call[c].domain] = h]
    <2>1. call[c].host \in Names /\ call[c].old \in Names /\ NoHost \in Names
      BY Places DEF Requests, Names
    <2>2. CASE ClaimHost(c)
      BY <2>1, <2>2, AtPlace DEF ClaimHost
    <2>3. CASE Forget(c)
      BY <2>1, <2>3, AtPlace DEF Forget
    <2>4. CASE RenameBack(c)
      BY <2>1, <2>4, AtPlace DEF RenameBack
    <2> QED
      BY <2>2, <2>3, <2>4
  <1>2. Others(c) /\ Place(c)' \notin Guarded \cup {"restore"}
    <2>1. CASE Jump(c, <<>>)
      BY <2>1, EndMoves DEF Guarded
    <2>2. CASE Continue(c)
      BY <1>1, <2>2, ContinueMoves DEF Follows
    <2> QED
      BY <1>1, <2>1, <2>2
  <1>3. hosts' \in [Domains -> Names]
    BY <1>1 DEF Shape
  <1>4. ~ Pending(c) /\ OfDomains(records') = OfDomains(records)
    BY <1>1 DEF Pending
  <1> QED
    BY <1>1, <1>2, <1>3, <1>4 DEF Apart, Shape, Guarded

LEMMA SyncApart ==
    ASSUME Shape, Domains # {}, NEW c \in Clients, Sync(c)
    PROVE  Apart(c)
  <1> DEFINE d == call[c].domain
             h == hosts[d]
             refused == ~ zone.exists \/ \E r \in records : r.host = h /\ r.by # d
             next == [call[c] EXCEPT !.previous = Linked(d), !.undoing = FALSE,
                                     !.op = IF At(c, "resync") THEN "resync" ELSE @]
  <1>1. UNCHANGED <<zone, hosts, published, publisher>> /\ Place(c) \in {"sync", "resync"} /\ ~ Pending(c)
    BY AtPlace DEF Sync, Pending
  <1>2. call[c] \in Requests /\ Path(call[c].op, call[c].todo)
    BY Places
  <1>3. CASE refused
    <2>1. records' = records /\ (Jump(c, <<>>) \/ Jump(c, AfterFailure(c)))
      BY <1>3 DEF Sync
    <2>2. Others(c) /\ Place(c)' \in {"rest", "forget", "renameBack"}
      BY <2>1, EndMoves, CallerMoves
    <2>3. OfDomains(records') = OfDomains(records)
      BY <2>1
    <2> QED
      BY <1>1, <2>1, <2>2, <2>3 DEF Apart, Shape, Guarded
  <1>4. CASE ~ refused
    <2>1. records' = (records \ Linked(d)) \cup {Address(d, h)} /\ Go(c, next)
      BY <1>4 DEF Sync
    <2>2. call[c].op # "deleteZone"
      BY <1>1, HeadFollows DEF Follows, Guarded
    <2>3. next \in Requests /\ next.op \in {call[c].op, "resync"} /\ next.todo = call[c].todo
      <3>1. Linked(d) \subseteq Records
        BY DEF Linked, Shape
      <3> QED
        BY <1>2, <3>1 DEF Requests
    <2>4. records' \subseteq Records
      <3>1. Address(d, h) \in Records
        <4>1. d \in Domains \cup {Rest.domain}
          BY <1>2 DEF Requests
        <4>2. Rest.domain \in Domains
          BY DEF Rest
        <4>3. d \in Domains
          BY <4>1, <4>2
        <4> QED
          BY <4>3 DEF Address, Records, Shape, Owners
      <3> QED
        BY <2>1, <3>1 DEF Shape
    <2> HIDE DEF next
    <2>5. Path(next.op, call[c].todo)
      BY <1>2, <2>2, <2>3, SameKind
    <2>6. Others(c) /\ Follows(next.op, Place(c), Place(c)') /\ (Place(c)' # "rest" => call'[c].op = next.op)
      BY <1>1, <2>1, <2>3, <2>5, GoMoves
    <2>7. Place(c)' = "find" /\ call'[c].op # "deleteZone"
      BY <1>1, <2>2, <2>3, <2>6 DEF Follows
    <2>8. Pending(c)'
      BY <2>7 DEF Pending
    <2> QED
      BY <1>1, <2>4, <2>6, <2>7, <2>8 DEF Apart, Shape, Guarded
  <1> QED
    BY <1>3, <1>4

LEMMA UnlinkApart ==
    ASSUME Shape, NEW c \in Clients, Unlink(c)
    PROVE  Apart(c)
  <1> DEFINE linked == Linked(call[c].domain)
             next == [call[c] EXCEPT !.previous = linked]
  <1>1. /\ UNCHANGED <<zone, hosts, published, publisher>> /\ Place(c) = "unlink" /\ ~ Pending(c)
        /\ records' = records \ linked
    BY AtPlace DEF Unlink, Pending
  <1>2. call[c] \in Requests /\ Path(call[c].op, call[c].todo) /\ linked \subseteq Records
    BY Places DEF Linked, Shape
  <1>3. call[c].op # "deleteZone"
    BY <1>1, HeadFollows DEF Follows, Guarded
  <1>4. CASE linked = {}
    <2>1. Jump(c, <<"dropDomain">>)
      BY <1>4 DEF Unlink
    <2>2. "dropDomain" \in Steps /\ Follows(call[c].op, "dropDomain", "rest")
      BY <1>3 DEF Steps, Follows, Guarded
    <2>3. Others(c) /\ Place(c)' = "dropDomain"
      <3> DEFINE todo == <<"dropDomain">>
      <3>1. Path(call[c].op, todo) /\ todo # <<>> /\ Head(todo) = "dropDomain"
        BY <2>2, Path1
      <3>2. Jump(c, todo)
        BY <2>1
      <3> HIDE DEF todo
      <3> QED
        BY <3>1, <3>2, JumpMoves
    <2>4. records' = records
      BY <1>1, <1>4
    <2>5. OfDomains(records') = OfDomains(records)
      BY <2>4
    <2> QED
      BY <1>1, <2>3, <2>4, <2>5 DEF Apart, Shape, Guarded
  <1>5. CASE linked # {}
    <2>1. next \in Requests /\ next.op = call[c].op /\ next.todo = call[c].todo
      BY <1>2 DEF Requests
    <2>2. Go(c, next)
      BY <1>5 DEF Unlink
    <2> HIDE DEF next
    <2>3. Others(c) /\ Follows(call[c].op, Place(c), Place(c)') /\ (Place(c)' # "rest" => call'[c].op = call[c].op)
      BY <1>1, <1>2, <2>1, <2>2, GoMoves
    <2>4. Place(c)' = "find"
      BY <1>1, <2>3 DEF Follows
    <2>5. Pending(c)'
      BY <1>3, <2>3, <2>4 DEF Pending
    <2> QED
      BY <1>1, <2>3, <2>4, <2>5 DEF Apart, Shape, Guarded
  <1> QED
    BY <1>4, <1>5

LEMMA RestoreApart ==
    ASSUME Shape, NEW c \in Clients, Restore(c)
    PROVE  Apart(c)
  <1>1. UNCHANGED <<zone, hosts, published, publisher>> /\ Place(c) = "restore" /\ ~ Pending(c)
    BY AtPlace DEF Restore, Pending
  <1>2. \/ records' = (records \ Linked(call[c].domain)) \cup call[c].previous /\ Continue(c)
        \/ Jump(c, AfterFailure(c)) /\ UNCHANGED records
    BY DEF Restore
  <1>3. call[c] \in Requests /\ call[c].op # "deleteZone"
    BY <1>1, Places, HeadFollows DEF Follows, Guarded
  <1>4. CASE records' = (records \ Linked(call[c].domain)) \cup call[c].previous /\ Continue(c)
    <2>1. Others(c) /\ Follows(call[c].op, Place(c), Place(c)') /\ (Place(c)' # "rest" => call'[c].op = call[c].op)
      BY <1>1, <1>4, ContinueMoves
    <2>2. Place(c)' = "find"
      BY <1>1, <2>1 DEF Follows
    <2>3. Pending(c)'
      BY <1>3, <2>1, <2>2 DEF Pending
    <2>4. records' \subseteq Records
      BY <1>3, <1>4 DEF Requests, Shape
    <2> QED
      BY <1>1, <2>1, <2>2, <2>3, <2>4 DEF Apart, Shape, Guarded
  <1>5. CASE Jump(c, AfterFailure(c)) /\ UNCHANGED records
    <2>1. Others(c) /\ Place(c)' \in {"rest", "forget", "renameBack"}
      BY <1>5, CallerMoves
    <2>2. OfDomains(records') = OfDomains(records)
      BY <1>5
    <2> QED
      BY <1>1, <1>5, <2>1, <2>2 DEF Apart, Shape, Guarded
  <1> QED
    BY <1>2, <1>4, <1>5

LEMMA FailedApart ==
    ASSUME Shape, NEW c \in Clients, Failed(c)
    PROVE  Apart(c)
  <1>1. UNCHANGED <<zone, records, hosts, published, publisher>> /\ Place(c) = "failed" /\ ~ Pending(c)
    BY AtPlace DEF Failed, Pending
  <1>2. Others(c) /\ Place(c)' \in {"rest", "forget", "renameBack"}
    BY CallerMoves DEF Failed
  <1>3. OfDomains(records') = OfDomains(records)
    BY <1>1
  <1> QED
    BY <1>1, <1>2, <1>3 DEF Apart, Shape, Guarded

LEMMA ByHandApart ==
    ASSUME Shape, User \notin Domains, NEW c \in Clients, UpsertRecord(c) \/ DeleteRecord(c)
    PROVE  Apart(c)
  <1>1. /\ UNCHANGED <<zone, hosts, published, publisher>> /\ Place(c) \in {"upsert", "deleteRecord"}
        /\ Continue(c) /\ ~ Pending(c)
    BY AtPlace DEF UpsertRecord, DeleteRecord, Pending
  <1>2. Others(c) /\ Place(c)' \notin Guarded \cup {"restore"}
    BY <1>1, ContinueMoves DEF Follows
  <1>3. call[c].host \in Names
    BY Places DEF Requests
  <1>4. records' \subseteq Records /\ \A r \in (records' \ records) \cup (records \ records') : r.by = User
    <2>1. CASE UpsertRecord(c)
      <3> DEFINE new == [host |-> call[c].host, type |-> IF call[c].op = "upsertA" THEN "A" ELSE "CNAME", by |-> User]
      <3>1. new \in Records /\ new.by = User
        BY <1>3 DEF Records, Owners
      <3>2. records' = records \cup {new} \/ records' = records
        BY <2>1 DEF UpsertRecord
      <3> HIDE DEF new
      <3> QED
        BY <3>1, <3>2 DEF Shape
    <2>2. CASE DeleteRecord(c)
      BY <2>2 DEF DeleteRecord, Shape
    <2> QED
      BY <2>1, <2>2
  <1>5. OfDomains(records') = OfDomains(records)
    BY <1>4 DEF OfDomains
  <1> QED
    BY <1>1, <1>2, <1>4, <1>5 DEF Apart, Shape, Guarded

LEMMA FindApart ==
    ASSUME Shape, NEW c \in Clients, FindZone(c)
    PROVE  Apart(c)
  <1>1. UNCHANGED <<zone, records, hosts, published, publisher>> /\ Place(c) = "find" /\ call[c].todo # <<>>
    BY AtPlace DEF FindZone
  <1>2. OfDomains(records') = OfDomains(records)
    BY <1>1
  <1>3. CASE zone.exists
    <2>1. Others(c) /\ Follows(call[c].op, Place(c), Place(c)') /\ (Place(c)' # "rest" => call'[c].op = call[c].op)
      BY <1>1, <1>3, ContinueMoves DEF FindZone
    <2>2. Place(c)' = "take"
      BY <1>1, <2>1 DEF Follows
    <2>3. Pending(c) => Pending(c)'
      BY <2>1, <2>2 DEF Pending
    <2> QED
      BY <1>1, <1>2, <2>1, <2>2, <2>3 DEF Apart, Shape, Guarded
  <1>4. CASE ~ zone.exists
    <2>1. CASE call[c].op = "deleteZone"
      <3>1. Others(c) /\ Place(c)' = "rest"
        BY <1>4, <2>1, EndMoves DEF FindZone
      <3> QED
        BY <1>1, <1>2, <1>4, <3>1 DEF Apart, Shape, Guarded
    <2>2. CASE call[c].op # "deleteZone"
      <3> DEFINE todo == SubSeq(call[c].todo, 5, Len(call[c].todo))
      <3>1. Path(call[c].op, call[c].todo) /\ Head(call[c].todo) = "find"
        BY <1>1, Places
      <3>2. Path(call[c].op, todo) /\ (todo # <<>> => Head(todo) \notin Guarded \cup {"restore"})
        BY <1>1, <2>2, <3>1, SkipPath
      <3>3. Jump(c, todo)
        BY <1>4, <2>2 DEF FindZone
      <3> HIDE DEF todo
      <3>4. Others(c) /\ Place(c)' \notin Guarded \cup {"restore"}
        BY <3>2, <3>3, JumpMoves DEF Guarded
      <3> QED
        BY <1>1, <1>2, <1>4, <3>4 DEF Apart, Shape, Guarded
    <2> QED
      BY <2>1, <2>2
  <1> QED
    BY <1>3, <1>4

\* Names are names, and somebody holds the lock or nobody does.
Constants == Operations \subseteq Procedures /\ Domains # {} /\ User \notin Domains /\ Nobody \notin Clients

LEMMA OutsideApart ==
    ASSUME Constants, Shape, NEW c \in Clients, Outside(c)
    PROVE  Apart(c)
  BY BeginApart, ClaimApart, SyncApart, UnlinkApart, RestoreApart, FailedApart, ByHandApart, FindApart
     DEF Outside, Constants

-----------------------------------------------------------------------------
(* The steps under the publish lock.                                        *)

LEMMA TakeTurn ==
    ASSUME Shape, NEW c \in Clients, TakeLock(c)
    PROVE  /\ Others(c) /\ UNCHANGED <<zone, records, hosts, published>> /\ Place(c) = "take"
           /\ \/ /\ publisher = Nobody /\ publisher' = c /\ Place(c)' \in {"read", "check"}
                 /\ Pending(c) => Pending(c)'
              \/ /\ "timeout" \in Faults /\ publisher' = publisher
                 /\ Place(c)' \in {"rest", "forget", "renameBack", "restore"}
  <1>1. UNCHANGED <<zone, records, hosts, published>> /\ Place(c) = "take"
    BY AtPlace DEF TakeLock
  <1>2. CASE publisher = Nobody /\ publisher' = c /\ Continue(c)
    <2>1. Others(c) /\ Follows(call[c].op, Place(c), Place(c)') /\ (Place(c)' # "rest" => call'[c].op = call[c].op)
      BY <1>1, <1>2, ContinueMoves
    <2>2. Place(c)' = IF call[c].op = "deleteZone" THEN "check" ELSE "read"
      BY <1>1, <2>1 DEF Follows
    <2>3. Pending(c) => Pending(c)'
      BY <2>1, <2>2 DEF Pending
    <2> QED
      BY <1>1, <1>2, <2>1, <2>2, <2>3
  <1>3. CASE publisher # Nobody /\ "timeout" \in Faults /\ FailPublish(c) /\ UNCHANGED publisher
    BY <1>1, <1>3, FailPublishMoves
  <1> QED
    BY <1>2, <1>3 DEF TakeLock

LEMMA ReadTurn ==
    ASSUME Shape, NEW c \in Clients, ReadZone(c)
    PROVE  /\ Others(c) /\ UNCHANGED <<zone, records, hosts, published>> /\ Place(c) = "read"
           /\ \/ /\ zone.exists /\ publisher' = publisher
                 /\ Place(c)' = "write" /\ call'[c].read = records
              \/ /\ ~ zone.exists /\ Release(c)
                 /\ Place(c)' \in {"rest", "forget", "renameBack", "restore"}
  <1>1. UNCHANGED <<zone, records, hosts, published>> /\ Place(c) = "read" /\ call[c].todo # <<>>
    BY AtPlace DEF ReadZone
  <1>2. CASE zone.exists
    <2> DEFINE next == [call[c] EXCEPT !.read = records]
    <2>1. call[c] \in Requests /\ Path(call[c].op, call[c].todo) /\ records \subseteq Records
      BY Places DEF Shape
    <2>2. next \in Requests /\ next.op = call[c].op /\ next.todo = call[c].todo /\ next.read = records
      BY <2>1 DEF Requests
    <2>3. Go(c, next) /\ UNCHANGED publisher
      BY <1>2 DEF ReadZone
    <2> HIDE DEF next
    <2>4. /\ Others(c) /\ Follows(call[c].op, Place(c), Place(c)')
          /\ Place(c)' # "rest" => call'[c].read = records
      BY <1>1, <2>1, <2>2, <2>3, GoMoves
    <2>5. Place(c)' = "write"
      BY <1>1, <2>4 DEF Follows
    <2> QED
      BY <1>1, <1>2, <2>3, <2>4, <2>5
  <1>3. CASE ~ zone.exists
    BY <1>1, <1>3, FailPublishMoves DEF ReadZone
  <1> QED
    BY <1>2, <1>3

LEMMA WriteTurn ==
    ASSUME Shape, NEW c \in Clients, WriteFile(c)
    PROVE  /\ Others(c) /\ UNCHANGED <<records, hosts>> /\ Place(c) = "write" /\ Release(c)
           /\ zone' \in Zones /\ zone'.exists = zone.exists
           /\ \/ /\ published' = FileOf(call[c].read) /\ Place(c)' \notin Guarded \cup {"restore"}
              \/ /\ "reload" \in Faults /\ zone'.status = "error"
                 /\ Place(c)' \in {"rest", "forget", "renameBack", "restore"}
  <1>1. UNCHANGED <<records, hosts>> /\ Place(c) = "write" /\ Release(c)
    BY AtPlace DEF WriteFile
  <1>2. CASE /\ published' = FileOf(call[c].read)
             /\ zone' = [zone EXCEPT !.status = "active"] /\ Continue(c)
    <2>1. Others(c) /\ Follows(call[c].op, Place(c), Place(c)')
      BY <1>1, <1>2, ContinueMoves
    <2>2. Place(c)' \notin Guarded \cup {"restore"}
      BY <1>1, <2>1 DEF Follows
    <2>3. zone' \in Zones /\ zone'.exists = zone.exists
      BY <1>2 DEF Shape, Zones
    <2> QED
      BY <1>1, <1>2, <2>1, <2>2, <2>3
  <1>3. CASE /\ "reload" \in Faults
             /\ zone' = [zone EXCEPT !.status = "error"] /\ FailPublish(c)
    <2>1. zone' \in Zones /\ zone'.exists = zone.exists /\ zone'.status = "error"
      BY <1>3 DEF Shape, Zones
    <2> QED
      BY <1>1, <1>3, <2>1, FailPublishMoves
  <1> QED
    BY <1>2, <1>3 DEF WriteFile

LEMMA CheckTurn ==
    ASSUME Shape, NEW c \in Clients, CheckZone(c)
    PROVE  /\ Others(c) /\ UNCHANGED <<zone, records, hosts, published>> /\ Place(c) = "check"
           /\ \/ /\ zone.exists /\ OfDomains(records) = {} /\ publisher' = publisher
                 /\ Place(c)' = "unpublish"
              \/ Place(c)' = "rest" /\ Release(c)
  <1>1. UNCHANGED <<zone, records, hosts, published>> /\ Place(c) = "check"
    BY AtPlace DEF CheckZone
  <1>2. CASE zone.exists /\ OfDomains(records) = {}
    <2>1. Others(c) /\ Follows(call[c].op, Place(c), Place(c)') /\ publisher' = publisher
      BY <1>1, <1>2, ContinueMoves DEF CheckZone
    <2>2. Place(c)' = "unpublish"
      BY <1>1, <2>1 DEF Follows
    <2> QED
      BY <1>1, <1>2, <2>1, <2>2
  <1>3. CASE ~ (zone.exists /\ OfDomains(records) = {})
    BY <1>1, <1>3, EndMoves DEF CheckZone
  <1> QED
    BY <1>2, <1>3

LEMMA UnpublishTurn ==
    ASSUME Shape, NEW c \in Clients, Unpublish(c)
    PROVE  /\ Others(c) /\ UNCHANGED <<records, hosts>> /\ Place(c) = "unpublish"
           /\ zone' \in Zones
           /\ \/ /\ published' = NoFile /\ UNCHANGED <<zone, publisher>> /\ Place(c)' = "dropZone"
              \/ /\ Place(c)' = "rest" /\ Release(c) /\ zone'.exists = zone.exists
                 /\ published' = FileOf(records) \/ zone'.status = "error"
  <1>1. UNCHANGED <<records, hosts>> /\ Place(c) = "unpublish"
    BY AtPlace DEF Unpublish
  <1>2. CASE published' = NoFile /\ Continue(c) /\ UNCHANGED <<zone, publisher>>
    <2>1. Others(c) /\ Follows(call[c].op, Place(c), Place(c)')
      BY <1>1, <1>2, ContinueMoves
    <2>2. Place(c)' = "dropZone"
      BY <1>1, <2>1 DEF Follows
    <2> QED
      BY <1>1, <1>2, <2>1, <2>2 DEF Shape
  <1>3. CASE /\ \/ published' = FileOf(records) /\ zone' = [zone EXCEPT !.status = "active"]
                \/ published' \in {NoFile, FileOf(records)} /\ zone' = [zone EXCEPT !.status = "error"]
             /\ Jump(c, <<>>) /\ Release(c)
    <2>1. Others(c) /\ Place(c)' = "rest"
      BY <1>3, EndMoves
    <2>2. zone' \in Zones /\ zone'.exists = zone.exists /\ (published' = FileOf(records) \/ zone'.status = "error")
      BY <1>3 DEF Shape, Zones
    <2> QED
      BY <1>1, <1>3, <2>1, <2>2
  <1> QED
    BY <1>2, <1>3 DEF Unpublish

LEMMA DropTurn ==
    ASSUME Shape, NEW c \in Clients, DropZone(c)
    PROVE  /\ Others(c) /\ UNCHANGED <<hosts, published>> /\ Place(c) = "dropZone" /\ Release(c)
           /\ zone' \in Zones /\ ~ zone'.exists /\ records' = {}
           /\ Place(c)' \notin Guarded \cup {"restore"}
  <1>1. /\ UNCHANGED <<hosts, published>> /\ Place(c) = "dropZone" /\ Release(c) /\ Continue(c)
        /\ zone' = [exists |-> FALSE, status |-> "pending"] /\ records' = {}
    BY AtPlace DEF DropZone
  <1>2. Others(c) /\ Follows(call[c].op, Place(c), Place(c)')
    BY <1>1, ContinueMoves
  <1> QED
    BY <1>1, <1>2 DEF Follows, Zones


-----------------------------------------------------------------------------
(* The file of a deleted zone stays gone.                                   *)

Holding == {"read", "write", "check", "unpublish", "dropZone"}

LEMMA NobodyElse ==
    ASSUME Locked, NEW c \in Clients, Place(c) \in Holding, Others(c)
    PROVE  publisher = c /\ \A d \in Clients \ {c} : Place(d) \notin Holding /\ Place(d)' \notin Holding
  <1>1. \A d \in Clients : Place(d) \in Holding => publisher = d
    BY DEF Locked, Holding
  <1> QED
    BY <1>1 DEF Others

LEMMA ShapeStep ==
    ASSUME Constants, Shape, NEW c \in Clients, Procedure(c)
    PROVE  Shape' /\ Others(c)
  <1>1. Others(c) /\ records' \subseteq Records /\ hosts' \in [Domains -> Names] /\ zone' \in Zones
    <2>1. CASE Outside(c)
      BY <2>1, OutsideApart DEF Apart, Shape
    <2>2. CASE TakeLock(c)
      BY <2>2, TakeTurn DEF Shape
    <2>3. CASE ReadZone(c)
      BY <2>3, ReadTurn DEF Shape
    <2>4. CASE WriteFile(c)
      BY <2>4, WriteTurn DEF Shape
    <2>5. CASE CheckZone(c)
      BY <2>5, CheckTurn DEF Shape
    <2>6. CASE Unpublish(c)
      BY <2>6, UnpublishTurn DEF Shape
    <2>7. CASE DropZone(c)
      BY <2>7, DropTurn DEF Shape
    <2> QED
      BY <2>1, <2>2, <2>3, <2>4, <2>5, <2>6, <2>7 DEF Procedure, Outside
  <1> QED
    BY <1>1 DEF Shape, Others

LEMMA LockedStep ==
    ASSUME Constants, LockInv, NEW c \in Clients, Procedure(c)
    PROVE  Locked'
  <1> USE DEF LockInv
  <1>1. /\ \A d \in Clients : Place(d) \in Holding => publisher = d
        /\ \A d \in Clients : Place(d) \in {"write", "unpublish", "dropZone"} => zone.exists
        /\ \A d \in Clients : Place(d) = "dropZone" => published = NoFile
        /\ ~ zone.exists => published = NoFile
    BY DEF Locked, Holding
  <1>2. SUFFICES /\ \A d \in Clients : Place(d)' \in Holding => publisher' = d
                 /\ \A d \in Clients : Place(d)' \in {"write", "unpublish", "dropZone"} => zone'.exists
                 /\ \A d \in Clients : Place(d)' = "dropZone" => published' = NoFile
                 /\ ~ zone'.exists => published' = NoFile
    BY DEF Locked, Holding
  <1>3. Nobody \notin Clients
    BY DEF Constants
  <1>4. CASE Outside(c)
    <2>1. Others(c) /\ UNCHANGED <<zone, published, publisher>> /\ Place(c)' \notin Holding
      BY <1>4, OutsideApart DEF Apart, Holding, Guarded
    <2>2. \A d \in Clients : Place(d)' \in Holding => Place(d)' = Place(d)
      BY <2>1 DEF Others
    <2> QED
      BY <1>1, <2>1, <2>2 DEF Holding
  <1>5. CASE TakeLock(c)
    <2>1. Others(c) /\ UNCHANGED <<zone, published>>
      BY <1>5, TakeTurn
    <2>2. \A d \in Clients \ {c} : Place(d)' = Place(d)
      BY <2>1 DEF Others
    <2>3. CASE publisher = Nobody /\ publisher' = c /\ Place(c)' \in {"read", "check"}
      BY <1>1, <1>3, <2>1, <2>2, <2>3 DEF Holding
    <2>4. CASE publisher' = publisher /\ Place(c)' \in {"rest", "forget", "renameBack", "restore"}
      BY <1>1, <2>1, <2>2, <2>4 DEF Holding
    <2> QED
      BY <1>5, <2>3, <2>4, TakeTurn
  <1>6. CASE ReadZone(c)
    <2>1. Others(c) /\ UNCHANGED <<zone, published>> /\ Place(c) = "read"
      BY <1>6, ReadTurn
    <2>2. publisher = c /\ \A d \in Clients \ {c} : Place(d)' \notin Holding
      BY <2>1, NobodyElse DEF Holding
    <2>3. \/ zone.exists /\ publisher' = publisher /\ Place(c)' = "write"
          \/ Place(c)' \in {"rest", "forget", "renameBack", "restore"}
      BY <1>6, ReadTurn
    <2> QED
      BY <1>1, <2>1, <2>2, <2>3 DEF Holding
  <1>7. CASE WriteFile(c)
    <2>1. Others(c) /\ Place(c) = "write" /\ zone'.exists = zone.exists
      BY <1>7, WriteTurn
    <2>2. \A d \in Clients \ {c} : Place(d)' \notin Holding
      BY <2>1, NobodyElse DEF Holding
    <2>3. Place(c)' \notin Holding
      BY <1>7, WriteTurn DEF Holding, Guarded
    <2> QED
      BY <1>1, <2>1, <2>2, <2>3 DEF Holding
  <1>8. CASE CheckZone(c)
    <2>1. Others(c) /\ UNCHANGED <<zone, published>> /\ Place(c) = "check"
      BY <1>8, CheckTurn
    <2>2. publisher = c /\ \A d \in Clients \ {c} : Place(d)' \notin Holding
      BY <2>1, NobodyElse DEF Holding
    <2>3. \/ zone.exists /\ publisher' = publisher /\ Place(c)' = "unpublish"
          \/ Place(c)' = "rest"
      BY <1>8, CheckTurn
    <2> QED
      BY <1>1, <2>1, <2>2, <2>3 DEF Holding
  <1>9. CASE Unpublish(c)
    <2>1. Others(c) /\ Place(c) = "unpublish"
      BY <1>9, UnpublishTurn
    <2>2. publisher = c /\ \A d \in Clients \ {c} : Place(d)' \notin Holding
      BY <2>1, NobodyElse DEF Holding
    <2>3. zone.exists
      BY <1>1, <2>1
    <2>4. \/ published' = NoFile /\ zone' = zone /\ publisher' = publisher /\ Place(c)' = "dropZone"
          \/ Place(c)' = "rest" /\ zone'.exists = zone.exists
      BY <1>9, UnpublishTurn
    <2> QED
      BY <2>2, <2>3, <2>4 DEF Holding
  <1>10. CASE DropZone(c)
    <2>1. Others(c) /\ Place(c) = "dropZone" /\ published' = published /\ Place(c)' \notin Holding
      BY <1>10, DropTurn DEF Holding, Guarded
    <2>2. \A d \in Clients \ {c} : Place(d)' \notin Holding
      BY <2>1, NobodyElse DEF Holding
    <2> QED
      BY <1>1, <2>1, <2>2 DEF Holding
  <1> QED
    BY <1>4, <1>5, <1>6, <1>7, <1>8, <1>9, <1>10 DEF Procedure, Outside

\* A zone that is gone does not come back.
LEMMA ZoneStays ==
    ASSUME Constants, Shape, Locked, NEW c \in Clients, Procedure(c), zone'.exists
    PROVE  zone.exists
  <1>1. CASE Outside(c)
    BY <1>1, OutsideApart DEF Apart
  <1>2. CASE TakeLock(c) \/ ReadZone(c) \/ CheckZone(c)
    BY <1>2, TakeTurn, ReadTurn, CheckTurn
  <1>3. CASE WriteFile(c)
    BY <1>3, WriteTurn
  <1>4. CASE Unpublish(c)
    BY <1>4, UnpublishTurn DEF Locked
  <1>5. CASE DropZone(c)
    BY <1>5, DropTurn
  <1> QED
    BY <1>1, <1>2, <1>3, <1>4, <1>5 DEF Procedure, Outside

LEMMA LockInit ==
    ASSUME Init
    PROVE  LockInv
  <1>1. /\ zone = [exists |-> TRUE, status |-> "pending"] /\ records = {} /\ hosts = [d \in Domains |-> NoHost]
        /\ call = [c \in Clients |-> Rest]
    BY DEF Init
  <1>2. \A c \in Clients : call[c] = Rest /\ Place(c) = "rest"
    BY <1>1, RestShape DEF Place
  <1>3. Shape
    <2>1. zone \in Zones
      BY <1>1 DEF Zones
    <2>2. hosts \in [Domains -> Names]
      BY <1>1 DEF Names
    <2>3. call \in [Clients -> Requests]
      BY <1>1, RestShape
    <2>4. \A c \in Clients : Path(call[c].op, call[c].todo)
      BY <1>2, RestShape
    <2> QED
      BY <1>1, <2>1, <2>2, <2>3, <2>4 DEF Shape
  <1>4. zone.exists
    BY <1>1
  <1> QED
    BY <1>2, <1>3, <1>4 DEF LockInv, Locked

LEMMA LockStutter ==
    ASSUME LockInv, UNCHANGED dns
    PROVE  LockInv'
  <1>1. \A c : Place(c)' = Place(c)
    BY DEF dns, Place
  <1>2. Shape'
    BY DEF dns, LockInv, Shape
  <1>3. Locked'
    BY <1>1 DEF dns, LockInv, Locked
  <1> QED
    BY <1>2, <1>3 DEF LockInv

LEMMA LockInvariant ==
    ASSUME Constants
    PROVE  Spec => []LockInv
  <1>1. Init => LockInv
    BY LockInit
  <1>2. LockInv /\ [Next]_dns => LockInv'
    BY ShapeStep, LockedStep, LockStutter DEF Next, LockInv
  <1> QED
    BY <1>1, <1>2, PTL DEF Spec

\* A zone that has been deleted stays unpublished: no publication that waited for
\* the lock brings its file back, whatever fails or times out.
THEOREM DeletedZoneStaysUnpublished ==
    ASSUME Constants
    PROVE  Spec => []DeletedZoneIsUnpublished
  <1>1. LockInv => DeletedZoneIsUnpublished
    BY DEF LockInv, Locked, DeletedZoneIsUnpublished
  <1> QED
    BY <1>1, LockInvariant, PTL


-----------------------------------------------------------------------------
(* What is published is what the database has.                              *)

LEMMA FollowedStep ==
    ASSUME Constants, "timeout" \notin Faults, LockInv, Followed, NEW c \in Clients, Procedure(c)
    PROVE  Followed'
  <1> DEFINE Current == zone.status = "active" => OfDomains(published.records) = OfDomains(records) \/ Promised \/ AtWrite
             Reading(d) == OfDomains(call[d].read) = OfDomains(records) \/ Promised
  <1>1. zone.exists =>
            /\ Current
            /\ \A d \in Clients : Place(d) = "write" => Reading(d)
            /\ \A d \in Clients : Place(d) \in {"unpublish", "dropZone"} => OfDomains(records) = {} \/ Promised
    BY DEF Followed
  <1>2. SUFFICES ASSUME zone'.exists
                 PROVE  /\ Current'
                        /\ \A d \in Clients : Place(d)' = "write" => Reading(d)'
                        /\ \A d \in Clients : Place(d)' \in {"unpublish", "dropZone"} => OfDomains(records') = {} \/ Promised'
    BY DEF Followed
  <1>3. Shape /\ Locked /\ Others(c)
    BY ShapeStep DEF LockInv
  <1>4. \A d \in Clients \ {c} : call'[d] = call[d] /\ Place(d)' = Place(d) /\ Pending(d)' = Pending(d)
    BY <1>3 DEF Others, Pending
  <1>5. Promised => Promised' \/ Pending(c)
    BY <1>4 DEF Promised
  <1>6. Pending(c)' => Promised'
    BY DEF Promised
  <1>7. AtWrite => AtWrite' \/ Place(c) = "write"
    BY <1>4 DEF AtWrite
  <1>8. CASE Outside(c)
    <2>1. /\ UNCHANGED <<zone, published, publisher>> /\ Place(c) \notin Holding /\ Place(c)' \notin Holding
          /\ Pending(c)' \/ (OfDomains(records') = OfDomains(records) /\ (Pending(c) => ~ zone.exists))
      BY <1>8, OutsideApart, <1>3 DEF Apart, Holding, Guarded
    <2>2. CASE Promised'
      BY <2>2
    <2>3. CASE ~ Promised'
      <3>1. OfDomains(records') = OfDomains(records) /\ ~ Promised
        BY <1>2, <1>5, <1>6, <2>1, <2>3
      <3>2. Current'
        BY <1>1, <1>2, <1>7, <2>1, <3>1 DEF Holding
      <3>3. ASSUME NEW d \in Clients, Place(d)' = "write"
            PROVE  Reading(d)'
        BY <1>1, <1>2, <1>4, <2>1, <3>1, <3>3 DEF Holding
      <3>4. ASSUME NEW d \in Clients, Place(d)' \in {"unpublish", "dropZone"}
            PROVE  OfDomains(records') = {}
        BY <1>1, <1>2, <1>4, <2>1, <3>1, <3>4 DEF Holding
      <3> QED
        BY <3>2, <3>3, <3>4
    <2> QED
      BY <2>2, <2>3
  <1>9. CASE TakeLock(c)
    <2>1. UNCHANGED <<zone, records, published>> /\ Place(c) = "take" /\ Place(c)' \in {"read", "check"} /\ (Pending(c) => Pending(c)')
      BY <1>3, <1>9, TakeTurn
    <2>2. Promised => Promised'
      BY <1>5, <1>6, <2>1
    <2>3. Current'
      BY <1>1, <1>2, <1>7, <2>1, <2>2
    <2>4. ASSUME NEW d \in Clients, Place(d)' = "write"
          PROVE  Reading(d)'
      BY <1>1, <1>2, <1>4, <2>1, <2>2, <2>4
    <2>5. ASSUME NEW d \in Clients, Place(d)' \in {"unpublish", "dropZone"}
          PROVE  OfDomains(records') = {} \/ Promised'
      BY <1>1, <1>2, <1>4, <2>1, <2>2, <2>5
    <2> QED
      BY <2>3, <2>4, <2>5
  <1>10. CASE ReadZone(c)
    <2>1. UNCHANGED <<zone, records, published>> /\ Place(c) = "read"
      BY <1>3, <1>10, ReadTurn
    <2>2. Place(c)' = "write" /\ call'[c].read = records
      BY <1>2, <1>3, <1>10, <2>1, ReadTurn
    <2>3. \A d \in Clients \ {c} : Place(d)' \notin Holding
      BY <1>3, <2>1, NobodyElse DEF Holding
    <2>4. AtWrite'
      BY <2>2 DEF AtWrite
    <2>5. Reading(c)'
      BY <2>1, <2>2
    <2> QED
      BY <2>2, <2>3, <2>4, <2>5 DEF Holding
  <1>11. CASE WriteFile(c)
    <2>1. UNCHANGED records /\ Place(c) = "write" /\ zone.exists
      BY <1>2, <1>3, <1>11, WriteTurn
    <2>2. \A d \in Clients : Place(d)' \notin Holding
      <3>1. \A d \in Clients \ {c} : Place(d)' \notin Holding
        BY <1>3, <2>1, NobodyElse DEF Holding
      <3>2. Place(c)' \notin Holding
        BY <1>3, <1>11, WriteTurn DEF Holding, Guarded
      <3> QED
        BY <3>1, <3>2
    <2>3. Current'
      <3>1. CASE zone'.status = "error"
        BY <3>1
      <3>2. CASE published' = FileOf(call[c].read)
        <4>1. published'.records = call[c].read
          BY <3>2 DEF FileOf
        <4>2. OfDomains(call[c].read) = OfDomains(records) \/ Promised
          BY <1>1, <2>1
        <4>3. ~ Pending(c)
          BY <2>1 DEF Pending
        <4>4. OfDomains(published'.records) = OfDomains(records') \/ Promised'
          BY <1>5, <2>1, <4>1, <4>2, <4>3
        <4> QED
          BY <4>4 DEF OfDomains
      <3> QED
        BY <1>3, <1>11, <3>1, <3>2, WriteTurn
    <2> QED
      BY <2>2, <2>3 DEF Holding
  <1>12. CASE CheckZone(c)
    <2>1. UNCHANGED <<zone, records, published>> /\ Place(c) = "check"
      BY <1>3, <1>12, CheckTurn
    <2>2. ~ Pending(c)
      BY <2>1 DEF Pending
    <2>3. Place(c)' = "rest" \/ (Place(c)' = "unpublish" /\ OfDomains(records) = {})
      BY <1>3, <1>12, CheckTurn
    <2>4. Current'
      BY <1>1, <1>2, <1>5, <1>7, <2>1, <2>2
    <2>5. \A d \in Clients \ {c} : Place(d)' \notin Holding
      BY <1>3, <2>1, NobodyElse DEF Holding
    <2>6. OfDomains(records') = OfDomains(records)
      BY <2>1
    <2> QED
      BY <2>3, <2>4, <2>5, <2>6 DEF Holding
  <1>13. CASE Unpublish(c)
    <2>1. UNCHANGED records /\ Place(c) = "unpublish"
      BY <1>3, <1>13, UnpublishTurn
    <2>2. ~ Pending(c)
      BY <2>1 DEF Pending
    <2>3. \A d \in Clients \ {c} : Place(d)' \notin Holding
      BY <1>3, <2>1, NobodyElse DEF Holding
    <2>4. OfDomains(records') = OfDomains(records)
      BY <2>1
    <2>5. zone.exists
      BY <1>3, <2>1 DEF Locked
    <2>6. OfDomains(records) = {} \/ Promised'
      BY <1>1, <1>5, <2>1, <2>2, <2>5
    <2>7. CASE published' = NoFile /\ Place(c)' = "dropZone"
      <3>1. published'.records = {}
        BY <2>7 DEF NoFile
      <3>2. OfDomains(published'.records) = {}
        BY <3>1 DEF OfDomains
      <3>3. Current'
        BY <2>4, <2>6, <3>2
      <3> QED
        BY <2>3, <2>4, <2>6, <2>7, <3>3 DEF Holding
    <2>8. CASE Place(c)' = "rest" /\ (published' = FileOf(records) \/ zone'.status = "error")
      <3>1. Current'
        <4>1. CASE zone'.status = "error"
          BY <4>1
        <4>2. CASE published' = FileOf(records)
          <5>1. published'.records = records'
            BY <2>1, <4>2 DEF FileOf
          <5> QED
            BY <5>1
        <4> QED
          BY <2>8, <4>1, <4>2
      <3> QED
        BY <2>3, <2>8, <3>1 DEF Holding
    <2> QED
      BY <1>3, <1>13, <2>7, <2>8, UnpublishTurn
  <1>14. CASE DropZone(c)
    BY <1>2, <1>3, <1>14, DropTurn
  <1> QED
    BY <1>8, <1>9, <1>10, <1>11, <1>12, <1>13, <1>14 DEF Procedure, Outside

\* When no procedure is under way and the last publication succeeded, the zone
\* file has the records of the database, if no procedure gave up waiting for the
\* publish lock.
THEOREM PublicationCurrent ==
    ASSUME Constants, "timeout" \notin Faults
    PROVE  Spec => []PublishedIsCurrent
  <1>1. Init => Followed
    <2> SUFFICES ASSUME Init
                 PROVE  Followed
      OBVIOUS
    <2>1. zone.status = "pending" /\ \A c \in Clients : Place(c) = "rest"
      BY RestShape DEF Init, Place
    <2> QED
      BY <2>1 DEF Followed
  <1>2. LockInv /\ Followed /\ [Next]_dns => Followed'
    <2> SUFFICES ASSUME LockInv, Followed, [Next]_dns
                 PROVE  Followed'
      OBVIOUS
    <2>1. CASE Next
      BY <2>1, FollowedStep DEF Next
    <2>2. CASE UNCHANGED dns
      <3>1. \A c : Place(c)' = Place(c) /\ Pending(c)' = Pending(c)
        BY <2>2 DEF dns, Place, Pending
      <3> QED
        BY <2>2, <3>1 DEF dns, Followed, Promised, AtWrite, OfDomains
    <2> QED
      BY <2>1, <2>2
  <1>3. Followed => PublishedIsCurrent
    <2>1. Quiet => ~ Promised /\ ~ AtWrite
      BY DEF Quiet, Promised, AtWrite, Pending, Place
    <2> QED
      BY <2>1 DEF Followed, PublishedIsCurrent
  <1> QED
    BY <1>1, <1>2, <1>3, LockInvariant, PTL DEF Spec

-----------------------------------------------------------------------------
(* An alias stands alone.                                                   *)

LEMMA AliasStep ==
    ASSUME Constants, Faults = {}, LockInv, AliasInv, NEW c \in Clients, Procedure(c)
    PROVE  AliasInv'
  <1> DEFINE Alone(s) == /\ \A r \in s : r.type = "CNAME" => r.by = User
                         /\ \A r, x \in s : r.type = "CNAME" /\ x.host = r.host => x = r
  <1>1. Alone(records) /\ \A d \in Clients : Place(d) = "restore" => ~ zone.exists
    BY DEF AliasInv, AliasStandsAlone
  <1>2. SUFFICES Alone(records') /\ \A d \in Clients : Place(d)' = "restore" => ~ zone'.exists
    BY DEF AliasInv, AliasStandsAlone
  <1>3. Shape /\ Locked /\ Others(c)
    BY ShapeStep DEF LockInv
  <1>4. zone'.exists => zone.exists
    BY <1>3, ZoneStays
  <1>5. Place(c)' = "restore" => ~ zone.exists
    <2>1. CASE Outside(c)
      BY <1>3, <2>1, OutsideApart DEF Apart
    <2>2. CASE TakeLock(c)
      BY <1>3, <2>2, TakeTurn
    <2>3. CASE ReadZone(c)
      BY <1>3, <2>3, ReadTurn
    <2>4. CASE WriteFile(c)
      BY <1>3, <2>4, WriteTurn
    <2>5. CASE CheckZone(c)
      BY <1>3, <2>5, CheckTurn
    <2>6. CASE Unpublish(c)
      BY <1>3, <2>6, UnpublishTurn
    <2>7. CASE DropZone(c)
      BY <1>3, <2>7, DropTurn
    <2> QED
      BY <2>1, <2>2, <2>3, <2>4, <2>5, <2>6, <2>7 DEF Procedure, Outside
  <1>6. \A d \in Clients : Place(d)' = "restore" => ~ zone'.exists
    BY <1>1, <1>3, <1>4, <1>5 DEF Others
  <1> SUFFICES Alone(records')
    BY <1>6
  <1>7. ASSUME records' \subseteq records
        PROVE  Alone(records')
    BY <1>1, <1>7
  <1>8. CASE Sync(c)
    <2> DEFINE d == call[c].domain
               h == hosts[d]
    <2>1. CASE ~ zone.exists \/ \E r \in records : r.host = h /\ r.by # d
      BY <1>7, <1>8, <2>1 DEF Sync
    <2>2. CASE ~ (~ zone.exists \/ \E r \in records : r.host = h /\ r.by # d)
      <3>1. records' = (records \ Linked(d)) \cup {Address(d, h)}
        BY <1>8, <2>2 DEF Sync
      <3>2. d # User
        <4>1. d \in Domains \cup {Rest.domain} /\ Rest.domain \in Domains
          BY <1>3, Places DEF Requests, Constants, Rest
        <4> QED
          BY <4>1 DEF Constants
      <3> DEFINE new == Address(d, h)
      <3>3. new.host = h /\ new.type = "A"
        BY DEF Address
      <3>4. \A r \in records : r.type = "CNAME" => r.host # h
        BY <1>1, <2>2, <3>2
      <3>5. \A r \in records' : r \in records \/ r = new
        BY <3>1
      <3> HIDE DEF new
      <3> QED
        BY <1>1, <3>3, <3>4, <3>5
    <2> QED
      BY <2>1, <2>2
  <1>9. CASE Restore(c)
    <2>1. ~ zone.exists
      BY <1>1, <1>9, AtPlace DEF Restore
    <2>2. records' \subseteq records
      BY <1>9, <2>1 DEF Restore
    <2> QED
      BY <1>7, <2>2
  <1>10. CASE UpsertRecord(c)
    <2> DEFINE new == [host |-> call[c].host, type |-> IF call[c].op = "upsertA" THEN "A" ELSE "CNAME", by |-> User]
               agrees == \A r \in records : r.host = call[c].host => ((r.type = "CNAME") = (new.type = "CNAME"))
    <2>1. records' = records \/ (records' = records \cup {new} /\ agrees)
      BY <1>10 DEF UpsertRecord
    <2>2. CASE records' = records
      BY <1>7, <2>2
    <2>3. CASE records' = records \cup {new} /\ agrees
      <3>1. new.by = User /\ new.host = call[c].host /\ new.type \in {"A", "CNAME"}
        OBVIOUS
      <3>2. \A r \in records : r.host = call[c].host => ((r.type = "CNAME") = (new.type = "CNAME"))
        BY <2>3
      <3>3. new \in Records
        <4>1. call[c].host \in Names
          BY <1>3, Places DEF Requests
        <4> QED
          BY <4>1 DEF Records, Owners
      <3> HIDE DEF new
      <3>4. \A r \in records' : r.type = "CNAME" => r.by = User
        BY <1>1, <2>3, <3>1
      <3>5. \A r \in Records : r.type = "CNAME" /\ new.type = "CNAME" /\ r.host = new.host /\ r.by = User => r = new
        BY <3>1, <3>3 DEF Records
      <3>6. \A r, x \in records' : r.type = "CNAME" /\ x.host = r.host => x = r
        <4> SUFFICES ASSUME NEW r \in records', NEW x \in records', r.type = "CNAME", x.host = r.host
                     PROVE  x = r
          OBVIOUS
        <4>1. CASE r \in records /\ x \in records
          BY <1>1, <4>1
        <4>2. CASE r = new /\ x \in records
          <5>1. x.type = "CNAME" /\ x.by = User /\ x \in Records
            BY <1>1, <1>3, <3>1, <3>2, <4>2 DEF Shape
          <5> QED
            BY <3>5, <4>2, <5>1
        <4>3. CASE r \in records /\ x = new
          <5>1. new.type = "CNAME" /\ r.by = User /\ r \in Records
            BY <1>1, <1>3, <3>1, <3>2, <4>3 DEF Shape
          <5> QED
            BY <3>5, <4>3, <5>1
        <4> QED
          BY <2>3, <4>1, <4>2, <4>3
      <3> QED
        BY <3>4, <3>6
    <2> QED
      BY <2>1, <2>2, <2>3
  <1>11. CASE ~ (Sync(c) \/ Restore(c) \/ UpsertRecord(c))
    <2>1. records' \subseteq records
      BY <1>11 DEF Procedure, BeginCall, ClaimHost, Unlink, Failed, Forget, RenameBack, DeleteRecord, FindZone,
                   TakeLock, ReadZone, WriteFile, CheckZone, Unpublish, DropZone
    <2> QED
      BY <1>7, <2>1
  <1> QED
    BY <1>8, <1>9, <1>10, <1>11

\* While nothing fails, a name that has an alias has nothing else, whoever makes
\* its records and however their procedures interleave: every transaction that makes
\* a record takes the zone's advisory lock.  The one that takes back a failed
\* publication does not (compensateDomainDnsSync): Dns_alias.cfg shows the violation.
THEOREM AliasAlone ==
    ASSUME Constants, Faults = {}
    PROVE  Spec => []AliasStandsAlone
  <1>1. Init => AliasInv
    <2> SUFFICES ASSUME Init
                 PROVE  AliasInv
      OBVIOUS
    <2>1. records = {} /\ \A c \in Clients : Place(c) = "rest"
      BY RestShape DEF Init, Place
    <2> QED
      BY <2>1 DEF AliasInv, AliasStandsAlone
  <1>2. LockInv /\ AliasInv /\ [Next]_dns => AliasInv'
    <2> SUFFICES ASSUME LockInv, AliasInv, [Next]_dns
                 PROVE  AliasInv'
      OBVIOUS
    <2>1. CASE Next
      BY <2>1, AliasStep DEF Next
    <2>2. CASE UNCHANGED dns
      <3>1. \A c : Place(c)' = Place(c)
        BY <2>2 DEF dns, Place
      <3> QED
        BY <2>2, <3>1 DEF dns, AliasInv, AliasStandsAlone
    <2> QED
      BY <2>1, <2>2
  <1> QED
    BY <1>1, <1>2, LockInvariant, PTL DEF Spec, AliasInv

-----------------------------------------------------------------------------
(* Every domain has its record.                                             *)

\* The step that follows, whatever comes between: "rest" after the last one,
\* "nowhere" after a step that a procedure never takes.
After(op, undoing) ==
    LET adds == op = "add" /\ ~ undoing
        moves == op \in {"move", "resync"} /\ ~ undoing
        removes == op = "remove" /\ ~ undoing
        undoes == op \in Changing /\ undoing
        publishes == op \in Changing \/ (op = "publish" /\ ~ undoing)
    IN  [step \in Steps |->
            CASE (adds /\ step = "insert") \/ (moves /\ step = "rename") -> "sync"
              [] moves /\ step = "renameBack" -> "resync"
              [] \/ (adds \/ moves) /\ step = "sync"
                 \/ moves /\ step = "resync"
                 \/ removes /\ step = "unlink"
                 \/ undoes /\ step = "restore" -> "find"
              [] publishes /\ step = "find" -> "take"
              [] publishes /\ step = "take" -> "read"
              [] publishes /\ step = "read" -> "write"
              [] publishes /\ step = "write" -> IF undoing THEN "failed" ELSE IF op = "remove" THEN "dropDomain" ELSE "rest"
              [] \/ adds /\ step = "forget"
                 \/ removes /\ step = "dropDomain"
                 \/ undoes /\ step = "failed"
                 \/ op \notin Changing \cup {"publish"} /\ step \in {"upsert", "deleteRecord"} -> "rest"
              [] OTHER -> "nowhere"]

Runs(f, todo) ==
    /\ todo \in Seq(Steps)
    /\ \A i \in 1..Len(todo) : f[todo[i]] = IF i < Len(todo) THEN todo[i + 1] ELSE "rest"

\* What a procedure has left to do follows from what it has done.
Course(c) ==
    call[c].todo # <<>> /\ call[c].op # "deleteZone" => Runs(After(call[c].op, call[c].undoing), call[c].todo)

Publishing == {"find", "take", "read", "write"}
Changes(c) == call[c].op \in Changing
Ours(d, h) == IF h = NoHost THEN {} ELSE {Address(d, h)}
Tidy(d) == Linked(d) = Ours(d, hosts[d])

\* The host that a procedure wants for its domain, the record it found, the one it wants.
Target(c) == IF call[c].op \in {"add", "move"} THEN call[c].host ELSE call[c].old
Found(c) == Ours(call[c].domain, call[c].old)
Wanted(c) == IF call[c].op = "remove" THEN {} ELSE Ours(call[c].domain, Target(c))

\* How a domain and its record stand in the middle of each change.
Sound(c) ==
    LET d == call[c].domain IN
    /\ d \in Domains /\ call[c].host # NoHost /\ Place(c) # "rest"
    /\ call[c].op = "add" <=> call[c].old = NoHost
    /\ call[c].op = "move" => call[c].host # call[c].old
    /\ call[c].op = "resync" => Place(c) \notin {"rename", "sync", "renameBack", "resync"}
    /\ Place(c) \in {"insert", "rename", "unlink", "resync"} => hosts[d] = call[c].old /\ Linked(d) = Found(c)
    /\ Place(c) \in {"sync", "forget", "renameBack"} => hosts[d] = call[c].host /\ Linked(d) = Found(c)
    /\ Place(c) \in {"restore", "dropDomain"} \/ (Place(c) \in Publishing /\ ~ call[c].undoing) =>
            hosts[d] = Target(c) /\ Linked(d) = Wanted(c) /\ call[c].previous = Found(c)
    /\ Place(c) = "failed" \/ (Place(c) \in Publishing /\ call[c].undoing) =>
            hosts[d] = Target(c) /\ Linked(d) = Found(c)

\* No two procedures change one domain, no two domains have one host, and the
\* host that a domain is leaving is nobody else's.
Apiece ==
    /\ \A b, c \in Clients : b # c /\ Changes(b) /\ Changes(c) => call[b].domain # call[c].domain
    /\ \A d, e \in Domains : hosts[d] = hosts[e] /\ hosts[d] # NoHost => d = e
    /\ \A c \in Clients, e \in Domains : call[c].op = "move" /\ e # call[c].domain => hosts[e] # call[c].old
    /\ \A b, c \in Clients : b # c /\ call[b].op = "move" /\ call[c].op = "move" => call[b].old # call[c].old

Standing ==
    /\ Apiece
    /\ \A c \in Clients : Course(c) /\ (Changes(c) => Sound(c))
    /\ \A d \in Domains : (\A c \in Clients : Changes(c) => call[c].domain # d) => Tidy(d)

\* A zone that is gone takes its records along.
RecordsInv == zone.exists => Standing

LEMMA TailRuns ==
    ASSUME NEW f, NEW todo, Runs(f, todo), todo # <<>>
    PROVE  /\ Runs(f, Tail(todo)) /\ Head(todo) \in Steps
           /\ f[Head(todo)] = IF Tail(todo) = <<>> THEN "rest" ELSE Head(Tail(todo))
           /\ f[Head(todo)] \in Steps \cup {"rest"}
  <1>1. /\ todo \in Seq(Steps) /\ Len(todo) \in Nat \ {0} /\ Head(todo) = todo[1] /\ todo[1] \in Steps
        /\ Tail(todo) \in Seq(Steps) /\ Len(Tail(todo)) = Len(todo) - 1
        /\ \A i \in 1..Len(Tail(todo)) : Tail(todo)[i] = todo[i + 1]
    BY EmptySeq, HeadTailProperties, ElementOfSeq DEF Runs
  <1>2. Len(todo) \in Int /\ Len(Tail(todo)) = Len(todo) - 1
    BY <1>1
  <1>3. \A i \in 1..Len(todo) : f[todo[i]] = IF i < Len(todo) THEN todo[i + 1] ELSE "rest"
    BY DEF Runs
  <1>4. Runs(f, Tail(todo))
    <2> SUFFICES ASSUME NEW i \in 1..Len(Tail(todo))
                 PROVE  f[Tail(todo)[i]] = IF i < Len(Tail(todo)) THEN Tail(todo)[i + 1] ELSE "rest"
      BY <1>1 DEF Runs
    <2>1. PICK k \in 1..Len(todo) : k = i + 1
      BY <1>2
    <2>2. Tail(todo)[i] = todo[k]
      BY <1>1, <2>1
    <2>3. f[todo[k]] = IF k < Len(todo) THEN todo[k + 1] ELSE "rest"
      BY <1>3
    <2>4. CASE k < Len(todo)
      <3>1. i < Len(Tail(todo)) /\ i + 1 \in 1..Len(Tail(todo)) /\ i + 1 = k
        BY <1>2, <2>1, <2>4
      <3>2. Tail(todo)[i + 1] = todo[k + 1]
        BY <1>1, <3>1
      <3> QED
        BY <2>2, <2>3, <2>4, <3>1, <3>2
    <2>5. CASE ~ (k < Len(todo))
      <3>1. ~ (i < Len(Tail(todo)))
        BY <1>2, <2>1, <2>5
      <3> QED
        BY <2>2, <2>3, <2>5, <3>1
    <2> QED
      BY <2>4, <2>5
  <1>5. f[todo[1]] = IF 1 < Len(todo) THEN todo[2] ELSE "rest"
    <2>1. 1 \in 1..Len(todo) /\ 1 + 1 = 2
      BY <1>1
    <2> QED
      BY <1>3, <2>1
  <1>6. CASE 1 < Len(todo)
    <2>1. 1 \in 1..Len(Tail(todo)) /\ 1 + 1 = 2 /\ Len(Tail(todo)) # 0
      BY <1>2, <1>6
    <2>2. Tail(todo) # <<>> /\ Head(Tail(todo)) = Tail(todo)[1] /\ Tail(todo)[1] = todo[2]
      BY <1>1, <2>1, EmptySeq
    <2>3. Head(Tail(todo)) \in Steps
      BY <1>1, <2>2, HeadTailProperties
    <2> QED
      BY <1>1, <1>4, <1>5, <1>6, <2>2, <2>3
  <1>7. CASE ~ (1 < Len(todo))
    <2>1. Len(Tail(todo)) = 0
      BY <1>1, <1>2, <1>7
    <2>2. Tail(todo) = <<>>
      BY <1>1, <2>1, EmptySeq
    <2> QED
      BY <1>1, <1>4, <1>5, <1>7, <2>2
  <1> QED
    BY <1>6, <1>7

LEMMA Runs1 ==
    ASSUME NEW f, NEW a \in Steps, f[a] = "rest"
    PROVE  Runs(f, <<a>>) /\ <<a>> # <<>> /\ Head(<<a>>) = a
  <1> DEFINE todo == <<a>>
  <1>1. todo \in Seq(Steps) /\ Len(todo) = 1 /\ todo # <<>> /\ Head(todo) = a /\ todo[1] = a
    OBVIOUS
  <1> HIDE DEF todo
  <1>2. Runs(f, todo)
    BY <1>1 DEF Runs
  <1> QED
    BY <1>1, <1>2 DEF todo

LEMMA Runs4 ==
    ASSUME NEW f, NEW a \in Steps, NEW b \in Steps, NEW c \in Steps, NEW d \in Steps,
           f[a] = b, f[b] = c, f[c] = d, f[d] = "rest"
    PROVE  Runs(f, <<a, b, c, d>>) /\ <<a, b, c, d>> # <<>> /\ Head(<<a, b, c, d>>) = a
  <1> DEFINE todo == <<a, b, c, d>>
  <1>1. todo \in Seq(Steps) /\ Len(todo) = 4 /\ todo # <<>> /\ Head(todo) = a
    OBVIOUS
  <1>2. todo[1] = a /\ todo[2] = b /\ todo[3] = c /\ todo[4] = d
    OBVIOUS
  <1> HIDE DEF todo
  <1>3. ASSUME NEW i \in 1..Len(todo)
        PROVE  f[todo[i]] = IF i < Len(todo) THEN todo[i + 1] ELSE "rest"
    BY <1>1, <1>2
  <1>4. Runs(f, todo)
    BY <1>1, <1>3 DEF Runs
  <1> QED
    BY <1>1, <1>4 DEF todo

LEMMA Runs6 ==
    ASSUME NEW f, NEW a \in Steps, NEW b \in Steps, NEW c \in Steps, NEW d \in Steps, NEW e \in Steps, NEW g \in Steps,
           f[a] = b, f[b] = c, f[c] = d, f[d] = e, f[e] = g, f[g] = "rest"
    PROVE  Runs(f, <<a, b, c, d, e, g>>) /\ <<a, b, c, d, e, g>> # <<>> /\ Head(<<a, b, c, d, e, g>>) = a
  <1> DEFINE todo == <<a, b, c, d, e, g>>
  <1>1. todo \in Seq(Steps) /\ Len(todo) = 6 /\ todo # <<>> /\ Head(todo) = a
    OBVIOUS
  <1>2. todo[1] = a /\ todo[2] = b /\ todo[3] = c /\ todo[4] = d /\ todo[5] = e /\ todo[6] = g
    OBVIOUS
  <1> HIDE DEF todo
  <1>3. ASSUME NEW i \in 1..Len(todo)
        PROVE  f[todo[i]] = IF i < Len(todo) THEN todo[i + 1] ELSE "rest"
    BY <1>1, <1>2
  <1>4. Runs(f, todo)
    BY <1>1, <1>3 DEF Runs
  <1> QED
    BY <1>1, <1>4 DEF todo

LEMMA Onward ==
    ASSUME NEW op, NEW undoing \in BOOLEAN, NEW step \in Steps, After(op, undoing)[step] # "nowhere"
    PROVE  /\ step = "insert" => After(op, undoing)[step] = "sync" /\ op = "add" /\ ~ undoing
           /\ step = "rename" => After(op, undoing)[step] = "sync" /\ op \in {"move", "resync"} /\ ~ undoing
           /\ step = "renameBack" => After(op, undoing)[step] = "resync" /\ op \in {"move", "resync"} /\ ~ undoing
           /\ step = "sync" => After(op, undoing)[step] = "find" /\ op \in {"add", "move", "resync"} /\ ~ undoing
           /\ step = "resync" => After(op, undoing)[step] = "find" /\ op \in {"move", "resync"} /\ ~ undoing
           /\ step = "unlink" => After(op, undoing)[step] = "find" /\ op = "remove" /\ ~ undoing
           /\ step = "restore" => After(op, undoing)[step] = "find" /\ op \in Changing /\ undoing
           /\ step \in Publishing => op \in Changing \/ (op = "publish" /\ ~ undoing)
           /\ step = "find" => After(op, undoing)[step] = "take"
           /\ step = "take" => After(op, undoing)[step] = "read"
           /\ step = "read" => After(op, undoing)[step] = "write"
           /\ step = "write" => After(op, undoing)[step] = IF undoing THEN "failed" ELSE IF op = "remove" THEN "dropDomain" ELSE "rest"
           /\ step = "forget" => After(op, undoing)[step] = "rest" /\ op = "add" /\ ~ undoing
           /\ step = "dropDomain" => After(op, undoing)[step] = "rest" /\ op = "remove" /\ ~ undoing
           /\ step = "failed" => After(op, undoing)[step] = "rest" /\ op \in Changing /\ undoing
           /\ step \in {"upsert", "deleteRecord"} => After(op, undoing)[step] = "rest" /\ op \notin Changing
           /\ step \notin {"check", "unpublish", "dropZone"}
  BY DEF After, Steps, Publishing

\* The converse, for the steps that a procedure takes.
LEMMA Onto ==
    ASSUME NEW op
    PROVE  /\ op = "add" => After(op, FALSE)["insert"] = "sync" /\ After(op, FALSE)["sync"] = "find" /\ After(op, FALSE)["forget"] = "rest"
           /\ op \in {"move", "resync"} =>
                 /\ After(op, FALSE)["rename"] = "sync" /\ After(op, FALSE)["sync"] = "find"
                 /\ After(op, FALSE)["renameBack"] = "resync" /\ After(op, FALSE)["resync"] = "find"
           /\ op = "remove" => After(op, FALSE)["unlink"] = "find" /\ After(op, FALSE)["dropDomain"] = "rest"
           /\ op \in Changing => After(op, TRUE)["restore"] = "find" /\ After(op, TRUE)["failed"] = "rest"
           /\ \A u \in BOOLEAN : op \in Changing \/ (op = "publish" /\ ~ u) =>
                 /\ After(op, u)["find"] = "take" /\ After(op, u)["take"] = "read" /\ After(op, u)["read"] = "write"
                 /\ After(op, u)["write"] = IF u THEN "failed" ELSE IF op = "remove" THEN "dropDomain" ELSE "rest"
           /\ op \in {"upsertA", "upsertCNAME", "deleteRecords"} =>
                 After(op, FALSE)["upsert"] = "rest" /\ After(op, FALSE)["deleteRecord"] = "rest"
  BY DEF After, Steps, Changing

LEMMA SameCourse == \A u : After("resync", u) = After("move", u)
  BY DEF After, Changing

\* What a procedure sets out to do, and how it takes a failure.
LEMMA ProgramRuns ==
    ASSUME NEW op \in Procedures, op # "deleteZone"
    PROVE  Runs(After(op, FALSE), Program(op))
  <1>1. CASE op = "add"
    <2> DEFINE f == After(op, FALSE)
    <2>1. Program(op) = <<"insert", "sync", "find", "take", "read", "write">>
      BY <1>1, PublicationLast DEF Program, PublishSteps
    <2>2. op \in Changing \/ op = "publish"
      BY <1>1 DEF Changing
    <2>3. /\ f["insert"] = "sync" /\ f["sync"] = "find" /\ f["find"] = "take"
          /\ f["take"] = "read" /\ f["read"] = "write" /\ f["write"] = "rest"
      BY <1>1, <2>2, Onto
    <2> HIDE DEF f
    <2>4. /\ "insert" \in Steps /\ "sync" \in Steps /\ "find" \in Steps
          /\ "take" \in Steps /\ "read" \in Steps /\ "write" \in Steps
      BY DEF Steps
    <2>5. Runs(f, <<"insert", "sync", "find", "take", "read", "write">>)
      BY <2>3, <2>4, Runs6
    <2> QED
      BY <2>1, <2>5 DEF f
  <1>2. CASE op = "move"
    <2> DEFINE f == After(op, FALSE)
    <2>1. Program(op) = <<"rename", "sync", "find", "take", "read", "write">>
      BY <1>2, PublicationLast DEF Program, PublishSteps
    <2>2. op \in Changing \/ op = "publish"
      BY <1>2 DEF Changing
    <2>3. /\ f["rename"] = "sync" /\ f["sync"] = "find" /\ f["find"] = "take"
          /\ f["take"] = "read" /\ f["read"] = "write" /\ f["write"] = "rest"
      BY <1>2, <2>2, Onto
    <2> HIDE DEF f
    <2>4. /\ "rename" \in Steps /\ "sync" \in Steps /\ "find" \in Steps
          /\ "take" \in Steps /\ "read" \in Steps /\ "write" \in Steps
      BY DEF Steps
    <2>5. Runs(f, <<"rename", "sync", "find", "take", "read", "write">>)
      BY <2>3, <2>4, Runs6
    <2> QED
      BY <2>1, <2>5 DEF f
  <1>3. CASE op = "remove"
    <2> DEFINE f == After(op, FALSE)
    <2>1. Program(op) = <<"unlink", "find", "take", "read", "write", "dropDomain">>
      BY <1>3, PublicationWithin DEF Program, PublishSteps
    <2>2. op \in Changing \/ op = "publish"
      BY <1>3 DEF Changing
    <2>3. /\ f["unlink"] = "find" /\ f["find"] = "take" /\ f["take"] = "read"
          /\ f["read"] = "write" /\ f["write"] = "dropDomain" /\ f["dropDomain"] = "rest"
      BY <1>3, <2>2, Onto
    <2> HIDE DEF f
    <2>4. /\ "unlink" \in Steps /\ "find" \in Steps /\ "take" \in Steps
          /\ "read" \in Steps /\ "write" \in Steps /\ "dropDomain" \in Steps
      BY DEF Steps
    <2>5. Runs(f, <<"unlink", "find", "take", "read", "write", "dropDomain">>)
      BY <2>3, <2>4, Runs6
    <2> QED
      BY <2>1, <2>5 DEF f
  <1>4. CASE op = "publish"
    <2> DEFINE f == After(op, FALSE)
    <2>1. Program(op) = <<"find", "take", "read", "write">>
      BY <1>4 DEF Program, PublishSteps
    <2>2. op \in Changing \/ op = "publish"
      BY <1>4 DEF Changing
    <2>3. f["find"] = "take" /\ f["take"] = "read" /\ f["read"] = "write" /\ f["write"] = "rest"
      BY <1>4, <2>2, Onto
    <2> HIDE DEF f
    <2>4. "find" \in Steps /\ "take" \in Steps /\ "read" \in Steps /\ "write" \in Steps
      BY DEF Steps
    <2>5. Runs(f, <<"find", "take", "read", "write">>)
      BY <2>3, <2>4, Runs4
    <2> QED
      BY <2>1, <2>5 DEF f
  <1>5. CASE op \in {"upsertA", "upsertCNAME", "deleteRecords"}
    <2>1. Program(op) = <<"upsert">> \/ Program(op) = <<"deleteRecord">>
      BY <1>5 DEF Program
    <2>2. "upsert" \in Steps /\ "deleteRecord" \in Steps
      BY DEF Steps
    <2>3. After(op, FALSE)["upsert"] = "rest" /\ After(op, FALSE)["deleteRecord"] = "rest"
      BY <1>5, Onto
    <2> QED
      BY <2>1, <2>2, <2>3, Runs1
  <1> QED
    BY <1>1, <1>2, <1>3, <1>4, <1>5 DEF Procedures

LEMMA FailureRuns ==
    ASSUME NEW c, Changes(c)
    PROVE  /\ Runs(After(call[c].op, FALSE), AfterFailure(c))
           /\ call[c].op = "add" => AfterFailure(c) # <<>> /\ Head(AfterFailure(c)) = "forget"
           /\ call[c].op = "move" => AfterFailure(c) # <<>> /\ Head(AfterFailure(c)) = "renameBack"
           /\ call[c].op \in {"remove", "resync"} => AfterFailure(c) = <<>>
  <1>1. CASE call[c].op = "add"
    <2>1. AfterFailure(c) = <<"forget">>
      BY <1>1 DEF AfterFailure
    <2>2. "forget" \in Steps /\ After(call[c].op, FALSE)["forget"] = "rest"
      BY <1>1, Onto DEF Steps
    <2>3. Runs(After(call[c].op, FALSE), <<"forget">>)
      BY <2>2, Runs1
    <2>4. <<"forget">> # <<>> /\ Head(<<"forget">>) = "forget"
      OBVIOUS
    <2> QED
      BY <1>1, <2>1, <2>3, <2>4
  <1>2. CASE call[c].op = "move"
    <2> DEFINE f == After(call[c].op, FALSE)
    <2>1. AfterFailure(c) = <<"renameBack", "resync", "find", "take", "read", "write">>
      BY <1>2, PublicationLast DEF AfterFailure, PublishSteps
    <2>2. call[c].op \in Changing
      BY DEF Changes
    <2>3. /\ f["renameBack"] = "resync" /\ f["resync"] = "find" /\ f["find"] = "take"
          /\ f["take"] = "read" /\ f["read"] = "write" /\ f["write"] = "rest"
      BY <1>2, <2>2, Onto
    <2> HIDE DEF f
    <2>4. /\ "renameBack" \in Steps /\ "resync" \in Steps /\ "find" \in Steps
          /\ "take" \in Steps /\ "read" \in Steps /\ "write" \in Steps
      BY DEF Steps
    <2>5. Runs(f, <<"renameBack", "resync", "find", "take", "read", "write">>)
      BY <2>3, <2>4, Runs6
    <2>6. AfterFailure(c) # <<>> /\ Head(AfterFailure(c)) = "renameBack"
      BY <2>1
    <2> QED
      BY <1>2, <2>1, <2>5, <2>6 DEF f
  <1>3. CASE call[c].op \in {"remove", "resync"}
    <2>1. AfterFailure(c) = <<>>
      BY <1>3 DEF AfterFailure
    <2>2. <<>> \in Seq(Steps) /\ Len(<<>>) = 0
      BY EmptySeq
    <2>3. \A f : Runs(f, <<>>)
      BY <2>2 DEF Runs
    <2> QED
      BY <1>3, <2>1, <2>3
  <1> QED
    BY <1>1, <1>2, <1>3 DEF Changes, Changing

LEMMA UndoingRuns ==
    ASSUME NEW op \in Changing
    PROVE  LET todo == <<"restore">> \o PublishSteps \o <<"failed">>
           IN  Runs(After(op, TRUE), todo) /\ todo # <<>> /\ Head(todo) = "restore"
  <1> DEFINE f == After(op, TRUE)
  <1>1. <<"restore">> \o PublishSteps \o <<"failed">> = <<"restore", "find", "take", "read", "write", "failed">>
    BY PublicationWithin DEF PublishSteps
  <1>2. /\ f["restore"] = "find" /\ f["find"] = "take" /\ f["take"] = "read"
        /\ f["read"] = "write" /\ f["write"] = "failed" /\ f["failed"] = "rest"
    BY Onto
  <1> HIDE DEF f
  <1>3. /\ "restore" \in Steps /\ "find" \in Steps /\ "take" \in Steps
        /\ "read" \in Steps /\ "write" \in Steps /\ "failed" \in Steps
    BY DEF Steps
  <1>4. Runs(f, <<"restore", "find", "take", "read", "write", "failed">>)
    BY <1>2, <1>3, Runs6
  <1>5. /\ <<"restore", "find", "take", "read", "write", "failed">> # <<>>
        /\ Head(<<"restore", "find", "take", "read", "write", "failed">>) = "restore"
    OBVIOUS
  <1> QED
    BY <1>1, <1>4, <1>5 DEF f

-----------------------------------------------------------------------------
(* Where a step of a procedure leads.                                       *)

\* c goes on with the request r at its step `next`.
Becomes(c, r, next) ==
    /\ Place(c)' = next /\ Course(c)'
    /\ next = "rest" => call'[c].op = "none"
    /\ next # "rest" =>
          /\ call'[c].op = r.op /\ call'[c].domain = r.domain /\ call'[c].host = r.host /\ call'[c].old = r.old
          /\ call'[c].previous = r.previous /\ call'[c].undoing = r.undoing

LEMMA SetBecomes ==
    ASSUME call \in [Clients -> Requests], NEW c \in Clients, NEW r, Set(c, r),
           r.op # "deleteZone", Runs(After(r.op, r.undoing), r.todo)
    PROVE  Becomes(c, r, IF r.todo = <<>> THEN "rest" ELSE Head(r.todo))
  <1>1. call'[c] = IF r.todo = <<>> THEN Rest ELSE r
    BY DEF Set
  <1>2. CASE r.todo = <<>>
    <2>1. call'[c] = Rest /\ Rest.todo = <<>> /\ Rest.op = "none"
      BY <1>1, <1>2, RestShape
    <2>2. Place(c)' = "rest" /\ Course(c)'
      BY <2>1 DEF Place, Course
    <2> QED
      BY <1>2, <2>1, <2>2 DEF Becomes
  <1>3. CASE r.todo # <<>>
    <2>1. call'[c] = r
      BY <1>1, <1>3
    <2>2. Place(c)' = Head(r.todo) /\ Course(c)'
      BY <1>3, <2>1 DEF Place, Course
    <2>3. Head(r.todo) # "rest"
      BY <1>3, TailRuns DEF Steps
    <2> QED
      BY <1>3, <2>1, <2>2, <2>3 DEF Becomes
  <1> QED
    BY <1>2, <1>3

LEMMA GoBecomes ==
    ASSUME Shape, NEW c \in Clients, Place(c) # "rest", NEW r \in Requests, r.todo = call[c].todo,
           r.op # "deleteZone", Runs(After(r.op, r.undoing), r.todo), Go(c, r)
    PROVE  Becomes(c, r, After(r.op, r.undoing)[Place(c)])
  <1>1. call[c].todo # <<>> /\ Place(c) = Head(call[c].todo) /\ call[c].todo \in Seq(Steps)
    BY Places DEF Path
  <1> DEFINE f == After(r.op, r.undoing)
             n == [r EXCEPT !.todo = Tail(@)]
  <1>2. /\ Runs(f, Tail(r.todo))
        /\ f[Place(c)] = IF Tail(r.todo) = <<>> THEN "rest" ELSE Head(Tail(r.todo))
    BY <1>1, TailRuns
  <1>3. /\ n.todo = Tail(r.todo) /\ n.op = r.op /\ n.domain = r.domain /\ n.host = r.host /\ n.old = r.old
        /\ n.previous = r.previous /\ n.undoing = r.undoing
    BY DEF Requests
  <1>4. Set(c, n)
    BY DEF Go
  <1>5. call \in [Clients -> Requests]
    BY DEF Shape
  <1> HIDE DEF n
  <1>6. Becomes(c, n, IF n.todo = <<>> THEN "rest" ELSE Head(n.todo))
    BY <1>2, <1>3, <1>4, <1>5, SetBecomes
  <1>7. Becomes(c, n, f[Place(c)])
    BY <1>2, <1>3, <1>6
  <1> QED
    BY <1>3, <1>7 DEF Becomes

LEMMA JumpBecomes ==
    ASSUME Shape, NEW c \in Clients, call[c].op # "deleteZone", NEW todo, Runs(After(call[c].op, call[c].undoing), todo),
           Jump(c, todo)
    PROVE  Becomes(c, call[c], IF todo = <<>> THEN "rest" ELSE Head(todo))
  <1> DEFINE n == [call[c] EXCEPT !.todo = todo]
  <1>1. call \in [Clients -> Requests] /\ call[c] \in Requests
    BY DEF Shape
  <1>2. /\ n.todo = todo /\ n.op = call[c].op /\ n.domain = call[c].domain /\ n.host = call[c].host /\ n.old = call[c].old
        /\ n.previous = call[c].previous /\ n.undoing = call[c].undoing
    BY <1>1 DEF Requests
  <1>3. Set(c, n)
    BY DEF Jump
  <1> HIDE DEF n
  <1>4. Becomes(c, n, IF n.todo = <<>> THEN "rest" ELSE Head(n.todo))
    BY <1>1, <1>2, <1>3, SetBecomes
  <1> QED
    BY <1>2, <1>4 DEF Becomes

LEMMA StopBecomes ==
    ASSUME Shape, NEW c \in Clients, Jump(c, <<>>)
    PROVE  Place(c)' = "rest" /\ Course(c)' /\ call'[c].op = "none"
  <1>1. call'[c] = Rest
    BY DEF Jump, Set, Shape, Requests
  <1> QED
    BY <1>1, RestShape DEF Place, Course

\* Where a procedure is, it has come to.
LEMMA Whereabouts ==
    ASSUME Shape, NEW c \in Clients, Course(c), Place(c) # "rest", call[c].op # "deleteZone"
    PROVE  /\ call[c] \in Requests /\ call[c].undoing \in BOOLEAN /\ Place(c) \in Steps
           /\ Runs(After(call[c].op, call[c].undoing), call[c].todo)
           /\ After(call[c].op, call[c].undoing)[Place(c)] # "nowhere"
  <1>1. call[c] \in Requests /\ call[c].todo # <<>> /\ Place(c) = Head(call[c].todo)
    BY Places
  <1>2. Runs(After(call[c].op, call[c].undoing), call[c].todo)
    BY <1>1 DEF Course
  <1>3. Place(c) \in Steps /\ After(call[c].op, call[c].undoing)[Place(c)] \in Steps \cup {"rest"}
    BY <1>1, <1>2, TailRuns
  <1>4. "nowhere" \notin Steps \cup {"rest"}
    BY DEF Steps
  <1> QED
    BY <1>1, <1>2, <1>3, <1>4 DEF Requests

LEMMA ContinueBecomes ==
    ASSUME Shape, NEW c \in Clients, Course(c), Place(c) # "rest", call[c].op # "deleteZone", Continue(c)
    PROVE  Becomes(c, call[c], After(call[c].op, call[c].undoing)[Place(c)])
  BY Whereabouts, GoBecomes DEF Continue

-----------------------------------------------------------------------------
(* What a step leaves standing.                                             *)

\* Only d, the domain that c changes, is touched, and what c is about stays sound.
Kept(c, d) ==
    /\ Course(c)'
    /\ \A e \in Domains : ~ (Changes(c) /\ e = d) => hosts'[e] = hosts[e] /\ Linked(e)' = Linked(e)
    /\ Changes(c) => hosts'[d] \in {hosts[d], NoHost} \/ ~ Taken(c, hosts'[d])
    /\ Changes(c)' =>
          /\ Changes(c) /\ call'[c].domain = d /\ call'[c].old = call[c].old /\ Sound(c)'
          /\ call'[c].op = "move" => call[c].op = "move"
    /\ Changes(c) /\ ~ Changes(c)' => Tidy(d)'

\* Clients before a step that changes a domain, at one of the places it is sound at.
LEMMA Changer ==
    ASSUME Shape, Standing, NEW c \in Clients,
           Place(c) \in {"insert", "rename", "sync", "resync", "unlink", "dropDomain", "forget", "renameBack", "restore", "failed"}
    PROVE  /\ Changes(c) /\ Sound(c) /\ Course(c) /\ call[c].op # "deleteZone" /\ call[c].domain \in Domains
           /\ hosts \in [Domains -> Names]
  <1>1. Course(c) /\ (Changes(c) => Sound(c))
    BY DEF Standing
  <1>2. call[c].op # "deleteZone"
    BY HeadFollows DEF Follows, Guarded
  <1>3. After(call[c].op, call[c].undoing)[Place(c)] # "nowhere" /\ Place(c) \in Steps /\ call[c].undoing \in BOOLEAN
    BY <1>1, <1>2, Whereabouts
  <1>4. Changes(c)
    BY <1>3, Onward DEF Changes, Changing
  <1> QED
    BY <1>1, <1>2, <1>4 DEF Sound, Shape

LEMMA ClaimKept ==
    ASSUME Shape, Standing, NEW c \in Clients, NEW d, d = call[c].domain, ClaimHost(c)
    PROVE  Kept(c, d)
  <1>1. Place(c) \in {"insert", "rename"} /\ Place(c) # "rest" /\ records' = records
    BY AtPlace DEF ClaimHost
  <1>2. Changes(c) /\ Sound(c) /\ Course(c) /\ call[c].op # "deleteZone" /\ d \in Domains /\ hosts \in [Domains -> Names]
    BY <1>1, Changer
  <1>3. call[c].op \in {"add", "move"} /\ After(call[c].op, call[c].undoing)[Place(c)] = "sync" /\ ~ call[c].undoing
    BY <1>1, <1>2, Whereabouts, Onward DEF Sound
  <1>4. hosts[d] = call[c].old /\ Linked(d) = Found(c)
    BY <1>1, <1>2 DEF Sound
  <1>5. \A e : Linked(e)' = Linked(e)
    BY <1>1 DEF Linked
  <1>6. CASE Taken(c, call[c].host)
    <2>1. hosts' = hosts /\ Jump(c, <<>>)
      BY <1>6 DEF ClaimHost
    <2>2. Course(c)' /\ ~ Changes(c)'
      BY <2>1, StopBecomes DEF Changes, Changing
    <2>3. Tidy(d)'
      BY <1>4, <1>5, <2>1 DEF Tidy, Found
    <2> QED
      BY <1>2, <1>5, <2>1, <2>2, <2>3 DEF Kept
  <1>7. CASE ~ Taken(c, call[c].host)
    <2>1. hosts' = [hosts EXCEPT ![d] = call[c].host] /\ Continue(c)
      BY <1>7 DEF ClaimHost
    <2>2. Becomes(c, call[c], "sync")
      BY <1>1, <1>2, <1>3, <2>1, ContinueBecomes
    <2>3. hosts'[d] = call[c].host /\ \A e \in Domains \ {d} : hosts'[e] = hosts[e]
      BY <1>2, <2>1
    <2>4. Sound(c)'
      BY <1>2, <1>3, <1>4, <1>5, <2>2, <2>3 DEF Sound, Becomes, Found, Publishing
    <2> QED
      BY <1>2, <1>5, <1>7, <2>2, <2>3, <2>4 DEF Kept, Becomes, Changes
  <1> QED
    BY <1>6, <1>7

LEMMA SyncKept ==
    ASSUME Shape, zone.exists, Standing, NEW c \in Clients, NEW d, d = call[c].domain, Sync(c)
    PROVE  Kept(c, d)
  <1>1. Place(c) \in {"sync", "resync"} /\ Place(c) # "rest" /\ hosts' = hosts
    BY AtPlace DEF Sync
  <1>2. Changes(c) /\ Sound(c) /\ Course(c) /\ call[c].op # "deleteZone" /\ d \in Domains /\ hosts \in [Domains -> Names]
    BY <1>1, Changer
  <1>3. /\ call[c].op \in {"add", "move"} /\ After(call[c].op, call[c].undoing)[Place(c)] = "find" /\ ~ call[c].undoing
        /\ Place(c) = "resync" => call[c].op = "move"
        /\ call[c] \in Requests /\ Runs(After(call[c].op, call[c].undoing), call[c].todo)
    BY <1>1, <1>2, Whereabouts, Onward DEF Sound
  <1>4. /\ Linked(d) = Found(c)
        /\ Place(c) = "sync" => hosts[d] = call[c].host
        /\ Place(c) = "resync" => hosts[d] = call[c].old
    BY <1>1, <1>2 DEF Sound
  <1>5. At(c, "resync") <=> Place(c) = "resync"
    BY <1>1, Places, AtPlace DEF At, Place
  <1> DEFINE refused == ~ zone.exists \/ \E r \in records : r.host = hosts[d] /\ r.by # d
  <1>6. CASE refused
    <2>1. records' = records /\ Jump(c, IF At(c, "resync") THEN <<>> ELSE AfterFailure(c))
      BY <1>6 DEF Sync
    <2>2. \A e : Linked(e)' = Linked(e)
      BY <2>1 DEF Linked
    <2>3. CASE At(c, "resync")
      <3>1. Course(c)' /\ ~ Changes(c)'
        BY <2>1, <2>3, StopBecomes DEF Changes, Changing
      <3>2. Tidy(d)'
        BY <1>1, <1>4, <1>5, <2>2, <2>3 DEF Tidy, Found
      <3> QED
        BY <1>1, <1>2, <2>2, <3>1, <3>2 DEF Kept
    <2>4. CASE ~ At(c, "resync")
      <3>1. /\ Runs(After(call[c].op, FALSE), AfterFailure(c)) /\ AfterFailure(c) # <<>>
            /\ Head(AfterFailure(c)) = IF call[c].op = "add" THEN "forget" ELSE "renameBack"
        BY <1>2, <1>3, FailureRuns
      <3>2. call[c].undoing = FALSE
        BY <1>3 DEF Requests
      <3>3. Becomes(c, call[c], IF call[c].op = "add" THEN "forget" ELSE "renameBack")
        <4>1. Becomes(c, call[c], IF AfterFailure(c) = <<>> THEN "rest" ELSE Head(AfterFailure(c)))
          BY <1>2, <2>1, <2>4, <3>1, <3>2, JumpBecomes
        <4> QED
          BY <3>1, <4>1
      <3>4. Sound(c)'
        BY <1>1, <1>2, <1>3, <1>4, <1>5, <2>2, <2>4, <3>3 DEF Sound, Becomes, Found, Publishing
      <3> QED
        BY <1>1, <1>2, <1>3, <2>2, <3>3, <3>4 DEF Kept, Becomes, Changes
    <2> QED
      BY <2>3, <2>4
  <1>7. CASE ~ refused
    <2> DEFINE next == [call[c] EXCEPT !.previous = Linked(d), !.undoing = FALSE,
                                       !.op = IF At(c, "resync") THEN "resync" ELSE @]
    <2>1. records' = (records \ Linked(d)) \cup {Address(d, hosts[d])} /\ Go(c, next)
      BY <1>7 DEF Sync
    <2>2. /\ next \in Requests /\ next.todo = call[c].todo /\ next.undoing = FALSE /\ next.previous = Linked(d)
          /\ next.op = (IF At(c, "resync") THEN "resync" ELSE call[c].op)
          /\ next.domain = call[c].domain /\ next.host = call[c].host /\ next.old = call[c].old
      <3>1. Linked(d) \subseteq Records
        BY DEF Linked, Shape
      <3> QED
        BY <1>3, <3>1 DEF Requests
    <2> HIDE DEF next
    <2>3. After(next.op, next.undoing) = After(call[c].op, call[c].undoing) /\ next.op # "deleteZone"
      <3>1. call[c].undoing = FALSE
        BY <1>3 DEF Requests
      <3>2. CASE At(c, "resync")
        <4>1. call[c].op = "move" /\ next.op = "resync"
          BY <1>3, <1>5, <2>2, <3>2
        <4> QED
          BY <2>2, <3>1, <4>1, SameCourse
      <3>3. CASE ~ At(c, "resync")
        BY <1>2, <2>2, <3>1, <3>3
      <3> QED
        BY <3>2, <3>3
    <2>4. Becomes(c, next, "find")
      <3>1. Runs(After(next.op, next.undoing), next.todo)
        BY <1>3, <2>2, <2>3
      <3>2. Becomes(c, next, After(next.op, next.undoing)[Place(c)])
        BY <1>1, <2>1, <2>2, <2>3, <3>1, GoBecomes
      <3> QED
        BY <1>3, <2>3, <3>2
    <2>5. Linked(d)' = {Address(d, hosts[d])} /\ \A e \in Domains \ {d} : Linked(e)' = Linked(e)
      <3>1. Address(d, hosts[d]).by = d
        BY DEF Address
      <3>2. \A r : r \in records' <=> (r \in records /\ r.by # d) \/ r = Address(d, hosts[d])
        BY <2>1 DEF Linked
      <3> QED
        BY <3>1, <3>2 DEF Linked
    <2>6. hosts[d] # NoHost /\ Linked(d)' = Ours(d, hosts[d])
      BY <1>2, <1>3, <1>4, <1>1, <2>5 DEF Sound, Ours
    <2>7. Sound(c)'
      <3>1. CASE Place(c) = "sync"
        <4>1. call'[c].op = call[c].op
          BY <1>5, <2>2, <2>4, <3>1 DEF Becomes
        <4> QED
          BY <1>1, <1>2, <1>3, <1>4, <2>2, <2>4, <2>6, <3>1, <4>1 DEF Sound, Becomes, Found, Wanted, Target, Publishing
      <3>2. CASE Place(c) = "resync"
        <4>1. call'[c].op = "resync" /\ call[c].op = "move"
          BY <1>3, <1>5, <2>2, <2>4, <3>2 DEF Becomes
        <4> QED
          BY <1>1, <1>2, <1>3, <1>4, <2>2, <2>4, <2>6, <3>2, <4>1 DEF Sound, Becomes, Found, Wanted, Target, Publishing
      <3> QED
        BY <1>1, <3>1, <3>2
    <2>8. /\ call'[c].op \in {call[c].op, "resync"} /\ call'[c].domain = d /\ call'[c].old = call[c].old
          /\ Changes(c)' /\ Course(c)'
      BY <1>2, <2>2, <2>4 DEF Becomes, Changes, Changing
    <2> QED
      BY <1>1, <1>2, <2>5, <2>7, <2>8 DEF Kept
  <1> QED
    BY <1>6, <1>7

LEMMA UnlinkKept ==
    ASSUME Shape, Standing, NEW c \in Clients, NEW d, d = call[c].domain, Unlink(c)
    PROVE  Kept(c, d)
  <1>1. Place(c) = "unlink" /\ Place(c) # "rest" /\ hosts' = hosts /\ records' = records \ Linked(d)
    BY AtPlace DEF Unlink
  <1>2. Changes(c) /\ Sound(c) /\ Course(c) /\ call[c].op # "deleteZone" /\ d \in Domains /\ hosts \in [Domains -> Names]
    BY <1>1, Changer
  <1>3. /\ call[c].op = "remove" /\ After(call[c].op, call[c].undoing)[Place(c)] = "find" /\ ~ call[c].undoing
        /\ call[c] \in Requests /\ Runs(After(call[c].op, call[c].undoing), call[c].todo)
    BY <1>1, <1>2, Whereabouts, Onward
  <1>4. Linked(d) = Found(c) /\ hosts[d] = call[c].old /\ call[c].old # NoHost
    BY <1>1, <1>2, <1>3 DEF Sound
  <1>5. Linked(d) # {}
    BY <1>4 DEF Found, Ours
  <1> DEFINE next == [call[c] EXCEPT !.previous = Linked(d)]
  <1>6. Go(c, next)
    BY <1>5 DEF Unlink
  <1>7. /\ next \in Requests /\ next.todo = call[c].todo /\ next.undoing = call[c].undoing /\ next.previous = Linked(d)
        /\ next.op = call[c].op /\ next.domain = call[c].domain /\ next.host = call[c].host /\ next.old = call[c].old
    <2>1. Linked(d) \subseteq Records
      BY DEF Linked, Shape
    <2> QED
      BY <1>3, <2>1 DEF Requests
  <1> HIDE DEF next
  <1>8. Becomes(c, next, "find")
    <2>1. Becomes(c, next, After(next.op, next.undoing)[Place(c)])
      BY <1>1, <1>2, <1>3, <1>6, <1>7, GoBecomes
    <2> QED
      BY <1>3, <1>7, <2>1
  <1>9. Linked(d)' = {} /\ \A e \in Domains \ {d} : Linked(e)' = Linked(e)
    BY <1>1 DEF Linked
  <1>10. Sound(c)'
    BY <1>1, <1>2, <1>3, <1>4, <1>7, <1>8, <1>9 DEF Sound, Becomes, Found, Wanted, Target, Publishing
  <1> QED
    BY <1>1, <1>2, <1>7, <1>8, <1>9, <1>10 DEF Kept, Becomes, Changes

\* The records of the other domains are where their domains are, or where a mover
\* is leaving.
LEMMA RecordsAtHosts ==
    ASSUME Shape, Standing, NEW r \in records, NEW e \in Domains, r.by = e
    PROVE  \/ r.host = hosts[e]
           \/ \E b \in Clients : call[b].op = "move" /\ call[b].domain = e /\ r.host = call[b].old
  <1>1. r \in Linked(e)
    BY DEF Linked
  <1>2. \A h : r \in Ours(e, h) => r.host = h /\ h # NoHost
    BY DEF Ours, Address
  <1>3. CASE \A c \in Clients : Changes(c) => call[c].domain # e
    BY <1>1, <1>2, <1>3 DEF Standing, Tidy
  <1>4. CASE ~ \A c \in Clients : Changes(c) => call[c].domain # e
    <2>1. PICK b \in Clients : Changes(b) /\ call[b].domain = e
      BY <1>4
    <2>2. Sound(b) /\ Course(b) /\ call[b].op # "deleteZone" /\ call[b].op # "none"
      BY <2>1 DEF Standing, Changes, Changing
    <2>3. CASE Place(b) = "rest"
      BY <1>1, <1>2, <2>1, <2>2, <2>3 DEF Sound
    <2>4. CASE Place(b) # "rest"
      <3>1. /\ Place(b) \in Steps /\ call[b].undoing \in BOOLEAN
            /\ After(call[b].op, call[b].undoing)[Place(b)] # "nowhere"
        BY <2>2, <2>4, Whereabouts
      <3>2. CASE Place(b) \in {"insert", "rename", "unlink", "resync"}
        BY <1>1, <1>2, <2>1, <2>2, <3>2 DEF Sound, Found
      <3>3. CASE Place(b) \in {"sync", "forget", "renameBack"}
        <4>1. call[b].op \in {"add", "move"}
          BY <2>2, <3>1, <3>3, Onward DEF Sound
        <4>2. r.host = call[b].old /\ call[b].old # NoHost
          BY <1>1, <1>2, <2>1, <2>2, <3>3 DEF Sound, Found
        <4> QED
          BY <2>1, <2>2, <4>1, <4>2 DEF Sound
      <3>4. CASE Place(b) \in {"restore", "dropDomain"} \/ (Place(b) \in Publishing /\ ~ call[b].undoing)
        <4>1. hosts[e] = Target(b) /\ Linked(e) = Wanted(b)
          BY <2>1, <2>2, <3>4 DEF Sound
        <4> QED
          BY <1>1, <1>2, <2>1, <4>1 DEF Wanted
      <3>5. CASE Place(b) = "failed" \/ (Place(b) \in Publishing /\ call[b].undoing)
        <4>1. hosts[e] = Target(b) /\ Linked(e) = Found(b)
          BY <2>1, <2>2, <3>5 DEF Sound
        <4>2. r.host = call[b].old /\ call[b].old # NoHost
          BY <1>1, <1>2, <2>1, <4>1 DEF Found
        <4>3. call[b].op # "add"
          BY <2>2, <4>2 DEF Sound
        <4> QED
          BY <2>1, <4>1, <4>2, <4>3 DEF Target
      <3> QED
        BY <2>1, <3>1, <3>2, <3>3, <3>4, <3>5, Onward DEF Changes, Steps, Publishing
    <2> QED
      BY <2>3, <2>4
  <1> QED
    BY <1>3, <1>4

\* Taking a change back is not refused: no other record is where the old one was.
LEMMA RestoreKept ==
    ASSUME Shape, zone.exists, Standing, User \notin Domains, NEW c \in Clients, NEW d, d = call[c].domain, Restore(c)
    PROVE  Kept(c, d)
  <1>1. Place(c) = "restore" /\ Place(c) # "rest" /\ hosts' = hosts
    BY AtPlace DEF Restore
  <1>2. Changes(c) /\ Sound(c) /\ Course(c) /\ call[c].op # "deleteZone" /\ d \in Domains /\ hosts \in [Domains -> Names]
    BY <1>1, Changer
  <1>3. After(call[c].op, call[c].undoing)[Place(c)] = "find" /\ call[c].undoing
    BY <1>1, <1>2, Whereabouts, Onward
  <1>4. hosts[d] = Target(c) /\ call[c].previous = Found(c)
    BY <1>1, <1>2 DEF Sound
  <1>5. ASSUME NEW r \in OfDomains(records \ Linked(d)), NEW x \in call[c].previous
        PROVE  r.host # x.host
    <2>1. x.host = call[c].old /\ call[c].old # NoHost /\ call[c].op # "add"
      BY <1>2, <1>4, <1>5 DEF Found, Ours, Address, Sound
    <2>2. r \in records /\ r.by \in Domains /\ r.by # d
      BY <1>5 DEF OfDomains, Linked
    <2>3. PICK e \in Domains : r.by = e /\ e # d
      BY <2>2
    <2>4. call[c].op = "move" \/ hosts[d] = call[c].old
      BY <1>2, <1>4, <2>1 DEF Target, Changes, Changing
    <2>5. hosts[e] # call[c].old
      BY <1>2, <2>1, <2>3, <2>4 DEF Standing, Apiece
    <2>6. ASSUME NEW b \in Clients, call[b].op = "move", call[b].domain = e
          PROVE  call[b].old # call[c].old
      BY <1>2, <2>3, <2>4, <2>6 DEF Standing, Apiece
    <2> QED
      BY <2>1, <2>2, <2>3, <2>5, <2>6, RecordsAtHosts
  <1>6. records' = (records \ Linked(d)) \cup Found(c) /\ Continue(c)
    BY <1>4, <1>5 DEF Restore
  <1>7. Becomes(c, call[c], "find")
    BY <1>1, <1>2, <1>3, <1>6, ContinueBecomes
  <1>8. Linked(d)' = Found(c) /\ \A e \in Domains \ {d} : Linked(e)' = Linked(e)
    <2>1. \A r \in Found(c) : r.by = d
      BY DEF Found, Ours, Address
    <2>2. \A r : r \in records' <=> (r \in records /\ r.by # d) \/ r \in Found(c)
      BY <1>6 DEF Linked
    <2> QED
      BY <2>1, <2>2 DEF Linked
  <1>9. Sound(c)'
    BY <1>1, <1>2, <1>3, <1>4, <1>7, <1>8 DEF Sound, Becomes, Found, Target, Publishing
  <1> QED
    BY <1>1, <1>2, <1>7, <1>8, <1>9 DEF Kept, Becomes, Changes

LEMMA ForgetKept ==
    ASSUME Shape, Standing, NEW c \in Clients, NEW d, d = call[c].domain, Forget(c)
    PROVE  Kept(c, d)
  <1>1. Place(c) \in {"forget", "dropDomain"} /\ Place(c) # "rest" /\ records' = records /\ Continue(c)
    BY AtPlace DEF Forget
  <1>2. Changes(c) /\ Sound(c) /\ Course(c) /\ call[c].op # "deleteZone" /\ d \in Domains /\ hosts \in [Domains -> Names]
    BY <1>1, Changer
  <1>3. /\ After(call[c].op, call[c].undoing)[Place(c)] = "rest"
        /\ Place(c) = "forget" => call[c].op = "add"
        /\ Place(c) = "dropDomain" => call[c].op = "remove"
    BY <1>1, <1>2, Whereabouts, Onward
  <1>4. Becomes(c, call[c], "rest")
    BY <1>1, <1>2, <1>3, ContinueBecomes
  <1>5. hosts'[d] = NoHost /\ \A e \in Domains \ {d} : hosts'[e] = hosts[e]
    BY <1>2 DEF Forget
  <1>6. \A e : Linked(e)' = Linked(e)
    BY <1>1 DEF Linked
  <1>7. Linked(d) = {}
    BY <1>1, <1>2, <1>3 DEF Sound, Found, Wanted, Ours
  <1>8. Tidy(d)'
    BY <1>5, <1>6, <1>7 DEF Tidy, Ours
  <1> QED
    BY <1>2, <1>4, <1>5, <1>6, <1>8 DEF Kept, Becomes, Changes, Changing

\* The old host has stayed free.
LEMMA RenameBackKept ==
    ASSUME Shape, Standing, NEW c \in Clients, NEW d, d = call[c].domain, RenameBack(c)
    PROVE  Kept(c, d)
  <1>1. Place(c) = "renameBack" /\ Place(c) # "rest" /\ records' = records
    BY AtPlace DEF RenameBack
  <1>2. Changes(c) /\ Sound(c) /\ Course(c) /\ call[c].op # "deleteZone" /\ d \in Domains /\ hosts \in [Domains -> Names]
    BY <1>1, Changer
  <1>3. call[c].op = "move" /\ After(call[c].op, call[c].undoing)[Place(c)] = "resync" /\ ~ call[c].undoing
    BY <1>1, <1>2, Whereabouts, Onward DEF Sound
  <1>4. hosts[d] = call[c].host /\ Linked(d) = Found(c) /\ call[c].host # call[c].old
    BY <1>1, <1>2, <1>3 DEF Sound
  <1>5. ~ Claimed(call[c].old)
    BY <1>3, <1>4 DEF Claimed, Standing, Apiece
  <1>6. hosts' = [hosts EXCEPT ![d] = call[c].old] /\ Continue(c)
    BY <1>5 DEF RenameBack
  <1>7. Becomes(c, call[c], "resync")
    BY <1>1, <1>2, <1>3, <1>6, ContinueBecomes
  <1>8. hosts'[d] = call[c].old /\ \A e \in Domains \ {d} : hosts'[e] = hosts[e]
    BY <1>2, <1>6
  <1>9. \A e : Linked(e)' = Linked(e)
    BY <1>1 DEF Linked
  <1>10. Sound(c)'
    BY <1>2, <1>3, <1>4, <1>7, <1>8, <1>9 DEF Sound, Becomes, Found, Publishing
  <1>11. ~ Taken(c, call[c].old)
    BY <1>3, <1>5 DEF Taken, Standing, Apiece
  <1> QED
    BY <1>2, <1>7, <1>8, <1>9, <1>10, <1>11 DEF Kept, Becomes, Changes

LEMMA ByHandKept ==
    ASSUME Shape, Standing, User \notin Domains, NEW c \in Clients, NEW d, d = call[c].domain,
           UpsertRecord(c) \/ DeleteRecord(c)
    PROVE  Kept(c, d)
  <1>1. Place(c) \in {"upsert", "deleteRecord"} /\ Place(c) # "rest" /\ hosts' = hosts /\ Continue(c)
    BY AtPlace DEF UpsertRecord, DeleteRecord
  <1>2. Course(c) /\ call[c].op # "deleteZone"
    BY <1>1, HeadFollows DEF Standing, Follows, Guarded
  <1>3. After(call[c].op, call[c].undoing)[Place(c)] = "rest" /\ ~ Changes(c)
    BY <1>1, <1>2, Whereabouts, Onward DEF Changes
  <1>4. Becomes(c, call[c], "rest")
    BY <1>1, <1>2, <1>3, ContinueBecomes
  <1>5. \A r \in (records' \ records) \cup (records \ records') : r.by = User
    BY DEF UpsertRecord, DeleteRecord
  <1>6. \A e \in Domains : Linked(e)' = Linked(e)
    BY <1>5 DEF Linked
  <1> QED
    BY <1>1, <1>3, <1>4, <1>6 DEF Kept, Becomes, Changes, Changing

LEMMA CallerKept ==
    ASSUME Shape, Standing, NEW c \in Clients, NEW d, d = call[c].domain, Changes(c), UNCHANGED <<hosts, records>>,
           hosts[d] = Target(c), Linked(d) = Found(c),
           Set(c, [call[c] EXCEPT !.todo = AfterFailure(c), !.undoing = FALSE])
    PROVE  Kept(c, d)
  <1> DEFINE next == [call[c] EXCEPT !.todo = AfterFailure(c), !.undoing = FALSE]
  <1>1. Sound(c) /\ call[c] \in Requests /\ call \in [Clients -> Requests] /\ call[c].op # "deleteZone"
    BY DEF Standing, Shape, Changes, Changing
  <1>2. /\ next.todo = AfterFailure(c) /\ next.undoing = FALSE /\ next.previous = call[c].previous
        /\ next.op = call[c].op /\ next.domain = call[c].domain /\ next.host = call[c].host /\ next.old = call[c].old
    BY <1>1 DEF Requests
  <1>3. Set(c, next)
    OBVIOUS
  <1> HIDE DEF next
  <1>4. Becomes(c, next, IF next.todo = <<>> THEN "rest" ELSE Head(next.todo))
    BY <1>1, <1>2, <1>3, FailureRuns, SetBecomes
  <1>5. \A e : Linked(e)' = Linked(e)
    BY DEF Linked
  <1>6. CASE call[c].op = "add"
    <2>1. Becomes(c, next, "forget")
      BY <1>2, <1>4, <1>6, FailureRuns
    <2>2. Sound(c)'
      BY <1>1, <1>2, <1>5, <1>6, <2>1 DEF Sound, Becomes, Found, Target, Publishing
    <2> QED
      BY <1>2, <1>5, <2>1, <2>2 DEF Kept, Becomes, Changes
  <1>7. CASE call[c].op = "move"
    <2>1. Becomes(c, next, "renameBack")
      BY <1>2, <1>4, <1>7, FailureRuns
    <2>2. Sound(c)'
      BY <1>1, <1>2, <1>5, <1>7, <2>1 DEF Sound, Becomes, Found, Target, Publishing
    <2> QED
      BY <1>2, <1>5, <2>1, <2>2 DEF Kept, Becomes, Changes
  <1>8. CASE call[c].op \in {"remove", "resync"}
    <2>1. Becomes(c, next, "rest")
      BY <1>2, <1>4, <1>8, FailureRuns
    <2>2. hosts[d] = call[c].old
      BY <1>8 DEF Target
    <2>3. Tidy(d)'
      BY <1>5, <2>2 DEF Tidy, Found
    <2> QED
      BY <1>5, <2>1, <2>3 DEF Kept, Becomes, Changes, Changing
  <1> QED
    BY <1>6, <1>7, <1>8 DEF Changes, Changing

LEMMA FailedKept ==
    ASSUME Shape, Standing, NEW c \in Clients, NEW d, d = call[c].domain, Failed(c)
    PROVE  Kept(c, d)
  <1>1. Place(c) = "failed" /\ Place(c) # "rest" /\ UNCHANGED <<hosts, records>>
    BY AtPlace DEF Failed
  <1>2. Changes(c) /\ Sound(c)
    BY <1>1, Changer
  <1>3. hosts[d] = Target(c) /\ Linked(d) = Found(c)
    BY <1>1, <1>2 DEF Sound
  <1> QED
    BY <1>1, <1>2, <1>3, CallerKept DEF Failed

LEMMA FailPublishKept ==
    ASSUME Shape, Standing, NEW c \in Clients, NEW d, d = call[c].domain, UNCHANGED <<hosts, records>>,
           Place(c) \in Publishing, call[c].op # "deleteZone", FailPublish(c)
    PROVE  Kept(c, d)
  <1>1. Course(c) /\ (Changes(c) => Sound(c)) /\ Place(c) # "rest" /\ call \in [Clients -> Requests]
    BY DEF Standing, Publishing, Shape
  <1>2. /\ call[c] \in Requests /\ call[c].undoing \in BOOLEAN
        /\ Changes(c) \/ (call[c].op = "publish" /\ ~ call[c].undoing)
    BY <1>1, Whereabouts, Onward DEF Changes
  <1>3. \A e : Linked(e)' = Linked(e)
    BY DEF Linked
  <1>4. CASE call[c].op = "publish" /\ ~ call[c].undoing
    <2>1. Course(c)' /\ ~ Changes(c)'
      BY <1>4, StopBecomes DEF FailPublish, Changes, Changing
    <2>2. ~ Changes(c)
      BY <1>4 DEF Changes, Changing
    <2> QED
      BY <1>3, <2>1, <2>2 DEF Kept
  <1>5. CASE Changes(c) /\ call[c].undoing
    <2>1. hosts[d] = Target(c) /\ Linked(d) = Found(c)
      BY <1>1, <1>5 DEF Sound
    <2> QED
      BY <1>5, <2>1, CallerKept DEF FailPublish
  <1>6. CASE Changes(c) /\ ~ call[c].undoing
    <2> DEFINE todo == <<"restore">> \o PublishSteps \o <<"failed">>
               next == [call[c] EXCEPT !.todo = todo, !.undoing = TRUE]
    <2>1. Set(c, next)
      BY <1>6 DEF FailPublish, Changes, Changing
    <2>2. Runs(After(call[c].op, TRUE), todo) /\ todo # <<>> /\ Head(todo) = "restore"
      BY <1>6, UndoingRuns DEF Changes
    <2> HIDE DEF todo
    <2>3. /\ next.todo = todo /\ next.undoing = TRUE /\ next.previous = call[c].previous
          /\ next.op = call[c].op /\ next.domain = call[c].domain /\ next.host = call[c].host /\ next.old = call[c].old
      BY <1>2 DEF Requests
    <2> HIDE DEF next
    <2>4. Becomes(c, next, "restore")
      <3>1. Becomes(c, next, IF next.todo = <<>> THEN "rest" ELSE Head(next.todo))
        BY <1>1, <2>1, <2>2, <2>3, SetBecomes
      <3> QED
        BY <2>2, <2>3, <3>1
    <2>5. hosts[d] = Target(c) /\ Linked(d) = Wanted(c) /\ call[c].previous = Found(c)
      BY <1>1, <1>6 DEF Sound
    <2>6. Sound(c)'
      BY <1>1, <1>3, <1>6, <2>3, <2>4, <2>5 DEF Sound, Becomes, Found, Wanted, Target, Publishing
    <2> QED
      BY <1>3, <1>6, <2>3, <2>4, <2>6 DEF Kept, Becomes, Changes
  <1> QED
    BY <1>2, <1>4, <1>5, <1>6

\* A publication that goes on, and ends.
LEMMA PublishKept ==
    ASSUME Shape, Standing, NEW c \in Clients, NEW d, d = call[c].domain, UNCHANGED <<hosts, records>>,
           Place(c) \in Publishing, call[c].op # "deleteZone",
           Becomes(c, call[c], After(call[c].op, call[c].undoing)[Place(c)])
    PROVE  Kept(c, d)
  <1>1. Course(c) /\ (Changes(c) => Sound(c)) /\ Place(c) # "rest"
    BY DEF Standing, Publishing
  <1> DEFINE next == After(call[c].op, call[c].undoing)[Place(c)]
  <1>2. /\ Changes(c) \/ (call[c].op = "publish" /\ ~ call[c].undoing)
        /\ Place(c) = "find" => next = "take"
        /\ Place(c) = "take" => next = "read"
        /\ Place(c) = "read" => next = "write"
        /\ Place(c) = "write" => next = IF call[c].undoing THEN "failed" ELSE IF call[c].op = "remove" THEN "dropDomain" ELSE "rest"
    BY <1>1, Whereabouts, Onward DEF Changes
  <1>3. \A e : Linked(e)' = Linked(e)
    BY DEF Linked
  <1>4. Becomes(c, call[c], next)
    OBVIOUS
  <1> HIDE DEF next
  <1>5. CASE ~ Changes(c)
    BY <1>3, <1>4, <1>5 DEF Kept, Becomes, Changes, Changing
  <1>6. CASE Changes(c) /\ next = "rest"
    <2>1. Place(c) = "write" /\ ~ call[c].undoing /\ call[c].op # "remove"
      BY <1>2, <1>6 DEF Publishing
    <2>2. hosts[d] = Target(c) /\ Linked(d) = Wanted(c)
      BY <1>1, <1>6, <2>1 DEF Sound, Publishing
    <2>3. Tidy(d)'
      BY <1>3, <2>1, <2>2 DEF Tidy, Wanted
    <2> QED
      BY <1>3, <1>4, <1>6, <2>3 DEF Kept, Becomes, Changes, Changing
  <1>7. CASE Changes(c) /\ next # "rest"
    <2>1. next \in {"take", "read", "write"} \/ (next = "failed" /\ call[c].undoing) \/ (next = "dropDomain" /\ ~ call[c].undoing)
      BY <1>2, <1>7 DEF Publishing
    <2>2. Sound(c)'
      BY <1>1, <1>3, <1>4, <1>7, <2>1 DEF Sound, Becomes, Found, Wanted, Target, Publishing
    <2> QED
      BY <1>3, <1>4, <1>7, <2>2 DEF Kept, Becomes, Changes
  <1> QED
    BY <1>5, <1>6, <1>7

\* The deletion of a zone changes no domain.
LEMMA DeletionKept ==
    ASSUME Shape, NEW c \in Clients, NEW d, d = call[c].domain, UNCHANGED <<hosts, records>>,
           call[c].op = "deleteZone", NEW r, r.op = "deleteZone", Set(c, r)
    PROVE  Kept(c, d)
  <1>1. call'[c] = IF r.todo = <<>> THEN Rest ELSE r
    BY DEF Set, Shape
  <1>2. Course(c)' /\ call'[c].op \in {"none", "deleteZone"}
    BY <1>1, RestShape DEF Course
  <1>3. \A e : Linked(e)' = Linked(e)
    BY DEF Linked
  <1> QED
    BY <1>2, <1>3 DEF Kept, Changes, Changing

LEMMA PublicationKept ==
    ASSUME Shape, zone.exists, Standing, NEW c \in Clients, NEW d, d = call[c].domain,
           FindZone(c) \/ TakeLock(c) \/ ReadZone(c) \/ WriteFile(c) \/ CheckZone(c) \/ Unpublish(c)
    PROVE  Kept(c, d)
  <1>1. UNCHANGED <<hosts, records>> /\ Place(c) \in Publishing \cup {"check", "unpublish"} /\ Place(c) # "rest"
    BY AtPlace DEF FindZone, TakeLock, ReadZone, WriteFile, CheckZone, Unpublish, Publishing
  <1>2. call[c] \in Requests /\ Course(c)
    BY Places DEF Shape, Standing
  <1> DEFINE reading == [call[c] EXCEPT !.read = records]
  <1>3. /\ reading \in Requests /\ reading.todo = call[c].todo /\ reading.undoing = call[c].undoing
        /\ reading.previous = call[c].previous /\ reading.op = call[c].op /\ reading.domain = call[c].domain
        /\ reading.host = call[c].host /\ reading.old = call[c].old
    BY <1>2 DEF Requests, Shape
  <1>4. Continue(c) \/ Jump(c, <<>>) \/ FailPublish(c) \/ Go(c, reading)
    BY DEF FindZone, TakeLock, ReadZone, WriteFile, CheckZone, Unpublish
  <1> HIDE DEF reading
  <1>5. CASE call[c].op = "deleteZone"
    <2>1. AfterFailure(c) = <<>>
      BY <1>5 DEF AfterFailure
    <2>2. \E r : r.op = "deleteZone" /\ Set(c, r)
      <3>1. CASE Continue(c)
        <4>1. Set(c, [call[c] EXCEPT !.todo = Tail(@)]) /\ [call[c] EXCEPT !.todo = Tail(@)].op = "deleteZone"
          BY <1>2, <1>5, <3>1 DEF Continue, Go, Requests
        <4> QED
          BY <4>1
      <3>2. CASE Jump(c, <<>>)
        <4>1. Set(c, [call[c] EXCEPT !.todo = <<>>]) /\ [call[c] EXCEPT !.todo = <<>>].op = "deleteZone"
          BY <1>2, <1>5, <3>2 DEF Jump, Requests
        <4> QED
          BY <4>1
      <3>3. CASE FailPublish(c) /\ call[c].undoing
        <4> DEFINE next == [call[c] EXCEPT !.todo = AfterFailure(c), !.undoing = FALSE]
        <4>1. Set(c, next) /\ next.op = "deleteZone"
          BY <1>2, <1>5, <3>3 DEF FailPublish, Requests
        <4> HIDE DEF next
        <4> QED
          BY <4>1
      <3>4. CASE FailPublish(c) /\ ~ call[c].undoing
        <4>1. Set(c, [call[c] EXCEPT !.todo = <<>>]) /\ [call[c] EXCEPT !.todo = <<>>].op = "deleteZone"
          BY <1>2, <1>5, <3>4 DEF FailPublish, Jump, Requests
        <4> QED
          BY <4>1
      <3>5. CASE Go(c, reading)
        <4>1. Set(c, [reading EXCEPT !.todo = Tail(@)]) /\ [reading EXCEPT !.todo = Tail(@)].op = "deleteZone"
          BY <1>3, <1>5, <3>5 DEF Go, Requests
        <4> QED
          BY <4>1
      <3> QED
        BY <1>4, <3>1, <3>2, <3>3, <3>4, <3>5
    <2> QED
      BY <1>1, <1>5, <2>2, DeletionKept
  <1>6. CASE call[c].op # "deleteZone"
    <2>1. Place(c) \in Publishing
      BY <1>1, <1>2, <1>6, Whereabouts, Onward
    <2>2. Continue(c) \/ FailPublish(c) \/ Go(c, reading)
      <3>1. Place(c) # "check" /\ Place(c) # "unpublish"
        BY <2>1 DEF Publishing
      <3>2. ~ CheckZone(c) /\ ~ Unpublish(c)
        BY <3>1, AtPlace DEF CheckZone, Unpublish
      <3> QED
        BY <3>2 DEF FindZone, TakeLock, ReadZone, WriteFile, reading
    <2>3. CASE Continue(c)
      BY <1>1, <1>2, <1>6, <2>1, <2>3, ContinueBecomes, PublishKept
    <2>4. CASE FailPublish(c)
      BY <1>1, <1>6, <2>1, <2>4, FailPublishKept
    <2>5. CASE Go(c, reading)
      <3>1. Runs(After(call[c].op, call[c].undoing), call[c].todo)
        BY <1>1, <1>2, <1>6, Whereabouts
      <3>2. Becomes(c, reading, After(reading.op, reading.undoing)[Place(c)])
        BY <1>1, <1>3, <1>6, <2>5, <3>1, GoBecomes
      <3>3. Becomes(c, call[c], After(call[c].op, call[c].undoing)[Place(c)])
        BY <1>3, <3>2 DEF Becomes
      <3> QED
        BY <1>1, <1>6, <2>1, <3>3, PublishKept
    <2> QED
      BY <2>2, <2>3, <2>4, <2>5
  <1> QED
    BY <1>5, <1>6

\* What is kept still stands: the domains and the procedures of the others are
\* what they were, and a host that was free is now one domain's.
LEMMA KeptStands ==
    ASSUME Shape, ~ HandedOn, Standing, NEW c \in Clients, NEW d, d = call[c].domain, Others(c), Kept(c, d)
    PROVE  Standing'
  <1>1. \A b \in Clients \ {c} : call'[b] = call[b] /\ Place(b)' = Place(b)
    BY DEF Others
  <1>2. \A b \in Clients \ {c} : Course(b)' = Course(b) /\ Changes(b)' = Changes(b)
    BY <1>1 DEF Course, Changes
  <1>3. Changes(c)' => Changes(c) /\ call'[c].domain = d /\ call'[c].old = call[c].old
    BY DEF Kept
  <1>4. call'[c].op = "move" => Changes(c) /\ call[c].op = "move" /\ call'[c].domain = d /\ call'[c].old = call[c].old
    BY DEF Kept, Changes, Changing
  <1>5. \A e \in Domains : ~ (Changes(c) /\ e = d) => hosts'[e] = hosts[e] /\ Linked(e)' = Linked(e)
    BY DEF Kept
  <1>6. Apiece'
    <2>1. ASSUME NEW a \in Clients, NEW b \in Clients, a # b, Changes(a)', Changes(b)'
          PROVE  call'[a].domain # call'[b].domain
      BY <1>1, <1>2, <1>3, <2>1 DEF Standing, Apiece
    <2>2. ASSUME NEW e \in Domains, NEW g \in Domains, hosts'[e] = hosts'[g], hosts'[e] # NoHost
          PROVE  e = g
      <3>1. CASE hosts'[e] = hosts[e] /\ hosts'[g] = hosts[g]
        BY <2>2, <3>1 DEF Standing, Apiece
      <3>2. CASE Changes(c) /\ ~ Taken(c, hosts'[d]) /\ (e = d \/ g = d)
        <4>1. \A x \in Domains : hosts[x] # hosts'[d]
          BY <3>2 DEF Taken, Claimed
        <4> QED
          BY <1>5, <2>2, <3>2, <4>1
      <3> QED
        BY <1>5, <2>2, <3>1, <3>2 DEF Kept
    <2>3. ASSUME NEW b \in Clients, NEW e \in Domains, call'[b].op = "move", e # call'[b].domain
          PROVE  hosts'[e] # call'[b].old
      <3>1. /\ call[b].op = "move" /\ e # call[b].domain /\ call'[b].old = call[b].old
            /\ hosts[e] # call[b].old
        BY <1>1, <1>4, <2>3 DEF Standing, Apiece
      <3>2. CASE hosts'[e] = hosts[e]
        BY <3>1, <3>2
      <3>3. CASE hosts'[e] # hosts[e]
        <4>1. Changes(c) /\ e = d /\ b # c
          BY <1>4, <1>5, <2>3, <3>3
        <4>2. CASE hosts'[d] = NoHost
          <5>1. Changes(b) /\ Sound(b)
            BY <3>1 DEF Standing, Changes, Changing
          <5> QED
            BY <3>1, <4>1, <4>2, <5>1 DEF Sound
        <4>3. CASE ~ Taken(c, hosts'[d])
          BY <3>1, <4>1, <4>3 DEF Taken
        <4> QED
          BY <3>3, <4>1, <4>2, <4>3 DEF Kept
      <3> QED
        BY <3>2, <3>3
    <2>4. ASSUME NEW a \in Clients, NEW b \in Clients, a # b, call'[a].op = "move", call'[b].op = "move"
          PROVE  call'[a].old # call'[b].old
      BY <1>1, <1>4, <2>4 DEF Standing, Apiece
    <2> QED
      BY <2>1, <2>2, <2>3, <2>4 DEF Apiece
  <1>7. ASSUME NEW b \in Clients
        PROVE  Course(b)' /\ (Changes(b)' => Sound(b)')
    <2>1. CASE b = c
      BY <2>1 DEF Kept
    <2>2. CASE b # c
      <3>1. Course(b)'
        BY <1>2, <2>2 DEF Standing
      <3>2. ASSUME Changes(b)
            PROVE  Sound(b)'
        <4>1. Sound(b) /\ call[b].domain \in Domains /\ ~ (Changes(c) /\ call[b].domain = d)
          BY <2>2, <3>2 DEF Standing, Apiece, Sound
        <4>2. hosts'[call[b].domain] = hosts[call[b].domain] /\ call'[b] = call[b] /\ Place(b)' = Place(b)
          BY <1>1, <1>5, <2>2, <4>1
        <4>3. PICK e \in Domains : e = call[b].domain
          BY <4>1
        <4>4. Linked(e)' = Linked(e)
          BY <1>5, <4>1, <4>3
        <4> QED
          BY <4>1, <4>2, <4>3, <4>4 DEF Sound, Found, Wanted, Target
      <3> QED
        BY <1>2, <2>2, <3>1, <3>2
    <2> QED
      BY <2>1, <2>2
  <1>8. ASSUME NEW e \in Domains, \A b \in Clients : Changes(b)' => call'[b].domain # e
        PROVE  Tidy(e)'
    <2>1. CASE Changes(c) /\ e = d
      BY <1>3, <1>8, <2>1 DEF Kept
    <2>2. CASE ~ (Changes(c) /\ e = d)
      <3>1. \A b \in Clients : Changes(b) => call[b].domain # e
        BY <1>1, <1>2, <1>8, <2>2
      <3> QED
        BY <1>5, <2>2, <3>1 DEF Standing, Tidy
    <2> QED
      BY <2>1, <2>2
  <1> QED
    BY <1>6, <1>7, <1>8 DEF Standing

LEMMA FirstSteps ==
    ASSUME NEW op
    PROVE  /\ op = "add" => Head(Program(op)) = "insert"
           /\ op = "move" => Head(Program(op)) = "rename"
           /\ op = "remove" => Head(Program(op)) = "unlink"
  <1>1. ASSUME op = "add"
        PROVE  Head(Program(op)) = "insert"
    <2>1. Program(op) = <<"insert", "sync", "find", "take", "read", "write">>
      BY <1>1, PublicationLast DEF Program, PublishSteps
    <2> QED
      BY <2>1
  <1>2. ASSUME op = "move"
        PROVE  Head(Program(op)) = "rename"
    <2>1. Program(op) = <<"rename", "sync", "find", "take", "read", "write">>
      BY <1>2, PublicationLast DEF Program, PublishSteps
    <2> QED
      BY <2>1
  <1>3. ASSUME op = "remove"
        PROVE  Head(Program(op)) = "unlink"
    <2>1. Program(op) = <<"unlink", "find", "take", "read", "write", "dropDomain">>
      BY <1>3, PublicationWithin DEF Program, PublishSteps
    <2> QED
      BY <2>1
  <1> QED
    BY <1>1, <1>2, <1>3

LEMMA BeginStands ==
    ASSUME Constants, ~ HandedOn, NoHost \notin Hosts, Shape, Standing, NEW c \in Clients, Others(c), BeginCall(c)
    PROVE  Standing'
  <1>1. PICK op \in Operations, d \in Domains, h \in Hosts :
            /\ op \in Changing => \A q \in Clients : call[q].op \in Changing => call[q].domain # d
            /\ op \in {"add", "move"} => ~ Taken(c, h)
            /\ op = "add" <=> op \in Changing /\ hosts[d] = NoHost
            /\ Set(c, [Rest EXCEPT !.op = op, !.todo = Program(op), !.domain = d, !.host = h, !.old = hosts[d]])
    BY DEF BeginCall
  <1>2. call[c].todo = <<>> /\ hosts' = hosts /\ records' = records /\ op \in Procedures
    BY DEF BeginCall, Constants
  <1>3. Place(c) = "rest" /\ ~ Changes(c)
    BY <1>2 DEF Place, Standing, Sound
  <1> DEFINE r == [Rest EXCEPT !.op = op, !.todo = Program(op), !.domain = d, !.host = h, !.old = hosts[d]]
  <1>4. /\ r.op = op /\ r.todo = Program(op) /\ r.domain = d /\ r.host = h /\ r.old = hosts[d]
        /\ r.previous = {} /\ r.undoing = FALSE
    BY DEF Rest
  <1>5. Set(c, r)
    BY <1>1
  <1> HIDE DEF r
  <1>6. Program(op) # <<>>
    BY <1>2, Programs
  <1>7. call'[c] = r
    BY <1>4, <1>5, <1>6 DEF Set, Shape
  <1>8. Place(c)' = Head(Program(op)) /\ Course(c)'
    <2>1. Place(c)' = Head(Program(op))
      BY <1>4, <1>6, <1>7 DEF Place
    <2>2. Course(c)'
      BY <1>2, <1>4, <1>7, ProgramRuns DEF Course
    <2> QED
      BY <2>1, <2>2
  <1>9. \A b \in Clients \ {c} : call'[b] = call[b] /\ Place(b)' = Place(b)
    BY DEF Others
  <1>10. \A b \in Clients \ {c} : Course(b)' = Course(b) /\ Changes(b)' = Changes(b)
    BY <1>9 DEF Course, Changes
  <1>11. \A e : Linked(e)' = Linked(e)
    BY <1>2 DEF Linked
  <1>12. Changes(c)' => /\ op \in {"add", "move", "remove"}
                        /\ \A b \in Clients : Changes(b) => call[b].domain # d
    BY <1>1, <1>2, <1>4, <1>7 DEF Changes, Changing, Procedures
  <1>13. call'[c].op = "move" => Changes(c)' /\ hosts[d] # NoHost /\ call'[c].old = hosts[d] /\ call'[c].domain = d
    BY <1>1, <1>4, <1>7 DEF Changes, Changing
  <1>14. Apiece'
    <2>1. ASSUME NEW a \in Clients, NEW b \in Clients, a # b, Changes(a)', Changes(b)'
          PROVE  call'[a].domain # call'[b].domain
      BY <1>4, <1>7, <1>9, <1>10, <1>12, <2>1 DEF Standing, Apiece
    <2>2. ASSUME NEW b \in Clients, NEW e \in Domains, call'[b].op = "move", e # call'[b].domain
          PROVE  hosts'[e] # call'[b].old
      BY <1>2, <1>9, <1>13, <2>2 DEF Standing, Apiece
    <2>3. ASSUME NEW b \in Clients \ {c}, call'[b].op = "move", call'[c].op = "move"
          PROVE  call'[c].old # call'[b].old
      <3>1. call[b].op = "move" /\ call[b].domain # d
        BY <1>9, <1>12, <1>13, <2>3 DEF Changes, Changing
      <3> QED
        BY <1>9, <1>13, <2>3, <3>1 DEF Standing, Apiece
    <2>4. \A a, b \in Clients \ {c} : a # b /\ call'[a].op = "move" /\ call'[b].op = "move" => call'[a].old # call'[b].old
      BY <1>9 DEF Standing, Apiece
    <2> QED
      BY <1>2, <2>1, <2>2, <2>3, <2>4 DEF Apiece, Standing
  <1>15. ASSUME Changes(c)'
         PROVE  Sound(c)'
    <2>1. Linked(d) = Ours(d, hosts[d])
      BY <1>12, <1>15 DEF Standing, Tidy
    <2>2. Place(c)' \in {"insert", "rename", "unlink"} /\ op \in {"add", "move", "remove"}
      BY <1>8, <1>12, <1>15, FirstSteps
    <2>3. h # NoHost /\ (op = "move" => h # hosts[d])
      BY <1>1 DEF Taken, Claimed
    <2>4. op = "add" <=> hosts[d] = NoHost
      BY <1>1, <2>2 DEF Changing
    <2> QED
      BY <1>2, <1>4, <1>7, <1>11, <2>1, <2>2, <2>3, <2>4 DEF Sound, Found, Publishing
  <1>16. ASSUME NEW b \in Clients
         PROVE  Course(b)' /\ (Changes(b)' => Sound(b)')
    <2>1. CASE b = c
      BY <1>8, <1>15, <2>1
    <2>2. CASE b # c
      <3>1. Course(b)' /\ (Changes(b) => Sound(b))
        BY <1>10, <2>2 DEF Standing
      <3>2. call'[b] = call[b] /\ Place(b)' = Place(b)
        BY <1>9, <2>2
      <3>3. PICK e : e = call[b].domain
        OBVIOUS
      <3>4. Linked(e)' = Linked(e)
        BY <1>11
      <3> QED
        BY <1>2, <1>10, <2>2, <3>1, <3>2, <3>3, <3>4 DEF Sound, Found, Wanted, Target
    <2> QED
      BY <2>1, <2>2
  <1>17. ASSUME NEW e \in Domains, \A b \in Clients : Changes(b)' => call'[b].domain # e
         PROVE  Tidy(e)'
    <2>1. \A b \in Clients : Changes(b) => call[b].domain # e
      BY <1>3, <1>9, <1>10, <1>17
    <2> QED
      BY <1>2, <1>11, <2>1 DEF Standing, Tidy
  <1> QED
    BY <1>14, <1>16, <1>17 DEF Standing

LEMMA RecordsStep ==
    ASSUME Constants, ~ HandedOn, NoHost \notin Hosts, LockInv, RecordsInv, NEW c \in Clients, Procedure(c)
    PROVE  RecordsInv'
  <1>1. SUFFICES ASSUME zone'.exists
                 PROVE  Standing'
    BY DEF RecordsInv
  <1>2. Shape /\ Locked /\ Others(c)
    BY ShapeStep DEF LockInv
  <1>3. zone.exists /\ ~ DropZone(c)
    BY <1>1, <1>2, ZoneStays, DropTurn
  <1>4. Standing
    BY <1>3 DEF RecordsInv
  <1>5. PICK d : d = call[c].domain
    OBVIOUS
  <1>6. CASE BeginCall(c)
    BY <1>2, <1>4, <1>6, BeginStands
  <1>7. CASE ~ BeginCall(c)
    <2> SUFFICES Kept(c, d)
      BY <1>2, <1>4, <1>5, KeptStands
    <2>1. User \notin Domains
      BY DEF Constants
    <2>2. CASE ClaimHost(c) \/ Sync(c) \/ Unlink(c) \/ Restore(c) \/ Failed(c) \/ Forget(c) \/ RenameBack(c)
      BY <1>2, <1>3, <1>4, <1>5, <2>1, <2>2,
         ClaimKept, SyncKept, UnlinkKept, RestoreKept, FailedKept, ForgetKept, RenameBackKept
    <2>3. CASE UpsertRecord(c) \/ DeleteRecord(c)
      BY <1>2, <1>4, <1>5, <2>1, <2>3, ByHandKept
    <2>4. CASE FindZone(c) \/ TakeLock(c) \/ ReadZone(c) \/ WriteFile(c) \/ CheckZone(c) \/ Unpublish(c)
      BY <1>2, <1>3, <1>4, <1>5, <2>4, PublicationKept
    <2> QED
      BY <1>3, <1>7, <2>2, <2>3, <2>4 DEF Procedure
  <1> QED
    BY <1>6, <1>7

\* Whenever no procedure is under way, every domain has one record, at its own
\* host, however the procedures interleaved and whatever failed, timed out and was
\* taken back: if nobody may claim the host that another domain is leaving.
THEOREM RecordsFollowDomains ==
    ASSUME Constants, ~ HandedOn, NoHost \notin Hosts
    PROVE  Spec => []DomainsHaveTheirRecords
  <1>1. Init => RecordsInv
    <2> SUFFICES ASSUME Init
                 PROVE  RecordsInv
      OBVIOUS
    <2>1. /\ \A c \in Clients : call[c].todo = <<>> /\ call[c].op = "none"
          /\ \A d \in Domains : hosts[d] = NoHost /\ Linked(d) = {}
      BY RestShape DEF Init, Linked
    <2>2. \A c \in Clients : ~ Changes(c) /\ Course(c) /\ call[c].op # "move"
      BY <2>1 DEF Changes, Changing, Course
    <2>3. \A d \in Domains : Tidy(d)
      BY <2>1 DEF Tidy, Ours
    <2>4. Apiece
      BY <2>1, <2>2 DEF Apiece
    <2> QED
      BY <2>2, <2>3, <2>4 DEF RecordsInv, Standing
  <1>2. LockInv /\ RecordsInv /\ [Next]_dns => RecordsInv'
    <2> SUFFICES ASSUME LockInv, RecordsInv, [Next]_dns
                 PROVE  RecordsInv'
      OBVIOUS
    <2>1. CASE Next
      BY <2>1, RecordsStep DEF Next
    <2>2. CASE UNCHANGED dns
      <3>1. call' = call /\ hosts' = hosts /\ records' = records /\ zone' = zone
        BY <2>2 DEF dns
      <3>2. /\ \A c : Place(c)' = Place(c) /\ Course(c)' = Course(c) /\ Changes(c)' = Changes(c)
            /\ \A d : Linked(d)' = Linked(d) /\ Tidy(d)' = Tidy(d)
        BY <3>1 DEF Place, Course, Changes, Linked, Tidy
      <3>3. Apiece' = Apiece
        BY <3>1, <3>2 DEF Apiece
      <3>4. \A c : Sound(c)' = Sound(c)
        BY <3>1 DEF Sound, Place, Linked, Found, Wanted, Target
      <3> QED
        BY <3>1, <3>2, <3>3, <3>4 DEF RecordsInv, Standing
    <2> QED
      BY <2>1, <2>2
  <1>3. RecordsInv => DomainsHaveTheirRecords
    <2> SUFFICES ASSUME Standing, Quiet, NEW d \in Domains
                 PROVE  Tidy(d)
      BY DEF RecordsInv, DomainsHaveTheirRecords, Tidy, Ours
    <2>1. \A c \in Clients : ~ Changes(c)
      BY DEF Standing, Sound, Quiet, Place
    <2> QED
      BY <2>1 DEF Standing
  <1> QED
    BY <1>1, <1>2, <1>3, LockInvariant, PTL DEF Spec

=============================================================================
