---------------------------- MODULE SerialRouting ----------------------------
(***************************************************************************)
(* What the routing locks promise, without locks, connections or            *)
(* transactions: a mutation of a Compose service's routes has the service   *)
(* to itself, and a domain moves from one service to another only at the    *)
(* hands of a mutation that has both.                                       *)
(***************************************************************************)
CONSTANTS
    Composes,      \* Compose services
    Domains,       \* domain rows
    Clients,       \* the processor and request handlers that mutate routes
    Unattached,    \* a domain that belongs to no Compose service
    Fresh,         \* a domain row that has not been created yet
    Absent         \* a domain row that has been removed; its id is never used again

VARIABLES
    mutating,      \* the services each client has to itself
    attached       \* the service each domain is attached to

vars == <<mutating, attached>>

Attachments == Composes \cup {Unattached, Fresh, Absent}

Init ==
    /\ mutating = [c \in Clients |-> {}]
    /\ attached \in [Domains -> Attachments]

Enter(c, x) ==
    /\ \A d \in Clients : x \notin mutating[d]
    /\ mutating' = [mutating EXCEPT ![c] = @ \cup {x}]
    /\ UNCHANGED attached

Leave(c) ==
    /\ mutating' = [mutating EXCEPT ![c] = {}]
    /\ UNCHANGED attached

Attach(c, d, x) ==
    /\ ({attached[d], x} \cap Composes) \subseteq mutating[c]
    /\ attached' = [attached EXCEPT ![d] = x]
    /\ UNCHANGED mutating

Next ==
    \E c \in Clients :
        \/ \E x \in Composes : Enter(c, x)
        \/ Leave(c)
        \/ \E d \in Domains, x \in Attachments : Attach(c, d, x)

Spec == Init /\ [][Next]_vars
=============================================================================
