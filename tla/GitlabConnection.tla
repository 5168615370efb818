-------------------------- MODULE GitlabConnection --------------------------
(***************************************************************************)
(* The connection of one GitLab provider of the own-application kind: the     *)
(* states issued for its authorization, the callbacks that consume them and   *)
(* exchange their code for tokens, and the refreshes that builds and listings *)
(* make beside them.  GitLab spends a refresh token when it is used and        *)
(* answers with the next of the same grant.                                  *)
(***************************************************************************)
EXTENDS Naturals, FiniteSets

CONSTANTS
    States,          \* authorization states that may be issued
    Callbacks,       \* callback requests; a browser may send one twice
    Refreshers,      \* requests and builds that use the provider
    MaxTokens,       \* bound: tokens GitLab ever hands out
    Failing          \* what may fail: "answer", lost after GitLab has acted

VARIABLES
    states,          \* the state rows: "none", "issued", "consumed" or "expired"
    provider,        \* the provider's row: grant and refresh token, and whether the
                     \* access token has run out
    live,            \* at GitLab: the refresh tokens not yet spent, with their grant
    minted,          \* at GitLab: tokens handed out so far
    callback,        \* each callback's local state
    refresh,         \* each refresh's local state
    exchanged        \* history: how often a code was exchanged under each state

connection == <<states, provider, live, minted, callback, refresh, exchanged>>

NoToken == [grant |-> 0, token |-> 0]
NoCallback == [pc |-> "idle", state |-> "none", got |-> NoToken]
NoRefresh == [pc |-> "idle", with |-> NoToken, got |-> NoToken]

Init ==
    /\ states = [s \in States |-> "none"]
    /\ provider = [stored |-> NoToken, stale |-> FALSE]
    /\ live = {} /\ minted = 0
    /\ callback = [c \in Callbacks |-> NoCallback]
    /\ refresh = [r \in Refreshers |-> NoRefresh]
    /\ exchanged = [s \in States |-> 0]

-----------------------------------------------------------------------------
(* States.                                                                  *)

Issue(s) ==
    /\ states[s] = "none"
    /\ states' = [states EXCEPT ![s] = "issued"]
    /\ UNCHANGED <<provider, live, minted, callback, refresh, exchanged>>

\* Ten minutes after it was issued.
Expire(s) ==
    /\ states[s] = "issued"
    /\ states' = [states EXCEPT ![s] = "expired"]
    /\ UNCHANGED <<provider, live, minted, callback, refresh, exchanged>>

\* Mutant: the state is looked up, and marked consumed only with the tokens.
ConsumeLater(c, s) ==
    /\ callback[c].pc = "idle" /\ states[s] = "issued"
    /\ callback' = [callback EXCEPT ![c] = [NoCallback EXCEPT !.pc = "exchange", !.state = s]]
    /\ UNCHANGED <<states, provider, live, minted, refresh, exchanged>>

\* One UPDATE ... WHERE not consumed and not expired: what it does not find is
\* turned away.
Consume(c, s) ==
    /\ callback[c].pc = "idle" /\ states[s] = "issued"
    /\ states' = [states EXCEPT ![s] = "consumed"]
    /\ callback' = [callback EXCEPT ![c] = [NoCallback EXCEPT !.pc = "exchange", !.state = s]]
    /\ UNCHANGED <<provider, live, minted, refresh, exchanged>>

-----------------------------------------------------------------------------
(* The callback: the code for a grant of its own, then the provider's row.   *)

ExchangeCode(c) ==
    /\ callback[c].pc = "exchange" /\ minted < MaxTokens
    /\ LET given == [grant |-> minted + 1, token |-> minted + 1]
       IN /\ minted' = minted + 1 /\ live' = live \cup {given}
          /\ exchanged' = [exchanged EXCEPT ![callback[c].state] = @ + 1]
          /\ \/ callback' = [callback EXCEPT ![c].pc = "update", ![c].got = given]
             \/ "answer" \in Failing /\ callback' = [callback EXCEPT ![c] = NoCallback]
    /\ UNCHANGED <<states, provider, refresh>>

\* The provider is not the state's, lacks its configuration, or GitLab refuses
\* the code: the state is spent all the same.
TurnAway(c) ==
    /\ callback[c].pc = "exchange"
    /\ callback' = [callback EXCEPT ![c] = NoCallback]
    /\ UNCHANGED <<states, provider, live, minted, refresh, exchanged>>

StoreGrant(c) ==
    /\ callback[c].pc = "update"
    /\ provider' = [stored |-> callback[c].got, stale |-> FALSE]
    /\ callback' = [callback EXCEPT ![c] = NoCallback]
    /\ UNCHANGED <<states, live, minted, refresh, exchanged>>

-----------------------------------------------------------------------------
(* refreshGitlabToken.                                                      *)

RunOut ==
    /\ provider.stored # NoToken /\ ~ provider.stale
    /\ provider' = [provider EXCEPT !.stale = TRUE]
    /\ UNCHANGED <<states, live, minted, callback, refresh, exchanged>>

\* An access token good for another minute is left alone.
BeginRefresh(r) ==
    /\ refresh[r].pc = "idle" /\ provider.stale
    /\ refresh' = [refresh EXCEPT ![r] = [NoRefresh EXCEPT !.pc = "exchange", !.with = provider.stored]]
    /\ UNCHANGED <<states, provider, live, minted, callback, exchanged>>

\* A token that is spent already is refused, and the refresh throws.
ExchangeToken(r) ==
    /\ refresh[r].pc = "exchange"
    /\ LET old == refresh[r].with
           given == [grant |-> old.grant, token |-> minted + 1]
       IN IF old \in live
          THEN /\ minted < MaxTokens /\ minted' = minted + 1
               /\ live' = (live \ {old}) \cup {given}
               /\ \/ refresh' = [refresh EXCEPT ![r].pc = "update", ![r].got = given]
                  \/ "answer" \in Failing /\ refresh' = [refresh EXCEPT ![r] = NoRefresh]
          ELSE /\ refresh' = [refresh EXCEPT ![r] = NoRefresh]
               /\ UNCHANGED <<live, minted>>
    /\ UNCHANGED <<states, provider, callback, exchanged>>

\* Mutant: the refresh token that was stored is kept.
StoreAccessOnly(r) ==
    /\ refresh[r].pc = "update"
    /\ provider' = [provider EXCEPT !.stale = FALSE]
    /\ refresh' = [refresh EXCEPT ![r] = NoRefresh]
    /\ UNCHANGED <<states, live, minted, callback, exchanged>>

StoreToken(r) ==
    /\ refresh[r].pc = "update"
    /\ provider' = [stored |-> refresh[r].got, stale |-> FALSE]
    /\ refresh' = [refresh EXCEPT ![r] = NoRefresh]
    /\ UNCHANGED <<states, live, minted, callback, exchanged>>

Next ==
    \/ \E s \in States : Issue(s) \/ Expire(s)
    \/ \E c \in Callbacks, s \in States : Consume(c, s)
    \/ \E c \in Callbacks : ExchangeCode(c) \/ TurnAway(c) \/ StoreGrant(c)
    \/ RunOut
    \/ \E r \in Refreshers : BeginRefresh(r) \/ ExchangeToken(r) \/ StoreToken(r)

Spec == Init /\ [][Next]_connection

-----------------------------------------------------------------------------
(* Properties.                                                              *)

Tokens == [grant : 0..MaxTokens, token : 0..MaxTokens]

\* Every variable keeps to its type.
TypeOK ==
    /\ states \in [States -> {"none", "issued", "consumed", "expired"}]
    /\ provider \in [stored : Tokens, stale : BOOLEAN]
    /\ live \subseteq Tokens /\ minted \in 0..MaxTokens
    /\ callback \in [Callbacks -> [pc : {"idle", "exchange", "update"}, state : States \cup {"none"}, got : Tokens]]
    /\ refresh \in [Refreshers -> [pc : {"idle", "exchange", "update"}, with : Tokens, got : Tokens]]
    /\ exchanged \in [States -> 0..MaxTokens]

\* Under one state no second code is ever exchanged, however often its callback
\* arrives.
StateIsUsedOnce == \A s \in States : exchanged[s] <= 1

\* The refresh token stored for the provider is one GitLab still takes, except
\* while whoever spent it has yet to store its successor: two refreshes with the
\* same token do not lose the connection.
ConnectionIsKept ==
    provider.stored \in live \cup {NoToken}
    \/ \E r \in Refreshers : refresh[r].pc = "update" /\ refresh[r].with = provider.stored
==============================================================================
