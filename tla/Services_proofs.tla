--------------------------- MODULE Services_proofs ---------------------------
(***************************************************************************)
(* The theorems of ManagedDns, MongoService and ComposeLifecycle for the   *)
(* parts of MCServices: a behaviour of a part is one of its module, and    *)
(* the constants that the part gives it meet the theorem's hypotheses.     *)
(* Those of GitlabConnection, which MCServices extends, are proved here.   *)
(***************************************************************************)
EXTENDS MCServices, TLAPS

-----------------------------------------------------------------------------
(* GitlabConnection, for any number of states, callbacks and refreshes and *)
(* any supply of tokens: a state is used once, and, while GitLab's answers *)
(* arrive, the connection is kept.                                         *)

Pairs == [grant : Nat, token : Nat]

CallbackRecords == [pc : {"idle", "exchange", "update"}, state : States \cup {"none"}, got : Pairs]
RefreshRecords == [pc : {"idle", "exchange", "update"}, with : Pairs, got : Pairs]

\* The types, without the bound on the tokens.
Kinds ==
    /\ states \in [States -> {"none", "issued", "consumed", "expired"}]
    /\ provider \in [stored : Pairs, stale : BOOLEAN]
    /\ live \subseteq Pairs /\ minted \in Nat
    /\ callback \in [Callbacks -> CallbackRecords]
    /\ refresh \in [Refreshers -> RefreshRecords]
    /\ exchanged \in [States -> Nat]

\* A callback about to exchange its code is the only one of its state, which is
\* consumed and has not been used.
Exchanging(c) == callback[c].pc = "exchange"
StatesInv ==
    /\ \A s \in States : /\ exchanged[s] <= 1
                         /\ states[s] \in {"none", "issued"} => exchanged[s] = 0
    /\ \A c \in Callbacks : Exchanging(c) =>
          /\ callback[c].state \in States
          /\ states[callback[c].state] = "consumed" /\ exchanged[callback[c].state] = 0
    /\ \A c, d \in Callbacks : Exchanging(c) /\ Exchanging(d) /\ callback[c].state = callback[d].state => c = d

StatesIInv == Kinds /\ StatesInv

\* A token on its way to the row is live, and neither the row nor anybody else
\* has it: only whoever brings it can make it the row's.
Granted(c) == callback[c].pc = "update"
Renewed(r) == refresh[r].pc = "update"
Fresh(g) ==
    /\ g \in live /\ g # provider.stored
    /\ \A r \in Refreshers : refresh[r].pc = "exchange" => refresh[r].with # g
TokensInv ==
    /\ \A g \in live : g.token <= minted
    /\ provider.stored.token <= minted
    /\ \A r \in Refreshers : refresh[r].pc = "exchange" => refresh[r].with.token <= minted
    /\ \A c \in Callbacks : Granted(c) => Fresh(callback[c].got)
    /\ \A r \in Refreshers : Renewed(r) => Fresh(refresh[r].got)
    /\ \A c, d \in Callbacks : Granted(c) /\ Granted(d) /\ callback[c].got = callback[d].got => c = d
    /\ \A r, q \in Refreshers : Renewed(r) /\ Renewed(q) /\ refresh[r].got = refresh[q].got => r = q
    /\ \A c \in Callbacks, r \in Refreshers : Granted(c) /\ Renewed(r) => callback[c].got # refresh[r].got

TokensIInv == Kinds /\ TokensInv /\ ConnectionIsKept

-----------------------------------------------------------------------------
(* A state is used once.                                                   *)

LEMMA Records ==
    NoToken \in Pairs /\ NoCallback \in CallbackRecords /\ NoRefresh \in RefreshRecords
  BY DEF Pairs, CallbackRecords, RefreshRecords, NoToken, NoCallback, NoRefresh

LEMMA CallbackSteps ==
  ASSUME NEW x \in CallbackRecords, NEW g \in Pairs, NEW s \in States
  PROVE  /\ x.got \in Pairs
         /\ [x EXCEPT !.pc = "update", !.got = g] \in CallbackRecords
         /\ [NoCallback EXCEPT !.pc = "exchange", !.state = s] \in CallbackRecords
  BY DEF CallbackRecords, NoCallback, NoToken, Pairs

LEMMA RefreshSteps ==
  ASSUME NEW x \in RefreshRecords, NEW g \in Pairs
  PROVE  /\ x.with \in Pairs /\ x.got \in Pairs
         /\ [x EXCEPT !.pc = "update", !.got = g] \in RefreshRecords
         /\ [NoRefresh EXCEPT !.pc = "exchange", !.with = g] \in RefreshRecords
  BY DEF RefreshRecords, NoRefresh, NoToken, Pairs

LEMMA KindsInit == Init => Kinds
<1> SUFFICES ASSUME Init PROVE Kinds
  OBVIOUS
<1>1. provider \in [stored : Pairs, stale : BOOLEAN]
  BY Records DEF Init
<1> QED BY <1>1, Records DEF Init, Kinds

LEMMA KindsNext == Kinds /\ [Next]_connection => Kinds'
<1> SUFFICES ASSUME Kinds, [Next]_connection PROVE Kinds'
  OBVIOUS
<1> USE DEF Kinds
<1>1. ASSUME NEW s \in States, Issue(s) \/ Expire(s) PROVE Kinds'
  BY <1>1 DEF Issue, Expire
<1>2. ASSUME NEW c \in Callbacks, NEW s \in States, Consume(c, s) PROVE Kinds'
  <2>1. [NoCallback EXCEPT !.pc = "exchange", !.state = s] \in CallbackRecords
    BY CallbackSteps, Records
  <2> QED BY <1>2, <2>1 DEF Consume
<1>3. ASSUME NEW c \in Callbacks, ExchangeCode(c) PROVE Kinds'
  <2> DEFINE given == [grant |-> minted + 1, token |-> minted + 1]
  <2>1. minted + 1 \in Nat /\ given \in Pairs
    BY DEF Pairs
  <2>2. minted' = minted + 1 /\ live' = live \cup {given} /\ UNCHANGED <<states, provider, refresh>>
    BY <1>3 DEF ExchangeCode
  <2>3. exchanged' = [exchanged EXCEPT ![callback[c].state] = @ + 1]
    BY <1>3 DEF ExchangeCode
  <2>4. \/ callback' = [callback EXCEPT ![c] = [@ EXCEPT !.pc = "update", !.got = given]]
        \/ callback' = [callback EXCEPT ![c] = NoCallback]
    BY <1>3 DEF ExchangeCode
  <2> HIDE DEF given
  <2>5. callback' \in [Callbacks -> CallbackRecords]
    <3>1. callback[c] \in CallbackRecords /\ NoCallback \in CallbackRecords
      BY Records
    <3>2. callback[c].state \in States \cup {"none"} /\ [callback[c] EXCEPT !.pc = "update", !.got = given] \in CallbackRecords
      BY <2>1, <3>1 DEF CallbackRecords
    <3> QED BY <2>4, <3>1, <3>2
  <2>6. exchanged' \in [States -> Nat]
    <3>1. CASE callback[c].state \in States
      BY <2>3, <3>1
    <3>2. CASE callback[c].state \notin States
      BY <2>3, <3>2
    <3> QED BY <3>1, <3>2
  <2> QED BY <2>1, <2>2, <2>5, <2>6
<1>4. ASSUME NEW c \in Callbacks, TurnAway(c) \/ StoreGrant(c) PROVE Kinds'
  <2>1. callback[c] \in CallbackRecords /\ NoCallback \in CallbackRecords
    BY Records
  <2>2. callback[c].got \in Pairs
    BY <2>1 DEF CallbackRecords
  <2>3. callback' = [callback EXCEPT ![c] = NoCallback]
    BY <1>4 DEF TurnAway, StoreGrant
  <2>4. [stored |-> callback[c].got, stale |-> FALSE] \in [stored : Pairs, stale : BOOLEAN]
    BY <2>2
  <2>5. UNCHANGED <<states, live, minted, refresh, exchanged>>
        /\ provider' \in {provider, [stored |-> callback[c].got, stale |-> FALSE]}
    BY <1>4 DEF TurnAway, StoreGrant
  <2> QED BY <2>1, <2>3, <2>4, <2>5
<1>5. CASE RunOut
  BY <1>5 DEF RunOut
<1>6. ASSUME NEW r \in Refreshers, BeginRefresh(r) \/ StoreToken(r) PROVE Kinds'
  <2>1. provider.stored \in Pairs
    BY Zenon DEF Kinds
  <2>2. refresh[r] \in RefreshRecords
    OBVIOUS
  <2>3. refresh[r].got \in Pairs /\ NoRefresh \in RefreshRecords
        /\ [NoRefresh EXCEPT !.pc = "exchange", !.with = provider.stored] \in RefreshRecords
    BY <2>1, <2>2, Records, RefreshSteps
  <2>4. [stored |-> refresh[r].got, stale |-> FALSE] \in [stored : Pairs, stale : BOOLEAN]
    BY <2>3
  <2>5. /\ UNCHANGED <<states, live, minted, callback, exchanged>>
        /\ provider' \in {provider, [stored |-> refresh[r].got, stale |-> FALSE]}
        /\ \/ refresh' = [refresh EXCEPT ![r] = [NoRefresh EXCEPT !.pc = "exchange", !.with = provider.stored]]
           \/ refresh' = [refresh EXCEPT ![r] = NoRefresh]
    BY <1>6 DEF BeginRefresh, StoreToken
  <2>6. refresh' \in [Refreshers -> RefreshRecords]
    BY <2>3, <2>5
  <2> QED BY <2>4, <2>5, <2>6
<1>7. ASSUME NEW r \in Refreshers, ExchangeToken(r) PROVE Kinds'
  <2> DEFINE given == [grant |-> refresh[r].with.grant, token |-> minted + 1]
  <2>0. refresh[r] \in RefreshRecords /\ NoRefresh \in RefreshRecords
    BY Records
  <2>1. refresh[r].with \in Pairs /\ minted + 1 \in Nat
    BY <2>0 DEF RefreshRecords
  <2>2. given \in Pairs
    BY <2>1 DEF Pairs
  <2>3. /\ UNCHANGED <<states, provider, callback, exchanged>>
        /\ \/ /\ minted' = minted + 1 /\ live' = (live \ {refresh[r].with}) \cup {given}
              /\ \/ refresh' = [refresh EXCEPT ![r] = [@ EXCEPT !.pc = "update", !.got = given]]
                 \/ refresh' = [refresh EXCEPT ![r] = NoRefresh]
           \/ UNCHANGED <<live, minted>> /\ refresh' = [refresh EXCEPT ![r] = NoRefresh]
    BY <1>7 DEF ExchangeToken
  <2> HIDE DEF given
  <2>4. refresh' \in [Refreshers -> RefreshRecords]
    <3>1. [refresh[r] EXCEPT !.pc = "update", !.got = given] \in RefreshRecords
      BY <2>0, <2>2, RefreshSteps
    <3> QED BY <2>0, <2>3, <3>1
  <2> QED BY <2>1, <2>2, <2>3, <2>4
<1>8. CASE UNCHANGED connection
  BY <1>8 DEF connection
<1> QED BY <1>1, <1>2, <1>3, <1>4, <1>5, <1>6, <1>7, <1>8 DEF Next

LEMMA StatesInit == Init => StatesInv
  BY DEF Init, StatesInv, Exchanging, NoCallback

LEMMA StatesNext == StatesIInv /\ [Next]_connection => StatesInv'
<1> SUFFICES ASSUME Kinds, StatesInv, [Next]_connection PROVE StatesInv'
  BY DEF StatesIInv
<1> USE DEF StatesInv, Exchanging, Kinds
<1>1. ASSUME NEW s \in States, Issue(s) \/ Expire(s) PROVE StatesInv'
  BY <1>1 DEF Issue, Expire
<1>2. ASSUME NEW c \in Callbacks, NEW s \in States, Consume(c, s) PROVE StatesInv'
  <2>1. callback'[c].state = s /\ \A d \in Callbacks \ {c} : callback'[d] = callback[d]
    BY <1>2 DEF Consume, NoCallback
  <2>2. \A d \in Callbacks : Exchanging(d) => callback[d].state # s
    BY <1>2 DEF Consume
  <2>3. states' = [states EXCEPT ![s] = "consumed"] /\ exchanged' = exchanged /\ exchanged[s] = 0
    BY <1>2 DEF Consume
  <2> QED BY <2>1, <2>2, <2>3
<1>3. ASSUME NEW c \in Callbacks, ExchangeCode(c) PROVE StatesInv'
  <2> DEFINE s == callback[c].state
  <2>1. s \in States /\ states[s] = "consumed" /\ exchanged[s] = 0
    BY <1>3 DEF ExchangeCode
  <2>2. exchanged' = [exchanged EXCEPT ![s] = @ + 1] /\ states' = states
    BY <1>3 DEF ExchangeCode
  <2>3. callback'[c].pc # "exchange" /\ \A d \in Callbacks \ {c} : callback'[d] = callback[d]
    <3>1. callback[c] \in CallbackRecords
      OBVIOUS
    <3>2. \A g : [callback[c] EXCEPT !.pc = "update", !.got = g].pc = "update"
      BY <3>1 DEF CallbackRecords
    <3>3. \/ \E g : callback' = [callback EXCEPT ![c] = [@ EXCEPT !.pc = "update", !.got = g]]
          \/ callback' = [callback EXCEPT ![c] = NoCallback]
      BY <1>3 DEF ExchangeCode
    <3>4. NoCallback.pc = "idle"
      BY DEF NoCallback
    <3> QED BY <3>2, <3>3, <3>4
  <2>4. \A d \in Callbacks \ {c} : Exchanging(d) => callback[d].state # s
    BY <1>3 DEF ExchangeCode
  <2>5. exchanged'[s] = 1 /\ \A t \in States \ {s} : exchanged'[t] = exchanged[t]
    BY <2>1, <2>2
  <2>6. ASSUME NEW d \in Callbacks, Exchanging(d)' PROVE d # c /\ Exchanging(d) /\ callback'[d] = callback[d]
    BY <2>3, <2>6
  <2> QED BY <2>1, <2>2, <2>4, <2>5, <2>6
<1>4. ASSUME NEW c \in Callbacks, TurnAway(c) \/ StoreGrant(c) PROVE StatesInv'
  <2>1. UNCHANGED <<states, exchanged>> /\ callback'[c].pc # "exchange"
    BY <1>4 DEF TurnAway, StoreGrant, NoCallback
  <2>2. \A d \in Callbacks \ {c} : callback'[d] = callback[d]
    BY <1>4 DEF TurnAway, StoreGrant
  <2> QED BY <2>1, <2>2
<1>5. CASE RunOut
  BY <1>5 DEF RunOut
<1>6. ASSUME NEW r \in Refreshers, BeginRefresh(r) \/ ExchangeToken(r) \/ StoreToken(r) PROVE StatesInv'
  BY <1>6 DEF BeginRefresh, ExchangeToken, StoreToken
<1>7. CASE UNCHANGED connection
  BY <1>7 DEF connection
<1> QED BY <1>1, <1>2, <1>3, <1>4, <1>5, <1>6, <1>7 DEF Next

\* A state is used once: the row that the callback's conditional update finds is
\* found by no other, so that only one code is exchanged under it.
THEOREM StateUsedOnce == Spec => []StateIsUsedOnce
<1>1. Init => StatesIInv
  BY KindsInit, StatesInit DEF StatesIInv
<1>2. StatesIInv /\ [Next]_connection => StatesIInv'
  BY KindsNext, StatesNext DEF StatesIInv
<1>3. StatesIInv => StateIsUsedOnce
  BY DEF StatesIInv, StatesInv, StateIsUsedOnce
<1> QED BY <1>1, <1>2, <1>3, PTL DEF Spec

-----------------------------------------------------------------------------
(* The connection is kept.                                                 *)

LEMMA TokensInit == Init => TokensInv /\ ConnectionIsKept
  BY DEF Init, TokensInv, ConnectionIsKept, Granted, Renewed, NoCallback, NoRefresh, NoToken

\* The callback's code is exchanged for a token nobody has.
LEMMA TokensExchangeCode ==
  ASSUME Kinds, TokensInv, ConnectionIsKept, "answer" \notin Failing, NEW c \in Callbacks, ExchangeCode(c)
  PROVE  TokensInv' /\ ConnectionIsKept'
<1> USE DEF Kinds, TokensInv, Granted, Renewed, Fresh
<1> DEFINE given == [grant |-> minted + 1, token |-> minted + 1]
<1>1. /\ callback' = [callback EXCEPT ![c] = [@ EXCEPT !.pc = "update", !.got = given]]
      /\ live' = live \cup {given} /\ minted' = minted + 1 /\ UNCHANGED <<provider, refresh>>
  BY DEF ExchangeCode
<1>2. given.token = minted + 1 /\ minted \in Nat
  OBVIOUS
<1>3. callback'[c].pc = "update" /\ callback'[c].got = given
      /\ \A d \in Callbacks \ {c} : callback'[d] = callback[d]
  BY <1>1 DEF CallbackRecords
<1> HIDE DEF given
<1>4. \A g \in Pairs : g.token \in Nat
  BY DEF Pairs
<1>5. \A g \in live : g \in Pairs /\ g # given
  BY <1>2, <1>4
<1>6. provider.stored \in Pairs /\ provider.stored # given
  BY <1>2, <1>4
<1>7. \A r \in Refreshers : refresh[r].pc = "exchange" => refresh[r].with \in Pairs /\ refresh[r].with # given
  BY <1>2, <1>4 DEF RefreshRecords
<1>8. /\ given \in live' /\ given # provider'.stored
      /\ \A r \in Refreshers : refresh'[r].pc = "exchange" => refresh'[r].with # given
  BY <1>1, <1>6, <1>7
<1>9. ASSUME NEW g \in live, Fresh(g) PROVE Fresh(g)' /\ g # given
  BY <1>1, <1>5, <1>9
<1>10. /\ \A g \in live' : g.token <= minted'
       /\ provider'.stored.token <= minted'
       /\ \A r \in Refreshers : refresh'[r].pc = "exchange" => refresh'[r].with.token <= minted'
  <2>1. \A g \in live : g.token <= minted'
    BY <1>1, <1>2, <1>4, <1>5
  <2>2. provider'.stored.token <= minted'
    BY <1>1, <1>2, <1>4, <1>6
  <2>3. \A r \in Refreshers : refresh'[r].pc = "exchange" => refresh'[r].with.token <= minted'
    BY <1>1, <1>2, <1>4, <1>7
  <2> QED BY <1>1, <1>2, <2>1, <2>2, <2>3
<1>11. TokensInv'
  BY <1>1, <1>3, <1>8, <1>9, <1>10
<1> QED BY <1>1, <1>11 DEF ConnectionIsKept

\* The token brought by the callback is made the row's.
LEMMA TokensStoreGrant ==
  ASSUME Kinds, TokensInv, ConnectionIsKept, NEW c \in Callbacks, StoreGrant(c)
  PROVE  TokensInv' /\ ConnectionIsKept'
<1> USE DEF Kinds, TokensInv, Granted, Renewed, Fresh
<1>1. provider'.stored = callback[c].got /\ UNCHANGED <<live, minted, refresh>> /\ Granted(c)
  BY DEF StoreGrant
<1>2. callback'[c].pc = "idle" /\ \A d \in Callbacks \ {c} : callback'[d] = callback[d]
  BY DEF StoreGrant, NoCallback
<1>3. \A d \in Callbacks : Granted(d)' => d # c /\ Granted(d) /\ callback'[d].got = callback[d].got
  BY <1>2
<1>4. TokensInv'
  BY <1>1, <1>3
<1> QED BY <1>1, <1>4 DEF ConnectionIsKept

\* So is the one a refresh brings.
LEMMA TokensStoreToken ==
  ASSUME Kinds, TokensInv, ConnectionIsKept, NEW r \in Refreshers, StoreToken(r)
  PROVE  TokensInv' /\ ConnectionIsKept'
<1> USE DEF Kinds, TokensInv, Granted, Renewed, Fresh
<1>1. provider'.stored = refresh[r].got /\ UNCHANGED <<live, minted, callback>> /\ Renewed(r)
  BY DEF StoreToken
<1>2. refresh'[r].pc = "idle" /\ \A q \in Refreshers \ {r} : refresh'[q] = refresh[q]
  BY DEF StoreToken, NoRefresh
<1>3. \A q \in Refreshers : refresh'[q].pc # "idle" => q # r /\ refresh'[q] = refresh[q]
  BY <1>2
<1>4. TokensInv'
  BY <1>1, <1>3
<1> QED BY <1>1, <1>4 DEF ConnectionIsKept

\* A refresh reads the row's token, which is nobody's to bring.
LEMMA TokensBeginRefresh ==
  ASSUME Kinds, TokensInv, ConnectionIsKept, NEW r \in Refreshers, BeginRefresh(r)
  PROVE  TokensInv' /\ ConnectionIsKept'
<1> USE DEF Kinds, TokensInv, Granted, Renewed, Fresh
<1>1. refresh'[r].pc = "exchange" /\ refresh'[r].with = provider.stored /\ refresh[r].pc = "idle"
  BY DEF BeginRefresh, NoRefresh
<1>2. UNCHANGED <<provider, live, minted, callback>> /\ \A q \in Refreshers \ {r} : refresh'[q] = refresh[q]
  BY DEF BeginRefresh
<1>3. \A q \in Refreshers : Renewed(q)' => q # r /\ Renewed(q) /\ refresh'[q] = refresh[q]
  BY <1>1, <1>2
<1>4. ASSUME NEW g, Fresh(g) PROVE Fresh(g)'
  BY <1>1, <1>2, <1>4
<1>5. TokensInv'
  BY <1>1, <1>2, <1>3, <1>4
<1>6. \A q \in Refreshers : Renewed(q) => Renewed(q)' /\ refresh'[q].with = refresh[q].with
  BY <1>1, <1>2
<1> QED BY <1>2, <1>5, <1>6 DEF ConnectionIsKept

\* Whoever spends the row's token has its successor.
LEMMA TokensExchangeToken ==
  ASSUME Kinds, TokensInv, ConnectionIsKept, "answer" \notin Failing, NEW r \in Refreshers, ExchangeToken(r)
  PROVE  TokensInv' /\ ConnectionIsKept'
<1> USE DEF Kinds, TokensInv, Granted, Renewed, Fresh
<1> DEFINE old == refresh[r].with
           given == [grant |-> old.grant, token |-> minted + 1]
<1>1. UNCHANGED <<provider, callback>> /\ \A q \in Refreshers \ {r} : refresh'[q] = refresh[q]
  BY DEF ExchangeToken
<1>2. CASE old \notin live
  <2>1. UNCHANGED <<live, minted>> /\ refresh'[r].pc = "idle"
    BY <1>2 DEF ExchangeToken, NoRefresh
  <2>2. \A q \in Refreshers : refresh'[q].pc # "idle" => refresh'[q] = refresh[q]
    BY <1>1, <2>1
  <2>3. \A q \in Refreshers : Renewed(q) => refresh'[q] = refresh[q]
    BY <1>1 DEF ExchangeToken
  <2>4. TokensInv'
    BY <1>1, <2>1, <2>2
  <2> QED BY <1>1, <2>1, <2>3, <2>4 DEF ConnectionIsKept
<1>3. CASE old \in live
  <2>1. /\ refresh' = [refresh EXCEPT ![r] = [@ EXCEPT !.pc = "update", !.got = given]]
        /\ live' = (live \ {old}) \cup {given} /\ minted' = minted + 1
    BY <1>3 DEF ExchangeToken
  <2>2. refresh'[r].pc = "update" /\ refresh'[r].got = given /\ refresh'[r].with = old
    BY <2>1 DEF RefreshRecords
  <2>3. given.token = minted + 1 /\ minted \in Nat /\ refresh[r].pc = "exchange"
    BY DEF ExchangeToken
  <2> HIDE DEF old, given
  <2>4. \A g \in Pairs : g.token \in Nat
    BY DEF Pairs
  <2>5. \A g \in live : g \in Pairs /\ g # given
    BY <2>3, <2>4
  <2>6. provider.stored \in Pairs /\ provider.stored # given
    BY <2>3, <2>4
  <2>7. \A q \in Refreshers : refresh[q].pc = "exchange" => refresh[q].with \in Pairs /\ refresh[q].with # given
    BY <2>3, <2>4 DEF RefreshRecords
  <2>8. /\ given \in live' /\ given # provider'.stored
        /\ \A q \in Refreshers : refresh'[q].pc = "exchange" => refresh'[q].with # given
    BY <1>1, <2>1, <2>2, <2>6, <2>7
  <2>9. ASSUME NEW g \in live, Fresh(g) PROVE Fresh(g)' /\ g # given
    <3>1. g # old
      BY <2>3, <2>9 DEF old
    <3> QED BY <1>1, <2>1, <2>2, <2>5, <2>9, <3>1
  <2>10. /\ \A g \in live' : g.token <= minted'
         /\ provider'.stored.token <= minted'
         /\ \A q \in Refreshers : refresh'[q].pc = "exchange" => refresh'[q].with.token <= minted'
    <3>1. \A g \in live : g.token <= minted'
      BY <2>1, <2>3, <2>4, <2>5
    <3>2. provider.stored.token <= minted'
      BY <2>1, <2>3, <2>4, <2>6
    <3>3. \A q \in Refreshers : refresh[q].pc = "exchange" => refresh[q].with.token <= minted'
      BY <2>1, <2>3, <2>4, <2>7
    <3> QED BY <1>1, <2>1, <2>2, <2>3, <3>1, <3>2, <3>3
  <2>11. \A q \in Refreshers : Renewed(q)' /\ q # r => Renewed(q) /\ refresh'[q].got = refresh[q].got
    BY <1>1
  <2>12. TokensInv'
    BY <1>1, <2>2, <2>8, <2>9, <2>10, <2>11
  <2>13. CASE provider.stored = old
    BY <1>1, <2>2, <2>12, <2>13 DEF ConnectionIsKept
  <2>14. CASE provider.stored # old
    <3>1. \A q \in Refreshers : Renewed(q) => q # r /\ refresh'[q] = refresh[q]
      BY <1>1, <2>3
    <3> QED BY <1>1, <2>1, <2>12, <2>14, <3>1 DEF ConnectionIsKept
  <2> QED BY <2>13, <2>14
<1> QED BY <1>2, <1>3

LEMMA TokensNext ==
  TokensIInv /\ "answer" \notin Failing /\ [Next]_connection => TokensInv' /\ ConnectionIsKept'
<1> SUFFICES ASSUME Kinds, TokensInv, ConnectionIsKept, "answer" \notin Failing, [Next]_connection
             PROVE  TokensInv' /\ ConnectionIsKept'
  BY DEF TokensIInv
<1> USE DEF TokensInv, Granted, Renewed, Fresh
<1>1. ASSUME NEW s \in States, Issue(s) \/ Expire(s) PROVE TokensInv' /\ ConnectionIsKept'
  BY <1>1 DEF Issue, Expire, ConnectionIsKept
<1>2. ASSUME NEW c \in Callbacks, TurnAway(c) \/ \E s \in States : Consume(c, s)
      PROVE  TokensInv' /\ ConnectionIsKept'
  <2>1. /\ UNCHANGED <<provider, live, minted, refresh>> /\ callback'[c].pc # "update"
        /\ \A d \in Callbacks \ {c} : callback'[d] = callback[d]
    <3>1. CASE TurnAway(c)
      BY <3>1 DEF TurnAway, NoCallback, Kinds
    <3>2. ASSUME NEW s \in States, Consume(c, s)
          PROVE  /\ UNCHANGED <<provider, live, minted, refresh>> /\ callback'[c].pc # "update"
                 /\ \A d \in Callbacks \ {c} : callback'[d] = callback[d]
      BY <3>2 DEF Consume, NoCallback, Kinds
    <3> QED BY <1>2, <3>1, <3>2
  <2>2. \A d \in Callbacks : Granted(d)' => d # c /\ callback'[d] = callback[d]
    BY <2>1
  <2> QED BY <2>1, <2>2 DEF ConnectionIsKept
<1>3. ASSUME NEW c \in Callbacks, ExchangeCode(c) PROVE TokensInv' /\ ConnectionIsKept'
  BY <1>3, TokensExchangeCode
<1>4. ASSUME NEW c \in Callbacks, StoreGrant(c) PROVE TokensInv' /\ ConnectionIsKept'
  BY <1>4, TokensStoreGrant
<1>5. CASE RunOut
  <2>1. provider'.stored = provider.stored /\ UNCHANGED <<live, minted, callback, refresh>>
    BY <1>5 DEF RunOut, Kinds
  <2> QED BY <2>1 DEF ConnectionIsKept
<1>6. ASSUME NEW r \in Refreshers, BeginRefresh(r) PROVE TokensInv' /\ ConnectionIsKept'
  BY <1>6, TokensBeginRefresh
<1>7. ASSUME NEW r \in Refreshers, ExchangeToken(r) PROVE TokensInv' /\ ConnectionIsKept'
  BY <1>7, TokensExchangeToken
<1>8. ASSUME NEW r \in Refreshers, StoreToken(r) PROVE TokensInv' /\ ConnectionIsKept'
  BY <1>8, TokensStoreToken
<1>9. CASE UNCHANGED connection
  BY <1>9 DEF connection, ConnectionIsKept
<1> QED BY <1>1, <1>2, <1>3, <1>4, <1>5, <1>6, <1>7, <1>8, <1>9 DEF Next

\* While the answers of GitLab arrive, refreshes and reconnections in any order
\* leave a stored token that GitLab takes, or will be given its successor.
THEOREM ConnectionKept == "answer" \notin Failing /\ Spec => []ConnectionIsKept
<1>1. Init => TokensIInv
  BY KindsInit, TokensInit DEF TokensIInv
<1>2. TokensIInv /\ "answer" \notin Failing /\ [Next]_connection => TokensIInv'
  BY KindsNext, TokensNext DEF TokensIInv
<1>3. TokensIInv => ConnectionIsKept
  BY DEF TokensIInv
<1>4. ASSUME "answer" \notin Failing PROVE Spec => []ConnectionIsKept
  <2>1. TokensIInv /\ [Next]_connection => TokensIInv'
    BY <1>2, <1>4
  <2> QED BY <1>1, <1>3, <2>1, PTL DEF Spec
<1> QED BY <1>4


-----------------------------------------------------------------------------
(* Every part leaves the connection alone or makes its steps.              *)

LEMMA EveryPartConnects == PartsSpec => Spec
<1>1. PartsInit => Init
  BY Zenon DEF PartsInit, OnlyScheduling, OnlyCompose, OnlyDns, OnlyPreview, OnlyMongo, OnlyGitlab
<1>2. [PartsNext]_vars => [Next]_connection
  BY Zenon DEF PartsNext, vars, NotOfScheduling, NotOfCompose, NotOfDns, NotOfPreview, NotOfMongo
<1> QED BY <1>1, <1>2, PTL DEF PartsSpec, Spec

\* Whatever part runs, no state of the OAuth flow is exchanged a second time (the
\* callback route consumes it before it asks GitLab).
THEOREM PartsUseStatesOnce == PartsSpec => []StateIsUsedOnce
BY EveryPartConnects, StateUsedOnce, PTL

-----------------------------------------------------------------------------
(* A behaviour stays with its part, and is then one of the part's module.  *)

LEMMA PartStays == [PartsNext]_vars => part' = part
  <1>1. PartsNext => part' = part
    BY Zenon DEF PartsNext
  <1>2. vars' = vars => part' = part
    BY Zenon DEF vars
  <1> QED
    BY <1>1, <1>2

-----------------------------------------------------------------------------
(* The parts of MongoService.                                              *)

LEMMA DatabasePart == PartsSpec => ([](part = "database") /\ Database!Spec) \/ [](~ (part = "database"))
  <1>1. PartsInit /\ part = "database" => Database!Init
    BY Zenon DEF PartsInit
  <1>2. part = "database" /\ [PartsNext]_vars => (part = "database")' /\ (Database!Next \/ UNCHANGED Database!mongo)
    BY Zenon DEF PartsNext, vars, Database!mongo
  <1>3. ~ (part = "database") /\ [PartsNext]_vars => (~ (part = "database"))'
    BY Zenon, PartStays
  <1> QED
    BY <1>1, <1>2, <1>3, PTL DEF PartsSpec, Database!Spec

LEMMA AgedPart == PartsSpec => ([](part = "aged") /\ Aged!Spec) \/ [](~ (part = "aged"))
  <1>1. PartsInit /\ part = "aged" => Aged!Init
    BY Zenon DEF PartsInit
  <1>2. part = "aged" /\ [PartsNext]_vars => (part = "aged")' /\ (Aged!Next \/ UNCHANGED Aged!mongo)
    BY Zenon DEF PartsNext, vars, Aged!mongo
  <1>3. ~ (part = "aged") /\ [PartsNext]_vars => (~ (part = "aged"))'
    BY Zenon, PartStays
  <1> QED
    BY <1>1, <1>2, <1>3, PTL DEF PartsSpec, Aged!Spec

\* Among all procedures of a database, and through restarts and lost logs, two
\* deployments are never under way at once, if each inserts its row before the next
\* one checks (deployMongo's check and its row); Mongo_overlap.cfg shows the violation
\* without that condition.
THEOREM DeploymentsTakeTurns == PartsSpec => []OneDeploymentAtATime
  <1>1. Database!Spec => []Database!OneDeploymentAtATime
    BY Database!OneDeployment DEF Database!Procedures
  <1>2. Aged!Spec => []Aged!OneDeploymentAtATime
    BY Aged!OneDeployment DEF Aged!Procedures
  <1>3. (part = "database" => Database!OneDeploymentAtATime) /\ (part = "aged" => Aged!OneDeploymentAtATime)
           => OneDeploymentAtATime
    BY Zenon DEF OneDeploymentAtATime
  <1> QED
    BY <1>1, <1>2, <1>3, DatabasePart, AgedPart, PTL

-----------------------------------------------------------------------------
(* The parts of ManagedDns.                                                *)

LEMMA ZonePart == PartsSpec => ([](part = "zone") /\ Zone!Spec) \/ [](~ (part = "zone"))
  <1>1. PartsInit /\ part = "zone" => Zone!Init
    BY Zenon DEF PartsInit
  <1>2. part = "zone" /\ [PartsNext]_vars => (part = "zone")' /\ (Zone!Next \/ UNCHANGED Zone!dns)
    BY Zenon DEF PartsNext, vars, Zone!dns
  <1>3. ~ (part = "zone") /\ [PartsNext]_vars => (~ (part = "zone"))'
    BY Zenon, PartStays
  <1> QED
    BY <1>1, <1>2, <1>3, PTL DEF PartsSpec, Zone!Spec

LEMMA ByHandPart == PartsSpec => ([](part = "by hand") /\ ByHand!Spec) \/ [](~ (part = "by hand"))
  <1>1. PartsInit /\ part = "by hand" => ByHand!Init
    BY Zenon DEF PartsInit
  <1>2. part = "by hand" /\ [PartsNext]_vars => (part = "by hand")' /\ (ByHand!Next \/ UNCHANGED ByHand!dns)
    BY Zenon DEF PartsNext, vars, ByHand!dns
  <1>3. ~ (part = "by hand") /\ [PartsNext]_vars => (~ (part = "by hand"))'
    BY Zenon, PartStays
  <1> QED
    BY <1>1, <1>2, <1>3, PTL DEF PartsSpec, ByHand!Spec

\* While the DNS container fails to reload, the zone file has the domains' records once
\* nothing is under way and the last publication succeeded (syncDnsZone's read under
\* its lock).
THEOREM ZoneIsPublished == PartsSpec => []PublishedIsCurrent
  <1>1. Zone!Spec => []Zone!PublishedIsCurrent
    BY Zone!PublicationCurrent DEF Zone!Constants, Zone!Procedures, Zone!User, Zone!Nobody
  <1>2. (part = "zone" => Zone!PublishedIsCurrent) => PublishedIsCurrent
    BY Zenon DEF PublishedIsCurrent
  <1> QED
    BY <1>1, <1>2, ZonePart, PTL

\* The same part leaves no file of a deleted zone (syncDnsZone rereads the zone).
THEOREM DeletedZoneIsGone == PartsSpec => []DeletedZoneIsUnpublished
  <1>1. Zone!Spec => []Zone!DeletedZoneIsUnpublished
    BY Zone!DeletedZoneStaysUnpublished DEF Zone!Constants, Zone!Procedures, Zone!User, Zone!Nobody
  <1>2. (part = "zone" => Zone!DeletedZoneIsUnpublished) => DeletedZoneIsUnpublished
    BY Zenon DEF DeletedZoneIsUnpublished
  <1> QED
    BY <1>1, <1>2, ZonePart, PTL

\* There, every domain has its record, at its own host (compensateDomainDnsSync and
\* the domain router's undoing).
THEOREM EveryDomainHasItsRecord == PartsSpec => []DomainsHaveTheirRecords
  <1>1. Zone!Spec => []Zone!DomainsHaveTheirRecords
    BY Zone!RecordsFollowDomains DEF Zone!Constants, Zone!Procedures, Zone!User, Zone!Nobody, Zone!NoHost
  <1>2. (part = "zone" => Zone!DomainsHaveTheirRecords) => DomainsHaveTheirRecords
    BY Zenon DEF DomainsHaveTheirRecords
  <1> QED
    BY <1>1, <1>2, ZonePart, PTL

\* Beside records written by hand, while no publication fails, a name with an alias has
\* nothing else (both transactions check the name under one advisory lock); what a
\* failed publication takes back without the lock is the violation of Dns_alias.cfg.
THEOREM AliasIsAlone == PartsSpec => []AliasStandsAlone
  <1>1. ByHand!Spec => []ByHand!AliasStandsAlone
    BY ByHand!AliasAlone DEF ByHand!Constants, ByHand!Procedures, ByHand!User, ByHand!Nobody
  <1>2. (part = "by hand" => ByHand!AliasStandsAlone) => AliasStandsAlone
    BY Zenon DEF AliasStandsAlone
  <1> QED
    BY <1>1, <1>2, ByHandPart, PTL

-----------------------------------------------------------------------------
(* The parts of ComposeLifecycle.                                          *)

LEMMA RoutingPart == PartsSpec => ([](part = "routing") /\ Routing!Spec) \/ [](~ (part = "routing"))
  <1>1. PartsInit /\ part = "routing" => Routing!Init
    BY Zenon DEF PartsInit
  <1>2. part = "routing" /\ [PartsNext]_vars => (part = "routing")' /\ (Routing!Next \/ UNCHANGED Routing!lifecycle)
    BY Zenon DEF PartsNext, vars, Routing!lifecycle
  <1>3. ~ (part = "routing") /\ [PartsNext]_vars => (~ (part = "routing"))'
    BY Zenon, PartStays
  <1> QED
    BY <1>1, <1>2, <1>3, PTL DEF PartsSpec, Routing!Spec

LEMMA CancellingPart == PartsSpec => ([](part = "cancelling") /\ Cancelling!Spec) \/ [](~ (part = "cancelling"))
  <1>1. PartsInit /\ part = "cancelling" => Cancelling!Init
    BY Zenon DEF PartsInit
  <1>2. part = "cancelling" /\ [PartsNext]_vars => (part = "cancelling")' /\ (Cancelling!Next \/ UNCHANGED Cancelling!lifecycle)
    BY Zenon DEF PartsNext, vars, Cancelling!lifecycle
  <1>3. ~ (part = "cancelling") /\ [PartsNext]_vars => (~ (part = "cancelling"))'
    BY Zenon, PartStays
  <1> QED
    BY <1>1, <1>2, <1>3, PTL DEF PartsSpec, Cancelling!Spec

\* In both parts with deletions a deleted service has no containers, no record and no
\* job (the deletion's checks and the order of its removals), if no deployment is
\* requested and no domain made beside it; a domain made meanwhile is the violation
\* that Compose_newDomain.cfg shows.
THEOREM DeletedServiceIsGone == PartsSpec => []ServiceIsGone
  <1>1. Routing!Spec => []Routing!NothingLeftBehind
    BY Routing!DeletionLeavesNothing DEF Routing!Constants, Routing!Procedures, Routing!NoOne, Routing!Worker
  <1>2. Cancelling!Spec => []Cancelling!NothingLeftBehind
    BY Cancelling!DeletionLeavesNothing DEF Cancelling!Constants, Cancelling!Procedures, Cancelling!NoOne, Cancelling!Worker
  <1>3. (part = "routing" => Routing!NothingLeftBehind) /\ (part = "cancelling" => Cancelling!NothingLeftBehind)
           => ServiceIsGone
    BY Zenon DEF ServiceIsGone
  <1> QED
    BY <1>1, <1>2, <1>3, RoutingPart, CancellingPart, PTL

\* In both, also while deployments are cancelled and their logs fail, the status
\* "running" has a worker at it (markDeploymentJobErrored).
THEOREM RunningIsTheWorkers == PartsSpec => []RunningMeansRun
  <1>1. Routing!Spec => []Routing!RunningMeansRun
    BY Routing!RunningIsRun DEF Routing!Constants, Routing!Procedures, Routing!NoOne, Routing!Worker
  <1>2. Cancelling!Spec => []Cancelling!RunningMeansRun
    BY Cancelling!RunningIsRun DEF Cancelling!Constants, Cancelling!Procedures, Cancelling!NoOne, Cancelling!Worker
  <1>3. (part = "routing" => Routing!RunningMeansRun) /\ (part = "cancelling" => Cancelling!RunningMeansRun)
           => RunningMeansRun
    BY Zenon DEF RunningMeansRun
  <1> QED
    BY <1>1, <1>2, <1>3, RoutingPart, CancellingPart, PTL
=============================================================================
