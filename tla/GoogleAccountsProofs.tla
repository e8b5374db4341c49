------------------------ MODULE GoogleAccountsProofs ------------------------
(***************************************************************************)
(* Proofs about GoogleAccounts for any number of people, Google accounts,  *)
(* consents and requests under way, and with every failure.                *)
(*                                                                         *)
(* GrantInv follows each refresh token: the rows and requests that know it *)
(* agree on the id of the row it belongs to.  LoginInv and OwnerInv follow *)
(* each Google account through the requests that deal with it.             *)
(***************************************************************************)
EXTENDS GoogleAccounts, TLAPS

Refreshing == {"ask", "save", "sync", "syncSave", "syncClear"}
Connecting == {"link", "own", "store"}

\* What each handler knows by the time it has come to a step.
Handlers ==
    \A r \in Requests :
      /\ pc[r] \notin {"idle", "sub"} => user[r] \in People
      /\ pc[r] \in {"sub", "upsert"} \cup Connecting => acct[r] \in Google
      /\ pc[r] \in Connecting => held[r] \in Consents
      /\ pc[r] \in Refreshing => row[r] # 0 /\ acct[r] = None
      /\ pc[r] \notin Connecting \cup Refreshing => held[r] = None
      /\ pc[r] = "idle" => acct[r] = None
      /\ row[r] <= lastId

\* Ids are given once, and there is a token only where there is a row.
Ids ==
    /\ \A u \in People : /\ grantId[u] <= lastId
                         /\ grantTok[u] # None => grantId[u] # 0
                         /\ grantTok[u] # None => grantTok[u] \in issued
    /\ \A u, v \in People : grantId[u] = grantId[v] /\ u # v => grantId[u] = 0

\* A request that refreshes a token knows the row the token belongs to.
Homes ==
    /\ \A u, v \in People : grantTok[u] = grantTok[v] /\ u # v
                              => grantTok[u] = None
    /\ \A r \in Requests : pc[r] \in Refreshing /\ held[r] # None =>
         /\ held[r] \in issued
         /\ \A u \in People : grantTok[u] = held[r] => grantId[u] = row[r]
         /\ \A q \in Requests : pc[q] \in Refreshing /\ held[q] = held[r]
                                  => row[q] = row[r]

\* A new consent is known to the request that connects it, and to nobody else.
Fresh ==
    \A r \in Requests : pc[r] \in Connecting =>
      /\ held[r] \in issued /\ held[r] \notin dropped
      /\ \A u \in People : grantTok[u] # held[r]
      /\ \A q \in Requests : held[q] = held[r] => q = r

\* The row a disconnected token belonged to is gone.
Gone ==
    /\ dropped \subseteq issued /\ DisconnectedStaysAway
    /\ \A r \in Requests, u \in People :
         pc[r] \in Refreshing /\ held[r] \in dropped => grantId[u] # row[r]

GrantInv == TypeOK /\ Handlers /\ Ids /\ Homes /\ Fresh /\ Gone

\* A handler that is going to write a login row for a Google account works for
\* the user of its address or for one that has connected it.
LoginInv ==
    /\ LoginByOwnAccount
    /\ \A u \in People, g \in Google : HasGrant(u, g) => <<u, g>> \in linked
    /\ \A r \in Requests :
         pc[r] \in {"find", "create", "profile", "upsert"} /\ acct[r] # None
           => user[r] = acct[r] \/ <<user[r], acct[r]>> \in linked

\* Whoever deals with a Google account alone still knows to whom it belongs.
OwnerInv ==
    /\ LinkedToOneUser
    /\ \A g \in Google \ raced, r, q \in Requests :
         acct[r] = g /\ acct[q] = g => r = q
    /\ \A r \in Requests, u \in People :
         acct[r] \in Google \ raced /\ LinkedTo(u, acct[r]) =>
           /\ pc[r] \notin {"find", "create", "profile"}
           /\ pc[r] \in {"own", "store", "upsert"} => u = user[r]

\* At the start nobody has connected anything.
LEMMA InitGrantInv == Init => GrantInv
  BY AccountsAssumption
  DEF Init, GrantInv, TypeOK, Handlers, Ids, Homes, Fresh, Gone,
      DisconnectedStaysAway, Refreshing, Connecting, PcLabels, Linking

\* Each step keeps GrantInv; the steps are those of Next, one by one.
LEMMA NextGrantInv == GrantInv /\ [Next]_vars => GrantInv'
<1> SUFFICES ASSUME GrantInv, [Next]_vars PROVE GrantInv'
  OBVIOUS
<1> USE AccountsAssumption
    DEF GrantInv, TypeOK, Handlers, Ids, Homes, Fresh, Gone,
        DisconnectedStaysAway, Refreshing, Connecting, PcLabels, Linking,
        Goto, Done, Stay, userVars, grantVars, reqVars, histVars
<1>1. ASSUME NEW r \in Requests, NEW u \in People, StartSignup(r, u)
      PROVE  GrantInv'
  BY <1>1 DEF StartSignup
<1>2. ASSUME NEW r \in Requests, NEW u \in People, StartRefresh(r, u)
      PROVE  GrantInv'
  BY <1>2 DEF StartRefresh, Read
<1>3. ASSUME NEW r \in Requests, NEW u \in People, StartSync(r, u)
      PROVE  GrantInv'
  BY <1>3 DEF StartSync, Read
<1>4. ASSUME NEW r \in Requests, NEW u \in People, NEW g \in Google,
             NEW c \in Consents, StartConnect(r, u, g, c)
      PROVE  GrantInv'
  <2>1. TypeOK' /\ Handlers' /\ Ids'
    BY <1>4 DEF StartConnect, NoteRace
  <2>2. Homes'
    BY <1>4 DEF StartConnect, NoteRace
  <2>3. Fresh'
    BY <1>4 DEF StartConnect, NoteRace
  <2>4. Gone'
    BY <1>4 DEF StartConnect, NoteRace
  <2> QED
    BY <2>1, <2>2, <2>3, <2>4
<1>5. ASSUME NEW r \in Requests, NEW g \in Google, StartLogin(r, g)
      PROVE  GrantInv'
  BY <1>5 DEF StartLogin, NoteRace
<1>6. ASSUME NEW r \in Requests, FindSub(r)
      PROVE  GrantInv'
  BY <1>6 DEF FindSub, HasGrant
<1>7. ASSUME NEW r \in Requests, FindEmail(r)
      PROVE  GrantInv'
  BY <1>7 DEF FindEmail
<1>8. ASSUME NEW r \in Requests, Create(r)
      PROVE  GrantInv'
  <2>1. CASE Done(r) /\ UNCHANGED users
    BY <1>8, <2>1 DEF Create
  <2>2. CASE Goto(r, "profile") /\ Stay(r)
    BY <1>8, <2>2 DEF Create
  <2> QED
    BY <1>8, <2>1, <2>2 DEF Create
<1>9. ASSUME NEW r \in Requests, CreateProfile(r)
      PROVE  GrantInv'
  <2>1. CASE Done(r)
    BY <1>9, <2>1 DEF CreateProfile
  <2>2. CASE Goto(r, "upsert") /\ Stay(r)
    BY <1>9, <2>2 DEF CreateProfile
  <2> QED
    BY <1>9, <2>1, <2>2 DEF CreateProfile
<1>10. ASSUME NEW r \in Requests, UpsertLogin(r)
      PROVE  GrantInv'
  <2>1. CASE Done(r)
    BY <1>10, <2>1 DEF UpsertLogin
  <2>2. CASE Goto(r, "picture") /\ Stay(r)
    BY <1>10, <2>2 DEF UpsertLogin
  <2> QED
    BY <1>10, <2>1, <2>2 DEF UpsertLogin
<1>11. ASSUME NEW r \in Requests, FindProfile(r)
      PROVE  GrantInv'
  <2>1. CASE Done(r)
    BY <1>11, <2>1 DEF FindProfile
  <2>2. CASE Goto(r, "missing") /\ Stay(r)
    BY <1>11, <2>2 DEF FindProfile
  <2> QED
    BY <1>11, <2>1, <2>2 DEF FindProfile
<1>12. ASSUME NEW r \in Requests, FindLinked(r)
      PROVE  GrantInv'
  <2>1. CASE Done(r)
    BY <1>12, <2>1 DEF FindLinked, LinkedTo, HasGrant
  <2>2. CASE Goto(r, "own") /\ UNCHANGED <<user, acct, held, row>>
    BY <1>12, <2>2 DEF FindLinked, LinkedTo, HasGrant
  <2>3. CASE Goto(r, "store") /\ UNCHANGED <<user, acct, held>>
    BY <1>12, <2>3 DEF FindLinked, LinkedTo, HasGrant
  <2> QED
    BY <1>12, <2>1, <2>2, <2>3 DEF FindLinked, LinkedTo, HasGrant
<1>13. ASSUME NEW r \in Requests, FindOwn(r)
      PROVE  GrantInv'
  BY <1>13 DEF FindOwn
<1>14. ASSUME NEW r \in Requests, StoreUpdate(r)
      PROVE  GrantInv'
  BY <1>14 DEF StoreUpdate, UpdateTokens
<1>15. ASSUME NEW r \in Requests, StoreInsert(r)
      PROVE  GrantInv'
  <2>1. CASE UNCHANGED <<grantVars, linked>>
    BY <1>15, <2>1 DEF StoreInsert
  <2>2. CASE ~UNCHANGED <<grantVars, linked>>
    <3>1. /\ user[r] \in People /\ acct[r] \in Google /\ held[r] \in Consents
          /\ linked' = linked \cup {<<user[r], acct[r]>>}
          /\ lastId + 1 \in 0..MaxId /\ lastId' = lastId + 1
      BY <1>15, <2>2 DEF StoreInsert
    <3>2. linked' \subseteq People \X Google
      <4>1. linked \subseteq People \X Google
        OBVIOUS
      <4>2. <<user[r], acct[r]>> \in People \X Google
        BY <3>1
      <4> QED
        BY ONLY <3>1, <4>1, <4>2
    <3>3. /\ grantId' \in [People -> 0..MaxId]
           /\ grantSub' \in [People -> Google \cup {None}]
           /\ grantTok' \in [People -> Consents \cup {None}]
      <4>1. /\ grantId' = [grantId EXCEPT ![user[r]] = lastId + 1]
            /\ grantSub' = [grantSub EXCEPT ![user[r]] = acct[r]]
            /\ grantTok' = [grantTok EXCEPT ![user[r]] = held[r]]
        BY <1>15, <2>2 DEF StoreInsert
      <4>2. /\ grantId \in [People -> 0..MaxId]
            /\ grantSub \in [People -> Google \cup {None}]
            /\ grantTok \in [People -> Consents \cup {None}]
        OBVIOUS
      <4> QED
        BY ONLY <3>1, <4>1, <4>2
    <3>4. \A u \in People :
             grantTok'[u] = (IF u = user[r] THEN held[r] ELSE grantTok[u]) /\
             grantId'[u] = (IF u = user[r] THEN lastId + 1 ELSE grantId[u])
      BY <1>15, <2>2, <3>1 DEF StoreInsert
    <3>5. TypeOK'
      BY <1>15, <3>1, <3>2, <3>3 DEF StoreInsert
    <3>6. Handlers'
      BY <1>15, <2>2 DEF StoreInsert, HasGrant
    <3>7. Ids'
      BY <1>15, <2>2 DEF StoreInsert, HasGrant
    <3>8. Homes'
      <4>1. \A u \in People : grantTok[u] # held[r] /\ grantId[u] <= lastId
        BY <1>15 DEF StoreInsert
      <4>2. \A q \in Requests :
              pc'[q] \in Refreshing => /\ q # r /\ pc[q] = pc'[q]
                                       /\ held'[q] = held[q] /\ row'[q] = row[q]
                                       /\ held[q] # held[r]
        BY <1>15 DEF StoreInsert
      <4> QED
        BY <1>15, <3>1, <3>4, <4>1, <4>2 DEF StoreInsert
    <3>9. Fresh'
      BY <1>15, <2>2 DEF StoreInsert, HasGrant
    <3>10. Gone'
      BY <1>15, <2>2 DEF StoreInsert, HasGrant
    <3> QED
      BY <3>5, <3>6, <3>7, <3>8, <3>9, <3>10
  <2> QED
    BY <2>1, <2>2
<1>16. ASSUME NEW r \in Requests, AskGoogle(r)
      PROVE  GrantInv'
  <2>1. CASE Done(r)
    BY <1>16, <2>1 DEF AskGoogle
  <2>2. CASE Goto(r, "save") /\ Stay(r)
    BY <1>16, <2>2 DEF AskGoogle
  <2> QED
    BY <1>16, <2>1, <2>2 DEF AskGoogle
<1>17. ASSUME NEW r \in Requests, SaveRefreshed(r)
      PROVE  GrantInv'
  BY <1>17 DEF SaveRefreshed, UpdateTokens
<1>18. ASSUME NEW r \in Requests, SyncAsksGoogle(r)
      PROVE  GrantInv'
  <2>1. CASE Done(r)
    BY <1>18, <2>1 DEF SyncAsksGoogle
  <2>2. CASE Goto(r, "syncSave") /\ Stay(r)
    BY <1>18, <2>2 DEF SyncAsksGoogle
  <2>3. CASE Goto(r, "syncClear") /\ Stay(r)
    BY <1>18, <2>3 DEF SyncAsksGoogle
  <2> QED
    BY <1>18, <2>1, <2>2, <2>3 DEF SyncAsksGoogle
<1>19. ASSUME NEW r \in Requests, SyncStore(r)
      PROVE  GrantInv'
  BY <1>19 DEF SyncStore, UpdateTokens
<1>20. ASSUME NEW r \in Requests, EndSync(r)
      PROVE  GrantInv'
  BY <1>20 DEF EndSync
<1>21. ASSUME NEW r \in Requests, Abort(r)
      PROVE  GrantInv'
  BY <1>21 DEF Abort
<1>22. ASSUME NEW u \in People, Disconnect(u)
      PROVE  GrantInv'
  BY <1>22 DEF Disconnect
<1>23. CASE UNCHANGED vars
  BY <1>23 DEF vars
<1> QED
  BY <1>1, <1>2, <1>3, <1>4, <1>5, <1>6, <1>7, <1>8, <1>9, <1>10, <1>11,
     <1>12, <1>13, <1>14, <1>15, <1>16, <1>17, <1>18, <1>19, <1>20, <1>21,
     <1>22, <1>23
     DEF Next, Step

-----------------------------------------------------------------------------
\* Each step keeps LoginInv.
LEMMA NextLoginInv == GrantInv /\ LoginInv /\ [Next]_vars => LoginInv'
<1> SUFFICES ASSUME GrantInv, LoginInv, [Next]_vars PROVE LoginInv'
  OBVIOUS
<1> USE AccountsAssumption
    DEF GrantInv, TypeOK, Handlers, LoginInv, LoginByOwnAccount, HasGrant,
        Connecting, Goto, Done, Stay, userVars, grantVars, reqVars, histVars
<1>1. ASSUME NEW r \in Requests, NEW u \in People, StartSignup(r, u)
      PROVE  LoginInv'
  BY <1>1 DEF StartSignup
<1>2. ASSUME NEW r \in Requests, NEW u \in People, StartRefresh(r, u)
      PROVE  LoginInv'
  BY <1>2 DEF StartRefresh, Read
<1>3. ASSUME NEW r \in Requests, NEW u \in People, StartSync(r, u)
      PROVE  LoginInv'
  BY <1>3 DEF StartSync, Read
<1>4. ASSUME NEW r \in Requests, NEW u \in People, NEW g \in Google,
             NEW c \in Consents, StartConnect(r, u, g, c)
      PROVE  LoginInv'
  BY <1>4 DEF StartConnect, NoteRace
<1>5. ASSUME NEW r \in Requests, NEW g \in Google, StartLogin(r, g)
      PROVE  LoginInv'
  BY <1>5 DEF StartLogin, NoteRace
<1>6. ASSUME NEW r \in Requests, FindSub(r)
      PROVE  LoginInv'
  BY <1>6 DEF FindSub
<1>7. ASSUME NEW r \in Requests, FindEmail(r)
      PROVE  LoginInv'
  BY <1>7 DEF FindEmail
<1>8. ASSUME NEW r \in Requests, Create(r)
      PROVE  LoginInv'
  BY <1>8 DEF Create
<1>9. ASSUME NEW r \in Requests, CreateProfile(r)
      PROVE  LoginInv'
  BY <1>9 DEF CreateProfile
<1>10. ASSUME NEW r \in Requests, UpsertLogin(r)
      PROVE  LoginInv'
  BY <1>10 DEF UpsertLogin
<1>11. ASSUME NEW r \in Requests, FindProfile(r)
      PROVE  LoginInv'
  BY <1>11 DEF FindProfile
<1>12. ASSUME NEW r \in Requests, FindLinked(r)
      PROVE  LoginInv'
  BY <1>12 DEF FindLinked, LinkedTo
<1>13. ASSUME NEW r \in Requests, FindOwn(r)
      PROVE  LoginInv'
  BY <1>13 DEF FindOwn
<1>14. ASSUME NEW r \in Requests, StoreUpdate(r)
      PROVE  LoginInv'
  BY <1>14 DEF StoreUpdate, UpdateTokens
<1>15. ASSUME NEW r \in Requests, StoreInsert(r)
      PROVE  LoginInv'
  BY <1>15 DEF StoreInsert
<1>16. ASSUME NEW r \in Requests, AskGoogle(r)
      PROVE  LoginInv'
  BY <1>16 DEF AskGoogle
<1>17. ASSUME NEW r \in Requests, SaveRefreshed(r)
      PROVE  LoginInv'
  BY <1>17 DEF SaveRefreshed, UpdateTokens
<1>18. ASSUME NEW r \in Requests, SyncAsksGoogle(r)
      PROVE  LoginInv'
  BY <1>18 DEF SyncAsksGoogle
<1>19. ASSUME NEW r \in Requests, SyncStore(r)
      PROVE  LoginInv'
  BY <1>19 DEF SyncStore, UpdateTokens
<1>20. ASSUME NEW r \in Requests, EndSync(r)
      PROVE  LoginInv'
  BY <1>20 DEF EndSync
<1>21. ASSUME NEW r \in Requests, Abort(r)
      PROVE  LoginInv'
  BY <1>21 DEF Abort
<1>22. ASSUME NEW u \in People, Disconnect(u)
      PROVE  LoginInv'
  BY <1>22 DEF Disconnect
<1>23. CASE UNCHANGED vars
  BY <1>23 DEF vars
<1> QED
  BY <1>1, <1>2, <1>3, <1>4, <1>5, <1>6, <1>7, <1>8, <1>9, <1>10, <1>11,
     <1>12, <1>13, <1>14, <1>15, <1>16, <1>17, <1>18, <1>19, <1>20, <1>21,
     <1>22, <1>23
     DEF Next, Step

-----------------------------------------------------------------------------
\* Each step keeps OwnerInv.
LEMMA NextOwnerInv == GrantInv /\ OwnerInv /\ [Next]_vars => OwnerInv'
<1> SUFFICES ASSUME GrantInv, OwnerInv, [Next]_vars PROVE OwnerInv'
  OBVIOUS
<1> USE AccountsAssumption
    DEF GrantInv, TypeOK, Handlers, OwnerInv, LinkedToOneUser, LinkedTo,
        HasGrant, Connecting, Goto, Done, Stay, userVars, grantVars, reqVars,
        histVars
<1>1. ASSUME NEW r \in Requests, NEW u \in People, StartSignup(r, u)
      PROVE  OwnerInv'
  BY <1>1 DEF StartSignup
<1>2. ASSUME NEW r \in Requests, NEW u \in People, StartRefresh(r, u)
      PROVE  OwnerInv'
  BY <1>2 DEF StartRefresh, Read
<1>3. ASSUME NEW r \in Requests, NEW u \in People, StartSync(r, u)
      PROVE  OwnerInv'
  BY <1>3 DEF StartSync, Read
<1>4. ASSUME NEW r \in Requests, NEW u \in People, NEW g \in Google,
             NEW c \in Consents, StartConnect(r, u, g, c)
      PROVE  OwnerInv'
  BY <1>4 DEF StartConnect, NoteRace
<1>5. ASSUME NEW r \in Requests, NEW g \in Google, StartLogin(r, g)
      PROVE  OwnerInv'
  BY <1>5 DEF StartLogin, NoteRace
<1>6. ASSUME NEW r \in Requests, FindSub(r)
      PROVE  OwnerInv'
  BY <1>6 DEF FindSub
<1>7. ASSUME NEW r \in Requests, FindEmail(r)
      PROVE  OwnerInv'
  BY <1>7 DEF FindEmail
<1>8. ASSUME NEW r \in Requests, Create(r)
      PROVE  OwnerInv'
  <2>1. CASE user[r] \in users
    BY <1>8, <2>1 DEF Create
  <2>2. CASE user[r] \notin users
    BY <1>8, <2>2 DEF Create
  <2> QED
    BY <1>8, <2>1, <2>2 DEF Create
<1>9. ASSUME NEW r \in Requests, CreateProfile(r)
      PROVE  OwnerInv'
  BY <1>9 DEF CreateProfile
<1>10. ASSUME NEW r \in Requests, UpsertLogin(r)
      PROVE  OwnerInv'
  BY <1>10 DEF UpsertLogin
<1>11. ASSUME NEW r \in Requests, FindProfile(r)
      PROVE  OwnerInv'
  <2>1. CASE Done(r)
    BY <1>11, <2>1 DEF FindProfile
  <2>2. CASE Goto(r, "missing") /\ Stay(r)
    BY <1>11, <2>2 DEF FindProfile
  <2> QED
    BY <1>11, <2>1, <2>2 DEF FindProfile
<1>12. ASSUME NEW r \in Requests, FindLinked(r)
      PROVE  OwnerInv'
  <2>1. CASE Done(r)
    BY <1>12, <2>1 DEF FindLinked
  <2>2. CASE Goto(r, "own") /\ UNCHANGED <<user, acct, held, row>>
    BY <1>12, <2>2 DEF FindLinked
  <2>3. CASE Goto(r, "store") /\ UNCHANGED <<user, acct, held>>
    BY <1>12, <2>3 DEF FindLinked
  <2> QED
    BY <1>12, <2>1, <2>2, <2>3 DEF FindLinked
<1>13. ASSUME NEW r \in Requests, FindOwn(r)
      PROVE  OwnerInv'
  BY <1>13 DEF FindOwn
<1>14. ASSUME NEW r \in Requests, StoreUpdate(r)
      PROVE  OwnerInv'
  BY <1>14 DEF StoreUpdate, UpdateTokens
<1>15. ASSUME NEW r \in Requests, StoreInsert(r)
      PROVE  OwnerInv'
  <2>1. CASE UNCHANGED <<grantVars, linked>>
    BY <1>15, <2>1 DEF StoreInsert
  <2>2. CASE ~UNCHANGED <<grantVars, linked>>
    <3>1. /\ user[r] \in People /\ acct[r] \in Google /\ pc[r] = "store"
          /\ UNCHANGED <<raced, loginOf>>
          /\ \A u \in People, g \in Google :
               LinkedTo(u, g)' => \/ LinkedTo(u, g)
                                  \/ u = user[r] /\ g = acct[r]
      BY <1>15, <2>2 DEF StoreInsert
    <3>2. \A q \in Requests :
            /\ acct'[q] = IF q = r THEN None ELSE acct[q]
            /\ q # r => pc'[q] = pc[q] /\ user'[q] = user[q]
      BY <1>15 DEF StoreInsert
    <3> QED
      BY <3>1, <3>2
  <2> QED
    BY <2>1, <2>2
<1>16. ASSUME NEW r \in Requests, AskGoogle(r)
      PROVE  OwnerInv'
  <2>1. CASE Done(r)
    BY <1>16, <2>1 DEF AskGoogle
  <2>2. CASE Goto(r, "save") /\ Stay(r)
    BY <1>16, <2>2 DEF AskGoogle
  <2> QED
    BY <1>16, <2>1, <2>2 DEF AskGoogle
<1>17. ASSUME NEW r \in Requests, SaveRefreshed(r)
      PROVE  OwnerInv'
  BY <1>17 DEF SaveRefreshed, UpdateTokens
<1>18. ASSUME NEW r \in Requests, SyncAsksGoogle(r)
      PROVE  OwnerInv'
  BY <1>18 DEF SyncAsksGoogle
<1>19. ASSUME NEW r \in Requests, SyncStore(r)
      PROVE  OwnerInv'
  BY <1>19 DEF SyncStore, UpdateTokens
<1>20. ASSUME NEW r \in Requests, EndSync(r)
      PROVE  OwnerInv'
  BY <1>20 DEF EndSync
<1>21. ASSUME NEW r \in Requests, Abort(r)
      PROVE  OwnerInv'
  BY <1>21 DEF Abort
<1>22. ASSUME NEW u \in People, Disconnect(u)
      PROVE  OwnerInv'
  BY <1>22 DEF Disconnect
<1>23. CASE UNCHANGED vars
  BY <1>23 DEF vars
<1> QED
  BY <1>1, <1>2, <1>3, <1>4, <1>5, <1>6, <1>7, <1>8, <1>9, <1>10, <1>11,
     <1>12, <1>13, <1>14, <1>15, <1>16, <1>17, <1>18, <1>19, <1>20, <1>21,
     <1>22, <1>23
     DEF Next, Step

-----------------------------------------------------------------------------
\* GrantInv holds in every reachable state.
THEOREM GrantsHold == Spec => []GrantInv
  BY InitGrantInv, NextGrantInv, PTL DEF Spec

\* Every reachable state has the types of the tables and the handlers.
THEOREM TypeCorrect == Spec => []TypeOK
<1>1. GrantInv => TypeOK
  BY DEF GrantInv
<1> QED
  BY <1>1, GrantsHold, PTL

\* Tokens of a disconnected row are never stored again, however many refreshes
\* and syncs were under way.
THEOREM DisconnectIsFinal == Spec => []DisconnectedStaysAway
<1>1. GrantInv => DisconnectedStaysAway
  BY DEF GrantInv, Gone
<1> QED
  BY <1>1, GrantsHold, PTL

\* A Google account signs in the user of its address or one that connected it.
THEOREM LoginIsOwn == Spec => []LoginByOwnAccount
<1>1. Init => LoginInv
  BY DEF Init, LoginInv, LoginByOwnAccount, HasGrant
<1>2. LoginInv => LoginByOwnAccount
  BY DEF LoginInv
<1> QED
  BY <1>1, <1>2, NextLoginInv, GrantsHold, PTL DEF Spec

\* A Google account that was never linked by two requests at once has one user.
THEOREM OneOwner == Spec => []LinkedToOneUser
<1>1. Init => OwnerInv
  BY AccountsAssumption
  DEF Init, OwnerInv, LinkedToOneUser, LinkedTo, HasGrant
<1>2. OwnerInv => LinkedToOneUser
  BY DEF OwnerInv
<1> QED
  BY <1>1, <1>2, NextOwnerInv, GrantsHold, PTL DEF Spec
=============================================================================
