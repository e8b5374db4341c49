--------------------------- MODULE GoogleAccounts ---------------------------
(***************************************************************************)
(* The accounts of the platform and the Google accounts they are tied to:  *)
(* tables users, user_profiles and oauth_accounts, written by signup,      *)
(* login with Google, connecting YouTube, token refreshes of the API and of *)
(* the worker, and disconnecting.  No transaction spans two statements.    *)
(*                                                                         *)
(* A user is named by its e-mail address, which is unique, and a Google    *)
(* account by the address it reports.  A user has at most one row of       *)
(* oauth_accounts for each purpose: login and youtube-connect.  A refresh  *)
(* token is named by the consent Google issued it for; access tokens are   *)
(* left out, as every one is stored together with its refresh token.       *)
(***************************************************************************)
EXTENDS Integers, FiniteSets

CONSTANTS
    People,    \* e-mail addresses
    Google,    \* those that are Google accounts
    Consents,  \* authorization codes exchanged for tokens; a bound
    MaxId,     \* a bound on the serial ids of youtube-connect rows
    Requests,  \* API requests and worker syncs under way
    None

ASSUME AccountsAssumption ==
    /\ Google \subseteq People
    /\ MaxId \in Nat
    /\ None \notin People \cup Consents

VARIABLES
    users,     \* the rows of users
    profiles,  \* the users with a row in user_profiles
    loginOf,   \* provider_user_id of each user's login row
    grantId,   \* id of each user's youtube-connect row, 0 without one
    grantSub,  \* its provider_user_id
    grantTok,  \* its refresh_token
    lastId,    \* the sequence behind the ids
    issued,    \* the consents given so far
    pc,        \* how far the handler of each request is
    user,      \* the user it works for
    acct,      \* the Google account it deals with
    held,      \* the refresh token it holds
    row,       \* the id it has read
    raced,     \* history: accounts two requests have linked at once
    linked,    \* history: who has connected which account
    dropped    \* history: tokens in rows that were disconnected

userVars  == <<users, profiles>>
grantVars == <<grantId, grantSub, grantTok, lastId>>
reqVars   == <<pc, user, acct, held, row>>
histVars  == <<raced, linked, dropped>>
vars      == <<userVars, loginOf, grantVars, reqVars, issued, histVars>>

Linking  == {"link", "own", "store", "sub", "find", "create", "profile",
             "upsert", "picture", "missing"}
PcLabels == {"idle", "ask", "save", "sync", "syncSave", "syncClear"}
              \cup Linking

TypeOK ==
    /\ users \subseteq People /\ profiles \subseteq People
    /\ loginOf \in [People -> Google \cup {None}]
    /\ grantId \in [People -> 0..MaxId] /\ lastId \in 0..MaxId
    /\ grantSub \in [People -> Google \cup {None}]
    /\ grantTok \in [People -> Consents \cup {None}]
    /\ issued \subseteq Consents
    /\ pc \in [Requests -> PcLabels]
    /\ user \in [Requests -> People \cup {None}]
    /\ acct \in [Requests -> Google \cup {None}]
    /\ held \in [Requests -> Consents \cup {None}]
    /\ row \in [Requests -> 0..MaxId]
    /\ raced \subseteq Google /\ linked \subseteq People \X Google
    /\ dropped \subseteq Consents

Init ==
    /\ users = {} /\ profiles = {}
    /\ loginOf = [u \in People |-> None]
    /\ grantId = [u \in People |-> 0] /\ lastId = 0
    /\ grantSub = [u \in People |-> None]
    /\ grantTok = [u \in People |-> None]
    /\ issued = {}
    /\ pc = [r \in Requests |-> "idle"]
    /\ user = [r \in Requests |-> None] /\ acct = [r \in Requests |-> None]
    /\ held = [r \in Requests |-> None] /\ row = [r \in Requests |-> 0]
    /\ raced = {} /\ linked = {} /\ dropped = {}

-----------------------------------------------------------------------------
Goto(r, label) == pc' = [pc EXCEPT ![r] = label]

Done(r) ==
    /\ Goto(r, "idle")
    /\ user' = [user EXCEPT ![r] = None] /\ acct' = [acct EXCEPT ![r] = None]
    /\ held' = [held EXCEPT ![r] = None] /\ row' = [row EXCEPT ![r] = 0]

Stay(r) == UNCHANGED <<user, acct, held, row>>

\* Another request is linking the account: noted in the history.
NoteRace(r, g) ==
    raced' = IF \E q \in Requests \ {r} : acct[q] = g THEN raced \cup {g}
             ELSE raced

HasGrant(u, g) == grantId[u] # 0 /\ grantSub[u] = g
LinkedTo(u, g) == loginOf[u] = g \/ HasGrant(u, g)

-----------------------------------------------------------------------------
(* signup, adminSignup and loginWithGoogle                                 *)

StartSignup(r, u) ==
    /\ pc[r] = "idle"
    /\ Goto(r, "find")
    /\ user' = [user EXCEPT ![r] = u]
    /\ UNCHANGED <<userVars, loginOf, grantVars, acct, held, row, issued,
                   histVars>>

\* Google has verified the identity.
StartLogin(r, g) ==
    /\ pc[r] = "idle"
    /\ Goto(r, "sub")
    /\ acct' = [acct EXCEPT ![r] = g]
    /\ NoteRace(r, g)
    /\ UNCHANGED <<userVars, loginOf, grantVars, user, held, row, issued,
                   linked, dropped>>

\* Faulty: the query selects on the provider alone.
FindSubAny(r) ==
    /\ pc[r] = "sub"
    /\ LET owners == {u \in People : loginOf[u] # None}
       IN IF owners # {}
          THEN \E u \in owners : /\ user' = [user EXCEPT ![r] = u]
                                 /\ Goto(r, "upsert")
          ELSE /\ user' = [user EXCEPT ![r] = acct[r]] /\ Goto(r, "find")
    /\ UNCHANGED <<userVars, loginOf, grantVars, acct, held, row, issued,
                   histVars>>

\* findOauthAccounts: the login row decides, else any row of the account, else
\* the e-mail address.
FindSub(r) ==
    /\ pc[r] = "sub"
    /\ LET g      == acct[r]
           owners == IF \E u \in People : loginOf[u] = g
                     THEN {u \in People : loginOf[u] = g}
                     ELSE {u \in People : HasGrant(u, g)}
       IN IF owners # {}
          THEN \E u \in owners : /\ user' = [user EXCEPT ![r] = u]
                                 /\ Goto(r, "upsert")
          ELSE /\ user' = [user EXCEPT ![r] = g] /\ Goto(r, "find")
    /\ UNCHANGED <<userVars, loginOf, grantVars, acct, held, row, issued,
                   histVars>>

\* findByEmail: a signup is refused when there is a user.
FindEmail(r) ==
    /\ pc[r] = "find"
    /\ \/ user[r] \notin users /\ Goto(r, "create") /\ Stay(r)
       \/ user[r] \in users /\ acct[r] # None /\ Goto(r, "upsert") /\ Stay(r)
       \/ user[r] \in users /\ acct[r] = None /\ Done(r)
    /\ UNCHANGED <<userVars, loginOf, grantVars, issued, histVars>>

\* The unique index on email stops the second of two creations.
Create(r) ==
    /\ pc[r] = "create"
    /\ \/ user[r] \in users /\ Done(r) /\ UNCHANGED users
       \/ /\ user[r] \notin users /\ users' = users \cup {user[r]}
          /\ Goto(r, "profile") /\ Stay(r)
    /\ UNCHANGED <<profiles, loginOf, grantVars, issued, histVars>>

\* createProfile, for a new user or, at the end of a login, for one without.
CreateProfile(r) ==
    /\ pc[r] \in {"profile", "missing"}
    /\ profiles' = profiles \cup {user[r]}
    /\ IF pc[r] = "profile" /\ acct[r] # None /\ user[r] \notin profiles
       THEN Goto(r, "upsert") /\ Stay(r)
       ELSE Done(r)
    /\ UNCHANGED <<users, loginOf, grantVars, issued, histVars>>

\* upsertOauthAccountByUserProviderPurpose: one login row for each user, which
\* takes the new identity, and one for each identity, or the insert fails.
UpsertLogin(r) ==
    /\ pc[r] = "upsert"
    /\ \/ /\ \E u \in People \ {user[r]} : loginOf[u] = acct[r]
          /\ Done(r) /\ UNCHANGED loginOf
       \/ /\ \A u \in People \ {user[r]} : loginOf[u] # acct[r]
          /\ loginOf' = [loginOf EXCEPT ![user[r]] = acct[r]]
          /\ Done(r) \/ (Goto(r, "picture") /\ Stay(r))
    /\ UNCHANGED <<userVars, grantVars, issued, histVars>>

\* Google gave an avatar: getProfileByUserId, upsertProfile when there is one.
FindProfile(r) ==
    /\ pc[r] = "picture"
    /\ \/ user[r] \in profiles /\ Done(r)
       \/ user[r] \notin profiles /\ Goto(r, "missing") /\ Stay(r)
    /\ UNCHANGED <<userVars, loginOf, grantVars, issued, histVars>>

-----------------------------------------------------------------------------
(* connectGoogleYoutubeAuthorizationCode and upsertGoogleOauthAccount      *)

\* The state names a user and the code is exchanged for tokens.
StartConnect(r, u, g, c) ==
    /\ pc[r] = "idle" /\ u \in users /\ c \notin issued
    /\ issued' = issued \cup {c}
    /\ Goto(r, "link")
    /\ user' = [user EXCEPT ![r] = u] /\ acct' = [acct EXCEPT ![r] = g]
    /\ held' = [held EXCEPT ![r] = c]
    /\ NoteRace(r, g)
    /\ UNCHANGED <<userVars, loginOf, grantVars, row, linked, dropped>>

\* Faulty: only rows of the same purpose are a conflict.
FindLinkedSamePurpose(r) ==
    /\ pc[r] = "link"
    /\ \/ \E u \in People \ {user[r]} : HasGrant(u, acct[r]) /\ Done(r)
       \/ /\ \A u \in People \ {user[r]} : ~HasGrant(u, acct[r])
          /\ row' = [row EXCEPT ![r] = grantId[user[r]]]
          /\ Goto(r, "store") /\ UNCHANGED <<user, acct, held>>
    /\ UNCHANGED <<userVars, loginOf, grantVars, issued, histVars>>

\* findOauthAccounts: an account of somebody else is refused, whatever the
\* purpose of the row.
FindLinked(r) ==
    /\ pc[r] = "link"
    /\ \/ \E u \in People \ {user[r]} : LinkedTo(u, acct[r]) /\ Done(r)
       \/ /\ \A u \in People \ {user[r]} : ~LinkedTo(u, acct[r])
          /\ UNCHANGED <<user, acct, held>>
          /\ IF HasGrant(user[r], acct[r])
             THEN /\ row' = [row EXCEPT ![r] = grantId[user[r]]]
                  /\ Goto(r, "store")
             ELSE Goto(r, "own") /\ UNCHANGED row
    /\ UNCHANGED <<userVars, loginOf, grantVars, issued, histVars>>

\* findOauthAccountByUserAndProvider
FindOwn(r) ==
    /\ pc[r] = "own"
    /\ row' = [row EXCEPT ![r] = grantId[user[r]]]
    /\ Goto(r, "store")
    /\ UNCHANGED <<userVars, loginOf, grantVars, user, acct, held, issued,
                   histVars>>

\* Faulty: the row is looked up by its user again.
UpdateTokensOfUser(r, t) ==
    grantTok' = [grantTok EXCEPT ![user[r]] = IF grantId[user[r]] # 0 THEN t
                                              ELSE @]

\* updateOauthAccountTokens: by id, so a row deleted meanwhile stays away.
UpdateTokens(r, t) ==
    grantTok' = [u \in People |-> IF grantId[u] # 0 /\ grantId[u] = row[r]
                                  THEN t ELSE grantTok[u]]

\* The row that was found takes the tokens; provider_user_id stays.
StoreUpdate(r) ==
    /\ pc[r] = "store" /\ row[r] # 0
    /\ UpdateTokens(r, held[r])
    /\ Done(r)
    /\ UNCHANGED <<userVars, loginOf, grantId, grantSub, lastId, issued,
                   histVars>>

\* createOauthAccount, unless one of the unique indexes is violated.
StoreInsert(r) ==
    /\ pc[r] = "store" /\ row[r] = 0 /\ lastId < MaxId
    /\ IF grantId[user[r]] # 0 \/ \E u \in People : HasGrant(u, acct[r])
       THEN UNCHANGED <<grantVars, linked>>
       ELSE /\ lastId' = lastId + 1
            /\ grantId' = [grantId EXCEPT ![user[r]] = lastId + 1]
            /\ grantSub' = [grantSub EXCEPT ![user[r]] = acct[r]]
            /\ grantTok' = [grantTok EXCEPT ![user[r]] = held[r]]
            /\ linked' = linked \cup {<<user[r], acct[r]>>}
    /\ Done(r)
    /\ UNCHANGED <<userVars, loginOf, issued, raced, dropped>>

\* deleteOauthAccountByUserAndProvider
Disconnect(u) ==
    /\ grantId[u] # 0
    /\ grantId' = [grantId EXCEPT ![u] = 0]
    /\ grantSub' = [grantSub EXCEPT ![u] = None]
    /\ grantTok' = [grantTok EXCEPT ![u] = None]
    /\ dropped' = dropped \cup ({grantTok[u]} \ {None})
    /\ UNCHANGED <<userVars, loginOf, lastId, reqVars, issued, raced,
                   linked>>

-----------------------------------------------------------------------------
(* Refreshing access tokens: refreshGoogleOauthTokensForUser in the API,   *)
(* refreshGoogleAccessToken in the worker.  Google may refuse a refresh     *)
(* token at any time: the user can withdraw the application's access there. *)

Read(r, u) ==
    /\ pc[r] = "idle" /\ grantId[u] # 0
    /\ user' = [user EXCEPT ![r] = u]
    /\ row' = [row EXCEPT ![r] = grantId[u]]
    /\ held' = [held EXCEPT ![r] = grantTok[u]]
    /\ UNCHANGED <<userVars, loginOf, grantVars, acct, issued, histVars>>

StartRefresh(r, u) == grantTok[u] # None /\ Read(r, u) /\ Goto(r, "ask")

\* invalid_grant ends the request; the row is left alone.
AskGoogle(r) ==
    /\ pc[r] = "ask"
    /\ \/ Goto(r, "save") /\ Stay(r)
       \/ Done(r)
    /\ UNCHANGED <<userVars, loginOf, grantVars, issued, histVars>>

SaveRefreshed(r) ==
    /\ pc[r] = "save"
    /\ UpdateTokens(r, held[r])
    /\ Done(r)
    /\ UNCHANGED <<userVars, loginOf, grantId, grantSub, lastId, issued,
                   histVars>>

\* syncUser reads the row once and keeps it for all its calls.
StartSync(r, u) == Read(r, u) /\ Goto(r, "sync")

\* A token is about to expire, or Google answers 401.  On invalid_grant: go on
\* with an access token that is still usable, after clearing the refresh token,
\* or fail the job for good.
SyncAsksGoogle(r) ==
    /\ pc[r] = "sync" /\ held[r] # None
    /\ \/ Goto(r, "syncSave") /\ Stay(r)
       \/ Goto(r, "syncClear") /\ Stay(r)
       \/ Done(r)
    /\ UNCHANGED <<userVars, loginOf, grantVars, issued, histVars>>

SyncStore(r) ==
    /\ \/ pc[r] = "syncSave" /\ UpdateTokens(r, held[r])
       \/ pc[r] = "syncClear" /\ UpdateTokens(r, None)
    /\ Goto(r, "sync") /\ Stay(r)
    /\ UNCHANGED <<userVars, loginOf, grantId, grantSub, lastId, issued,
                   histVars>>

EndSync(r) ==
    /\ pc[r] = "sync"
    /\ Done(r)
    /\ UNCHANGED <<userVars, loginOf, grantVars, issued, histVars>>

-----------------------------------------------------------------------------
\* A query or a call fails, or the process dies: what is written stays.
Abort(r) ==
    /\ pc[r] # "idle"
    /\ Done(r)
    /\ UNCHANGED <<userVars, loginOf, grantVars, issued, histVars>>

Step(r) ==
    \/ FindSub(r) \/ FindEmail(r) \/ Create(r) \/ CreateProfile(r)
    \/ UpsertLogin(r) \/ FindProfile(r)
    \/ FindLinked(r) \/ FindOwn(r) \/ StoreUpdate(r) \/ StoreInsert(r)
    \/ AskGoogle(r) \/ SaveRefreshed(r)
    \/ SyncAsksGoogle(r) \/ SyncStore(r) \/ EndSync(r)

Next ==
    \/ \E r \in Requests, u \in People :
         \/ StartSignup(r, u) \/ StartRefresh(r, u) \/ StartSync(r, u)
         \/ \E g \in Google, c \in Consents : StartConnect(r, u, g, c)
    \/ \E r \in Requests, g \in Google : StartLogin(r, g)
    \/ \E r \in Requests : Step(r) \/ Abort(r)
    \/ \E u \in People : Disconnect(u)

Spec == Init /\ [][Next]_vars

-----------------------------------------------------------------------------
\* A Google account belongs to one user, for signing in and for YouTube alike,
\* as long as no two requests linked it at once: connecting refuses an account
\* of somebody else, and signing in with a connected account leads to the user
\* that connected it, whatever was disconnected or abandoned before.
LinkedToOneUser ==
    \A g \in Google \ raced, u, v \in People :
      LinkedTo(u, g) /\ LinkedTo(v, g) => u = v

\* A Google account signs in the user of its address or one that has connected
\* it, however requests interleave and wherever they fail.
LoginByOwnAccount ==
    \A u \in People :
      loginOf[u] # None => loginOf[u] = u \/ <<u, loginOf[u]>> \in linked

\* "disconnect the stored YouTube Google OAuth grant": tokens of a row that was
\* disconnected are never stored again, although refreshes of the API and syncs
\* of the worker that read them may still be under way.
DisconnectedStaysAway ==
    \A u \in People : grantTok[u] \notin dropped
=============================================================================
