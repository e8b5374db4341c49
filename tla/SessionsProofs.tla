--------------------------- MODULE SessionsProofs ---------------------------
(***************************************************************************)
(* Proofs about Sessions for any number of sessions, browsers and requests *)
(* under way, and with every failure.                                      *)
(*                                                                         *)
(* RowInv says how tokens, cookies, answers and rows hang together and     *)
(* carries RotatedIsRevoked; CookieInv and ChainInv add what the other two *)
(* properties need.                                                        *)
(***************************************************************************)
EXTENDS Sessions, TLAPS

\* Tokens sent and cookies kept name rows of the browser they are with.
Holders ==
    /\ \A r \in Requests :
         /\ token[r] # None => /\ status[token[r]] # "none"
                               /\ owner[token[r]] = BrowserOf[r]
         /\ pc[r] \in {"find", "user", "revoke", "logout", "clear"}
              => token[r] # None
         /\ pc[r] \in {"idle", "login"} => token[r] = None
         /\ pc[r] = "answer" => issued[r] # None
    /\ \A c \in Browsers :
         jar[c] # None => status[jar[c]] # "none" /\ owner[jar[c]] = c

\* The token a new session replaces is dead before the session is created.
RevokedFirst ==
    \A r \in Requests :
      pc[r] = "issue" /\ token[r] # None => status[token[r]] = "revoked"

\* A session that is on its way to its browser is known to nobody else.
OnItsWay ==
    \A r \in Requests :
      issued[r] # None =>
        /\ status[issued[r]] \in {"live", "expired"}
        /\ owner[issued[r]] = BrowserOf[r]
        /\ \A q \in Requests : /\ token[q] # issued[r]
                               /\ issued[q] = issued[r] => q = r
        /\ \A c \in Browsers : jar[c] # issued[r]

RowInv == TypeOK /\ Holders /\ RevokedFirst /\ OnItsWay /\ RotatedIsRevoked

\* At the start there is no session.
LEMMA InitRowInv == Init => RowInv
  BY SessionsAssumption
  DEF Init, RowInv, TypeOK, Holders, RevokedFirst, OnItsWay, RotatedIsRevoked

\* Each step keeps RowInv; the steps are those of Next, one by one.
LEMMA NextRowInv == RowInv /\ [Next]_vars => RowInv'
<1> SUFFICES ASSUME RowInv, [Next]_vars PROVE RowInv'
  OBVIOUS
<1> USE SessionsAssumption
    DEF RowInv, TypeOK, Holders, RevokedFirst, OnItsWay, RotatedIsRevoked,
        Goto, EndRequest, rowVars, reqVars
<1>1. ASSUME NEW r \in Requests, SendLogin(r) PROVE RowInv'
  BY <1>1 DEF SendLogin
<1>2. ASSUME NEW r \in Requests, SendToken(r) PROVE RowInv'
  BY <1>2 DEF SendToken
<1>3. ASSUME NEW r \in Requests, CheckLogin(r) PROVE RowInv'
  BY <1>3 DEF CheckLogin
<1>4. ASSUME NEW r \in Requests, Find(r) PROVE RowInv'
  BY <1>4 DEF Find
<1>5. ASSUME NEW r \in Requests, CheckUser(r) PROVE RowInv'
  BY <1>5 DEF CheckUser
<1>6. ASSUME NEW r \in Requests, Revoke(r) PROVE RowInv'
  BY <1>6 DEF Revoke
<1>7. ASSUME NEW r \in Requests, NEW s \in Sids, Issue(r, s) PROVE RowInv'
  BY <1>7 DEF Issue
<1>8. ASSUME NEW r \in Requests, Answer(r) PROVE RowInv'
  BY <1>8 DEF Answer
<1>9. ASSUME NEW r \in Requests, Refused(r) PROVE RowInv'
  BY <1>9 DEF Refused
<1>10. ASSUME NEW r \in Requests, Abort(r) PROVE RowInv'
  BY <1>10 DEF Abort
<1>11. ASSUME NEW r \in Requests, RevokeLogout(r) PROVE RowInv'
  BY <1>11 DEF RevokeLogout
<1>12. ASSUME NEW r \in Requests, AccessExpired(r) PROVE RowInv'
  BY <1>12 DEF AccessExpired
<1>13. ASSUME NEW r \in Requests, ClearCookies(r) PROVE RowInv'
  BY <1>13 DEF ClearCookies
<1>14. ASSUME NEW c \in Browsers, DropCookies(c) PROVE RowInv'
  BY <1>14 DEF DropCookies
<1>15. ASSUME NEW s \in Sids, Expire(s) PROVE RowInv'
  BY <1>15 DEF Expire, Live
<1>16. CASE SetActive
  BY <1>16 DEF SetActive
<1>17. CASE UNCHANGED vars
  BY <1>17 DEF vars
<1> QED
  BY <1>1, <1>2, <1>3, <1>4, <1>5, <1>6, <1>7, <1>8, <1>9, <1>10, <1>11, <1>12,
     <1>13, <1>14, <1>15, <1>16, <1>17 DEF Next

\* RowInv holds in every reachable state.
THEOREM RowsAgree == Spec => []RowInv
  BY InitRowInv, NextRowInv, PTL DEF Spec

\* Every reachable state has the types of the sessions table, the cookies and
\* the handlers.
THEOREM TypeCorrect == Spec => []TypeOK
<1>1. RowInv => TypeOK
  BY DEF RowInv
<1> QED
  BY <1>1, RowsAgree, PTL

\* A session that was rotated is revoked, whatever step a request fails at and
\* however many requests present the same token.
THEOREM RotatedStaysRevoked == Spec => []RotatedIsRevoked
<1>1. RowInv => RotatedIsRevoked
  BY DEF RowInv
<1> QED
  BY <1>1, RowsAgree, PTL

-----------------------------------------------------------------------------
\* A browser that keeps the tokens of a revoked session without having had an
\* error since is about to receive other ones, or to be told to drop them.
CookieInv ==
    \A c \in Browsers :
      jar[c] # None /\ ~erred[c] /\ status[jar[c]] = "revoked"
        => \E r \in Requests :
             BrowserOf[r] = c /\ pc[r] \in {"issue", "answer", "clear"}

\* Each step keeps CookieInv.
LEMMA NextCookieInv == RowInv /\ CookieInv /\ [Next]_vars => CookieInv'
<1> SUFFICES ASSUME RowInv, CookieInv, [Next]_vars PROVE CookieInv'
  OBVIOUS
<1> USE SessionsAssumption
    DEF RowInv, TypeOK, Holders, OnItsWay, CookieInv, Goto, EndRequest,
        rowVars, reqVars
<1>1. ASSUME NEW r \in Requests, SendLogin(r) PROVE CookieInv'
  BY <1>1 DEF SendLogin
<1>2. ASSUME NEW r \in Requests, SendToken(r) PROVE CookieInv'
  BY <1>2 DEF SendToken
<1>3. ASSUME NEW r \in Requests, CheckLogin(r) PROVE CookieInv'
  BY <1>3 DEF CheckLogin
<1>4. ASSUME NEW r \in Requests, Find(r) PROVE CookieInv'
  BY <1>4 DEF Find
<1>5. ASSUME NEW r \in Requests, CheckUser(r) PROVE CookieInv'
  BY <1>5 DEF CheckUser
<1>6. ASSUME NEW r \in Requests, Revoke(r) PROVE CookieInv'
  BY <1>6 DEF Revoke
<1>7. ASSUME NEW r \in Requests, NEW s \in Sids, Issue(r, s) PROVE CookieInv'
  BY <1>7 DEF Issue
<1>8. ASSUME NEW r \in Requests, Answer(r) PROVE CookieInv'
  BY <1>8 DEF Answer
<1>9. ASSUME NEW r \in Requests, Refused(r) PROVE CookieInv'
  BY <1>9 DEF Refused
<1>10. ASSUME NEW r \in Requests, Abort(r) PROVE CookieInv'
  BY <1>10 DEF Abort
<1>11. ASSUME NEW r \in Requests, RevokeLogout(r) PROVE CookieInv'
  BY <1>11 DEF RevokeLogout
<1>12. ASSUME NEW r \in Requests, AccessExpired(r) PROVE CookieInv'
  BY <1>12 DEF AccessExpired
<1>13. ASSUME NEW r \in Requests, ClearCookies(r) PROVE CookieInv'
  BY <1>13 DEF ClearCookies
<1>14. ASSUME NEW c \in Browsers, DropCookies(c) PROVE CookieInv'
  BY <1>14 DEF DropCookies
<1>15. ASSUME NEW s \in Sids, Expire(s) PROVE CookieInv'
  BY <1>15 DEF Expire, Live
<1>16. CASE SetActive
  BY <1>16 DEF SetActive
<1>17. CASE UNCHANGED vars
  BY <1>17 DEF vars
<1> QED
  BY <1>1, <1>2, <1>3, <1>4, <1>5, <1>6, <1>7, <1>8, <1>9, <1>10, <1>11, <1>12,
     <1>13, <1>14, <1>15, <1>16, <1>17 DEF Next

\* The cookies of a browser without a request under way are usable until they
\* expire, unless one of its requests was cut short: for any number of tabs
\* that refresh with one token, answered in any order.
THEOREM CookiesAlwaysUsable == Spec => []CookiesUsable
<1>1. Init => CookieInv
  BY DEF Init, CookieInv
<1>2. CookieInv => CookiesUsable
  BY DEF CookieInv, CookiesUsable
<1> QED
  BY <1>1, <1>2, NextCookieInv, RowsAgree, PTL DEF Spec

-----------------------------------------------------------------------------
\* Every row descends from the row of a login made by the same browser.
Descent ==
    /\ \A s \in Sids : status[s] # "none" =>
         /\ origin[s] # None /\ status[origin[s]] # "none"
         /\ owner[s] \in Browsers /\ owner[origin[s]] = owner[s]

\* While a serial browser replaces a session, no other session of its login is
\* usable; once that one is revoked, none is.
LastOfChain ==
    \A r \in Requests, s \in Sids :
      /\ BrowserOf[r] \in Serial
      /\ token[r] # None /\ Live(s) /\ origin[s] = origin[token[r]]
      => (pc[r] # "issue") /\ (pc[r] \in {"user", "revoke"} => s = token[r])

ChainInv == Descent /\ LastOfChain /\ OneLivePerLogin

\* Each step keeps ChainInv.
LEMMA NextChainInv == RowInv /\ ChainInv /\ [Next]_vars => ChainInv'
<1> SUFFICES ASSUME RowInv, ChainInv, [Next]_vars PROVE ChainInv'
  OBVIOUS
<1> USE SessionsAssumption
    DEF RowInv, TypeOK, Holders, OnItsWay, RevokedFirst, ChainInv, Descent,
        LastOfChain, OneLivePerLogin, Live, Goto, EndRequest,
        rowVars, reqVars
<1>1. ASSUME NEW r \in Requests, SendLogin(r) PROVE ChainInv'
  BY <1>1 DEF SendLogin
<1>2. ASSUME NEW r \in Requests, SendToken(r) PROVE ChainInv'
  BY <1>2 DEF SendToken
<1>3. ASSUME NEW r \in Requests, CheckLogin(r) PROVE ChainInv'
  BY <1>3 DEF CheckLogin
<1>4. ASSUME NEW r \in Requests, Find(r) PROVE ChainInv'
  BY <1>4 DEF Find
<1>5. ASSUME NEW r \in Requests, CheckUser(r) PROVE ChainInv'
  BY <1>5 DEF CheckUser
<1>6. ASSUME NEW r \in Requests, Revoke(r) PROVE ChainInv'
  BY <1>6 DEF Revoke
<1>7. ASSUME NEW r \in Requests, NEW s \in Sids, Issue(r, s) PROVE ChainInv'
  \* The new row, and no other, is changed.
  <2>1. /\ pc[r] = "issue" /\ status[s] = "none"
        /\ status'[s] = "live" /\ owner'[s] = BrowserOf[r]
        /\ origin'[s] = IF token[r] = None THEN s ELSE origin[token[r]]
        /\ \A t \in Sids : t # s => /\ status'[t] = status[t]
                                   /\ origin'[t] = origin[t]
                                   /\ owner'[t] = owner[t]
        /\ token' = token /\ pc'[r] = "answer"
        /\ \A q \in Requests : q # r => pc'[q] = pc[q]
    BY <1>7 DEF Issue
  <2>2. Descent'
    BY <2>1
  \* No usable session shares the login of the new one.
  <2>3. ASSUME NEW t \in Sids, Live(t), origin[t] = origin'[s],
               owner[t] \in Serial
        PROVE  FALSE
    <3>1. CASE token[r] = None
      BY <2>1, <2>3, <3>1
    <3>2. CASE token[r] # None
      <4>1. /\ token[r] \in Sids /\ owner[token[r]] = BrowserOf[r]
            /\ status[token[r]] # "none"
        BY <3>2
      <4>2. owner[t] = owner[origin[t]]
        BY <2>3
      <4>3. origin[t] = origin[token[r]] /\ owner[t] = BrowserOf[r]
        BY <2>1, <2>3, <3>2, <4>1, <4>2
      <4> QED
        BY <2>1, <2>3, <3>2, <4>3
    <3> QED
      BY <3>1, <3>2
  <2>4. OneLivePerLogin'
    <3> SUFFICES ASSUME NEW t \in Sids, NEW u \in Sids,
                        Live(t)', Live(u)', origin'[t] = origin'[u],
                        owner'[t] \in Serial
                 PROVE  t = u
      BY DEF Serial
    <3>1. CASE t # s /\ u # s
      BY <2>1, <3>1
    <3>2. CASE t = s /\ u # s
      <4>1. /\ owner[u] = owner[origin[u]] /\ origin[u] = origin'[s]
            /\ Live(u)
        BY <2>1, <3>2
      <4>2. owner'[s] = owner[u]
        <5>1. CASE token[r] = None
          BY <2>1, <4>1, <5>1
        <5>2. CASE token[r] # None
          BY <2>1, <4>1, <5>2
        <5> QED
          BY <5>1, <5>2
      <4> QED
        BY <2>3, <3>2, <4>1, <4>2
    <3>3. CASE u = s /\ t # s
      BY <2>1, <2>3, <3>3
    <3> QED
      BY <3>1, <3>2, <3>3
  <2>5. LastOfChain'
    <3> SUFFICES ASSUME NEW q \in Requests, NEW t \in Sids,
                        BrowserOf[q] \in Serial, token[q] # None,
                        Live(t)', origin'[t] = origin'[token[q]]
                 PROVE  /\ pc'[q] # "issue"
                        /\ pc'[q] \in {"user", "revoke"} => t = token[q]
      BY <2>1 DEF Serial
    <3>1. q = r => pc'[q] = "answer"
      BY <2>1
    <3>2. /\ token[q] \in Sids /\ token[q] # s
          /\ owner[token[q]] = BrowserOf[q] /\ status[token[q]] # "none"
          /\ origin'[token[q]] = origin[token[q]]
      BY <2>1
    <3>3. CASE t # s
      BY <2>1, <3>1, <3>2, <3>3
    <3>4. CASE t = s
      <4>1. token[r] # None => token[r] \in Sids
        OBVIOUS
      <4>2. BrowserOf[q] = BrowserOf[r]
        <5>1. CASE token[r] = None
          BY <2>1, <3>2, <3>4, <5>1
        <5>2. CASE token[r] # None
          BY <2>1, <3>2, <3>4, <4>1, <5>2
        <5> QED
          BY <5>1, <5>2
      <4>3. q = r
        BY <4>2 DEF Serial
      <4> QED
        BY <2>1, <4>3
    <3> QED
      BY <3>3, <3>4
  <2> QED
    BY <2>2, <2>4, <2>5
<1>8. ASSUME NEW r \in Requests, Answer(r) PROVE ChainInv'
  BY <1>8 DEF Answer
<1>9. ASSUME NEW r \in Requests, Refused(r) PROVE ChainInv'
  BY <1>9 DEF Refused
<1>10. ASSUME NEW r \in Requests, Abort(r) PROVE ChainInv'
  BY <1>10 DEF Abort
<1>11. ASSUME NEW r \in Requests, RevokeLogout(r) PROVE ChainInv'
  BY <1>11 DEF RevokeLogout
<1>12. ASSUME NEW r \in Requests, AccessExpired(r) PROVE ChainInv'
  BY <1>12 DEF AccessExpired
<1>13. ASSUME NEW r \in Requests, ClearCookies(r) PROVE ChainInv'
  BY <1>13 DEF ClearCookies
<1>14. ASSUME NEW c \in Browsers, DropCookies(c) PROVE ChainInv'
  BY <1>14 DEF DropCookies
<1>15. ASSUME NEW s \in Sids, Expire(s) PROVE ChainInv'
  BY <1>15 DEF Expire, Live
<1>16. CASE SetActive
  BY <1>16 DEF SetActive
<1>17. CASE UNCHANGED vars
  BY <1>17 DEF vars
<1> QED
  BY <1>1, <1>2, <1>3, <1>4, <1>5, <1>6, <1>7, <1>8, <1>9, <1>10, <1>11, <1>12,
     <1>13, <1>14, <1>15, <1>16, <1>17 DEF Next

\* A browser that sends one request at a time never has two usable sessions of
\* one login.
THEOREM OneLive == Spec => []OneLivePerLogin
<1>1. Init => ChainInv
  BY DEF Init, ChainInv, Descent, LastOfChain, OneLivePerLogin, Live
<1>2. ChainInv => OneLivePerLogin
  BY DEF ChainInv
<1> QED
  BY <1>1, <1>2, NextChainInv, RowsAgree, PTL DEF Spec
=============================================================================
