------------------------------ MODULE Sessions ------------------------------
(***************************************************************************)
(* Login, refresh rotation and logout of one user: table sessions, the     *)
(* steps of AuthService between two awaits, and the tokens that browsers   *)
(* keep in their cookies.                                                  *)
(*                                                                         *)
(* A refresh token is identified with its session: issueTokens signs one   *)
(* token for each session id, so the stored hash always matches.  A browser *)
(* may have several requests under way (tabs), one per element of Requests. *)
(* browserOf tells whose.  No transaction spans the reads and writes of a  *)
(* request, and any step may be its last.                                  *)
(***************************************************************************)
EXTENDS Naturals, FiniteSets

CONSTANTS
    Sids,       \* the values randomUUID() yields; a bound of the model
    Browsers,
    Requests,
    BrowserOf,
    Faults,     \* "abort": a request ends in an error or without an answer
    None

ASSUME SessionsAssumption ==
    /\ BrowserOf \in [Requests -> Browsers]
    /\ Faults \subseteq {"abort"}
    /\ None \notin Sids \cup Browsers

VARIABLES
    status,    \* the row: "none", "live", "expired" (expires_at has passed)
               \* or "revoked" (revoked_at is set)
    origin,    \* the session of the login this one descends from
    parent,    \* the session it was rotated from
    owner,     \* the browser it was created for (user_agent, ip_address)
    isActive,  \* users.is_active
    pc,        \* how far the handler of each request is
    token,     \* the session named by the token the request carries
    issued,    \* the session the handler has created
    jar,       \* the session whose tokens are in the browser's cookies
    erred      \* a request was cut short since the cookies were set

rowVars == <<status, origin, parent, owner>>
reqVars == <<pc, token, issued>>
vars == <<rowVars, isActive, reqVars, jar, erred>>

Live(s) == status[s] = "live"

TypeOK ==
    /\ status \in [Sids -> {"none", "live", "expired", "revoked"}]
    /\ origin \in [Sids -> Sids \cup {None}]
    /\ parent \in [Sids -> Sids \cup {None}]
    /\ owner \in [Sids -> Browsers \cup {None}]
    /\ isActive \in BOOLEAN
    /\ pc \in [Requests -> {"idle", "login", "find", "user", "revoke", "issue",
                           "answer", "logout", "clear", "refused"}]
    /\ token \in [Requests -> Sids \cup {None}]
    /\ issued \in [Requests -> Sids \cup {None}]
    /\ jar \in [Browsers -> Sids \cup {None}]
    /\ erred \in [Browsers -> BOOLEAN]

Init ==
    /\ status = [s \in Sids |-> "none"]
    /\ origin = [s \in Sids |-> None] /\ parent = [s \in Sids |-> None]
    /\ owner = [s \in Sids |-> None]
    /\ isActive = TRUE
    /\ pc = [r \in Requests |-> "idle"]
    /\ token = [r \in Requests |-> None] /\ issued = [r \in Requests |-> None]
    /\ jar = [c \in Browsers |-> None] /\ erred = [c \in Browsers |-> FALSE]

-----------------------------------------------------------------------------
(* A browser sends a request with the tokens in its cookies.               *)

Goto(r, label) == pc' = [pc EXCEPT ![r] = label]

SendLogin(r) ==
    /\ pc[r] = "idle" /\ jar[BrowserOf[r]] = None
    /\ Goto(r, "login")
    /\ UNCHANGED <<rowVars, isActive, token, issued, jar, erred>>

SendToken(r) ==
    /\ pc[r] = "idle" /\ jar[BrowserOf[r]] # None
    /\ \E label \in {"find", "logout"} : Goto(r, label)
    /\ token' = [token EXCEPT ![r] = jar[BrowserOf[r]]]
    /\ UNCHANGED <<rowVars, isActive, issued, jar, erred>>

-----------------------------------------------------------------------------
(* login, adminLogin                                                       *)

\* The password is right; updateLastLogin touches nothing modelled here.
CheckLogin(r) ==
    /\ pc[r] = "login"
    /\ Goto(r, IF isActive THEN "issue" ELSE "refused")
    /\ UNCHANGED <<rowVars, isActive, token, issued, jar, erred>>

-----------------------------------------------------------------------------
(* refresh                                                                 *)

\* Faulty: findActiveSessionById does not look at revoked_at.
FindRevoked(r) ==
    /\ pc[r] = "find"
    /\ Goto(r, IF status[token[r]] # "expired" THEN "user" ELSE "refused")
    /\ UNCHANGED <<rowVars, isActive, token, issued, jar, erred>>

\* verifyRefreshToken, findActiveSessionById
Find(r) ==
    /\ pc[r] = "find"
    /\ Goto(r, IF Live(token[r]) THEN "user" ELSE "refused")
    /\ UNCHANGED <<rowVars, isActive, token, issued, jar, erred>>

\* Faulty: the new tokens are issued before the old session is revoked.
CheckUserIssueFirst(r) ==
    /\ pc[r] = "user"
    /\ Goto(r, IF isActive THEN "issue" ELSE "refused")
    /\ UNCHANGED <<rowVars, isActive, token, issued, jar, erred>>

CheckUser(r) ==
    /\ pc[r] = "user"
    /\ Goto(r, IF isActive THEN "revoke" ELSE "refused")
    /\ UNCHANGED <<rowVars, isActive, token, issued, jar, erred>>

\* Faulty: every session of the user is revoked.
RevokeAll(r) ==
    /\ pc[r] = "revoke"
    /\ status' = [s \in Sids |-> IF status[s] = "none" THEN "none"
                                 ELSE "revoked"]
    /\ Goto(r, "issue")
    /\ UNCHANGED <<origin, parent, owner, isActive, token, issued, jar,
                   erred>>

\* revokeSessionById does not ask whether the session is still live.
Revoke(r) ==
    /\ pc[r] = "revoke"
    /\ status' = [status EXCEPT ![token[r]] = "revoked"]
    /\ Goto(r, "issue")
    /\ UNCHANGED <<origin, parent, owner, isActive, token, issued, jar,
                   erred>>

-----------------------------------------------------------------------------
(* issueTokens, for login and refresh                                      *)

Issue(r, s) ==
    /\ pc[r] = "issue"
    /\ status[s] = "none"
    /\ status' = [status EXCEPT ![s] = "live"]
    /\ parent' = [parent EXCEPT ![s] = token[r]]
    /\ owner' = [owner EXCEPT ![s] = BrowserOf[r]]
    /\ origin' = [origin EXCEPT ![s] = IF token[r] = None THEN s
                                       ELSE origin[token[r]]]
    /\ issued' = [issued EXCEPT ![r] = s]
    /\ Goto(r, "answer")
    /\ UNCHANGED <<isActive, token, jar, erred>>

EndRequest(r) ==
    /\ Goto(r, "idle")
    /\ token' = [token EXCEPT ![r] = None]
    /\ issued' = [issued EXCEPT ![r] = None]

\* mapUser has been answered and the cookies reach the browser, in whatever
\* order the answers to its requests arrive.
Answer(r) ==
    /\ pc[r] = "answer"
    /\ jar' = [jar EXCEPT ![BrowserOf[r]] = issued[r]]
    /\ erred' = [erred EXCEPT ![BrowserOf[r]] = FALSE]
    /\ EndRequest(r)
    /\ UNCHANGED <<rowVars, isActive>>

-----------------------------------------------------------------------------
(* logout                                                                  *)

RevokeLogout(r) ==
    /\ pc[r] = "logout"
    /\ status' = [status EXCEPT ![token[r]] = "revoked"]
    /\ Goto(r, "clear")
    /\ UNCHANGED <<origin, parent, owner, isActive, token, issued, jar,
                   erred>>

\* The access token has expired: JwtAuthGuard refuses.
AccessExpired(r) ==
    /\ pc[r] = "logout"
    /\ Goto(r, "refused")
    /\ UNCHANGED <<rowVars, isActive, token, issued, jar, erred>>

ClearCookies(r) ==
    /\ pc[r] = "clear"
    /\ jar' = [jar EXCEPT ![BrowserOf[r]] = None]
    /\ erred' = [erred EXCEPT ![BrowserOf[r]] = FALSE]
    /\ EndRequest(r)
    /\ UNCHANGED <<rowVars, isActive>>

-----------------------------------------------------------------------------
(* Failures, the operator and the clock.                                   *)

\* An error leaves the cookies alone.
Refused(r) ==
    /\ pc[r] = "refused"
    /\ EndRequest(r)
    /\ UNCHANGED <<rowVars, isActive, jar, erred>>

\* A query fails, the process dies, or the answer is lost: what the handler has
\* written stays.
Abort(r) ==
    /\ "abort" \in Faults
    /\ pc[r] # "idle"
    /\ erred' = [erred EXCEPT ![BrowserOf[r]] = TRUE]
    /\ EndRequest(r)
    /\ UNCHANGED <<rowVars, isActive, jar>>

\* The user signs out in the browser by dropping the cookies.
DropCookies(c) ==
    /\ jar[c] # None
    /\ jar' = [jar EXCEPT ![c] = None]
    /\ erred' = [erred EXCEPT ![c] = FALSE]
    /\ UNCHANGED <<rowVars, isActive, reqVars>>

Expire(s) ==
    /\ Live(s)
    /\ status' = [status EXCEPT ![s] = "expired"]
    /\ UNCHANGED <<origin, parent, owner, isActive, reqVars, jar, erred>>

\* Nothing in the API sets is_active; an operator does.
SetActive ==
    /\ isActive' = ~isActive
    /\ UNCHANGED <<rowVars, reqVars, jar, erred>>

-----------------------------------------------------------------------------
Next ==
    \/ \E r \in Requests :
         \/ SendLogin(r) \/ SendToken(r)
         \/ CheckLogin(r) \/ Find(r) \/ CheckUser(r) \/ Revoke(r)
         \/ \E s \in Sids : Issue(r, s)
         \/ Answer(r) \/ Refused(r) \/ Abort(r)
         \/ RevokeLogout(r) \/ AccessExpired(r) \/ ClearCookies(r)
    \/ \E c \in Browsers : DropCookies(c)
    \/ \E s \in Sids : Expire(s)
    \/ SetActive

Spec == Init /\ [][Next]_vars

-----------------------------------------------------------------------------
\* "refresh rotates by revoking old session and creating a new one": no
\* interleaving and no failure leaves both ends of a rotation usable.
RotatedIsRevoked ==
    \A s \in Sids : parent[s] # None => status[parent[s]] = "revoked"

\* The browsers that send one request at a time.
Serial == {c \in Browsers : \A q, r \in Requests :
             BrowserOf[q] = c /\ BrowserOf[r] = c => q = r}

\* A browser that sends one request at a time has one usable session for each
\* login at most, although any of its requests may fail half way.
OneLivePerLogin ==
    \A s, t \in Sids :
      /\ Live(s) /\ Live(t)
      /\ origin[s] = origin[t] /\ owner[s] \in Serial
      => s = t

\* However the requests of several tabs interleave and in whatever order their
\* answers arrive, the tokens in the cookies of a browser without a request
\* under way are usable until they expire, unless one of its requests was cut
\* short since: a refusal by itself never costs a login.
CookiesUsable ==
    \A c \in Browsers :
      /\ jar[c] # None /\ ~erred[c]
      /\ \A r \in Requests : BrowserOf[r] = c => pc[r] = "idle"
      => status[jar[c]] # "revoked"
=============================================================================
