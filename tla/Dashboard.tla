----------------------------- MODULE Dashboard -----------------------------
(***************************************************************************)
(* The dashboard of one creator (GET /users/me) and what it is made from:  *)
(* the row of user_profiles, the YouTube grant and the synced data, read   *)
(* one by one, and two layers of entries in Redis.  Onboarding, a login    *)
(* with Google, a change of password, connecting, disconnecting and syncs  *)
(* change what it should show; only onboarding and passwords delete the    *)
(* entry, and anything else waits for its TTL.                             *)
(*                                                                         *)
(* Every await of a handler is a step.  A cache operation has two seconds: *)
(* one that has not answered by then is given up and still under way, so   *)
(* it may take effect much later or never; the handler goes on, for cache  *)
(* errors are only logged.  Passwords are in no dashboard and left out.    *)
(***************************************************************************)
EXTENDS Naturals, FiniteSets

CONSTANTS
    Requests,   \* API requests under way
    Names,      \* display names
    UserName,   \* the one the user signed up with
    Pictures,   \* avatars
    GooglePicture,
    MaxWrites,  \* bound: writes begun, of any kind
    MaxLate,    \* bound: cache operations under way without a handler
    None

ASSUME DashboardAssumption ==
    /\ UserName \in Names /\ GooglePicture \in Pictures
    /\ MaxWrites \in Nat /\ MaxLate \in Nat
    /\ None \notin Names \cup Pictures

VARIABLES
    profile,   \* the row of user_profiles
    connected, \* the user's youtube-connect row holds tokens
    data,      \* the synced data: how many syncs have stored theirs
    me,        \* users:me:<id> in Redis, None without an entry
    insights,  \* creator:insights:...:<id>
    late,      \* cache operations no handler waits for any more
    pc,        \* how far the handler of each request is
    held,      \* what it has read
    writes,    \* writes begun
    overlap    \* history: the last deletion of me may have come to nothing

tables == <<profile, connected, data>>
cache  == <<me, insights, late>>
local  == <<pc, held>>
vars   == <<tables, cache, local, writes, overlap>>

Profiles   == [name : Names, avatar : Pictures, isOnboarded : BOOLEAN]
Versions   == 0..MaxWrites
Dashboards == [profile : Profiles, connected : BOOLEAN, data : Versions]
Operations == {<<"del", None>>}
                \cup {<<"me", d>> : d \in Dashboards}
                \cup {<<"insights", v>> : v \in Versions}

\* What GET /users/me would answer were every read done now.
Truth == [profile |-> profile, connected |-> connected, data |-> data]

\* What a handler holds before it has read anything.
Blank == CHOOSE d \in Dashboards : ~d.connected /\ d.data = 0

PcLabels == {"idle", "reads", "profile", "grant", "insights", "query",
             "setInsights", "setMe", "onboard", "login", "deleteMe"}

TypeOK ==
    /\ profile \in Profiles /\ connected \in BOOLEAN /\ data \in Versions
    /\ me \in Dashboards \cup {None} /\ insights \in Versions \cup {None}
    /\ late \subseteq Operations /\ Cardinality(late) <= MaxLate
    /\ pc \in [Requests -> PcLabels]
    /\ held \in [Requests -> Dashboards]
    /\ writes \in Versions /\ overlap \in BOOLEAN

Init ==
    /\ profile \in [name : {UserName}, avatar : Pictures, isOnboarded : {FALSE}]
    /\ connected = FALSE /\ data = 0
    /\ me = None /\ insights = None /\ late = {}
    /\ pc = [r \in Requests |-> "idle"]
    /\ held = [r \in Requests |-> Blank]
    /\ writes = 0 /\ overlap = FALSE

-----------------------------------------------------------------------------
(* The cache.                                                              *)

Goto(r, label) == pc' = [pc EXCEPT ![r] = label]

\* The handler of r has no use for what it has read any more.
Leave(r, label) == Goto(r, label) /\ held' = [held EXCEPT ![r] = Blank]

\* A dashboard that has begun to read and has not stored its answer, or whose
\* answer Redis may still store: it may be older than what is written now.
Pending == late # {} \/ \E r \in Requests :
    pc[r] \in {"reads", "profile", "grant", "insights", "query",
              "setInsights", "setMe"}

Apply(op) ==
    CASE op[1] = "del"      -> me' = None /\ UNCHANGED insights
      [] op[1] = "me"       -> me' = op[2] /\ UNCHANGED insights
      [] op[1] = "insights" -> insights' = op[2] /\ UNCHANGED me

Applied(op) == Apply(op) /\ UNCHANGED late

\* The two seconds are over before the operation is.
TimedOut(op) ==
    /\ Cardinality(late) < MaxLate
    /\ late' = late \cup {op}
    /\ UNCHANGED <<me, insights>>

\* RedisCacheService.set: its failures are only logged.
Set(op) == Applied(op) \/ TimedOut(op) \/ UNCHANGED cache

\* An operation that was given up takes effect after all, or is lost.
LateLands == \E op \in late :
    /\ Apply(op)
    /\ late' = late \ {op}
    /\ UNCHANGED <<tables, local, writes, overlap>>

LateLost == \E op \in late :
    /\ late' = late \ {op}
    /\ UNCHANGED <<tables, me, insights, local, writes, overlap>>

\* A dashboard is kept for 15 minutes, insights for an hour.
ExpireMe ==
    /\ me # None
    /\ me' = None
    /\ overlap' = (overlap /\ Pending)
    /\ UNCHANGED <<tables, insights, late, local, writes>>

ExpireInsights ==
    /\ insights # None
    /\ insights' = None
    /\ UNCHANGED <<tables, me, late, local, writes, overlap>>

-----------------------------------------------------------------------------
(* getMeDashboard                                                          *)

ReadOnly == UNCHANGED <<tables, cache, writes, overlap>>

\* Faulty: an answer from the cache is stored again, to live longer.
GetMeSliding(r) ==
    /\ pc[r] = "idle"
    /\ \/ me = None /\ Goto(r, "reads") /\ UNCHANGED held
       \/ me # None /\ Goto(r, "setMe") /\ held' = [held EXCEPT ![r] = me]
    /\ ReadOnly

\* Nothing is cached, or Redis does not say: an answer from the cache ends the
\* request and changes nothing.
GetMe(r) ==
    /\ pc[r] = "idle"
    /\ Goto(r, "reads")
    /\ UNCHANGED held /\ ReadOnly

\* The rows are read side by side, in any order.
ReadProfile(r) ==
    /\ pc[r] \in {"reads", "profile"}
    /\ held' = [held EXCEPT ![r].profile = profile]
    /\ Goto(r, IF pc[r] = "reads" THEN "grant" ELSE "insights")
    /\ ReadOnly

ReadGrant(r) ==
    /\ pc[r] \in {"reads", "grant"}
    /\ held' = [held EXCEPT ![r].connected = connected]
    /\ Goto(r, IF pc[r] = "reads" THEN "profile" ELSE "insights")
    /\ ReadOnly

\* The insights have an entry of their own.
GetInsights(r) ==
    /\ pc[r] = "insights"
    /\ \/ /\ insights # None
          /\ held' = [held EXCEPT ![r].data = insights]
          /\ Goto(r, "setMe")
       \/ Goto(r, "query") /\ UNCHANGED held
    /\ ReadOnly

QueryInsights(r) ==
    /\ pc[r] = "query"
    /\ held' = [held EXCEPT ![r].data = data]
    /\ Goto(r, "setInsights")
    /\ ReadOnly

SetInsights(r) ==
    /\ pc[r] = "setInsights"
    /\ Set(<<"insights", held[r].data>>)
    /\ Goto(r, "setMe")
    /\ UNCHANGED <<tables, held, writes, overlap>>

SetMe(r) ==
    /\ pc[r] = "setMe"
    /\ Set(<<"me", held[r]>>)
    /\ Leave(r, "idle")
    /\ UNCHANGED <<tables, writes, overlap>>

-----------------------------------------------------------------------------
(* What changes the dashboard.                                             *)

Write == writes < MaxWrites /\ writes' = writes + 1

\* onboardCreator reads the profile for the name it falls back to.
StartOnboard(r) ==
    /\ pc[r] = "idle"
    /\ Write
    /\ Goto(r, "onboard")
    /\ held' = [held EXCEPT ![r].profile = profile]
    /\ UNCHANGED <<tables, cache, overlap>>

\* Fields left out of the request: the name is written back as it was read,
\* any other keeps its column.
Onboarded(r, name, avatar) ==
    [name |-> IF name = None THEN held[r].profile.name ELSE name,
     avatar |-> IF avatar = None THEN profile.avatar ELSE avatar,
     isOnboarded |-> TRUE]

\* Faulty: the dashboard is not dropped.
UpsertOnboardedOnly(r) ==
    /\ pc[r] = "onboard"
    /\ \E name \in Names \cup {None}, avatar \in Pictures \cup {None} :
         profile' = Onboarded(r, name, avatar)
    /\ Leave(r, "idle")
    /\ UNCHANGED <<connected, data, cache, writes, overlap>>

UpsertOnboarded(r) ==
    /\ pc[r] = "onboard"
    /\ \E name \in Names \cup {None}, avatar \in Pictures \cup {None} :
         profile' = Onboarded(r, name, avatar)
    /\ Leave(r, "deleteMe")
    /\ UNCHANGED <<connected, data, cache, writes, overlap>>

DeleteMe(r) ==
    /\ pc[r] = "deleteMe"
    /\ \/ Applied(<<"del", None>>) /\ overlap' = Pending
       \/ TimedOut(<<"del", None>>) /\ overlap' = TRUE
       \/ UNCHANGED cache /\ overlap' = TRUE
    /\ Leave(r, "idle")
    /\ UNCHANGED <<tables, writes>>

\* updatePassword has stored the hash and drops the dashboard.
UpdatePassword(r) ==
    /\ pc[r] = "idle"
    /\ Goto(r, "deleteMe")
    /\ UNCHANGED held /\ ReadOnly

\* loginWithGoogle finds that Google has another picture.
StartLogin(r) ==
    /\ pc[r] = "idle"
    /\ profile.avatar # GooglePicture
    /\ Write
    /\ Goto(r, "login")
    /\ held' = [held EXCEPT ![r].profile = profile]
    /\ UNCHANGED <<tables, cache, overlap>>

SyncedProfile(r) == [held[r].profile EXCEPT !.avatar = GooglePicture]

\* It writes every column back, and leaves the cached dashboard.
SyncAvatar(r) ==
    /\ pc[r] = "login"
    /\ profile' = SyncedProfile(r)
    /\ overlap' =
         (overlap \/ profile.isOnboarded # held[r].profile.isOnboarded)
    /\ Leave(r, "idle")
    /\ UNCHANGED <<connected, data, cache, writes>>

\* Connecting and disconnecting YouTube: neither deletes the entry.
Reconnect ==
    /\ Write
    /\ connected' = ~connected
    /\ UNCHANGED <<profile, data, cache, local, overlap>>

\* A sync or a scoring has stored its results.
Sync ==
    /\ Write
    /\ data' = data + 1
    /\ UNCHANGED <<profile, connected, cache, local, overlap>>

-----------------------------------------------------------------------------
Handle(r) ==
    \/ GetMe(r) \/ ReadProfile(r) \/ ReadGrant(r) \/ GetInsights(r)
    \/ QueryInsights(r) \/ SetInsights(r) \/ SetMe(r)
    \/ StartOnboard(r) \/ UpsertOnboarded(r) \/ DeleteMe(r)
    \/ UpdatePassword(r) \/ StartLogin(r) \/ SyncAvatar(r)

Next ==
    \/ \E r \in Requests : Handle(r)
    \/ Reconnect \/ Sync
    \/ LateLands \/ LateLost \/ ExpireMe \/ ExpireInsights

Spec == Init /\ [][Next]_vars

\* Time passes: Redis drops an entry when its TTL is over.
FairSpec == Spec /\ WF_vars(ExpireMe) /\ WF_vars(ExpireInsights)

-----------------------------------------------------------------------------
\* Once an onboarding has dropped the cached dashboard, none from before it
\* comes back, unless a dashboard or a login was under way at that moment or
\* Redis did not drop it ("onboarding changes should invalidate the cached
\* /users/me response", agent-docs/findings.md:222).
OnboardingShown ==
    (/\ profile.isOnboarded /\ me # None /\ ~overlap
     /\ \A r \in Requests : pc[r] # "deleteMe")
        => me.profile.isOnboarded

\* Whatever is written past the cache, and however late or lost its
\* operations, the dashboard is right for good some time after the last
\* write: stale entries of both layers die, and none is made again from old
\* ones ("/users/me should flip platformStatus.youtube.connected to false",
\* agent-docs/findings.md:53: in the end it does).
DashboardCatchesUp == <>[](me # None => me = Truth)
=============================================================================
