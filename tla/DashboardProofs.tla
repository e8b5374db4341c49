-------------------------- MODULE DashboardProofs --------------------------
(***************************************************************************)
(* What holds of Dashboard for any requests, names and pictures and any    *)
(* number of writes and late cache operations.  OnboardingShown is about   *)
(* the entry in Redis only; Fresh strengthens it to everything the entry   *)
(* may come from: what a handler that has read the profile holds, and what *)
(* Redis may still store.                                                  *)
(***************************************************************************)
EXTENDS Dashboard, FiniteSetTheorems, TLAPS

\* A handler that has read the profile and may still store it.
HasProfile == {"grant", "insights", "query", "setInsights", "setMe"}

Fresh ==
    (/\ profile.isOnboarded /\ ~overlap
     /\ \A r \in Requests : pc[r] # "deleteMe")
        => /\ me # None => me.profile.isOnboarded
           /\ \A op \in late : op[1] = "me" => op[2].profile.isOnboarded
           /\ \A r \in Requests :
                pc[r] \in HasProfile => held[r].profile.isOnboarded

TablesOK == profile \in Profiles /\ connected \in BOOLEAN /\ data \in Versions
CacheOK ==
    /\ me \in Dashboards \cup {None} /\ insights \in Versions \cup {None}
    /\ late \subseteq Operations /\ Cardinality(late) <= MaxLate
    /\ IsFiniteSet(late)
LocalOK == pc \in [Requests -> PcLabels] /\ held \in [Requests -> Dashboards]
HistOK  == writes \in Versions /\ overlap \in BOOLEAN /\ data <= writes

DashboardInv == TablesOK /\ CacheOK /\ LocalOK /\ HistOK /\ Fresh

-----------------------------------------------------------------------------
\* The answer for nobody is an answer.
LEMMA BlankType == Blank \in Dashboards
<1> DEFINE p == [name |-> UserName, avatar |-> GooglePicture,
                 isOnboarded |-> FALSE]
           d == [profile |-> p, connected |-> FALSE, data |-> 0]
<1>1. p \in Profiles
  BY DashboardAssumption DEF Profiles
<1>2. d \in Dashboards /\ ~d.connected /\ d.data = 0
  BY <1>1, DashboardAssumption DEF Dashboards, Versions
<1> HIDE DEF d
<1>3. \E x \in Dashboards : ~x.connected /\ x.data = 0
  BY <1>2
<1> QED
  BY <1>3 DEF Blank

\* At the start the entry is empty and nobody reads.
LEMMA InitHolds == Init => DashboardInv
<1> SUFFICES ASSUME Init PROVE DashboardInv
  OBVIOUS
<1>1. TablesOK
  <2>1. profile \in Profiles
    BY DashboardAssumption DEF Init, Profiles
  <2>2. connected \in BOOLEAN
    BY Zenon DEF Init
  <2>3. data \in Versions
    BY DashboardAssumption DEF Init, Versions
  <2> QED
    BY <2>1, <2>2, <2>3 DEF TablesOK
<1>2. CacheOK
  BY DashboardAssumption, FS_EmptySet DEF Init, CacheOK
<1>3. LocalOK
  BY BlankType DEF Init, LocalOK, PcLabels
<1>4. HistOK
  <2>1. writes \in Versions /\ data <= writes
    BY DashboardAssumption DEF Init, Versions
  <2>2. overlap \in BOOLEAN
    BY Zenon DEF Init
  <2> QED
    BY <2>1, <2>2 DEF HistOK
<1>5. ~profile.isOnboarded
  BY DEF Init
<1> QED
  BY <1>1, <1>2, <1>3, <1>4, <1>5 DEF DashboardInv, Fresh

(* What one request's step does to the places of all handlers.             *)
LEMMA GotoAt ==
  ASSUME LocalOK, NEW r \in Requests, NEW label \in PcLabels, Goto(r, label)
  PROVE  /\ pc' \in [Requests -> PcLabels] /\ pc'[r] = label
         /\ \A q \in Requests \ {r} : pc'[q] = pc[q]
  BY DEF LocalOK, Goto

(* What one request's step does to what all handlers hold.                 *)
LEMMA HeldAt ==
  ASSUME LocalOK, NEW r \in Requests, NEW d \in Dashboards,
         held' = [held EXCEPT ![r] = d]
  PROVE  /\ held' \in [Requests -> Dashboards] /\ held'[r] = d
         /\ \A q \in Requests \ {r} : held'[q] = held[q]
  BY DEF LocalOK

\* A handler that leaves keeps nothing.
LEMMA LeaveAt ==
  ASSUME LocalOK, NEW r \in Requests, NEW label \in PcLabels, Leave(r, label)
  PROVE  /\ LocalOK' /\ pc'[r] = label
         /\ \A q \in Requests \ {r} : pc'[q] = pc[q] /\ held'[q] = held[q]
  BY BlankType, GotoAt, HeldAt DEF LocalOK, Leave

(* A cache operation that takes effect stores what it carries.             *)
LEMMA ApplyAt ==
  ASSUME NEW op \in Operations, Apply(op), CacheOK
  PROVE  /\ me' \in Dashboards \cup {None}
         /\ insights' \in Versions \cup {None}
         /\ me' = me \/ me' = None \/ (op[1] = "me" /\ me' = op[2])
<1>1. CASE op = <<"del", None>>
  BY <1>1 DEF Apply, CacheOK
<1>2. CASE \E d \in Dashboards : op = <<"me", d>>
  BY <1>2 DEF Apply, CacheOK
<1>3. CASE \E v \in Versions : op = <<"insights", v>>
  BY <1>3 DEF Apply, CacheOK
<1> QED
  BY <1>1, <1>2, <1>3 DEF Operations

(* A cache operation, done, given up or failed, keeps the cache's types,   *)
(* and whatever is or may become the entry was there or is its value.      *)
LEMMA SetAt ==
  ASSUME NEW op \in Operations, Set(op), CacheOK
  PROVE  /\ CacheOK'
         /\ me' = me \/ me' = None \/ (op[1] = "me" /\ me' = op[2])
         /\ late' \subseteq late \cup {op}
<1>1. CASE Applied(op)
  BY <1>1, ApplyAt DEF Applied, CacheOK
<1>2. CASE TimedOut(op)
  <2>1. /\ IsFiniteSet(late \cup {op})
        /\ Cardinality(late \cup {op}) =
             IF op \in late THEN Cardinality(late) ELSE Cardinality(late) + 1
    BY FS_AddElement DEF CacheOK
  <2>2. Cardinality(late) \in Nat
    BY FS_CardinalityType DEF CacheOK
  <2>3. Cardinality(late \cup {op}) <= MaxLate
    BY <1>2, <2>1, <2>2, DashboardAssumption DEF TimedOut
  <2> QED
    BY <1>2, <2>1, <2>3 DEF TimedOut, CacheOK
<1>3. CASE UNCHANGED cache
  BY <1>3 DEF cache, CacheOK
<1> QED
  BY <1>1, <1>2, <1>3 DEF Set

-----------------------------------------------------------------------------
(* The reads of a dashboard: what they read is as fresh as the profile.    *)
LEMMA ReadStep ==
  ASSUME DashboardInv, NEW r \in Requests,
         GetMe(r) \/ ReadProfile(r) \/ ReadGrant(r) \/ GetInsights(r)
           \/ QueryInsights(r)
  PROVE  DashboardInv'
<1>1. UNCHANGED <<tables, cache, writes, overlap>>
  BY DEF GetMe, ReadProfile, ReadGrant, GetInsights, QueryInsights, ReadOnly
<1>2. PICK label \in PcLabels \ {"deleteMe"} : Goto(r, label)
  BY DEF GetMe, ReadProfile, ReadGrant, GetInsights, QueryInsights, PcLabels
<1>3. held[r] \in Dashboards /\ pc[r] \in PcLabels
  BY DEF DashboardInv, LocalOK
<1>4. PICK d \in Dashboards :
        /\ held' = [held EXCEPT ![r] = d]
        /\ label \in HasProfile =>
             \/ d.profile = profile
             \/ pc[r] \in HasProfile /\ d.profile = held[r].profile
  <2>1. CASE GetMe(r)
    <3>1. held' = [held EXCEPT ![r] = held[r]]
      BY <2>1 DEF GetMe, DashboardInv, LocalOK
    <3>2. label \notin HasProfile
      BY <2>1, <1>2 DEF GetMe, Goto, HasProfile, DashboardInv, LocalOK
    <3> QED
      BY <1>3, <3>1, <3>2
  <2>2. CASE ReadProfile(r)
    <3> DEFINE d == [held[r] EXCEPT !.profile = profile]
    <3>1. d \in Dashboards /\ d.profile = profile
      BY <1>3 DEF Dashboards, DashboardInv, TablesOK
    <3>2. held' = [held EXCEPT ![r] = d]
      BY <2>2 DEF ReadProfile
    <3> QED
      BY <3>1, <3>2
  <2>3. CASE ReadGrant(r)
    <3> DEFINE d == [held[r] EXCEPT !.connected = connected]
    <3>1. d \in Dashboards /\ d.profile = held[r].profile
      BY <1>3 DEF Dashboards, DashboardInv, TablesOK
    <3>2. held' = [held EXCEPT ![r] = d]
      BY <2>3 DEF ReadGrant
    <3>3. label \in HasProfile => pc[r] \in HasProfile
      BY <2>3, <1>2
      DEF ReadGrant, Goto, HasProfile, DashboardInv, LocalOK
    <3> QED
      BY <3>1, <3>2, <3>3
  <2>4. CASE GetInsights(r)
    <3>1. pc[r] \in HasProfile
      BY <2>4 DEF GetInsights, HasProfile
    <3>2. CASE insights # None /\ held' = [held EXCEPT ![r].data = insights]
      <4> DEFINE d == [held[r] EXCEPT !.data = insights]
      <4>1. d \in Dashboards /\ d.profile = held[r].profile
        BY <1>3, <3>2 DEF Dashboards, DashboardInv, CacheOK
      <4> QED
        BY <3>1, <3>2, <4>1
    <3>3. CASE UNCHANGED held
      <4>1. held' = [held EXCEPT ![r] = held[r]]
        BY <3>3 DEF DashboardInv, LocalOK
      <4> QED
        BY <1>3, <3>1, <4>1
    <3> QED
      BY <2>4, <3>2, <3>3 DEF GetInsights
  <2>5. CASE QueryInsights(r)
    <3> DEFINE d == [held[r] EXCEPT !.data = data]
    <3>1. d \in Dashboards /\ d.profile = held[r].profile
      BY <1>3 DEF Dashboards, DashboardInv, TablesOK
    <3>2. held' = [held EXCEPT ![r] = d] /\ pc[r] \in HasProfile
      BY <2>5 DEF QueryInsights, HasProfile
    <3> QED
      BY <3>1, <3>2
  <2> QED
    BY <2>1, <2>2, <2>3, <2>4, <2>5
<1>5. /\ pc' \in [Requests -> PcLabels] /\ pc'[r] = label
      /\ \A q \in Requests \ {r} : pc'[q] = pc[q]
  BY <1>2, GotoAt DEF DashboardInv
<1>6. /\ held' \in [Requests -> Dashboards] /\ held'[r] = d
      /\ \A q \in Requests \ {r} : held'[q] = held[q]
  BY <1>4, HeldAt DEF DashboardInv
<1>7. pc[r] # "deleteMe"
  BY DEF GetMe, ReadProfile, ReadGrant, GetInsights, QueryInsights
<1>8. Fresh'
  BY <1>1, <1>2, <1>4, <1>5, <1>6, <1>7
  DEF DashboardInv, Fresh, tables, cache
<1> QED
  BY <1>1, <1>5, <1>6, <1>8
  DEF DashboardInv, TablesOK, CacheOK, LocalOK, HistOK, tables, cache

(* The answers that are stored: as fresh as what the handler holds.        *)
LEMMA StoreStep ==
  ASSUME DashboardInv, NEW r \in Requests, SetInsights(r) \/ SetMe(r)
  PROVE  DashboardInv'
<1>1. UNCHANGED <<tables, writes, overlap>>
  BY DEF SetInsights, SetMe
<1>2. held[r] \in Dashboards /\ pc[r] \in HasProfile /\ pc[r] # "deleteMe"
  BY DEF DashboardInv, LocalOK, SetInsights, SetMe, HasProfile
<1>3. PICK op \in Operations :
        /\ Set(op)
        /\ op[1] = "me" => op[2] = held[r]
  <2>1. CASE SetInsights(r)
    BY <2>1, <1>2 DEF SetInsights, Operations, Dashboards
  <2>2. CASE SetMe(r)
    BY <2>2, <1>2 DEF SetMe, Operations
  <2> QED
    BY <2>1, <2>2
<1>4. /\ CacheOK'
      /\ me' = me \/ me' = None \/ (op[1] = "me" /\ me' = op[2])
      /\ late' \subseteq late \cup {op}
  BY <1>3, SetAt DEF DashboardInv
<1>5. /\ LocalOK' /\ pc'[r] # "deleteMe"
      /\ pc'[r] \in HasProfile => held'[r] = held[r]
      /\ \A q \in Requests \ {r} : pc'[q] = pc[q] /\ held'[q] = held[q]
  <2>1. CASE SetInsights(r)
    BY <2>1, GotoAt DEF SetInsights, DashboardInv, LocalOK, PcLabels
  <2>2. CASE SetMe(r)
    BY <2>2, LeaveAt DEF SetMe, DashboardInv, PcLabels, HasProfile
  <2> QED
    BY <2>1, <2>2
<1>6. Fresh'
  BY <1>1, <1>2, <1>3, <1>4, <1>5 DEF DashboardInv, Fresh, tables
<1> QED
  BY <1>1, <1>4, <1>5, <1>6
  DEF DashboardInv, TablesOK, HistOK, tables

(* A write that reads the profile first: it shows nothing yet.             *)
LEMMA StartStep ==
  ASSUME DashboardInv, NEW r \in Requests, StartOnboard(r) \/ StartLogin(r)
  PROVE  DashboardInv'
<1>1. UNCHANGED <<tables, cache, overlap>> /\ Write
  BY DEF StartOnboard, StartLogin
<1>2. PICK label \in {"onboard", "login"} : Goto(r, label)
  BY DEF StartOnboard, StartLogin
<1> DEFINE d == [held[r] EXCEPT !.profile = profile]
<1>3. d \in Dashboards
  BY DEF DashboardInv, LocalOK, TablesOK, Dashboards
<1>4. held' = [held EXCEPT ![r] = d] /\ pc[r] = "idle"
  BY DEF StartOnboard, StartLogin
<1>5. /\ LocalOK' /\ pc'[r] = label
      /\ \A q \in Requests \ {r} : pc'[q] = pc[q] /\ held'[q] = held[q]
  BY <1>2, <1>3, <1>4, GotoAt, HeldAt DEF DashboardInv, LocalOK, PcLabels
<1>6. HistOK'
  <2>1. writes' \in Versions /\ data' <= writes'
    BY <1>1, DashboardAssumption
    DEF Write, tables, DashboardInv, TablesOK, HistOK, Versions
  <2> QED
    BY <1>1, <2>1 DEF DashboardInv, HistOK
<1>7. Fresh'
  BY <1>1, <1>4, <1>5 DEF DashboardInv, Fresh, tables, cache, HasProfile
<1> QED
  BY <1>1, <1>5, <1>6, <1>7
  DEF DashboardInv, TablesOK, CacheOK, tables, cache

(* An onboarding is stored, and the entry not yet dropped.                 *)
LEMMA OnboardStep ==
  ASSUME DashboardInv, NEW r \in Requests, UpsertOnboarded(r)
  PROVE  DashboardInv'
<1>1. UNCHANGED <<connected, data, cache, writes, overlap>>
  BY DEF UpsertOnboarded
<1>2. PICK name \in Names \cup {None}, avatar \in Pictures \cup {None} :
        profile' = Onboarded(r, name, avatar)
  BY DEF UpsertOnboarded
<1>3. held[r].profile \in Profiles
  BY DEF DashboardInv, LocalOK, Dashboards
<1>4. profile' \in Profiles
  BY <1>2, <1>3 DEF Onboarded, Profiles, DashboardInv, TablesOK
<1>5. LocalOK' /\ pc'[r] = "deleteMe"
  BY LeaveAt DEF UpsertOnboarded, DashboardInv, PcLabels
<1>6. Fresh'
  BY <1>5 DEF Fresh
<1> QED
  BY <1>1, <1>4, <1>5, <1>6
  DEF DashboardInv, TablesOK, CacheOK, HistOK, cache

(* A change of password goes on to drop the entry.                         *)
LEMMA PasswordStep ==
  ASSUME DashboardInv, NEW r \in Requests, UpdatePassword(r)
  PROVE  DashboardInv'
<1>1. UNCHANGED <<tables, cache, writes, overlap, held>>
  BY DEF UpdatePassword, ReadOnly
<1>2. LocalOK' /\ pc'[r] = "deleteMe"
  BY <1>1, GotoAt DEF UpdatePassword, DashboardInv, LocalOK, PcLabels
<1>3. Fresh'
  BY <1>2 DEF Fresh
<1> QED
  BY <1>1, <1>2, <1>3
  DEF DashboardInv, TablesOK, CacheOK, HistOK, tables, cache

(* With nothing under way, what is fresh is only the entry itself.         *)
LEMMA NothingUnderWay ==
  ASSUME ~Pending
  PROVE  late = {} /\ \A r \in Requests : pc[r] \notin HasProfile
  BY DEF Pending, HasProfile

(* The entry is dropped: if nothing was under way, nothing stale is left.  *)
LEMMA DeleteStep ==
  ASSUME DashboardInv, NEW r \in Requests, DeleteMe(r)
  PROVE  DashboardInv'
<1> DEFINE op == <<"del", None>>
<1>1. UNCHANGED <<tables, writes>> /\ op \in Operations
  BY DEF DeleteMe, Operations
<1>2. Set(op)
  BY DEF DeleteMe, Set
<1>3. CacheOK'
  BY <1>1, <1>2, SetAt DEF DashboardInv
<1>4. /\ LocalOK' /\ pc'[r] = "idle"
      /\ \A q \in Requests \ {r} : pc'[q] = pc[q] /\ held'[q] = held[q]
  BY LeaveAt DEF DeleteMe, DashboardInv, PcLabels
<1>5. overlap' \in BOOLEAN
  BY Zenon DEF DeleteMe, Pending
<1>6. CASE Applied(op) /\ ~Pending
  <2>1. me' = None /\ late' = late
    BY <1>6 DEF Applied, Apply
  <2>2. late = {} /\ \A q \in Requests : pc[q] \notin HasProfile
    BY <1>6, NothingUnderWay
  <2>3. Fresh'
    BY <1>4, <2>1, <2>2 DEF Fresh, HasProfile
  <2> QED
    BY <1>1, <1>3, <1>4, <1>5, <2>3
    DEF DashboardInv, TablesOK, HistOK, tables
<1>7. CASE overlap'
  <2>1. Fresh'
    BY <1>7 DEF Fresh
  <2> QED
    BY <1>1, <1>3, <1>4, <1>5, <2>1
    DEF DashboardInv, TablesOK, HistOK, tables
<1>8. (Applied(op) /\ ~Pending) \/ overlap'
  BY Zenon DEF DeleteMe
<1> QED
  BY <1>6, <1>7, <1>8

(* A login writes back the profile it read: the row is onboarded as before *)
(* or the history says it is not.                                          *)
LEMMA LoginStep ==
  ASSUME DashboardInv, NEW r \in Requests, SyncAvatar(r)
  PROVE  DashboardInv'
<1>1. UNCHANGED <<connected, data, cache, writes>>
  BY DEF SyncAvatar
<1>2. held[r].profile \in Profiles
  BY DEF DashboardInv, LocalOK, Dashboards
<1>3. /\ profile' \in Profiles
      /\ profile'.isOnboarded = held[r].profile.isOnboarded
  BY <1>2, DashboardAssumption DEF SyncAvatar, SyncedProfile, Profiles
<1>4. /\ LocalOK' /\ pc'[r] = "idle"
      /\ \A q \in Requests \ {r} : pc'[q] = pc[q] /\ held'[q] = held[q]
  BY LeaveAt DEF SyncAvatar, DashboardInv, PcLabels
<1>5. overlap' \in BOOLEAN
  BY Zenon DEF SyncAvatar, DashboardInv, HistOK
<1>6. CASE overlap'
  <2>1. Fresh'
    BY <1>6 DEF Fresh
  <2> QED
    BY <1>1, <1>3, <1>4, <1>5, <2>1
    DEF DashboardInv, TablesOK, CacheOK, HistOK, cache
<1>7. CASE ~overlap'
  <2>1. ~overlap /\ profile.isOnboarded = profile'.isOnboarded
    BY <1>3, <1>7, Zenon DEF SyncAvatar
  <2>2. pc[r] # "deleteMe"
    BY DEF SyncAvatar
  <2>3. Fresh'
    BY <1>1, <1>4, <2>1, <2>2 DEF DashboardInv, Fresh, cache, HasProfile
  <2> QED
    BY <1>1, <1>3, <1>4, <1>5, <2>3
    DEF DashboardInv, TablesOK, CacheOK, HistOK, cache
<1> QED
  BY <1>6, <1>7

(* Writes past the cache do not touch the profile.                         *)
LEMMA OtherWriteStep ==
  ASSUME DashboardInv, Reconnect \/ Sync
  PROVE  DashboardInv'
<1>1. UNCHANGED <<profile, cache, local, overlap>> /\ Write
  BY DEF Reconnect, Sync
<1>2. data' = data \/ data' = data + 1
  BY DEF Reconnect, Sync
<1>3. connected' \in BOOLEAN
  BY Zenon DEF Reconnect, Sync, DashboardInv, TablesOK
<1>4. data' \in Versions /\ writes' \in Versions /\ data' <= writes'
  BY <1>1, <1>2, DashboardAssumption
  DEF Write, DashboardInv, TablesOK, HistOK, Versions
<1>5. Fresh'
  BY <1>1 DEF DashboardInv, Fresh, cache, local
<1> QED
  BY <1>1, <1>3, <1>4, <1>5
  DEF DashboardInv, TablesOK, CacheOK, LocalOK, HistOK, cache, local

(* Redis: late operations land or are lost, and entries die.               *)
LEMMA RedisStep ==
  ASSUME DashboardInv, LateLands \/ LateLost \/ ExpireMe \/ ExpireInsights
  PROVE  DashboardInv'
<1>1. UNCHANGED <<tables, local, writes>>
  BY DEF LateLands, LateLost, ExpireMe, ExpireInsights
<1>2. TablesOK' /\ LocalOK'
  BY <1>1 DEF DashboardInv, TablesOK, LocalOK, tables, local
<1>3. ASSUME NEW op \in late, late' = late \ {op}
      PROVE  /\ IsFiniteSet(late') /\ late' \subseteq Operations
             /\ Cardinality(late') <= MaxLate
  <2>1. Cardinality(late) \in Nat
    BY FS_CardinalityType DEF DashboardInv, CacheOK
  <2>2. /\ IsFiniteSet(late \ {op})
        /\ Cardinality(late \ {op}) = Cardinality(late) - 1
    BY FS_RemoveElement DEF DashboardInv, CacheOK
  <2> QED
    BY <1>3, <2>1, <2>2, DashboardAssumption DEF DashboardInv, CacheOK
<1>4. CASE LateLands
  <2>1. PICK op \in late : Apply(op) /\ late' = late \ {op}
    BY <1>4 DEF LateLands
  <2>2. op \in Operations /\ overlap' = overlap
    BY <1>4 DEF DashboardInv, CacheOK, LateLands
  <2>3. /\ me' \in Dashboards \cup {None}
        /\ insights' \in Versions \cup {None}
        /\ me' = me \/ me' = None \/ (op[1] = "me" /\ me' = op[2])
    BY <2>1, <2>2, ApplyAt DEF DashboardInv
  <2>4. Fresh'
    BY <1>1, <2>1, <2>2, <2>3 DEF DashboardInv, Fresh, tables, local
  <2> QED
    BY <1>1, <1>2, <1>3, <2>1, <2>2, <2>3, <2>4
    DEF DashboardInv, CacheOK, HistOK, tables
<1>5. CASE LateLost
  <2>1. PICK op \in late : late' = late \ {op}
    BY <1>5 DEF LateLost
  <2>2. UNCHANGED <<me, insights, overlap>>
    BY <1>5 DEF LateLost
  <2>3. Fresh'
    BY <1>1, <2>1, <2>2 DEF DashboardInv, Fresh, tables, local
  <2> QED
    BY <1>1, <1>2, <1>3, <2>1, <2>2, <2>3
    DEF DashboardInv, CacheOK, HistOK, tables
<1>6. CASE ExpireMe
  <2>1. me' = None /\ UNCHANGED <<insights, late>>
    BY <1>6 DEF ExpireMe
  <2>2. overlap' \in BOOLEAN
    BY <1>6, Zenon DEF ExpireMe, Pending, DashboardInv, HistOK
  <2>3. overlap' \/ ~overlap \/ ~Pending
    BY <1>6, Zenon DEF ExpireMe
  <2>4. Fresh'
    BY <1>1, <2>1, <2>3, NothingUnderWay
    DEF DashboardInv, Fresh, tables, local
  <2> QED
    BY <1>1, <1>2, <2>1, <2>2, <2>4
    DEF DashboardInv, CacheOK, HistOK, tables
<1>7. CASE ExpireInsights
  <2>1. insights' = None /\ UNCHANGED <<me, late, overlap>>
    BY <1>7 DEF ExpireInsights
  <2>2. Fresh'
    BY <1>1, <2>1 DEF DashboardInv, Fresh, tables, local
  <2> QED
    BY <1>1, <1>2, <2>1, <2>2 DEF DashboardInv, CacheOK, HistOK, tables
<1> QED
  BY <1>4, <1>5, <1>6, <1>7

-----------------------------------------------------------------------------
\* Every step of handlers, Redis and writers keeps the invariant.
LEMMA NextHolds == DashboardInv /\ [Next]_vars => DashboardInv'
<1> SUFFICES ASSUME DashboardInv, [Next]_vars PROVE DashboardInv'
  OBVIOUS
<1>1. CASE UNCHANGED vars
  BY <1>1
  DEF vars, tables, cache, local, DashboardInv, TablesOK, CacheOK, LocalOK,
      HistOK, Fresh
<1>2. ASSUME NEW r \in Requests, Handle(r) PROVE DashboardInv'
  BY <1>2, ReadStep, StoreStep, StartStep, OnboardStep, PasswordStep,
     DeleteStep, LoginStep
  DEF Handle
<1>3. CASE Reconnect \/ Sync
  BY <1>3, OtherWriteStep
<1>4. CASE LateLands \/ LateLost \/ ExpireMe \/ ExpireInsights
  BY <1>4, RedisStep
<1> QED
  BY <1>1, <1>2, <1>3, <1>4 DEF Next

(* The inductive invariant of the dashboard.                               *)
THEOREM Invariant == Spec => []DashboardInv
  BY InitHolds, NextHolds, PTL DEF Spec

(* Rows, entries and handlers keep their types, for any requests and any   *)
(* number of writes and late cache operations.                             *)
THEOREM TypeCorrect == Spec => []TypeOK
<1>1. DashboardInv => TypeOK
  BY DEF DashboardInv, TablesOK, CacheOK, LocalOK, HistOK, TypeOK
<1> QED
  BY <1>1, Invariant, PTL

(* Once an onboarding has dropped the cached dashboard, none from before   *)
(* it comes back, but for the overlaps OnboardingShown names.              *)
THEOREM OnboardingIsShown == Spec => []OnboardingShown
<1>1. DashboardInv => OnboardingShown
  BY DEF DashboardInv, Fresh, OnboardingShown
<1> QED
  BY <1>1, Invariant, PTL
=============================================================================
