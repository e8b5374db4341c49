-------------------------- MODULE YoutubeIngestion --------------------------
(***************************************************************************)
(* How the YouTube data of a channel gets into the database: a request to  *)
(* the API and a sync job of the worker fetch it from Google and write the *)
(* same tables one after the other, the rows of content_metrics in a       *)
(* transaction of their own and everything else in single statements.      *)
(*                                                                         *)
(* What YouTube says of a channel is a version number; each table keeps    *)
(* the version it was last given.  The rows of content_metrics belong to a *)
(* user, have no unique index, and come in batches, one from each sync.  A *)
(* batch is named after the sync: the one it wrote before is gone by then. *)
(***************************************************************************)
EXTENDS Integers, FiniteSets

CONSTANTS
    Users,
    Channels,     \* channels of YouTube, one for each Google account
    ApiSyncs,     \* requests under way to the API
    WorkerSyncs,  \* sync jobs under way
    After,        \* what each table is followed by: channel, videos,
                  \* analytics, comments, demographics and content items, or
                  \* fewer of them, and then "delete"
    MaxVersion,   \* a bound on the versions of a channel
    MaxFailures,  \* a bound on what Google, PostgreSQL or a crash refuses
    None

Syncs == ApiSyncs \cup WorkerSyncs

ASSUME IngestionAssumption ==
    /\ MaxVersion \in Nat \ {0} /\ MaxFailures \in Nat
    /\ None \notin Users \cup Channels
    /\ ApiSyncs \cap WorkerSyncs = {}
    /\ IsFiniteSet(Syncs)
    /\ {"channel", "content"} \subseteq DOMAIN After
    /\ \A t \in DOMAIN After :
         After[t] \in (DOMAIN After \ {"channel"}) \cup {"delete"}
    /\ DOMAIN After \cap {"idle", "fetch", "delete", "locks", "insert"} = {}

\* The tables are written in one order, from the channel to the metrics.
ASSUME OrderAssumption ==
    \E place \in [DOMAIN After \cup {"delete"} -> 0..Cardinality(DOMAIN After)] :
      /\ place["channel"] = 0
      /\ \A t \in DOMAIN After :
           /\ place[After[t]] = place[t] + 1
           /\ place[t] < place["delete"]
      /\ \A t, r \in DOMAIN After : place[t] = place[r] => t = r

VARIABLES
    version,    \* what YouTube says of each channel
    linked,     \* the channel of the Google account each user has connected
    owner,      \* youtube_channels.user_id, None without a row
    fresh,      \* the channels whose last_synced_at is not yet stale
    shown,      \* the version in each table of a channel, 0 without rows
    itemOwner,  \* content_items.user_id of a channel's videos
    metrics,    \* the batches of content_metrics of each user
    pc,         \* the next step of each sync
    user,       \* its user
    chan,       \* its channel
    seen,       \* the version it has fetched
    snap,       \* the batches its DELETE has found
    failures,   \* how many syncs have failed half way or left something out
    alone       \* history: syncs that no other one of their user or channel
                \* has overlapped, and that have left nothing out

worldVars   == <<version, linked>>
channelVars == <<owner, fresh>>
syncVars    == <<pc, user, chan, seen, snap>>
histVars    == <<failures, alone>>
vars == <<worldVars, channelVars, shown, itemOwner, metrics,
          syncVars, histVars>>

Tables   == DOMAIN After
PcLabels == Tables \cup {"idle", "fetch", "delete", "locks", "insert"}
Rows     == [by : Syncs, chan : Channels, version : 1..MaxVersion]

TypeOK ==
    /\ version \in [Channels -> 1..MaxVersion]
    /\ linked \in [Users -> Channels \cup {None}]
    /\ owner \in [Channels -> Users \cup {None}]
    /\ fresh \subseteq Channels
    /\ shown \in [Channels -> [Tables -> 0..MaxVersion]]
    /\ itemOwner \in [Channels -> Users \cup {None}]
    /\ metrics \in [Users -> SUBSET Rows]
    /\ pc \in [Syncs -> PcLabels]
    /\ user \in [Syncs -> Users \cup {None}]
    /\ chan \in [Syncs -> Channels \cup {None}]
    /\ seen \in [Syncs -> 0..MaxVersion]
    /\ snap \in [Syncs -> SUBSET Rows]
    /\ failures \in 0..MaxFailures
    /\ alone \subseteq Syncs

Init ==
    /\ version = [c \in Channels |-> 1]
    /\ linked = [u \in Users |-> None]
    /\ owner = [c \in Channels |-> None] /\ fresh = {}
    /\ shown = [c \in Channels |-> [t \in Tables |-> 0]]
    /\ itemOwner = [c \in Channels |-> None]
    /\ metrics = [u \in Users |-> {}]
    /\ pc = [s \in Syncs |-> "idle"]
    /\ user = [s \in Syncs |-> None] /\ chan = [s \in Syncs |-> None]
    /\ seen = [s \in Syncs |-> 0] /\ snap = [s \in Syncs |-> {}]
    /\ failures = 0 /\ alone = {}

-----------------------------------------------------------------------------
(* The world                                                               *)

Publish(c) ==
    /\ version[c] < MaxVersion
    /\ version' = [version EXCEPT ![c] = @ + 1]
    /\ UNCHANGED <<linked, channelVars, shown, itemOwner, metrics,
                   syncVars, histVars>>

\* An account somebody has connected is refused; GoogleAccounts has the race of
\* two users who connect one at the same moment.
Connect(u, c) ==
    /\ \A v \in Users : linked[v] # c
    /\ linked' = [linked EXCEPT ![u] = c]
    /\ UNCHANGED <<version, channelVars, shown, itemOwner,
                   metrics, syncVars, histVars>>

Disconnect(u) ==
    /\ linked[u] # None
    /\ linked' = [linked EXCEPT ![u] = None]
    /\ UNCHANGED <<version, channelVars, shown, itemOwner,
                   metrics, syncVars, histVars>>

\* Time passes.
GrowStale(c) ==
    /\ c \in fresh
    /\ fresh' = fresh \ {c}
    /\ UNCHANGED <<worldVars, owner, shown, itemOwner, metrics,
                   syncVars, histVars>>

-----------------------------------------------------------------------------
(* getYoutubeMetrics of the API and syncUser of the worker                 *)

Goto(s, label) == pc' = [pc EXCEPT ![s] = label]

Done(s, found) ==
    /\ Goto(s, "idle")
    /\ user' = [user EXCEPT ![s] = None] /\ chan' = [chan EXCEPT ![s] = None]
    /\ seen' = [seen EXCEPT ![s] = 0] /\ snap' = [found EXCEPT ![s] = {}]

\* getLatestChannelSyncAt
UpToDate(u) == \E c \in fresh : owner[c] = u

Clash(q, u, c) == pc[q] # "idle" /\ (user[q] = u \/ chan[q] = c)

AloneFrom(s, u, c) ==
    LET others == {q \in Syncs \ {s} : Clash(q, u, c)}
    IN (alone \ (others \cup {s})) \cup (IF others = {} THEN {s} ELSE {})

\* The worker leaves a user alone whose channel is fresh; the API does not.
Start(s, u) ==
    /\ pc[s] = "idle" /\ linked[u] # None
    /\ s \in WorkerSyncs => ~UpToDate(u)
    /\ Goto(s, "fetch")
    /\ user' = [user EXCEPT ![s] = u] /\ chan' = [chan EXCEPT ![s] = linked[u]]
    /\ alone' = AloneFrom(s, u, linked[u])
    /\ UNCHANGED <<worldVars, channelVars, shown, itemOwner,
                   metrics, seen, snap, failures>>

\* All calls to Google come before the first statement.
Fetch(s) ==
    /\ pc[s] = "fetch"
    /\ seen' = [seen EXCEPT ![s] = version[chan[s]]]
    /\ Goto(s, "channel")
    /\ UNCHANGED <<worldVars, channelVars, shown, itemOwner,
                   metrics, user, chan, snap, histVars>>

Show(s) == shown' = [shown EXCEPT ![chan[s]][pc[s]] = seen[s]]

\* upsertChannel stamps last_synced_at before anything else is stored; the user
\* changes on a conflict.
StoreChannel(s) ==
    /\ pc[s] = "channel"
    /\ owner' = [owner EXCEPT ![chan[s]] = user[s]]
    /\ fresh' = fresh \cup {chan[s]}
    /\ Show(s) /\ Goto(s, After["channel"])
    /\ UNCHANGED <<worldVars, itemOwner, metrics, user, chan, seen, snap,
                   histVars>>

\* The worker gives the content items to its user, the API leaves the user of
\* those that are there.
ContentOwner(s) ==
    IF s \in WorkerSyncs \/ itemOwner[chan[s]] = None
    THEN [itemOwner EXCEPT ![chan[s]] = user[s]] ELSE itemOwner

\* Faulty: rows that are there are left as they are.
StoreRowsOnce(s) ==
    /\ pc[s] \in Tables \ {"channel"}
    /\ IF shown[chan[s]][pc[s]] = 0 THEN Show(s) ELSE UNCHANGED shown
    /\ itemOwner' = IF pc[s] = "content" THEN ContentOwner(s) ELSE itemOwner
    /\ Goto(s, After[pc[s]])
    /\ UNCHANGED <<worldVars, channelVars, metrics, user, chan, seen, snap,
                   histVars>>

\* upsertVideos, upsertDailyAnalytics, upsertVideoComments,
\* upsertAudienceDemographics and upsertContentItems
StoreRows(s) ==
    /\ pc[s] \in Tables \ {"channel"}
    /\ Show(s) /\ Goto(s, After[pc[s]])
    /\ itemOwner' = IF pc[s] = "content" THEN ContentOwner(s) ELSE itemOwner
    /\ UNCHANGED <<worldVars, channelVars, metrics, user, chan, seen, snap,
                   histVars>>

\* What is left out when Google refuses it, without failing the sync: analytics
\* come with the metrics.
Optional(s) ==
    IF s \in WorkerSyncs THEN {"comments", "demographics"}
                         ELSE {"analytics", "demographics", "delete"}

SkipRows(s) ==
    /\ pc[s] \in Optional(s) /\ failures < MaxFailures
    /\ failures' = failures + 1 /\ alone' = alone \ {s}
    /\ IF pc[s] = "delete" THEN Done(s, snap)
       ELSE Goto(s, After[pc[s]]) /\ UNCHANGED <<user, chan, seen, snap>>
    /\ UNCHANGED <<worldVars, channelVars, shown, itemOwner, metrics>>

\* Faulty: the statement commits on its own.
DeleteMetricsAtOnce(s) ==
    /\ pc[s] = "delete"
    /\ metrics' = [metrics EXCEPT ![user[s]] = {}]
    /\ Goto(s, "locks")
    /\ UNCHANGED <<worldVars, channelVars, shown, itemOwner, user,
                   chan, seen, snap, histVars>>

\* Faulty: only rows of the same data are replaced.
DeleteSameMetrics(s) ==
    /\ pc[s] = "delete"
    /\ snap' = [snap EXCEPT ![s] =
                  {b \in metrics[user[s]] : b.version = seen[s]}]
    /\ Goto(s, "locks")
    /\ UNCHANGED <<worldVars, channelVars, shown, itemOwner,
                   metrics, user, chan, seen, histVars>>

\* Nobody else's transaction holds rows that s is to delete.
Free(s, rows) ==
    \A q \in Syncs \ {s} :
      pc[q] = "insert" /\ user[q] = user[s] => snap[q] \cap rows = {}

\* insertMetrics and replaceMetrics: the DELETE finds the rows of the user
\* committed by now, and locks them unless somebody else has.
DeleteMetrics(s) ==
    /\ pc[s] = "delete"
    /\ snap' = [snap EXCEPT ![s] = metrics[user[s]]]
    /\ Goto(s, IF Free(s, metrics[user[s]]) THEN "insert" ELSE "locks")
    /\ UNCHANGED <<worldVars, channelVars, shown, itemOwner,
                   metrics, user, chan, seen, histVars>>

\* It waits for the other transaction, and passes over the rows gone then.
LockMetrics(s) ==
    /\ pc[s] = "locks" /\ Free(s, snap[s])
    /\ Goto(s, "insert")
    /\ UNCHANGED <<worldVars, channelVars, shown, itemOwner,
                   metrics, user, chan, seen, snap, histVars>>

\* The INSERT and the COMMIT.
InsertMetrics(s) ==
    /\ pc[s] = "insert"
    /\ LET new == [by |-> s, chan |-> chan[s], version |-> seen[s]]
       IN metrics' = [metrics EXCEPT ![user[s]] = (@ \ snap[s]) \cup {new}]
    /\ Done(s, [q \in Syncs |-> IF user[q] = user[s]
                                 THEN snap[q] \ snap[s] ELSE snap[q]])
    /\ UNCHANGED <<worldVars, channelVars, shown, itemOwner,
                   histVars>>

\* Google or PostgreSQL refuses, or the process dies: a transaction is rolled
\* back, what was stored before stays.
Fail(s) ==
    /\ pc[s] # "idle" /\ failures < MaxFailures
    /\ failures' = failures + 1
    /\ Done(s, snap)
    /\ UNCHANGED <<worldVars, channelVars, shown, itemOwner,
                   metrics, alone>>

-----------------------------------------------------------------------------
Step(s) ==
    \/ Fetch(s) \/ StoreChannel(s) \/ StoreRows(s)
    \/ DeleteMetrics(s) \/ LockMetrics(s) \/ InsertMetrics(s)

Next ==
    \/ \E c \in Channels : Publish(c) \/ GrowStale(c)
    \/ \E u \in Users :
         \/ Disconnect(u) \/ \E s \in Syncs : Start(s, u)
         \/ \E c \in Channels : Connect(u, c)
    \/ \E s \in Syncs : Step(s) \/ SkipRows(s) \/ Fail(s)

Spec == Init /\ [][Next]_vars

-----------------------------------------------------------------------------
\* "delete-then-insert is the safest way to prevent unbounded duplicate row
\* growth": the rows of a period may be there more than once when transactions
\* overlap, but never more often than there are syncs at once.
CopiesBounded ==
    \A u \in Users : Cardinality(metrics[u]) <= Cardinality(Syncs)

\* "Uses a transaction to ensure atomicity": readers never find the metrics of
\* a user gone between the DELETE and the INSERT, or after a failure.
MetricsNeverVanish ==
    [][\A u \in Users : metrics[u] # {} => metrics'[u] # {}]_vars

\* A sync that runs alone puts everything right, whatever overlapping, failed
\* and incomplete ones have left, of this user or of one who has had the
\* channel before: as it commits, every table of the channel has the version
\* it fetched, the channel is its user's, and so are the metrics, that one
\* batch and nothing older.  Only the worker gives the content items to its
\* user.  Nothing is said of when such a sync comes: an open row of worker_jobs
\* that nobody closes keeps its user out of every batch.
LoneSyncRepairs ==
    [][\A s \in alone : InsertMetrics(s) =>
         LET u == user[s]  c == chan[s]
         IN /\ \A t \in Tables : shown'[c][t] = seen[s]
            /\ owner'[c] = u
            /\ s \in WorkerSyncs => itemOwner'[c] = u
            /\ metrics'[u] = {[by |-> s, chan |-> c, version |-> seen[s]]}
      ]_vars
=============================================================================
