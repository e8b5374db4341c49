--------------------------- MODULE DatabaseSchema ---------------------------
(***************************************************************************)
(* The tables of shared/database/drizzle/schema.ts as far as writes can    *)
(* tell them apart: the keys a row may not share, the key columns that may *)
(* be NULL, and the references with what a deletion does to the rows that  *)
(* refer.  The statements of the repositories that write with ON CONFLICT  *)
(* are values of their own, so that one meaning (Upsert) serves them all.  *)
(* Other columns are payload: a row carries one value for all of them.     *)
(***************************************************************************)
EXTENDS Naturals, FiniteSets, SequencesExt

CONSTANT Null

Ref(table, onDelete) == [table |-> table, onDelete |-> onDelete]

(* Keys: the sets of columns declared unique.  Optional: columns of keys   *)
(* or references that may be NULL.  Refs: column -> reference.             *)
Tbl(keys, optional, refs) ==
    [keys |-> keys, optional |-> optional, refs |-> refs]

NoRefs == [c \in {} |-> Null]

tenants == Tbl({{"slug"}}, {}, NoRefs)
users ==
    Tbl({{"email"}, {"authProvider", "oauthProviderId"}}, {"oauthProviderId"},
        [tenantId |-> Ref("tenants", "restrict")])
oauthAccounts ==
    Tbl({{"userId", "provider", "purpose"},
         {"provider", "providerUserId", "purpose"}}, {},
        [userId |-> Ref("users", "cascade")])
sessions == Tbl({}, {}, [userId |-> Ref("users", "cascade")])
auditLogs == Tbl({}, {"userId"}, [userId |-> Ref("users", "set null")])
workerJobs ==
    Tbl({{"bullmqJobId"}}, {"userId", "tenantId"},
        [userId |-> Ref("users", "set null"),
         tenantId |-> Ref("tenants", "set null")])
youtubeChannels ==
    Tbl({{"youtubeChannelId"}}, {}, [userId |-> Ref("users", "cascade")])
youtubeVideos ==
    Tbl({{"youtubeVideoId"}}, {},
        [channelId |-> Ref("youtubeChannels", "cascade")])
youtubeDailyAnalytics ==
    Tbl({{"channelId", "analyticsDate"}}, {},
        [channelId |-> Ref("youtubeChannels", "cascade")])
youtubeMlScores ==
    Tbl({{"videoId"}}, {}, [videoId |-> Ref("youtubeVideos", "cascade")])
(* Faulty: no foreign key enforces the reference of a comment to its       *)
(* video.                                                                  *)
youtubeVideoComments_NoKey ==
    Tbl({{"youtubeCommentId"}}, {},
        [videoId |-> Ref("youtubeVideos", "none")])
youtubeVideoComments ==
    Tbl({{"youtubeCommentId"}}, {},
        [videoId |-> Ref("youtubeVideos", "cascade")])
youtubeAudienceDemographics ==
    Tbl({{"channelId", "dimensionType", "dimensionValue", "startDate",
          "endDate"}}, {},
        [channelId |-> Ref("youtubeChannels", "cascade")])
userProfiles == Tbl({{"userId"}}, {}, [userId |-> Ref("users", "cascade")])
contentItems ==
    Tbl({{"platform", "externalId"}}, {"externalId"},
        [userId |-> Ref("users", "cascade")])
ItemRefs ==
    [userId |-> Ref("users", "cascade"),
     contentItemId |-> Ref("contentItems", "cascade")]
contentMetrics == Tbl({}, {"contentItemId"}, ItemRefs)
contentConversions == Tbl({}, {"contentItemId"}, ItemRefs)
smeScoutedCreators ==
    Tbl({{"smeUserId", "creatorUserId"}}, {},
        [smeUserId |-> Ref("users", "cascade"),
         creatorUserId |-> Ref("users", "cascade")])
smeCampaigns == Tbl({}, {}, [smeUserId |-> Ref("users", "cascade")])
smeCampaignCreators ==
    Tbl({{"campaignId", "creatorUserId"}}, {},
        [campaignId |-> Ref("smeCampaigns", "cascade"),
         creatorUserId |-> Ref("users", "cascade")])

Schema ==
    [tenants |-> tenants, users |-> users, oauthAccounts |-> oauthAccounts,
     sessions |-> sessions, auditLogs |-> auditLogs,
     workerJobs |-> workerJobs, youtubeChannels |-> youtubeChannels,
     youtubeVideos |-> youtubeVideos,
     youtubeDailyAnalytics |-> youtubeDailyAnalytics,
     youtubeMlScores |-> youtubeMlScores,
     youtubeVideoComments |-> youtubeVideoComments,
     youtubeAudienceDemographics |-> youtubeAudienceDemographics,
     userProfiles |-> userProfiles, contentItems |-> contentItems,
     contentMetrics |-> contentMetrics,
     contentConversions |-> contentConversions,
     smeScoutedCreators |-> smeScoutedCreators,
     smeCampaigns |-> smeCampaigns,
     smeCampaignCreators |-> smeCampaignCreators]

-----------------------------------------------------------------------------
(* The relations() of the schema, which db.query joins along: the table    *)
(* and column that refer, and the table referred to.  A worker job's       *)
(* parent is a relation that no foreign key backs.                         *)
AccountRelations ==
    {<<"users", "tenantId", "tenants">>, <<"sessions", "userId", "users">>,
     <<"oauthAccounts", "userId", "users">>,
     <<"auditLogs", "userId", "users">>,
     <<"workerJobs", "parentJobId", "workerJobs">>,
     <<"workerJobs", "userId", "users">>,
     <<"workerJobs", "tenantId", "tenants">>}
YoutubeRelations ==
    {<<"youtubeChannels", "userId", "users">>,
     <<"youtubeVideos", "channelId", "youtubeChannels">>,
     <<"youtubeDailyAnalytics", "channelId", "youtubeChannels">>,
     <<"youtubeVideoComments", "videoId", "youtubeVideos">>,
     <<"youtubeAudienceDemographics", "channelId", "youtubeChannels">>,
     <<"youtubeMlScores", "videoId", "youtubeVideos">>}
ContentRelations ==
    {<<"userProfiles", "userId", "users">>,
     <<"contentItems", "userId", "users">>}
    \cup {<<t, "userId", "users">> :
            t \in {"contentMetrics", "contentConversions"}}
    \cup {<<t, "contentItemId", "contentItems">> :
            t \in {"contentMetrics", "contentConversions"}}
SmeRelations ==
    {<<"smeScoutedCreators", "smeUserId", "users">>,
     <<"smeScoutedCreators", "creatorUserId", "users">>,
     <<"smeCampaigns", "smeUserId", "users">>,
     <<"smeCampaignCreators", "campaignId", "smeCampaigns">>,
     <<"smeCampaignCreators", "creatorUserId", "users">>}
Relations ==
    AccountRelations \cup YoutubeRelations \cup ContentRelations
        \cup SmeRelations

-----------------------------------------------------------------------------
(* Writes.  A row is a function of columns, a table a sequence of rows; a  *)
(* NULL never equals a NULL.                                               *)
SameKey(key, a, b) ==
    \A c \in key : a[c] # Null /\ a[c] = b[c]

(* The row shares a key of table t with one of the rows at these places.   *)
Clashes(t, rows, places, row) ==
    \E i \in places : \E key \in Schema[t].keys : SameKey(key, rows[i], row)

Outcome(error, rows) == [error |-> error, rows |-> rows]

Insert(t, rows, row) ==
    IF Clashes(t, rows, DOMAIN rows, row)
    THEN Outcome(TRUE, rows) ELSE Outcome(FALSE, Append(rows, row))

(* INSERT .. ON CONFLICT (target) DO UPDATE SET (set): PostgreSQL refuses  *)
(* a target that no unique index declares, and an update that breaks       *)
(* another key.                                                            *)
Updated(stmt, old, row) ==
    [c \in DOMAIN old |-> IF c \in stmt.set THEN row[c] ELSE old[c]]

UpdateAt(stmt, rows, i, row) ==
    LET new == Updated(stmt, rows[i], row)
    IN  IF Clashes(stmt.table, rows, DOMAIN rows \ {i}, new)
        THEN Outcome(TRUE, rows)
        ELSE Outcome(FALSE, [rows EXCEPT ![i] = new])

Hit(stmt, rows, row) ==
    {i \in DOMAIN rows : SameKey(stmt.target, rows[i], row)}

Upsert(stmt, rows, row) ==
    IF stmt.target \notin Schema[stmt.table].keys THEN Outcome(TRUE, rows)
    ELSE IF Hit(stmt, rows, row) = {} THEN Insert(stmt.table, rows, row)
    ELSE UpdateAt(stmt, rows, CHOOSE i \in Hit(stmt, rows, row) : TRUE, row)

OnConflict(table, target, set) ==
    [table |-> table, target |-> target, set |-> set]

(* Payload: every column that is in no key and is no reference.            *)
upsertProfile == OnConflict("userProfiles", {"userId"}, {"payload"})
upsertOauthAccountByUserProviderPurpose ==
    OnConflict("oauthAccounts", {"userId", "provider", "purpose"},
               {"providerUserId", "payload"})
upsertMlScores == OnConflict("youtubeMlScores", {"videoId"}, {"payload"})
upsertChannel ==
    OnConflict("youtubeChannels", {"youtubeChannelId"}, {"userId", "payload"})
upsertVideos ==
    OnConflict("youtubeVideos", {"youtubeVideoId"}, {"channelId", "payload"})
upsertDailyAnalytics ==
    OnConflict("youtubeDailyAnalytics", {"channelId", "analyticsDate"},
               {"payload"})
(* The API leaves a comment at its video, the worker moves it.             *)
upsertVideoComments ==
    OnConflict("youtubeVideoComments", {"youtubeCommentId"}, {"payload"})
workerUpsertVideoComments ==
    OnConflict("youtubeVideoComments", {"youtubeCommentId"},
               {"videoId", "payload"})
(* Faulty: the target is not the unique index, which has the dates.        *)
upsertAudienceDemographics_NoDates ==
    OnConflict("youtubeAudienceDemographics",
               {"channelId", "dimensionType", "dimensionValue"}, {"payload"})
upsertAudienceDemographics ==
    OnConflict("youtubeAudienceDemographics",
               {"channelId", "dimensionType", "dimensionValue", "startDate",
                "endDate"}, {"payload"})
(* The API leaves an item with its user, the worker moves it.              *)
upsertContentItems ==
    OnConflict("contentItems", {"platform", "externalId"}, {"payload"})
workerUpsertContentItems ==
    OnConflict("contentItems", {"platform", "externalId"},
               {"userId", "payload"})
addCreatorToCampaign ==
    OnConflict("smeCampaignCreators", {"campaignId", "creatorUserId"},
               {"payload"})
scoutCreator ==
    OnConflict("smeScoutedCreators", {"smeUserId", "creatorUserId"},
               {"payload"})

Upserts ==
    {upsertProfile, upsertOauthAccountByUserProviderPurpose, upsertMlScores,
     upsertChannel, upsertVideos, upsertDailyAnalytics, upsertVideoComments,
     workerUpsertVideoComments, upsertAudienceDemographics,
     upsertContentItems, workerUpsertContentItems, addCreatorToCampaign,
     scoutCreator}

(* The columns a statement on table t is about.                            *)
Columns(t) ==
    UNION Schema[t].keys \cup DOMAIN Schema[t].refs \cup {"payload"}

(* What a statement may meet: rows with these columns, no two of which     *)
(* share a key, and a new row that says where it belongs.                  *)
IsRow(t, row) == row = [c \in Columns(t) |-> row[c]]

IsTable(t, rows) ==
    /\ rows \in Seq({rows[i] : i \in DOMAIN rows})
    /\ \A i \in DOMAIN rows : /\ IsRow(t, rows[i])
                              /\ ~Clashes(t, rows, DOMAIN rows \ {i}, rows[i])

IsWrite(stmt, rows, row) ==
    /\ stmt \in Upserts /\ IsTable(stmt.table, rows) /\ IsRow(stmt.table, row)
    /\ \A c \in stmt.target : row[c] # Null

-----------------------------------------------------------------------------
(* Deletions.  db maps a table to its rows, which carry an id.             *)
(* Every reference leads to a row or is NULL; the parent of a worker job   *)
(* is the one relation no foreign key backs.                               *)
Intact(db) ==
    \A rel \in Relations \ {<<"workerJobs", "parentJobId", "workerJobs">>} :
        \A r \in db[rel[1]] :
            r[rel[2]] = Null \/ \E x \in db[rel[3]] : x.id = r[rel[2]]

IsDatabase(db) ==
    /\ DOMAIN db = DOMAIN Schema /\ Intact(db)
    /\ \A t \in DOMAIN db : \A r \in db[t] :
           /\ DOMAIN Schema[t].refs \cup {"id"} \subseteq DOMAIN r
           /\ \A s \in db[t] : r.id = s.id => r = s

(* The users a row belongs to.  A scouted creator belongs to the SME and   *)
(* to the creator, as does a creator in a campaign, and what is measured   *)
(* of an item to its user and to the item's; a tenant, an audit log and a  *)
(* worker job belong to nobody.                                            *)
ChannelOwners(db, id) ==
    {c.userId : c \in {x \in db.youtubeChannels : x.id = id}}
VideoOwners(db, id) ==
    UNION {ChannelOwners(db, v.channelId) :
             v \in {x \in db.youtubeVideos : x.id = id}}
ItemOwners(db, id) ==
    {i.userId : i \in {x \in db.contentItems : x.id = id}}
CampaignOwners(db, id) ==
    {k.smeUserId : k \in {x \in db.smeCampaigns : x.id = id}}

Owners(db, t, r) ==
    CASE t \in {"tenants", "auditLogs", "workerJobs"} -> {}
      [] t = "users" -> {r.id}
      [] t \in {"oauthAccounts", "sessions", "youtubeChannels",
                "userProfiles", "contentItems"} -> {r.userId}
      [] t \in {"youtubeVideos", "youtubeDailyAnalytics",
                "youtubeAudienceDemographics"} ->
             ChannelOwners(db, r.channelId)
      [] t \in {"youtubeMlScores", "youtubeVideoComments"} ->
             VideoOwners(db, r.videoId)
      [] t \in {"contentMetrics", "contentConversions"} ->
             {r.userId} \cup ItemOwners(db, r.contentItemId)
      [] t = "smeScoutedCreators" -> {r.smeUserId, r.creatorUserId}
      [] t = "smeCampaigns" -> {r.smeUserId}
      [] t = "smeCampaignCreators" ->
             {r.creatorUserId} \cup CampaignOwners(db, r.campaignId)

Referring(db, t, id, action) ==
    {x \in UNION {{u} \X db[u] : u \in DOMAIN db} :
        \E c \in DOMAIN Schema[x[1]].refs :
            /\ Schema[x[1]].refs[c] = Ref(t, action)
            /\ x[2][c] = id}

(* The rows that go with a set of rows, reference by reference.  No chain  *)
(* of references is longer than that of a comment: video, channel, user.   *)
Grown(db, gone) ==
    gone \cup UNION {Referring(db, x[1], x[2].id, "cascade") : x \in gone}
Cascade(db, gone) == Grown(db, Grown(db, Grown(db, gone)))

Held(db, gone) ==
    \E x \in gone : Referring(db, x[1], x[2].id, "restrict") \ gone # {}

Dangles(gone, u, r, c) ==
    /\ c \in DOMAIN Schema[u].refs
    /\ \E x \in gone : /\ Schema[u].refs[c] = Ref(x[1], "set null")
                       /\ r[c] = x[2].id

Kept(gone, u, r) ==
    [c \in DOMAIN r |-> IF Dangles(gone, u, r, c) THEN Null ELSE r[c]]

Delete(db, t, row) ==
    LET gone == Cascade(db, {<<t, row>>})
        Left(u) == {r \in db[u] : <<u, r>> \notin gone}
    IN  IF Held(db, gone) THEN db
        ELSE [u \in DOMAIN db |-> {Kept(gone, u, r) : r \in Left(u)}]
=============================================================================
