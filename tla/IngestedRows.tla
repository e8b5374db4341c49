---------------------------- MODULE IngestedRows ----------------------------
(***************************************************************************)
(* The rows the API and the worker make of what Google answers, and what   *)
(* it means that they agree.                                               *)
(***************************************************************************)
EXTENDS Figures

Api    == INSTANCE ApiYoutubeRows
Worker == INSTANCE WorkerYoutubeRows

-----------------------------------------------------------------------------
(* What Google answers: a title is in the snippet, a video has an id of    *)
(* its own, a report one row for each value, and a thread is of one video. *)
(* Both copies search for ten videos at most (maxVideos), store those they *)
(* asked for by the ids found, and ask for eight metrics of a day.         *)
IsList(s) == Len(s) \in Nat /\ DOMAIN s = 1..Len(s)
IsCount(n) == n \in Int \cup {Null}

IsReport(rows) ==
    /\ IsList(rows)
    /\ \A i, j \in DOMAIN rows : rows[i].value = rows[j].value => i = j

Sizes == {Null, "high", "medium", "default"}

ChannelRow(user, raw, title, thumbnail, uploads) ==
    [userId |-> user, youtubeChannelId |-> raw.id, channelTitle |-> title,
     thumbnailUrl |-> thumbnail,
     subscriberCount |-> Api!ParseNumberishInt(raw.subscriberCount),
     uploadPlaylistId |-> uploads, isApproved |-> FALSE]

(* Null is none of the records that stand for a channel.                   *)
IsChannel(user, raw) ==
    /\ raw.title = Null /\ raw.thumbnails = Null
    /\ Null \notin {raw, Api!SanitizeChannel(raw)}
    /\ \A s \in Sizes : \A uploads \in {Null, raw.uploads} :
         Null # ChannelRow(user, raw, Api!Field(raw.snippet, "title"), s,
                           uploads)

IsVideoList(videos, ids) ==
    /\ IsList(ids) /\ IsList(videos) /\ Len(videos) <= 10
    /\ \A i, j \in DOMAIN ids : ids[i] = ids[j] => i = j
    /\ \A i, j \in DOMAIN videos : videos[i].id = videos[j].id => i = j
    /\ \A i \in DOMAIN videos : LET v == videos[i] IN
         /\ \E k \in DOMAIN ids : v.id = ids[k]
         /\ v.snippet # Null => v.snippet.title # Null
         /\ IsCount(v.viewCount) /\ IsCount(v.likeCount)
         /\ IsCount(v.commentCount)

Named(threads) ==
    {IF t.comment # Null THEN t.comment ELSE t.thread :
        t \in {x \in {threads[i] : i \in DOMAIN threads} :
                  x.snippet /\ {x.comment, x.thread} # {Null}}}

IsThreadList(threads, ids) ==
    /\ \A k \in DOMAIN ids :
         IsList(threads[ids[k]].top) /\ IsList(threads[ids[k]].latest)
    /\ \A k, l \in DOMAIN ids : k # l =>
         (Named(threads[ids[k]].top) \cup Named(threads[ids[k]].latest))
           \cap (Named(threads[ids[l]].top) \cup Named(threads[ids[l]].latest))
         = {}

\* What the API takes from the reports on the audience.
Reports(age, gender, country) ==
    [ageGroups |-> Api!MapAgeGroupRows(age),
     genders |-> Api!MapGenderRows(gender),
     countries |-> Api!MapCountryRows(country)]

IsAnswer(user, g) ==
    /\ IsChannel(user, g.channel)
    /\ IsVideoList(g.videos, g.videoIds)
    /\ IsThreadList(g.threads, g.videoIds)
    /\ IsReport(g.age) /\ IsReport(g.gender)
    /\ IsReport(g.country) /\ \A i \in DOMAIN g.country :
         Api!Cell(g.country[i], 1) \in Nat \cup {Null}
    /\ Reports(g.age, g.gender, g.country) # Null
    /\ IsReport(g.daily) /\ \A i \in DOMAIN g.daily :
         DOMAIN g.daily[i].cells \subseteq 1..8

-----------------------------------------------------------------------------
(* What the rows of two ingestions owe each other.                         *)
Untimed(rows) == [i \in DOMAIN rows |-> [rows[i] EXCEPT
                                            !.durationSeconds = Null]]
Comparable(rows) ==
    [rows EXCEPT !.videos = Untimed(@), !.contentItems = Untimed(@),
                 !.channel = IF @ = Null THEN Null
                             ELSE [@ EXCEPT !.uploadPlaylistId = Null]]

Distinct(rows, Key(_)) ==
    \A i, j \in DOMAIN rows : Key(rows[i]) = Key(rows[j]) => i = j

KeysDiffer(rows) ==
    /\ Distinct(rows.videos, LAMBDA r : r.youtubeVideoId)
    /\ Distinct(rows.comments, LAMBDA r : r.youtubeCommentId)
    /\ Distinct(rows.analytics, LAMBDA r : r.analyticsDate)
    /\ Distinct(rows.demographics,
                LAMBDA r : <<r.dimensionType, r.dimensionValue>>)
    /\ Distinct(rows.contentItems, LAMBDA r : r.externalId)

HasEveryComment(rows, threads) ==
    {<<r.videoId, r.youtubeCommentId, r.commentType>> :
        r \in {rows.comments[i] : i \in DOMAIN rows.comments}}
    = UNION {LET t   == threads[v]
                 top == Named(t.top)
             IN  {<<v, c, IF c \in top THEN "top" ELSE "latest">> :
                     c \in top \cup Named(t.latest)} :
               v \in {rows.videos[i].youtubeVideoId : i \in DOMAIN rows.videos}}

(* The rates the scoring job is given are those the insights show.         *)
SameRates(stored, job) ==
    LET Video(x) == [id |-> x.youtubeVideoId, viewCount |-> x.viewCount,
                     likeCount |-> x.likeCount,
                     commentCount |-> x.commentCount, rank |-> Null]
        shown == Insights!buildTopContent(
                     [i \in DOMAIN stored |-> Video(stored[i])])
    IN  {<<shown[i].id, shown[i].engagementRate>> : i \in DOMAIN shown}
        = {<<x.youtubeVideoId, x.engagementRate>> :
              x \in {job.videos[i] : i \in DOMAIN job.videos}}
=============================================================================
