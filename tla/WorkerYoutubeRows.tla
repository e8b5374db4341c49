-------------------------- MODULE WorkerYoutubeRows -------------------------
(***************************************************************************)
(* The rows the worker makes of Google's answers                           *)
(* (workers/src/services/youtube-sync.service.ts): the same steps as the   *)
(* API's, written a second time.                                           *)
(***************************************************************************)
EXTENDS YoutubeNormalization

(* The snippet and the contentDetails of a video are kept.                 *)
MapVideo(video) ==
    [id |-> video.id, snippet |-> video.snippet,
     title |-> Field(video.snippet, "title"),
     contentDetails |-> video.contentDetails, viewCount |-> video.viewCount,
     likeCount |-> video.likeCount, commentCount |-> video.commentCount]

Typed(rows) ==
    LET ok(row) == row.value # Null /\ Cell(row, 1) # Null
    IN  Filtered(rows, ok)

MapAgeGroupRows(rows) ==
    LET kept == Typed(rows)
    IN  [i \in DOMAIN kept |->
            [ageGroup |-> kept[i].value,
             viewerPercentage |-> <<kept[i].cells[1], 1>>]]

MapGenderRows(rows) ==
    LET kept == Typed(rows)
    IN  [i \in DOMAIN kept |->
            [gender |-> kept[i].value,
             viewerPercentage |-> <<kept[i].cells[1], 1>>]]

(* Unlike the API's, no row is left out for its views being negative.      *)
MapCountryRows(rows) ==
    LET kept  == Typed(rows)
        total == FoldLeft(LAMBDA sum, row : sum + row.cells[1], 0, kept)
    IN  [i \in DOMAIN kept |->
            [country |-> kept[i].value,
             viewerPercentage |-> IF total > 0
                                  THEN <<kept[i].cells[1], total>>
                                  ELSE <<0, 1>>]]

PersistAudienceDemographics(d) ==
    LET Rows(type, entries, value) ==
            [i \in DOMAIN entries |->
                [dimensionType |-> type, dimensionValue |-> entries[i][value],
                 viewerPercentage |-> entries[i].viewerPercentage]]
    IN  Rows("ageGroup", d.ageGroups, "ageGroup")
          \o Rows("gender", d.genders, "gender")
          \o Rows("country", d.countries, "country")

FetchCommentThreads(items, type) ==
    LET ok(item) == item.snippet /\ OrElse(item.comment, item.thread) # Null
        kept     == Filtered(items, ok)
    IN  [i \in DOMAIN kept |->
            [commentId |-> OrElse(kept[i].comment, kept[i].thread),
             likeCount |-> OrElse(kept[i].likes, 0), commentType |-> type]]

(* Faulty: the later of two copies of a comment is kept.                   *)
DedupeComments_Last(comments) ==
    FoldLeft(LAMBDA unique, c :
                 LET Other(x) == x.commentId # c.commentId
                 IN  Append(Filtered(unique, Other), c),
             <<>>, comments)
DedupeComments(comments) ==
    FoldLeft(LAMBDA unique, c :
                 IF \E i \in DOMAIN unique : unique[i].commentId = c.commentId
                 THEN unique ELSE Append(unique, c),
             <<>>, comments)

FetchVideoComments(videoIds, threads) ==
    [i \in DOMAIN videoIds |->
        LET thread == threads[videoIds[i]]
        IN  [videoId |-> videoIds[i],
             topComments |-> FetchCommentThreads(thread.top, "top"),
             latestComments |-> FetchCommentThreads(thread.latest, "latest")]]

PersistVideoComments(comments, persistedVideos) ==
    LET Stored(id) == \E i \in DOMAIN persistedVideos :
                         persistedVideos[i].youtubeVideoId = id
        Row(id, c) == [videoId |-> id, youtubeCommentId |-> c.commentId,
                       commentType |-> c.commentType,
                       likeCount |-> c.likeCount]
        Rows(e) ==
            LET unique == DedupeComments(e.topComments \o e.latestComments)
            IN  IF Stored(e.videoId)
                THEN [i \in DOMAIN unique |-> Row(e.videoId, unique[i])]
                ELSE <<>>
    IN  FlattenSeq([i \in DOMAIN comments |-> Rows(comments[i])])

MetricNames == <<"views", "estimatedMinutesWatched", "averageViewDuration",
                 "subscribersGained", "subscribersLost", "likes", "comments",
                 "shares">>

BuildContentMetricsFromAnalytics(userId, rows) ==
    LET Metric(row, i) == [userId |-> userId, metricName |-> MetricNames[i],
                           metricValue |-> Cell(row, i),
                           periodStart |-> row.value]
        OfRow(row) ==
            LET present(i) == Cell(row, i) # Null
                named      == Filtered([i \in DOMAIN MetricNames |-> i],
                                        present)
            IN  [k \in DOMAIN named |-> Metric(row, named[k])]
    IN  FlattenSeq([i \in DOMAIN rows |-> OfRow(rows[i])])

(* syncUser from its answers on: everything it stores.                     *)
WorkerRows(userId, g) ==
    LET videos == NormalizeVideos([i \in DOMAIN g.videos |->
                                      MapVideo(g.videos[i])])
    IN  [channel |-> NormalizeChannel(g.channel.id, g.channel, userId),
         videos |-> videos,
         analytics |-> NormalizeDailyAnalytics(g.daily),
         comments |-> PersistVideoComments(
             FetchVideoComments(g.videoIds, g.threads), videos),
         demographics |-> PersistAudienceDemographics(
             [ageGroups |-> MapAgeGroupRows(g.age),
              genders |-> MapGenderRows(g.gender),
              countries |-> MapCountryRows(g.country)]),
         contentItems |-> [i \in DOMAIN videos |->
             [userId |-> userId, externalId |-> videos[i].youtubeVideoId,
              title |-> videos[i].videoTitle,
              durationSeconds |-> videos[i].durationSeconds]],
         metrics |-> BuildContentMetricsFromAnalytics(userId, g.daily)]
=============================================================================
