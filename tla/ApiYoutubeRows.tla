--------------------------- MODULE ApiYoutubeRows ---------------------------
(***************************************************************************)
(* The rows and the job the API makes of Google's answers: what            *)
(* socials.service.ts keeps of an answer, and what the ingestion service   *)
(* (ingestion/youtube/services/youtube.service.ts) stores of that.         *)
(***************************************************************************)
EXTENDS YoutubeNormalization

(* The channel and the videos lose their contentDetails, hence the upload  *)
(* playlist and the durations, and the snippet is flattened.               *)
SanitizeChannel(item) ==
    [snippet |-> Null, title |-> Field(item.snippet, "title"),
     thumbnails |-> Field(item.snippet, "thumbnails"),
     subscriberCount |-> OrElse(item.subscriberCount, 0), uploads |-> Null]

SanitizeVideo(v) ==
    [id |-> v.id, snippet |-> Null, title |-> Field(v.snippet, "title"),
     contentDetails |-> Null, viewCount |-> OrElse(v.viewCount, 0),
     likeCount |-> OrElse(v.likeCount, 0),
     commentCount |-> OrElse(v.commentCount, 0)]

-----------------------------------------------------------------------------
(* Demographics.  A share is a fraction: Google gives age groups and       *)
(* genders out of a hundred, and countries come out of one.                *)
MapAgeGroupRows(rows) ==
    LET ok(row) == row.value # Null /\ Cell(row, 1) # Null
        kept    == Filtered(rows, ok)
    IN  [i \in DOMAIN kept |->
            [ageGroup |-> kept[i].value,
             viewerPercentage |-> <<kept[i].cells[1], 1>>]]

MapGenderRows(rows) ==
    LET ok(row) == row.value # Null /\ Cell(row, 1) # Null
        kept    == Filtered(rows, ok)
    IN  [i \in DOMAIN kept |->
            [gender |-> kept[i].value,
             viewerPercentage |-> <<kept[i].cells[1], 1>>]]

Share(views, total) == IF total > 0 THEN <<views, total>> ELSE <<0, 1>>

MapCountryRows(rows) ==
    LET ok(row) == /\ row.value # Null
                   /\ Cell(row, 1) # Null
                   /\ Cell(row, 1) >= 0
        kept    == Filtered(rows, ok)
        total   == FoldLeft(LAMBDA sum, row : sum + row.cells[1], 0, kept)
    IN  [i \in DOMAIN kept |->
            [country |-> kept[i].value,
             viewerPercentage |-> Share(kept[i].cells[1], total)]]

DemographicRow(type, value, share) ==
    [dimensionType |-> type, dimensionValue |-> value,
     viewerPercentage |-> share]

PersistAudienceDemographics(demographics) ==
    IF demographics = Null THEN <<>>
    ELSE LET d == demographics
         IN  [i \in DOMAIN d.ageGroups |->
                 DemographicRow("ageGroup", d.ageGroups[i].ageGroup,
                                d.ageGroups[i].viewerPercentage)]
             \o [i \in DOMAIN d.genders |->
                 DemographicRow("gender", d.genders[i].gender,
                                d.genders[i].viewerPercentage)]
             \o [i \in DOMAIN d.countries |->
                 DemographicRow("country", d.countries[i].country,
                                d.countries[i].viewerPercentage)]

-----------------------------------------------------------------------------
(* Comments.  A thread is [thread, comment, snippet, likes]: its own id,   *)
(* that of its top-level comment, whether that has a snippet, its likes.   *)
FetchCommentThreads(items, type) ==
    LET Id(item) == OrElse(item.comment, item.thread)
        ok(item) == item.snippet /\ Id(item) # Null
        kept     == Filtered(items, ok)
    IN  [i \in DOMAIN kept |->
            [commentId |-> Id(kept[i]), likeCount |-> OrElse(kept[i].likes, 0),
             commentType |-> type]]

DedupeYoutubeComments(comments) ==
    FoldLeft(LAMBDA seen, c :
                 IF \E i \in DOMAIN seen : seen[i].commentId = c.commentId
                 THEN seen ELSE Append(seen, c),
             <<>>, comments)

(* One entry per video found, with the count its statistics give; the      *)
(* sample is the first five.                                               *)
FetchVideoComments(videoIds, threads, videos) ==
    LET Stated(id) ==
            {OrElse(videos[i].commentCount, 0) :
                i \in {k \in DOMAIN videos : videos[k].id = id}}
        Entry(id) ==
            LET top    == FetchCommentThreads(threads[id].top, "top")
                latest == FetchCommentThreads(threads[id].latest, "latest")
                unique == DedupeYoutubeComments(top \o latest)
            IN  [videoId |-> id,
                 commentCount |-> IF Stated(id) = {} THEN 0
                                  ELSE CHOOSE n \in Stated(id) : TRUE,
                 topComments |-> top, latestComments |-> latest,
                 sampleComments |->
                     SubSeq(unique, 1, IF Len(unique) < 5
                                       THEN Len(unique) ELSE 5)]
    IN  [i \in DOMAIN videoIds |-> Entry(videoIds[i])]

DedupeCommentsById(comments) ==
    LET First(i) == \A k \in 1..(i - 1) :
                        comments[k].commentId # comments[i].commentId
    IN  FoldLeft(LAMBDA kept, i :
                     IF First(i) THEN Append(kept, comments[i]) ELSE kept,
                 <<>>, [i \in DOMAIN comments |-> i])

PersistVideoComments(persisted, comments) ==
    LET stored == {persisted[i].youtubeVideoId : i \in DOMAIN persisted}
        Rows(entry) ==
            LET unique == DedupeCommentsById(entry.topComments
                                               \o entry.latestComments)
            IN  IF entry.videoId \notin stored THEN <<>>
                ELSE [i \in DOMAIN unique |->
                         [videoId |-> entry.videoId,
                          youtubeCommentId |-> unique[i].commentId,
                          commentType |-> unique[i].commentType,
                          likeCount |-> unique[i].likeCount]]
    IN  FlattenSeq([i \in DOMAIN comments |-> Rows(comments[i])])

-----------------------------------------------------------------------------
(* Content items and metrics.                                              *)
MapVideosToContentItems(userId, videos) ==
    [i \in DOMAIN videos |->
        [userId |-> userId, externalId |-> videos[i].youtubeVideoId,
         title |-> videos[i].videoTitle,
         durationSeconds |-> videos[i].durationSeconds]]

MetricNames == <<"views", "estimatedMinutesWatched", "averageViewDuration",
                 "subscribersGained", "subscribersLost", "likes", "comments",
                 "shares", "impressions", "impressionsClickThroughRate">>

BuildContentMetricsFromAnalytics(userId, rows) ==
    LET OfRow(row) ==
            FoldLeft(LAMBDA done, i :
                         IF Cell(row, i) = Null THEN done
                         ELSE Append(done, [userId |-> userId,
                                            metricName |-> MetricNames[i],
                                            metricValue |-> Cell(row, i),
                                            periodStart |-> row.value]),
                     <<>>, [i \in DOMAIN MetricNames |-> i])
    IN  FlattenSeq([i \in DOMAIN rows |-> OfRow(rows[i])])

-----------------------------------------------------------------------------
(* persistNormalizedData: everything stored of an answer g of Google.      *)
ApiRows(userId, g) ==
    LET videos   == NormalizeVideos([i \in DOMAIN g.videos |->
                                        SanitizeVideo(g.videos[i])])
        comments == FetchVideoComments(g.videoIds, g.threads, g.videos)
    IN  [channel |-> NormalizeChannel(g.channel.id,
                                      SanitizeChannel(g.channel), userId),
         videos |-> videos,
         analytics |-> NormalizeDailyAnalytics(g.daily),
         comments |-> PersistVideoComments(videos, comments),
         demographics |-> PersistAudienceDemographics(
             [ageGroups |-> MapAgeGroupRows(g.age),
              genders |-> MapGenderRows(g.gender),
              countries |-> MapCountryRows(g.country)]),
         contentItems |-> MapVideosToContentItems(userId, videos),
         metrics |-> BuildContentMetricsFromAnalytics(userId, g.daily)]

(* A rate is a fraction, 0 when nobody has viewed the video.               *)
EngagementRate(v) ==
    IF v.viewCount > 0
    THEN <<v.likeCount + v.commentCount, v.viewCount>> ELSE <<0, 1>>

(* enqueueIngestionJobs: the payload of the scoring job.                   *)
EnqueueIngestionJobs(g, maxVideos, stored) ==
    LET comments == FetchVideoComments(g.videoIds, g.threads, g.videos)
        n        == IF Len(stored) < maxVideos THEN Len(stored) ELSE maxVideos
    IN  [summary |->
            [videosCount |-> Len(stored),
             commentsCount |->
                 FoldLeft(LAMBDA sum, e : sum + e.commentCount, 0, comments)],
         videos |-> [i \in 1..n |->
                        [youtubeVideoId |-> stored[i].youtubeVideoId,
                         engagementRate |-> EngagementRate(stored[i])]]]
=============================================================================
