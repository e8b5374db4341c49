------------------------ MODULE YoutubeNormalization ------------------------
(***************************************************************************)
(* shared/youtube/youtube-normalization.ts: how a channel, its videos and  *)
(* its daily analytics become rows, in the API and in the worker alike.    *)
(* Google's answers are records whose missing fields are Null; a statistic *)
(* is an integer or Null, a duration its days and the seconds of the rest, *)
(* the thumbnails the set of the sizes that have a URL.                    *)
(***************************************************************************)
EXTENDS Integers, SequencesExt, Arrays

CONSTANT Null

OrElse(a, b) == IF a # Null THEN a ELSE b
Field(item, f) == IF item = Null THEN Null ELSE item[f]

ParseNumberishInt(value) == IF value = Null \/ value < 0 THEN 0 ELSE value

(* The pattern knows no day part: a video of a day or more counts as 0.    *)
ParseIso8601Duration(duration) ==
    IF duration.days > 0 THEN 0 ELSE duration.seconds

GetThumbnailUrl(thumbnails) ==
    IF thumbnails = Null THEN Null
    ELSE CASE "high" \in thumbnails    -> "high"
           [] "medium" \in thumbnails  -> "medium"
           [] "default" \in thumbnails -> "default"
           [] OTHER                    -> Null

NormalizeChannel(youtubeChannelId, raw, userId) ==
    LET title == OrElse(Field(Field(raw, "snippet"), "title"),
                        Field(raw, "title"))
    IN  IF raw = Null \/ title = Null THEN Null
        ELSE [userId |-> userId, youtubeChannelId |-> youtubeChannelId,
              channelTitle |-> title,
              thumbnailUrl |-> GetThumbnailUrl(
                  OrElse(Field(raw.snippet, "thumbnails"), raw.thumbnails)),
              subscriberCount |-> ParseNumberishInt(raw.subscriberCount),
              uploadPlaylistId |-> raw.uploads,
              isApproved |-> FALSE]

NormalizeVideo(video) ==
    [youtubeVideoId |-> video.id,
     videoTitle |-> OrElse(Field(video.snippet, "title"), video.title),
     durationSeconds |->
         IF video.contentDetails # Null
         THEN ParseIso8601Duration(video.contentDetails) ELSE Null,
     viewCount |-> ParseNumberishInt(video.viewCount),
     likeCount |-> ParseNumberishInt(video.likeCount),
     commentCount |-> ParseNumberishInt(video.commentCount)]

NormalizeVideos(raw) ==
    LET Kept(video) == /\ video.id # Null
                       /\ video.snippet # Null \/ video.title # Null
        kept        == Filtered(raw, Kept)
    IN  [i \in DOMAIN kept |-> NormalizeVideo(kept[i])]

(* A row of a report: what it is about, and its cells.                     *)
Cell(row, i) == IF i \in DOMAIN row.cells THEN row.cells[i] ELSE Null

NormalizeDailyAnalytics(rows) ==
    [i \in DOMAIN rows |->
        [analyticsDate |-> rows[i].value,
         views |-> ParseNumberishInt(Cell(rows[i], 1)),
         estimatedMinutesWatched |-> ParseNumberishInt(Cell(rows[i], 2)),
         averageViewDurationSeconds |-> ParseNumberishInt(Cell(rows[i], 3)),
         subscribersGained |-> ParseNumberishInt(Cell(rows[i], 4)),
         subscribersLost |-> ParseNumberishInt(Cell(rows[i], 5))]]
=============================================================================
