--------------------------- MODULE CreatorInsights ---------------------------
(***************************************************************************)
(* What a creator is shown of the rows of the channel (creator-insights    *)
(* .service.ts) and what an SME is shown of the same creator               *)
(* (getCreatorProfileForSme of creator-discovery.service.ts, which repeats *)
(* the computation).                                                       *)
(*                                                                         *)
(* A moment is a number of hours, Day of them a day; a row of the daily    *)
(* analytics is dated at its midnight.  A value that may be missing is     *)
(* Null.  Titles, links and the two platforms without data are left out.   *)
(* A handler is a function of what its queries return, as two requests may *)
(* be given different rows where ORDER BY leaves ties open.                *)
(***************************************************************************)
EXTENDS Integers, FiniteSets, SequencesExt, Arrays

CONSTANTS Null, Day

OrZero(x) == IF x = Null THEN 0 ELSE x
Total(rows, field) ==
    FoldLeft(LAMBDA sum, row : sum + OrZero(row[field]), 0, rows)

(* What there is in the database of a channel: at most one row of a day.   *)
IsCount(x) == x \in Int \cup {Null}
IsRow(row) ==
    /\ row.analyticsDate \in Nat
    /\ Day * (row.analyticsDate \div Day) = row.analyticsDate
    /\ IsCount(row.views)  /\ IsCount(row.minutes)
    /\ IsCount(row.gained) /\ IsCount(row.lost)
IsVideo(v) ==
    /\ IsCount(v.publishedAt) /\ IsCount(v.viewCount)
    /\ IsCount(v.likeCount)   /\ IsCount(v.commentCount)
IsChannel(channel) ==
    /\ channel.createdAt \in Int
    /\ channel.analytics \in Seq(ToSet(channel.analytics))
    /\ \A i \in DOMAIN channel.analytics : IsRow(channel.analytics[i])
    /\ \A i, j \in DOMAIN channel.analytics :
         channel.analytics[i].analyticsDate
           = channel.analytics[j].analyticsDate => i = j
    /\ IsFiniteSet(channel.videos)
    /\ \A v \in channel.videos : IsVideo(v)

(* JavaScript's Math.round of a quotient of naturals.                      *)
Round(a, b) == (2 * a + b) \div (2 * b)

-----------------------------------------------------------------------------
(* The queries.  Rows of the analytics come newest first, and no two of    *)
(* them are of one date.  Videos are limited to those published last, where*)
(* PostgreSQL puts a missing date before all others; those of one date, or *)
(* of none, come in any order, and any of them fall to the limit: these    *)
(* are the lists the query may return.                                     *)
Newer(a, b) == a.analyticsDate > b.analyticsDate
getAnalyticsSince(channel, since) ==
    LET InWindow(row) == row.analyticsDate >= since
    IN  Sorted(Filtered(channel.analytics, InWindow), Newer)

PublishedLater(a, b) ==
    \/ a.publishedAt = Null /\ b.publishedAt # Null
    \/ /\ a.publishedAt # Null /\ b.publishedAt # Null
       /\ a.publishedAt > b.publishedAt
getRecentVideosWithScores(channel, limit) ==
    LET videos == channel.videos
        n == IF Cardinality(videos) < limit THEN Cardinality(videos)
             ELSE limit
    IN  {rows \in [1..n -> videos] :
            /\ IsInjective(rows)
            /\ \A k \in 1..n : \A v \in videos \ {rows[j] : j \in 1..k} :
                 ~PublishedLater(v, rows[k])}

(* The channel of the user that was created last: any of them, if several  *)
(* were created at one moment, and none if there is none.                  *)
getLatestChannelForUser(channels) ==
    IF channels = {} THEN {Null}
    ELSE {c \in channels : \A d \in channels : d.createdAt <= c.createdAt}

(* What a handler that asks for the channel and for its videos is given.   *)
Queried(channels, limit) ==
    UNION {{[channel |-> channel, videos |-> rows] :
               rows \in IF channel = Null THEN {<<>>}
                        ELSE getRecentVideosWithScores(channel, limit)} :
             channel \in getLatestChannelForUser(channels)}

(* n days ago, at this time of day.                                        *)
Since(now, days) == now - (days - 1) * Day

-----------------------------------------------------------------------------
(* The creator.                                                            *)
EmptyAudience == [views |-> 0, minutes |-> 0, averageDuration |-> 0,
                  gained |-> 0, lost |-> 0]

getAudienceInsights(profile, channel, days, now) ==
    LET analytics == getAnalyticsSince(channel, Since(now, days))
        n         == Len(analytics)
        aggregate ==
            [views |-> Total(analytics, "views"),
             minutes |-> Total(analytics, "minutes"),
             averageDuration |->
                 IF n = 0 THEN 0
                 ELSE Round(Total(analytics, "averageDuration"), n),
             gained |-> Total(analytics, "gained"),
             lost |-> Total(analytics, "lost")]
        score == IF profile = Null THEN Null ELSE profile.influenceScore
    IN  IF channel = Null
        THEN [channel |-> Null, audience |-> EmptyAudience,
              influenceScore |-> score, windowDays |-> days,
              syncedAt |-> Null]
        ELSE [channel |-> channel.id, audience |-> aggregate,
              influenceScore |-> score, windowDays |-> days,
              syncedAt |-> channel.lastSyncedAt]

getContentInsights(channel, rows, limit) ==
    LET Item(v) == [id |-> v.id, viewCount |-> OrZero(v.viewCount),
                    likeCount |-> OrZero(v.likeCount),
                    commentCount |-> OrZero(v.commentCount),
                    rank |-> v.rank]
    IN  IF channel = Null
        THEN [channel |-> Null, items |-> <<>>, limit |-> limit]
        ELSE [channel |-> channel.id, limit |-> limit,
              items |-> [i \in DOMAIN rows |-> Item(rows[i])]]

buildTimeSeries(analytics) ==
    LET sorted == Sorted(analytics, LAMBDA a, b :
                                         a.analyticsDate < b.analyticsDate)
    IN  [i \in DOMAIN sorted |->
            [date |-> sorted[i].analyticsDate \div Day,
             views |-> OrZero(sorted[i].views),
             minutes |-> OrZero(sorted[i].minutes),
             gained |-> OrZero(sorted[i].gained),
             lost |-> OrZero(sorted[i].lost)]]

aggregateAnalytics(analytics, windowDays) ==
    [windowDays |-> windowDays,
     followerGrowth |-> Total(analytics, "gained") - Total(analytics, "lost"),
     views |-> Total(analytics, "views"),
     minutes |-> Total(analytics, "minutes")]

(* Rates are fractions, in the order most viewed first.                    *)
buildTopContent(rows) ==
    LET sorted == Sorted(rows, LAMBDA a, b :
                              OrZero(a.viewCount) > OrZero(b.viewCount))
        Rate(v) == IF OrZero(v.viewCount) > 0
                   THEN <<OrZero(v.likeCount) + OrZero(v.commentCount),
                          v.viewCount>>
                   ELSE <<0, 1>>
    IN  [i \in DOMAIN sorted |->
            [id |-> sorted[i].id, viewCount |-> OrZero(sorted[i].viewCount),
             likeCount |-> OrZero(sorted[i].likeCount),
             commentCount |-> OrZero(sorted[i].commentCount),
             engagementRate |-> Rate(sorted[i]), rank |-> sorted[i].rank]]

computeEngagementRate(items) ==
    LET views == Total(items, "viewCount")
    IN  IF views = 0 THEN <<0, 1>>
        ELSE <<Total(items, "likeCount") + Total(items, "commentCount"),
               views>>

buildEmptyPerformance(days) ==
    LET none(window) == [windowDays |-> window, followerGrowth |-> 0,
                         views |-> 0, minutes |-> 0]
    IN  [windowDays |-> days, weeklyGrowth |-> none(7),
         monthlyGrowth |-> none(days),
         youtube |-> [followerGrowth |-> 0, views |-> 0,
                      engagementRate |-> <<0, 1>>],
         engagementRate |-> <<0, 1>>, topContent |-> <<>>,
         timeSeries |-> <<>>]

(* The clock is read again for the week, once the rows are there.          *)
(* Faulty: the last seven rows are taken for the last seven days.          *)
Week_Rows(analytics, later) ==
    SubSeq(analytics, 1, IF Len(analytics) < 7 THEN Len(analytics) ELSE 7)
Week(analytics, later) ==
    LET InWeek(row) == row.analyticsDate >= Since(later, 7)
    IN  Filtered(analytics, InWeek)

getPerformanceInsights(channel, rows, days, now, later) ==
    LET analytics == getAnalyticsSince(channel, Since(now, days))
        monthly   == aggregateAnalytics(analytics, days)
        top       == buildTopContent(rows)
        rate      == computeEngagementRate(top)
    IN  IF channel = Null THEN buildEmptyPerformance(days)
        ELSE [windowDays |-> days,
              weeklyGrowth |-> aggregateAnalytics(Week(analytics, later), 7),
              monthlyGrowth |-> monthly,
              youtube |-> [followerGrowth |-> monthly.followerGrowth,
                           views |-> monthly.views, engagementRate |-> rate],
              engagementRate |-> rate, topContent |-> top,
              timeSeries |-> buildTimeSeries(analytics)]

-----------------------------------------------------------------------------
(* The SME: the same once more, and nothing without a channel.             *)
SmeTotals(analytics, windowDays) ==
    LET sum == FoldLeft(LAMBDA acc, row :
                   [gained |-> acc.gained + OrZero(row.gained),
                    lost |-> acc.lost + OrZero(row.lost),
                    views |-> acc.views + OrZero(row.views),
                    minutes |-> acc.minutes + OrZero(row.minutes)],
                   [gained |-> 0, lost |-> 0, views |-> 0, minutes |-> 0],
                   analytics)
    IN  [windowDays |-> windowDays, followerGrowth |-> sum.gained - sum.lost,
         views |-> sum.views, minutes |-> sum.minutes]

SmeTopContent(rows) ==
    LET Views(v)  == OrZero(v.viewCount)
        Engaged(v) == OrZero(v.likeCount) + OrZero(v.commentCount)
        sorted    == Sorted(rows, LAMBDA a, b : Views(a) > Views(b))
        Item(v)   == [id |-> v.id, viewCount |-> Views(v),
                      likeCount |-> OrZero(v.likeCount),
                      commentCount |-> OrZero(v.commentCount),
                      engagementRate |->
                          IF Views(v) > 0 THEN <<Engaged(v), Views(v)>>
                          ELSE <<0, 1>>,
                      rank |-> v.rank]
    IN  [i \in DOMAIN sorted |-> Item(sorted[i])]

SmeEngagementRate(items) ==
    LET sum == FoldLeft(LAMBDA acc, v :
                   <<acc[1] + v.likeCount + v.commentCount,
                     acc[2] + v.viewCount>>, <<0, 0>>, items)
    IN  IF sum[2] = 0 THEN <<0, 1>> ELSE sum

SmeTimeSeries(analytics) ==
    LET oldest == Sorted(analytics, LAMBDA a, b :
                                         a.analyticsDate < b.analyticsDate)
    IN  [i \in DOMAIN oldest |->
            [date |-> oldest[i].analyticsDate \div Day,
             views |-> OrZero(oldest[i].views),
             minutes |-> OrZero(oldest[i].minutes),
             gained |-> OrZero(oldest[i].gained),
             lost |-> OrZero(oldest[i].lost)]]

SmePerformance(channel, rows, days, now, later) ==
    LET analytics == getAnalyticsSince(channel, Since(now, days))
        InWeek(row) == row.analyticsDate >= Since(later, 7)
        month     == SmeTotals(analytics, days)
        top       == SmeTopContent(rows)
        rate      == SmeEngagementRate(top)
    IN  [windowDays |-> days,
         weeklyGrowth |-> SmeTotals(Filtered(analytics, InWeek), 7),
         monthlyGrowth |-> month,
         youtube |-> [followerGrowth |-> month.followerGrowth,
                      views |-> month.views, engagementRate |-> rate],
         engagementRate |-> rate, topContent |-> top,
         timeSeries |-> SmeTimeSeries(analytics)]

getCreatorProfileForSme(profile, channel, rows, days, now, later) ==
    [influenceScore |->
         IF profile = Null THEN Null ELSE profile.influenceScore,
     audienceSize |->
         IF profile = Null THEN 0 ELSE OrZero(profile.audienceSize),
     channel |-> IF channel = Null THEN Null ELSE channel.id,
     contentPerformance |->
         IF channel = Null THEN Null
         ELSE SmePerformance(channel, rows, days, now, later)]
=============================================================================
