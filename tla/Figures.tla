------------------------------ MODULE Figures ------------------------------
(***************************************************************************)
(* The figures of CreatorInsights, and what it means that they agree.      *)
(***************************************************************************)
EXTENDS Integers, FiniteSets, Sequences

CONSTANTS Null, Day

Insights == INSTANCE CreatorInsights

(* The channels of a user, in the database.                                *)
AreChannels(channels) ==
    /\ IsFiniteSet(channels)
    /\ \A channel \in channels :
         channel # Null /\ Insights!IsChannel(channel)

SumOver(series, from, field) ==
    LET sum[n \in 0..Len(series)] ==
            IF n = 0 THEN 0
            ELSE sum[n - 1] + IF series[n].date >= from
                              THEN series[n][field] ELSE 0
    IN  sum[Len(series)]

Adds(growth, series, from) ==
    /\ growth.views = SumOver(series, from, "views")
    /\ growth.minutes = SumOver(series, from, "minutes")
    /\ growth.followerGrowth =
           SumOver(series, from, "gained") - SumOver(series, from, "lost")

(* The month is of all of the time series, and the audience is the month's.*)
(* The week is of whole days up to the clock read later, and of all of     *)
(* them: of the last seven where it starts at midnight, and of six only at *)
(* any other time, since it is cut at this time of the seventh day, whose  *)
(* row is dated at its midnight.  Though it says windowDays: 7.            *)
FiguresAdd(p, audience, later) ==
    LET today == later \div Day
    IN  /\ Adds(p.monthlyGrowth, p.timeSeries, 0)
        /\ \E from \in {today - 6, today - 5} :
             Adds(p.weeklyGrowth, p.timeSeries, from)
        /\ p.monthlyGrowth.views = audience.views
        /\ p.monthlyGrowth.followerGrowth = audience.gained - audience.lost

(* The same videos are listed, with the same counts.                       *)
Counts(item) == <<item.id, item.viewCount, item.likeCount, item.commentCount>>
SameVideos(items, top) ==
    {Counts(items[i]) : i \in DOMAIN items}
        = {Counts(top[i]) : i \in DOMAIN top}

(* What an SME is shown of the growth of a channel, and what its creator   *)
(* is shown.                                                               *)
SameGrowth(shown, p) ==
    /\ shown.weeklyGrowth = p.weeklyGrowth
    /\ shown.monthlyGrowth = p.monthlyGrowth
    /\ shown.timeSeries = p.timeSeries
=============================================================================
