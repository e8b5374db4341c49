----------------------------- MODULE Evaluation -----------------------------
(***************************************************************************)
(* What the system computes from what it is given, one case at a time: a   *)
(* behaviour chooses a case, and either evaluates it in one step or, for   *)
(* the cases "market" and "accounts", goes on as Marketplace and Tenants   *)
(* do.  The properties relate results that different parts of the code     *)
(* compute of the same data: the API and the worker, the insights of a     *)
(* creator and of an SME, one page of a search and the next, a write and   *)
(* its repetition.                                                         *)
(***************************************************************************)
EXTENDS Marketplace, IngestedRows

CONSTANTS
    FetchCases,   \* grants, what Google finds, and its answers
    RowCases,     \* what Google says of a channel
    WriteCases,   \* an ON CONFLICT statement, a table and a row
    DeleteCases,  \* a database and a row to delete
    InsightCases, \* channels, a window, a limit and moments
    PageCases,    \* users, search parameters
    SearchCases,  \* users, a query and a limit
    KeyCases,     \* users and two requests that are cached
    StatsCases,   \* users
    People, Slugify, Forms, Handlers  \* of Tenants

VARIABLES case, result, tenants, accounts, tokens, at, form

accountVars == <<tenants, accounts, tokens, at, form>>

vars == <<case, result, marketVars, accountVars>>

Fetch     == INSTANCE YoutubeFetch
Db        == INSTANCE DatabaseSchema
Discovery == INSTANCE CreatorDiscovery
Accounts  == INSTANCE Tenants

\* A search that is cached, as a client asks for it.
IsRequest(r) ==
    \/ r.op \in {"discover", "search"} /\ Discovery!IsParams(r.params)
    \/ r.op = "compare"

\* What the cases are.
ASSUME CasesAssumption ==
    /\ FetchCases \subseteq [kind : {"fetch"}, grant : Fetch!Grants,
                            found : Fetch!Findings, answers : Fetch!Answers]
    /\ \A c \in RowCases : c.kind = "rows" /\ IsAnswer(c.user, c.google)
    /\ \A c \in WriteCases : /\ c.kind = "write"
                             /\ Db!IsWrite(c.statement, c.table, c.row)
    /\ \A c \in DeleteCases :
         /\ c.kind = "delete" /\ Db!IsDatabase(c.db)
         /\ c.table \in DOMAIN c.db /\ c.row \in c.db[c.table]
    /\ \A c \in InsightCases :
         /\ c.kind = "insights" /\ AreChannels(c.channels)
         /\ c.limit \in Nat /\ c.later \in Int
    /\ Day \in Nat \ {0}
    /\ \A c \in PageCases :
         /\ c.kind = "pages" /\ Discovery!IsUsers(c.users)
         /\ Discovery!IsParams(c.params)
         /\ c.params.limit \in Nat /\ c.params.offset \in Nat
    /\ \A c \in SearchCases :
         c.kind = "search" /\ Discovery!IsUsers(c.users) /\ c.limit \in Int
    /\ \A c \in KeyCases : /\ c.kind = "keys"
                           /\ IsRequest(c.one) /\ IsRequest(c.two)
    /\ \A c \in StatsCases : c.kind = "stats" /\ Discovery!IsUsers(c.users)
    /\ Null \notin Int

\* The DTOs of the signups let nothing else through.
ASSUME FormsAssumption ==
    /\ \A f \in Forms : /\ f.email \in People /\ f.role \in Accounts!Roles
                        /\ f.google \in BOOLEAN
    /\ None \notin Accounts!Account

Init ==
    /\ \/ case \in FetchCases   \/ case \in RowCases
       \/ case \in WriteCases   \/ case \in DeleteCases
       \/ case \in InsightCases \/ case \in PageCases
       \/ case \in SearchCases  \/ case \in KeyCases
       \/ case \in StatsCases
       \/ case \in [kind : {"market", "accounts"}]
    /\ result = Null
    /\ MarketInit
    /\ Accounts!AccountsInit

Pending(kind)  == case.kind = kind /\ result = Null
Yields(value)  == /\ result' = value
                  /\ UNCHANGED <<case, marketVars, accountVars>>

-----------------------------------------------------------------------------
EvaluateFetch ==
    /\ Pending("fetch")
    /\ \E outcome \in Fetch!ApiFetch(case.grant, case.found, case.answers) :
         Yields([api |-> outcome, ingestion |-> Fetch!Ingestion(outcome),
                 worker |-> Fetch!WorkerFetch(case.grant, case.found,
                                              case.answers)])

EvaluateRows ==
    /\ Pending("rows")
    /\ LET rows == Api!ApiRows(case.user, case.google)
       IN  Yields([api |-> rows,
                   worker |-> Worker!WorkerRows(case.user, case.google),
                   job |-> Api!EnqueueIngestionJobs(case.google, 10,
                                                    rows.videos)])

EvaluateWrite ==
    /\ Pending("write")
    /\ LET once == Db!Upsert(case.statement, case.table, case.row)
       IN  Yields([once |-> once,
                   again |-> Db!Upsert(case.statement, once.rows, case.row)])

EvaluateDelete ==
    /\ Pending("delete")
    /\ Yields(Db!Delete(case.db, case.table, case.row))

(* Every response the requests may be given, with what it was made of.     *)
EvaluateInsights ==
    /\ Pending("insights")
    /\ LET c == case
           queried == Insights!Queried(c.channels, c.limit)
       IN  Yields(
             [audience |->
                  {[channel |-> channel,
                    response |-> Insights!getAudienceInsights(
                                     c.profile, channel, c.days, c.now)] :
                     channel \in
                         Insights!getLatestChannelForUser(c.channels)},
              content |->
                  {[given |-> q,
                    response |-> Insights!getContentInsights(
                                     q.channel, q.videos, c.limit)] :
                     q \in queried},
              performance |->
                  {[given |-> q,
                    response |-> Insights!getPerformanceInsights(
                        q.channel, q.videos, c.days, c.now, c.later)] :
                     q \in queried},
              sme |->
                  {[given |-> q,
                    response |-> Insights!getCreatorProfileForSme(
                        c.profile, q.channel, q.videos, c.days, c.now,
                        c.later)] :
                     q \in queried}])

(* Two pages in a row, asked for one after the other.                      *)
EvaluatePages ==
    /\ Pending("pages")
    /\ LET p == case.params
           Ask(offset) == Discovery!discoverCreators(
                              case.users, [p EXCEPT !.offset = offset])
       IN  \E first \in Ask(p.offset), second \in Ask(p.offset + p.limit) :
             Yields([first |-> first.creators, second |-> second.creators])

EvaluateSearch ==
    /\ Pending("search")
    /\ \E plain \in Discovery!SearchCreators(case.users, case.query,
                                             case.limit, FALSE),
          similar \in Discovery!SearchCreators(case.users, case.query,
                                               case.limit, TRUE) :
         Yields([plain |-> plain.creators, similar |-> similar.creators])

Ask(users, r) ==
    IF r.op = "compare"
    THEN [key |-> Discovery!compareKey(r.ids, r.query, r.limit),
          answers |-> Discovery!compareCreators(users, r.ids, r.query,
                                                r.limit)]
    ELSE [key |-> IF r.op = "search" THEN Discovery!searchKey(r.params)
                  ELSE Discovery!discoverKey(r.params),
          answers |-> Discovery!discoverCreators(users, r.params)]

EvaluateKeys ==
    /\ Pending("keys")
    /\ Yields([one |-> Ask(case.users, case.one),
               two |-> Ask(case.users, case.two)])

EvaluateStats ==
    /\ Pending("stats")
    /\ \E all \in Discovery!searchCreators(
                      case.users, Discovery!AnyCreator(Null, 100)) :
         Yields([stats |-> Discovery!getSmeStats(case.users), all |-> all])

Trade == /\ case.kind = "market" /\ MarketNext
         /\ UNCHANGED <<case, result, accountVars>>

Register == /\ case.kind = "accounts" /\ Accounts!AccountsNext
            /\ UNCHANGED <<case, result, marketVars>>

Next ==
    \/ EvaluateFetch \/ EvaluateRows \/ EvaluateWrite \/ EvaluateDelete
    \/ EvaluateInsights \/ EvaluatePages \/ EvaluateSearch \/ EvaluateKeys
    \/ EvaluateStats \/ Trade \/ Register

Spec == Init /\ [][Next]_vars

Evaluated(kind) == case.kind = kind /\ result # Null

(* An SME can look up SMEs only, however signups interleave, as Tenants    *)
(* states it (findByIdAndTenant and findAllByTenant of users.repository).  *)
TenantsApart == Accounts!TenantsApart

-----------------------------------------------------------------------------
(* Fetching.                                                               *)
Final(answer) == IF answer[1] = "unauthorized" THEN answer[2] ELSE answer[1]
Refuses(calls) == \E c \in calls : Final(case.answers[c]) # "ok"

(* A response of the API that stores data says of the analytics and of the *)
(* demographics that they are incomplete whenever Google withheld some of  *)
(* them, and comments are withheld only where they are disabled            *)
(* (getYoutubeMetrics of socials.service.ts and its three try blocks).     *)
ApiTellsWhatIsMissing ==
    Evaluated("fetch") /\ result.api.stored =>
        /\ Refuses({"analytics"}) => result.api.analyticsStatus = "warning"
        /\ Refuses(Fetch!Demographics) =>
             result.api.demographicsStatus = "warning"
        /\ case.found.videos => \A c \in Fetch!Comments :
             Final(case.answers[c]) \in {"ok", "commentsDisabled"}
        /\ ~Refuses({"channel", "search"})

(* Given the same answers, the worker stores whatever the API stores, and  *)
(* lacks the same data; the one exception is a creator whose analytics are *)
(* forbidden, whom the API serves with a warning and the worker never      *)
(* syncs (fetchAnalyticsReport is awaited without a catch in syncUser).    *)
WorkerKeepsUp ==
    Evaluated("fetch") /\ result.api.stored =>
        IF "analytics" \in result.api.missing THEN ~result.worker.stored
        ELSE result.worker.stored
               /\ result.worker.missing = result.api.missing

(* Both ingestions take the same from Google, and tell what is missing.    *)
FetchesAgree == ApiTellsWhatIsMissing /\ WorkerKeepsUp

-----------------------------------------------------------------------------
(* Rows.                                                                   *)
(* The API and the worker make the same rows of the same answers, but for  *)
(* the durations and the upload playlist, which the API drops: whichever   *)
(* of them ingests a channel, its numbers are the same (the two copies of  *)
(* the mapping in socials.service.ts with youtube.service.ts, and in       *)
(* youtube-sync.service.ts).                                               *)
SameRows ==
    Evaluated("rows") => Comparable(result.api) = Comparable(result.worker)

(* No batch holds two rows of one conflict key: PostgreSQL refuses an      *)
(* INSERT .. ON CONFLICT DO UPDATE that would touch a row twice, and with  *)
(* it the whole ingestion (upsertVideoComments after dedupeCommentsById,   *)
(* upsertAudienceDemographics, upsertDailyAnalytics, upsertVideos).        *)
NoKeyTwice ==
    Evaluated("rows") => KeysDiffer(result.api) /\ KeysDiffer(result.worker)

(* Every comment Google lists for a stored video is stored for that video, *)
(* as a top comment if it is among the top ones, however often it is       *)
(* listed (persistVideoComments over fetchVideoComments, in both copies).  *)
CommentsComplete ==
    Evaluated("rows") => \A rows \in {result.api, result.worker} :
                            HasEveryComment(rows, case.google.threads)

(* The engagement rate the scoring job is given of a video is the one the  *)
(* creator's insights show of it (enqueueIngestionJobs, buildTopContent).  *)
OneEngagementRate ==
    Evaluated("rows") => SameRates(result.api.videos, result.job)

(* Both ingestions make the same rows, complete and without duplicates,    *)
(* and the scoring job is given the rates that are shown.                  *)
RowsAgree ==
    SameRows /\ NoKeyTwice /\ CommentsComplete /\ OneEngagementRate

-----------------------------------------------------------------------------
(* The database.                                                           *)
(* Repeating a write changes nothing: jobs are retried and users click     *)
(* twice, and every repository writes with ON CONFLICT for that reason.    *)
RetriesChangeNothing ==
    Evaluated("write") =>
        /\ ~result.once.error => result.again = result.once
        /\ result.once.error => result.again.error

(* An upsert fails only where a creator connects a Google identity that    *)
(* another user has connected (the second unique index of oauth_accounts): *)
(* every other conflict is the one its statement names.                    *)
OnlyIdentitiesClash ==
    Evaluated("write") /\ result.once.error =>
        /\ case.statement.table = "oauthAccounts"
        /\ \E i \in DOMAIN case.table :
             /\ case.table[i].providerUserId = case.row.providerUserId
             /\ case.table[i].userId # case.row.userId

(* An upsert may be repeated, and fails only over an identity.             *)
UpsertsAreSafe == RetriesChangeNothing /\ OnlyIdentitiesClash

(* After any deletion every reference leads to a row or is NULL, so the    *)
(* joins of schema.ts never lose a row (the references of schema.ts with   *)
(* their ON DELETE, against its relations).                                *)
NoOrphans == Evaluated("delete") => Db!Intact(result)

Stays(t, r) == \E left \in result[t] : left.id = r.id
IsDeleted(t, r) == t = case.table /\ r = case.row

(* The trail outlives what it is about: no deletion takes an audit log or  *)
(* a worker job with it, nor a user: a tenant that has users stays, and    *)
(* nothing of a user's takes the user (ON DELETE SET NULL and RESTRICT in  *)
(* schema.ts).                                                             *)
TrailSurvives ==
    Evaluated("delete") =>
        \A t \in {"auditLogs", "workerJobs", "users"} :
            \A r \in case.db[t] : Stays(t, r) \/ IsDeleted(t, r)

(* A deletion takes nothing that is another's alone: whatever goes with a  *)
(* row belongs to everyone the row belongs to.  With a user go the user's  *)
(* channels, items and campaigns and what hangs on them.  What two users   *)
(* share goes with either: an SME who has scouted a creator, or has put    *)
(* one into a campaign, loses that with the creator (ON DELETE CASCADE in  *)
(* schema.ts).                                                             *)
OthersKeepTheirs ==
    Evaluated("delete") =>
        \A t \in DOMAIN case.db : \A r \in case.db[t] :
            \/ Stays(t, r)
            \/ Db!Owners(case.db, case.table, case.row)
                 \subseteq Db!Owners(case.db, t, r)

(* A deletion takes what belongs to the row, and nothing else.             *)
DeletionsAreClean == NoOrphans /\ TrailSurvives /\ OthersKeepTheirs

-----------------------------------------------------------------------------
(* Insights.                                                               *)
(* The totals of a response are those of its own time series: the month's  *)
(* of all of it, the week's of its last days, six or seven of them as      *)
(* Figures says, and the audience's are the month's of the same channel    *)
(* (getPerformanceInsights and getAudienceInsights).                       *)
InsightsAddUp ==
    Evaluated("insights") =>
        \A p \in result.performance : \A a \in result.audience :
            a.channel = p.given.channel =>
                FiguresAdd(p.response, a.response.audience, case.later)

(* Two views of a creator that are given the same videos list the same     *)
(* counts (getContentInsights and buildTopContent).                        *)
ContentIsTop ==
    Evaluated("insights") =>
        \A p \in result.performance : \A c \in result.content :
            c.given = p.given =>
                SameVideos(c.response.items, p.response.topContent)

(* An SME sees of a creator what the creator sees: the same growth of a    *)
(* channel, and given the same videos, the same top content at the same    *)
(* rates (getCreatorProfileForSme and getPerformanceInsights compute them  *)
(* apart).  Where channels were created or videos published at one moment, *)
(* they may be given others.  Without a channel the SME sees nothing where *)
(* the creator sees zeros.                                                 *)
SmeSeesTheSame ==
    Evaluated("insights") =>
        \A s \in result.sme : \A p \in result.performance :
            LET shown == s.response.contentPerformance
            IN  s.given.channel = p.given.channel =>
                    IF s.given.channel = Null THEN shown = Null
                    ELSE /\ SameGrowth(shown, p.response)
                         /\ s.given = p.given => shown = p.response

(* The figures of a creator agree with each other, and with those an SME   *)
(* is given.                                                               *)
FiguresAgree == InsightsAddUp /\ ContentIsTop /\ SmeSeesTheSame

-----------------------------------------------------------------------------
(* Searches.                                                               *)
(* Two pages of a search show no creator twice, though they are queried    *)
(* one after the other: the order is total (ORDER BY .. users.id); not     *)
(* with a platform, which repeats a creator for each item.                 *)
PagesDoNotOverlap ==
    Evaluated("pages") /\ case.params.platform = Null =>
        LET both == result.first \o result.second
        IN  Distinct(both, LAMBDA c : c.userId)

(* pg_trgm only adds to a search: whoever is found without it is found     *)
(* with it, if the limit leaves room (the two branches of                  *)
(* SearchRepository.searchCreators; which is taken is remembered, even     *)
(* after a query that failed).                                             *)
SimilarityOnlyAdds ==
    Evaluated("search") /\ Len(result.similar)
                               < Discovery!normalizeLimit(case.limit) =>
            \A i \in DOMAIN result.plain : \E j \in DOMAIN result.similar :
                result.plain[i] = result.similar[j]

(* Requests that share an entry of the cache deserve the same answer, over *)
(* all the operations that share a prefix (the keys of discoverCreators,   *)
(* searchCreators and compareCreators).                                    *)
KeysTellRequestsApart ==
    Evaluated("keys") /\ result.one.key = result.two.key =>
        result.one.answers = result.two.answers

(* The figures an SME is shown are of the creators an SME can find, if one *)
(* search has room for them: the reach is the sum of their audiences, the  *)
(* score lies between theirs, and the coverage is a percentage             *)
(* (getSmeStats, getSmeStatsSummary).                                      *)
StatsAreOfTheFound ==
    Evaluated("stats") /\ Len(result.all) < 100 =>
        LET s == result.stats  all == result.all
            sum[n \in 0..Len(all)] ==
                IF n = 0 THEN 0 ELSE sum[n - 1] + all[n].audience
        IN  /\ s.totalReach = sum[Len(all)]
            /\ s.discoveryCoverage \in 0..100
            /\ s.totalCreators >= Len(all)
            /\ (\A i \in DOMAIN all : all[i].score = Null)
                 \/ \E i, j \in DOMAIN all :
                      /\ all[i].score # Null /\ all[j].score # Null
                      /\ 10 * all[i].score <= s.avgInfluenceScore
                      /\ s.avgInfluenceScore <= 10 * all[j].score

(* One search agrees with the next, with and without pg_trgm, and with the *)
(* figures shown beside it.                                                *)
SearchesAgree ==
    PagesDoNotOverlap /\ SimilarityOnlyAdds /\ StatsAreOfTheFound
=============================================================================
