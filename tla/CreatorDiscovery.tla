-------------------------- MODULE CreatorDiscovery --------------------------
(***************************************************************************)
(* How SMEs find creators: creator-discovery.service.ts with its           *)
(* repository, search.service.ts with its repository, and the figures of   *)
(* getSmeStats.  A user is a record: id, role, and the profile, Null or    *)
(* the columns the searches look at.  Text is not spelt out: a profile     *)
(* says which queries its name, its bio and its other texts contain, and   *)
(* how similar, in hundredths, each is to a query.                         *)
(***************************************************************************)
EXTENDS Integers, FiniteSets, SequencesExt

CONSTANT Null

OrZero(x) == IF x = Null THEN 0 ELSE x
Least(a, b) == IF a < b THEN a ELSE b

(* What the tables hold: ids are unique, scores and audiences integers.    *)
IsUsers(users) ==
    /\ IsFiniteSet(users)
    /\ \A u \in users :
         /\ u.id \in Int
         /\ u.profile # Null => /\ u.profile.score \in Int \cup {Null}
                               /\ u.profile.audience \in Int \cup {Null}
    /\ \A u, v \in users : u.id = v.id => u = v

(* FROM users INNER JOIN user_profiles, where the role is creator.         *)
Creators(users) == {u \in users : u.role = "creator" /\ u.profile # Null}

-----------------------------------------------------------------------------
(* ORDER BY.  In descending order a NULL comes before every value, unless  *)
(* it says NULLS LAST.                                                     *)
Descends(x, y)  == x = Null \/ (y # Null /\ x > y)
NullsLast(x, y) == x # Null /\ (y = Null \/ x > y)

(* Faulty: creators alike in score and audience come in any order.         *)
Before_NoId(u, v) ==
    LET p == u.profile  q == v.profile
    IN  \/ p.score # q.score /\ Descends(p.score, q.score)
        \/ p.score = q.score /\ p.audience # q.audience
             /\ Descends(p.audience, q.audience)
Before(u, v) ==
    LET p == u.profile  q == v.profile
    IN  \/ p.score # q.score /\ Descends(p.score, q.score)
        \/ p.score = q.score /\ p.audience # q.audience
             /\ Descends(p.audience, q.audience)
        \/ p.score = q.score /\ p.audience = q.audience /\ u.id > v.id

(* The orders PostgreSQL may give the rows of a set.                       *)
Orders(rows, before(_, _)) ==
    {s \in SetToSeqs(rows) :
        \A i, j \in DOMAIN s : i < j => ~before(s[j], s[i])}

Page(rows, limit, offset) ==
    SubSeq(rows, offset + 1, Least(offset + limit, Len(rows)))

-----------------------------------------------------------------------------
(* CreatorDiscoveryRepository.searchCreators.  A filter that is not set is *)
(* Null; a NULL score passes no bound.  The join with content_items brings *)
(* a creator once for each item on the platform.                           *)
Matches(u, params) ==
    LET p == u.profile
    IN  /\ params.query # Null =>
             params.query \in p.nameHas \cup p.bioHas
        /\ params.bioQuery # Null => params.bioQuery \in p.bioHas
        /\ params.min # Null => p.score # Null /\ p.score >= params.min
        /\ params.max # Null => p.score # Null /\ p.score <= params.max

Item(u) == [userId |-> u.id, score |-> u.profile.score,
            audience |-> OrZero(u.profile.audience)]

Joined(order, platform) ==
    FlattenSeq([i \in DOMAIN order |->
        LET times == IF platform = Null THEN 1
                     ELSE order[i].profile.items[platform]
        IN  [k \in 1..times |-> Item(order[i])]])

searchCreators(users, params) ==
    LET found == {u \in Creators(users) : Matches(u, params)}
    IN  {Page(Joined(order, params.platform), params.limit, params.offset) :
            order \in Orders(found, Before)}

IsParams(p) ==
    p = [query |-> p.query, bioQuery |-> p.bioQuery, platform |-> p.platform,
         min |-> p.min, max |-> p.max, limit |-> p.limit, offset |-> p.offset]

(* Blank text is no text.                                                  *)
normalizeOptionalText(text) == IF text = "blank" THEN Null ELSE text
normalizeSearchParams(params) ==
    [params EXCEPT !.query = normalizeOptionalText(@),
                   !.bioQuery = normalizeOptionalText(@)]

(* The entry of the cache that a request reads and writes.                 *)
(* Faulty: the text asked of the bio is left out.                          *)
discoverKey_NoBio(params) ==
    LET p == normalizeSearchParams(params)
    IN  <<"discover", p.query, p.platform, p.min, p.max, p.limit, p.offset>>
discoverKey(params) ==
    LET p == normalizeSearchParams(params)
    IN  <<"discover", p.query, p.bioQuery, p.platform, p.min, p.max, p.limit,
          p.offset>>

searchKey(params) == <<"search">> \o discoverKey(params)

discoverCreators(users, params) ==
    LET p == normalizeSearchParams(params)
    IN  {[creators |-> page, limit |-> p.limit, offset |-> p.offset] :
            page \in searchCreators(users, p)}

(* compareCreators: with ids, neither the limit nor an order applies.      *)
compareKey(ids, query, limit) ==
    <<IF ids # <<>> THEN "ids" ELSE "search", ids,
      normalizeOptionalText(query), limit>>

getCreatorsByIds(users, ids) ==
    LET named == {u \in Creators(users) : \E i \in DOMAIN ids : ids[i] = u.id}
    IN  {[i \in DOMAIN s |-> Item(s[i])] : s \in SetToSeqs(named)}

AnyCreator(query, limit) ==
    [query |-> query, bioQuery |-> Null, platform |-> Null, min |-> Null,
     max |-> Null, limit |-> limit, offset |-> 0]

compareCreators(users, ids, query, limit) ==
    LET mode == IF ids # <<>> THEN "ids" ELSE "search"
        q    == normalizeOptionalText(query)
    IN  {[creators |-> rows, mode |-> mode] :
            rows \in IF mode = "ids" THEN getCreatorsByIds(users, ids)
                     ELSE searchCreators(users, AnyCreator(q, limit))}

-----------------------------------------------------------------------------
(* SearchService.  A query is its text with its length and its words; the  *)
(* limit is at most 50, and 10 when it makes no sense.                     *)
normalizeLimit(value) == IF value <= 0 THEN 10 ELSE Least(value, 50)

resolveSearchMode(query) ==
    IF query.length >= 30 \/ query.words >= 3 THEN "bio" ELSE "name"

Threshold(mode) == IF mode = "bio" THEN 12 ELSE 20

(* The texts a mode looks into; without pg_trgm a text has to contain the  *)
(* query, with it a similar one will do.                                   *)
Texts(mode) ==
    IF mode = "bio" THEN {"bio", "industry", "types"}
    ELSE {"display", "name", "industry", "types"}

HasText(p, text, q)    == q \in p.has[text]
Similarity(p, text, q) == p.similar[text][q]

Found(p, q, mode, useTrgm) ==
    \E text \in Texts(mode) :
        \/ HasText(p, text, q)
        \/ useTrgm /\ Similarity(p, text, q) >= Threshold(mode)

(* The rank is the greatest similarity of all, whatever the mode.          *)
Rank(p, q) ==
    CHOOSE n \in {Similarity(p, t, q) : t \in DOMAIN p.similar} :
        \A t \in DOMAIN p.similar : n >= Similarity(p, t, q)

RankedBefore(u, v, q, useTrgm) ==
    LET p == u.profile  r == v.profile
        rank(x) == IF useTrgm THEN Rank(x, q) ELSE 0
        ByAudience ==
            \/ p.audience # r.audience /\ Descends(p.audience, r.audience)
            \/ p.audience = r.audience /\ u.id > v.id
    IN  \/ rank(p) > rank(r)
        \/ rank(p) = rank(r) /\ p.score # r.score
             /\ NullsLast(p.score, r.score)
        \/ rank(p) = rank(r) /\ p.score = r.score /\ ByAudience

SearchCreators(users, query, limit, useTrgm) ==
    LET mode  == resolveSearchMode(query)
        found == {u \in Creators(users) :
                     Found(u.profile, query.text, mode, useTrgm)}
        before(u, v) == RankedBefore(u, v, query.text, useTrgm)
        Answer(s) == [i \in DOMAIN s |-> Item(s[i])]
    IN  {[creators |-> Page(Answer(s), normalizeLimit(limit), 0),
          limit |-> normalizeLimit(limit)] : s \in Orders(found, before)}

-----------------------------------------------------------------------------
(* getSmeStats: sums over the profiles of creators, averages over those    *)
(* that have a score, in tenths, and how many are onboarded, in percent.   *)
SumOf(f(_), users) == FoldSet(LAMBDA u, sum : sum + f(u), 0, users)
Rounded(a, b) == (2 * a + b) \div (2 * b)

countByRole(users, role) == Cardinality({u \in users : u.role = role})

Summary(rows) ==
    LET scored == {u \in rows : u.profile.score # Null}
        reach(u) == OrZero(u.profile.audience)
        score(u) == u.profile.score
    IN  [totalReach |-> SumOf(reach, rows),
         scores |-> SumOf(score, scored), scored |-> Cardinality(scored),
         onboarded |-> Cardinality({u \in rows : u.profile.onboarded})]

getSmeStatsSummary(users) == Summary(Creators(users))

getSmeStats(users) ==
    LET summary == getSmeStatsSummary(users)
        total   == countByRole(users, "creator")
    IN  [totalReach |-> summary.totalReach,
         avgInfluenceScore |->
             IF summary.scored = 0 THEN 0
             ELSE Rounded(10 * summary.scores, summary.scored),
         totalCreators |-> total,
         discoveryCoverage |->
             IF total > 0 THEN Rounded(100 * summary.onboarded, total) ELSE 0]
=============================================================================
