---------------------------- MODULE MCEvaluation ----------------------------
(* The cases TLC evaluates: small, and one kind of oddity at a time.       *)
EXTENDS Evaluation, FiniteSetsExt, SequencesExt, TLC

CONSTANTS s1, s2, c1, u1, nobody, k1, k2, r1, r2,
          p1, p2, h1, h2

TheUsers     == {s1, s2, c1, u1, nobody}
TheRoles     == (s1 :> "sme") @@ (s2 :> "admin") @@ (c1 :> "creator")
                    @@ (u1 :> "user") @@ (nobody :> None)
TheCampaigns == {k1, k2}
TheRequests  == {r1, r2}

\* Names that are alike, one of them like the slug of the administrators.
ThePeople   == {p1, p2}
TheHandlers == {h1, h2}
TheSlugs    == ("Platform" :> "platform") @@ ("platform!" :> "platform")
                   @@ ("Ann" :> "ann")
Sent(email, name, role, google) ==
    [email |-> email, name |-> name, role |-> role, google |-> google]
TheForms ==
    {Sent(p1, "Platform", "creator", FALSE),
     Sent(p1, "platform!", "sme", TRUE),
     Sent(p2, "Platform", "sme", FALSE),
     Sent(p2, "Ann", "creator", TRUE),
     Sent(p2, "Ann", "admin", FALSE)}

Upto(S, n) == UNION {[1..m -> S] : m \in 0..n}
Injective(s) == \A i, j \in DOMAIN s : s[i] = s[j] => i = j

-----------------------------------------------------------------------------
\* At most two calls go wrong; a token Google refuses is refused once or
\* twice, or the retry fails in another way.
Ok      == <<"ok", "ok">>
Answers == {<<r, "ok">> : r \in Fetch!Responses}
             \cup {<<"unauthorized", r>> : r \in Fetch!Responses}
Grants  == [linked : {TRUE}, usable : BOOLEAN, refreshable : BOOLEAN,
            google : {"ok", "revoked", "down"}]
             \cup {[linked |-> FALSE, usable |-> FALSE,
                    refreshable |-> FALSE, google |-> "ok"]}
AllOk   == [c \in Fetch!Calls |-> Ok]
TheAnswers ==
    {[[AllOk EXCEPT ![p[1]] = a] EXCEPT ![p[2]] = b] :
        p \in {<<"channel", "channel">>, <<"search", "videos">>,
               <<"videos", "top">>, <<"top", "latest">>,
               <<"top", "analytics">>, <<"analytics", "age">>,
               <<"age", "gender">>, <<"gender", "country">>},
        a \in Answers, b \in Answers}
TheFetches ==
    {[kind |-> "fetch", grant |-> g, answers |-> a,
      found |-> [channel |-> "named", videos |-> v]] :
        g \in Grants, a \in TheAnswers, v \in BOOLEAN}
    \cup {[kind |-> "fetch", grant |-> g, answers |-> AllOk,
           found |-> [channel |-> c, videos |-> TRUE]] :
        g \in Grants, c \in {"none", "unnamed"}}

-----------------------------------------------------------------------------
\* What Google says of a channel with two videos, v1 and v2.
Snippet(t)  == [title |-> t, thumbnails |-> {"medium", "default"}]
Video(id, snippet, duration, views, likes, comments) ==
    [id |-> id, snippet |-> snippet, title |-> Null,
     contentDetails |-> duration, viewCount |-> views, likeCount |-> likes,
     commentCount |-> comments]
Videos1 == [id : {"v1"}, snippet : {Null, Snippet("t")}, title : {Null},
            contentDetails : {Null, [days |-> 0, seconds |-> 90],
                              [days |-> 1, seconds |-> 90]},
            viewCount : {Null, 0, 4}, likeCount : {Null, 3},
            commentCount : {Null, 2}]
Video2  == Video("v2", Snippet("u"), [days |-> 0, seconds |-> 7], 5, 1, 1)
Thread(id, comment, likes) ==
    [thread |-> id, comment |-> comment, snippet |-> TRUE, likes |-> likes]
Threads == {Thread("a", "a", 1), Thread("b", "b", Null), Thread("c", Null, 2),
            Thread(Null, Null, 0),
            [thread |-> "d", comment |-> "d", snippet |-> FALSE, likes |-> 1]}
NoThreads == [top |-> <<>>, latest |-> <<>>]
OtherThreads == [top |-> <<Thread("e", "e", 1)>>,
                 latest |-> <<Thread("e", "e", 1), Thread("f", "f", 0)>>]
Cells(n)  == {<<>>} \cup {[i \in 1..n |-> IF i = k THEN Null ELSE i] :
                             k \in 0..n}
Report(values, n) ==
    {rows \in Upto([value : values, cells : Cells(n)], 2) :
        Injective([i \in DOMAIN rows |-> rows[i].value])}
Row(v, cells) == [value |-> v, cells |-> cells]
Google ==
    [channel |-> [id |-> "ch", snippet |-> Snippet("t"), title |-> Null,
                  thumbnails |-> Null, subscriberCount |-> 5,
                  uploads |-> "list"],
     videoIds |-> <<"v1", "v2">>,
     videos |-> <<Video("v1", Snippet("t"), Null, 4, 3, 2), Video2>>,
     threads |-> ("v1" :> NoThreads) @@ ("v2" :> OtherThreads),
     age |-> <<Row("18-24", <<60>>)>>, gender |-> <<Row("female", <<50>>)>>,
     country |-> <<Row("KE", <<3>>), Row("NG", <<1>>)>>,
     daily |-> <<Row("d1", <<1, 2, 3, 4, 5, 6, 7, 8>>)>>]
TheChannels ==
    {[Google EXCEPT !.videos = <<v, Video2>>] : v \in Videos1}
    \cup {[Google EXCEPT !.videos = <<>>, !.videoIds = <<>>],
          [Google EXCEPT !.channel.subscriberCount = Null,
                         !.channel.snippet.thumbnails = Null],
          [Google EXCEPT !.channel.snippet = Null],
          [Google EXCEPT !.videos = <<Video2>>]}
    \cup {[Google EXCEPT !.threads["v1"] = [top |-> t, latest |-> l]] :
              t, l \in {s \in Upto(Threads, 2) : Injective(s)}}
    \cup {[Google EXCEPT !.country = rows] :
              rows \in Report({"KE", "NG", Null}, 1)}
    \cup {[Google EXCEPT !.age = rows, !.gender = rows] :
              rows \in Report({"x", "y", Null}, 1)}
    \cup {[Google EXCEPT !.daily = rows] : rows \in Report({"d1", "d2"}, 8)}
TheRows == {[kind |-> "rows", user |-> u1, google |-> g] : g \in TheChannels}

-----------------------------------------------------------------------------
\* Tables of at most two rows that clash with no other.  A column has two
\* values, but for those that tell nothing apart here.
Values(c) ==
    IF c \in {"provider", "purpose", "platform", "dimensionType",
              "startDate", "endDate"} THEN {1} ELSE {1, 2}
RowsOf(t) ==
    LET cols == Db!Columns(t)
    IN  {r \in [cols -> {1, 2}] : \A c \in cols : r[c] \in Values(c)}
Tables(t) ==
    {<<>>} \cup {<<r>> : r \in RowsOf(t)}
    \cup {<<p[1], p[2]>> : p \in {q \in RowsOf(t) \X RowsOf(t) :
                                     ~Db!Clashes(t, <<q[1]>>, {1}, q[2])}}
TheWrites ==
    UNION {{[kind |-> "write", statement |-> s, table |-> rows, row |-> r] :
               rows \in Tables(s.table), r \in RowsOf(s.table)} :
             s \in Db!Upserts}

\* A database with two users of a tenant, and rows of both in every table.
Of(t, n) == [c \in DOMAIN Db!Schema[t].refs |->
                IF c = "creatorUserId" THEN 3 - n ELSE n]
With(r, n) == [c \in DOMAIN r \cup {"id"} |-> IF c = "id" THEN n ELSE r[c]]
Database ==
    [t \in DOMAIN Db!Schema |->
        CASE t = "tenants" -> {[id |-> 1], [id |-> 2]}
          [] t = "users"   -> {[id |-> 1, tenantId |-> 1],
                               [id |-> 2, tenantId |-> 1]}
          [] t = "workerJobs" ->
               {With("userId" :> n @@ "tenantId" :> 1, n) : n \in {1, 2}}
          [] OTHER -> {With(Of(t, n), n) : n \in {1, 2}}]
Loose == [Database EXCEPT
    !.contentMetrics = {[r EXCEPT !.contentItemId = Null] : r \in @},
    !.auditLogs = {[r EXCEPT !.userId = Null] : r \in @}]
TheDeletes ==
    UNION {{[kind |-> "delete", db |-> db, table |-> t, row |-> r] :
               r \in db[t]} :
             t \in DOMAIN Db!Schema, db \in {Database, Loose}}

-----------------------------------------------------------------------------
\* Twelve hours make a day of two: noon is odd.  Today is day 10.
Analytics(days) ==
    LET row(d) == [analyticsDate |-> d * Day, views |-> d,
                   minutes |-> IF d = 10 THEN Null ELSE d + 1,
                   averageDuration |-> 3 * d, gained |-> 2, lost |-> d % 3]
        ordered == SortSeq(SetToSeq(days), LAMBDA a, b : a < b)
    IN  [i \in DOMAIN ordered |-> row(ordered[i])]
Seen(id, publishedAt, views) ==
    [id |-> id, publishedAt |-> publishedAt, viewCount |-> views,
     likeCount |-> id, commentCount |-> IF id = 1 THEN Null ELSE 1,
     rank |-> IF id = 1 THEN Null ELSE 1]
Second == {Seen(2, 3, 4)}
Shown == {{}} \cup
    {{Seen(1, p, v)} \cup Second : p \in {Null, 2, 3, 5}, v \in {Null, 0, 4, 9}}
    \cup {{Seen(1, p, 9), Seen(2, p, 4), Seen(3, q, 0)} : p, q \in {Null, 3}}
Channel(id, createdAt, days, videos) ==
    [id |-> id, createdAt |-> createdAt, lastSyncedAt |-> 9,
     analytics |-> Analytics(days), videos |-> videos]
TheInsights ==
    {[kind |-> "insights", profile |-> p, channels |-> cs, days |-> n,
      limit |-> 1, now |-> 10 * Day + h, later |-> 10 * Day + h + d] :
        p \in {Null, [influenceScore |-> 7, audienceSize |-> Null]},
        cs \in {{}} \cup {{Channel("x", 1, days, Second)} :
                             days \in SUBSET {2, 3, 4, 5, 9, 10}},
        n \in {1, 2, 6, 7, 8, 9}, h \in 0..1, d \in 0..1}
    \cup {[kind |-> "insights", profile |-> Null, days |-> 7, limit |-> l,
           now |-> 10 * Day + 1, later |-> 10 * Day + 1,
           channels |-> {Channel("x", 1, {3, 9}, v),
                         Channel("y", o, {4, 10}, Second)}] :
        v \in Shown, l \in 1..3, o \in 0..2}

-----------------------------------------------------------------------------
\* At most three of six users, alike and different.
Profile(score, audience, onboarded, items) ==
    [score |-> score, audience |-> audience, onboarded |-> onboarded,
     nameHas |-> {"q"}, bioHas |-> {"b"},
     items |-> ("youtube" :> items)]
Found(id, p) == [id |-> id, role |-> "creator", profile |-> p]
Crowd ==
    {Found(1, Profile(5, 2, TRUE, 1)), Found(2, Profile(5, 2, FALSE, 2)),
     Found(3, Profile(Null, Null, TRUE, 0)),
     Found(4, [Profile(8, 0, TRUE, 1) EXCEPT !.bioHas = {"q"}]),
     Found(5, Null),
     [id |-> 6, role |-> "user", profile |-> Profile(9, 9, TRUE, 1)]}
Crowds == {us \in SUBSET Crowd : Cardinality(us) <= 3}
Params(q, b, p, min, max, limit, offset) ==
    [query |-> q, bioQuery |-> b, platform |-> p, min |-> min, max |-> max,
     limit |-> limit, offset |-> offset]
ThePages ==
    {[kind |-> "pages", users |-> us,
      params |-> Params(q, Null, p, min, Null, l, o)] :
        us \in Crowds, q \in {Null, "q", "blank"}, p \in {Null, "youtube"},
        min \in {Null, 6}, l \in {1, 2}, o \in {0, 1}}

Asked ==
    {[op |-> op, params |-> Params(q, b, p, m[1], m[2], 2, 0)] :
        op \in {"discover", "search"}, q \in {Null, "q", "blank"},
        b \in {Null, "b"}, p \in {Null, "youtube"},
        m \in {<<Null, Null>>, <<6, Null>>, <<Null, 6>>}}
    \cup {[op |-> "compare", ids |-> i, query |-> q, limit |-> l] :
        i \in {<<>>, <<2, 4>>, <<4, 2>>}, q \in {Null, "q", "blank"},
        l \in {1, 2}}
TheKeys ==
    {[kind |-> "keys", users |-> us, one |-> a, two |-> b] :
        us \in {{x \in Crowd : x.id \in ids} :
                   ids \in {{1, 2, 4}, {3, 4}, {1, 5, 6}}},
        a, b \in Asked}

Likeness == {0, 15, 30}
Searched(id) ==
    {[id |-> id, role |-> "creator",
      profile |-> [score |-> s, audience |-> 1,
          has |-> [t \in {"display", "name", "bio", "industry", "types"} |->
                      IF t = h THEN {"q"} ELSE {}],
          similar |-> [t \in {"display", "name", "bio", "industry",
                              "types"} |->
                          "q" :> (IF t = "bio" THEN l ELSE 0)]]] :
        s \in {Null, 4}, h \in {"display", "bio", "none"},
        l \in Likeness}
TheSearches ==
    {[kind |-> "search", users |-> us, limit |-> n,
      query |-> [text |-> "q", length |-> q[1], words |-> q[2]]] :
        us \in {{x, y} : x \in Searched(1), y \in Searched(2)},
        n \in {0, 1, 2}, q \in {<<4, 1>>, <<4, 3>>, <<30, 1>>}}

TheStats == {[kind |-> "stats", users |-> us] : us \in SUBSET Crowd}
=============================================================================
