---------------------------- MODULE WorkerProofs ----------------------------
(***************************************************************************)
(* What holds of YoutubeIngestion, and of the life of the process that     *)
(* runs it (WorkerRuntime), for every value of their constants.            *)
(***************************************************************************)
EXTENDS YoutubeIngestion, WorkerRuntime, FiniteSetTheorems, TLAPS

\* The batches of a user come from different syncs, and a sync that is about
\* to insert one has found its own earlier batch.
OneBatchEach ==
    \A u \in Users : \A a, b \in metrics[u] : a.by = b.by => a = b

OwnBatchFound ==
    \A s \in Syncs :
      pc[s] \in {"locks", "insert"} =>
        \A m \in metrics[user[s]] : m.by = s => m \in snap[s]

\* A sync under way has a user and a channel, and something to store once it
\* has fetched.
Busy ==
    \A s \in Syncs :
      /\ pc[s] # "idle" => user[s] \in Users /\ chan[s] \in Channels
      /\ pc[s] \notin {"idle", "fetch"} => seen[s] \in 1..MaxVersion

CopiesInv == TypeOK /\ Busy /\ OneBatchEach /\ OwnBatchFound

-----------------------------------------------------------------------------
\* The invariant holds at first.
LEMMA InitCopies == ASSUME Init PROVE CopiesInv
<1>1. TypeOK
  BY IngestionAssumption DEF Init, TypeOK, PcLabels, Tables, Rows
<1>2. Busy /\ OneBatchEach /\ OwnBatchFound
  BY DEF Init, Busy, OneBatchEach, OwnBatchFound
<1> QED BY <1>1, <1>2 DEF CopiesInv

\* A sync that ends leaves the other ones alone.
LEMMA DoneEffect ==
    ASSUME TypeOK, NEW s \in Syncs, NEW found \in [Syncs -> SUBSET Rows],
           Done(s, found)
    PROVE  /\ pc' \in [Syncs -> PcLabels] /\ user' \in [Syncs -> Users \cup {None}]
           /\ chan' \in [Syncs -> Channels \cup {None}]
           /\ seen' \in [Syncs -> 0..MaxVersion]
           /\ snap' \in [Syncs -> SUBSET Rows]
           /\ pc'[s] = "idle"
           /\ \A q \in Syncs \ {s} :
                /\ pc'[q] = pc[q] /\ user'[q] = user[q] /\ chan'[q] = chan[q]
                /\ seen'[q] = seen[q] /\ snap'[q] = found[q]
  BY IngestionAssumption DEF TypeOK, Done, Goto, PcLabels

\* The next label of a table is a label.
LEMMA AfterLabel ==
    ASSUME NEW t \in Tables
    PROVE  After[t] \in PcLabels /\ After[t] \notin {"idle", "fetch", "locks", "insert"}
  BY IngestionAssumption DEF PcLabels, Tables

-----------------------------------------------------------------------------
\* Every step keeps the invariant.
LEMMA NextCopies == ASSUME CopiesInv, [Next]_vars PROVE CopiesInv'
<1> USE IngestionAssumption
<1>0. TypeOK /\ Busy /\ OneBatchEach /\ OwnBatchFound BY DEF CopiesInv
<1>1. ASSUME NEW c \in Channels, Publish(c) PROVE CopiesInv'
  BY <1>0, <1>1 DEF Publish, CopiesInv, TypeOK, Busy, OneBatchEach, OwnBatchFound,
     channelVars, syncVars, histVars
<1>2. ASSUME NEW c \in Channels, GrowStale(c) PROVE CopiesInv'
  BY <1>0, <1>2 DEF GrowStale, CopiesInv, TypeOK, Busy, OneBatchEach, OwnBatchFound,
     worldVars, syncVars, histVars
<1>3. ASSUME NEW u \in Users, Disconnect(u) PROVE CopiesInv'
  BY <1>0, <1>3 DEF Disconnect, CopiesInv, TypeOK, Busy, OneBatchEach, OwnBatchFound,
     channelVars, syncVars, histVars
<1>4. ASSUME NEW u \in Users, NEW c \in Channels, Connect(u, c) PROVE CopiesInv'
  BY <1>0, <1>4 DEF Connect, CopiesInv, TypeOK, Busy, OneBatchEach, OwnBatchFound,
     channelVars, syncVars, histVars
<1>5. ASSUME NEW s \in Syncs, NEW u \in Users, Start(s, u) PROVE CopiesInv'
  <2>1. linked[u] \in Channels BY <1>0, <1>5 DEF Start, TypeOK
  <2>0. alone' \subseteq Syncs BY <1>0, <1>5 DEF Start, AloneFrom, TypeOK
  <2>2. TypeOK'
    BY <1>0, <1>5, <2>0, <2>1
    DEF Start, Goto, TypeOK, PcLabels, worldVars, channelVars
  <2>3. Busy'
    BY <1>0, <1>5, <2>1 DEF Start, Goto, TypeOK, Busy
  <2>4. OneBatchEach' /\ OwnBatchFound'
    BY <1>0, <1>5 DEF Start, Goto, TypeOK, OneBatchEach, OwnBatchFound
  <2> QED BY <2>2, <2>3, <2>4 DEF CopiesInv
<1>6. ASSUME NEW s \in Syncs, Fetch(s) PROVE CopiesInv'
  <2>1. chan[s] \in Channels BY <1>0, <1>6 DEF Fetch, Busy
  <2>2. version[chan[s]] \in 1..MaxVersion BY <1>0, <2>1 DEF TypeOK
  <2>3. "channel" \in PcLabels BY DEF PcLabels, Tables
  <2>4. TypeOK'
    BY <1>0, <1>6, <2>2, <2>3
    DEF Fetch, Goto, TypeOK, worldVars, channelVars, histVars
  <2>5. Busy' BY <1>0, <1>6, <2>2 DEF Fetch, Goto, TypeOK, Busy
  <2>6. OneBatchEach' /\ OwnBatchFound'
    BY <1>0, <1>6 DEF Fetch, Goto, TypeOK, OneBatchEach, OwnBatchFound
  <2> QED BY <2>4, <2>5, <2>6 DEF CopiesInv
<1>7. ASSUME NEW s \in Syncs, StoreChannel(s) PROVE CopiesInv'
  <2>1. /\ user[s] \in Users /\ chan[s] \in Channels
        /\ seen[s] \in 0..MaxVersion /\ pc[s] = "channel"
    BY <1>0, <1>7 DEF StoreChannel, Busy, TypeOK
  <2>2. "channel" \in Tables BY DEF Tables
  <2>3. shown' \in [Channels -> [Tables -> 0..MaxVersion]]
    BY <1>0, <1>7, <2>1, <2>2 DEF StoreChannel, Show, TypeOK
  <2>4. TypeOK'
    BY <1>0, <1>7, <2>1, <2>2, <2>3, AfterLabel
    DEF StoreChannel, Goto, TypeOK, worldVars, histVars
  <2>5. Busy' BY <1>0, <1>7, <2>2, AfterLabel DEF StoreChannel, Goto, TypeOK, Busy
  <2>6. OneBatchEach' /\ OwnBatchFound'
    BY <1>0, <1>7, <2>2, AfterLabel
    DEF StoreChannel, Goto, TypeOK, OneBatchEach, OwnBatchFound
  <2> QED BY <2>4, <2>5, <2>6 DEF CopiesInv
<1>8. ASSUME NEW s \in Syncs, StoreRows(s) PROVE CopiesInv'
  <2>1. pc[s] \in Tables BY <1>8 DEF StoreRows
  <2>2. pc[s] \notin {"idle", "fetch"} BY <2>1 DEF Tables
  <2>3. user[s] \in Users /\ chan[s] \in Channels /\ seen[s] \in 0..MaxVersion
    BY <1>0, <2>2 DEF Busy, TypeOK
  <2>4. shown' \in [Channels -> [Tables -> 0..MaxVersion]]
    BY <1>0, <1>8, <2>1, <2>3 DEF StoreRows, Show, TypeOK
  <2>5. itemOwner' \in [Channels -> Users \cup {None}]
    BY <1>0, <1>8, <2>3 DEF StoreRows, ContentOwner, TypeOK
  <2>6. TypeOK'
    BY <1>0, <1>8, <2>1, <2>4, <2>5, AfterLabel
    DEF StoreRows, Goto, TypeOK, worldVars, channelVars, histVars
  <2>7. Busy'
    BY <1>0, <1>8, <2>1, <2>2, AfterLabel DEF StoreRows, Goto, TypeOK, Busy
  <2>8. OneBatchEach' /\ OwnBatchFound'
    BY <1>0, <1>8, <2>1, AfterLabel
    DEF StoreRows, Goto, TypeOK, OneBatchEach, OwnBatchFound
  <2> QED BY <2>6, <2>7, <2>8 DEF CopiesInv
<1>9. ASSUME NEW s \in Syncs, DeleteMetrics(s) PROVE CopiesInv'
  <2>1. user[s] \in Users BY <1>0, <1>9 DEF DeleteMetrics, Busy
  <2>2. metrics[user[s]] \in SUBSET Rows BY <1>0, <2>1 DEF TypeOK
  <2>3. PICK l \in {"insert", "locks"} : Goto(s, l)
    BY <1>9 DEF DeleteMetrics
  <2>4. TypeOK'
    BY <1>0, <1>9, <2>2, <2>3
    DEF DeleteMetrics, Goto, TypeOK, PcLabels, worldVars, channelVars, histVars
  <2>5. Busy' BY <1>0, <1>9, <2>3 DEF DeleteMetrics, Goto, TypeOK, Busy
  <2>6. OneBatchEach' BY <1>0, <1>9 DEF DeleteMetrics, OneBatchEach
  <2>7. OwnBatchFound'
    BY <1>0, <1>9, <2>3 DEF DeleteMetrics, Goto, TypeOK, OwnBatchFound
  <2> QED BY <2>4, <2>5, <2>6, <2>7 DEF CopiesInv
<1>10. ASSUME NEW s \in Syncs, LockMetrics(s) PROVE CopiesInv'
  <2>1. TypeOK'
    BY <1>0, <1>10
    DEF LockMetrics, Goto, TypeOK, PcLabels, worldVars, channelVars, histVars
  <2>2. Busy' BY <1>0, <1>10 DEF LockMetrics, Goto, TypeOK, Busy
  <2>3. OneBatchEach' /\ OwnBatchFound'
    BY <1>0, <1>10 DEF LockMetrics, Goto, TypeOK, OneBatchEach, OwnBatchFound
  <2> QED BY <2>1, <2>2, <2>3 DEF CopiesInv
<1>11. ASSUME NEW s \in Syncs, InsertMetrics(s) PROVE CopiesInv'
  <2> DEFINE u == user[s]
             new == [by |-> s, chan |-> chan[s], version |-> seen[s]]
             found == [q \in Syncs |-> IF user[q] = user[s]
                                       THEN snap[q] \ snap[s] ELSE snap[q]]
  <2>1. pc[s] = "insert" /\ u \in Users /\ new \in Rows
    BY <1>0, <1>11 DEF InsertMetrics, Busy, Rows
  <2>2. found \in [Syncs -> SUBSET Rows] BY <1>0 DEF TypeOK
  <2>3. Done(s, found) BY <1>11 DEF InsertMetrics
  <2>4. metrics' = [metrics EXCEPT ![u] = (@ \ snap[s]) \cup {new}]
    BY <1>11 DEF InsertMetrics
  <2>5. metrics'[u] = (metrics[u] \ snap[s]) \cup {new}
    BY <1>0, <2>1, <2>4 DEF TypeOK
  <2>6. \A v \in Users : v # u => metrics'[v] = metrics[v]
    BY <1>0, <2>4 DEF TypeOK
  <2>7. metrics' \in [Users -> SUBSET Rows]
    BY <1>0, <2>1, <2>4 DEF TypeOK
  <2> HIDE DEF new, found
  <2>8. TypeOK'
    <3>1. UNCHANGED <<version, linked, owner, fresh, shown, itemOwner,
                      failures, alone>>
      BY <1>11 DEF InsertMetrics, worldVars, channelVars, histVars
    <3> QED BY <1>0, <2>2, <2>3, <2>7, <3>1, DoneEffect DEF TypeOK
  <2>9. Busy' BY <1>0, <2>2, <2>3, DoneEffect DEF Busy
  <2>10. \A m \in metrics[u] \ snap[s] : m.by # s
    BY <1>0, <2>1 DEF OwnBatchFound
  <2>11. OneBatchEach'
    <3>1. new.by = s BY DEF new
    <3>2. \A a, b \in metrics'[u] : a.by = b.by => a = b
      BY <1>0, <2>1, <2>5, <2>10, <3>1 DEF OneBatchEach
    <3> QED BY <1>0, <2>6, <3>2 DEF OneBatchEach
  <2>12. OwnBatchFound'
    <3> SUFFICES ASSUME NEW q \in Syncs, pc'[q] \in {"locks", "insert"},
                        NEW m \in metrics'[user'[q]], m.by = q
                 PROVE  m \in snap'[q]
      BY DEF OwnBatchFound
    <3>1. q # s /\ pc'[q] = pc[q] /\ user'[q] = user[q] /\ snap'[q] = found[q]
      BY <1>0, <2>2, <2>3, DoneEffect
    <3>2. user[q] \in Users BY <1>0, <3>1 DEF Busy
    <3>3. CASE user[q] = u
      <4>1. m \in metrics[u] \ snap[s]
        BY <2>5, <3>1, <3>3 DEF new
      <4>2. m \in snap[q] BY <1>0, <3>1, <3>3, <4>1 DEF OwnBatchFound
      <4> QED BY <3>1, <3>3, <4>1, <4>2 DEF found
    <3>4. CASE user[q] # u
      <4>1. m \in snap[q]
        BY <1>0, <2>6, <3>1, <3>2, <3>4 DEF OwnBatchFound
      <4> QED BY <3>1, <3>4, <4>1 DEF found
    <3> QED BY <3>3, <3>4
  <2> QED BY <2>8, <2>9, <2>11, <2>12 DEF CopiesInv
<1>12. ASSUME NEW s \in Syncs, Fail(s) \/ (SkipRows(s) /\ Done(s, snap))
       PROVE  CopiesInv'
  <2>1. snap \in [Syncs -> SUBSET Rows] BY <1>0 DEF TypeOK
  <2>2. Done(s, snap) BY <1>12 DEF Fail
  <2>3. UNCHANGED <<version, linked, owner, fresh, shown, itemOwner, metrics>>
    BY <1>12 DEF Fail, SkipRows, worldVars, channelVars
  <2>4. failures' \in 0..MaxFailures /\ alone' \subseteq Syncs
    BY <1>0, <1>12 DEF Fail, SkipRows, TypeOK
  <2>5. TypeOK' BY <1>0, <2>1, <2>2, <2>3, <2>4, DoneEffect DEF TypeOK
  <2>6. Busy' BY <1>0, <2>1, <2>2, DoneEffect DEF Busy
  <2>7. OneBatchEach' BY <1>0, <2>3 DEF OneBatchEach
  <2>8. OwnBatchFound'
    BY <1>0, <2>1, <2>2, <2>3, DoneEffect DEF OwnBatchFound
  <2> QED BY <2>5, <2>6, <2>7, <2>8 DEF CopiesInv
<1>13. ASSUME NEW s \in Syncs, SkipRows(s), pc[s] # "delete" PROVE CopiesInv'
  <2>1. /\ Goto(s, After[pc[s]]) /\ failures' \in 0..MaxFailures
        /\ alone' \subseteq Syncs
        /\ pc[s] \in {"comments", "analytics", "demographics"}
        /\ UNCHANGED <<user, chan, seen, snap, worldVars, channelVars, shown,
                       itemOwner, metrics>>
    BY <1>0, <1>13 DEF SkipRows, Optional, TypeOK
  <2>2. pc[s] \in Tables BY <1>0, <2>1 DEF TypeOK, PcLabels
  <2>3. TypeOK'
    BY <1>0, <2>1, <2>2, AfterLabel
    DEF Goto, TypeOK, worldVars, channelVars, histVars
  <2>4. Busy' BY <1>0, <2>1, <2>2, AfterLabel DEF Goto, TypeOK, Busy
  <2>5. OneBatchEach' /\ OwnBatchFound'
    BY <1>0, <2>1, <2>2, AfterLabel
    DEF Goto, TypeOK, OneBatchEach, OwnBatchFound
  <2> QED BY <2>3, <2>4, <2>5 DEF CopiesInv
<1>14. CASE UNCHANGED vars
  BY <1>0, <1>14 DEF vars, CopiesInv, TypeOK, Busy, OneBatchEach, OwnBatchFound,
     worldVars, channelVars, syncVars, histVars
<1>15. ASSUME NEW s \in Syncs, SkipRows(s), pc[s] = "delete" PROVE Done(s, snap)
  BY <1>15 DEF SkipRows
<1> QED
  BY <1>1, <1>2, <1>3, <1>4, <1>5, <1>6, <1>7, <1>8, <1>9, <1>10, <1>11, <1>12,
     <1>13, <1>14, <1>15 DEF Next, Step

-----------------------------------------------------------------------------
\* The invariant holds in every reachable state.
THEOREM CopiesHold == Spec => []CopiesInv
  BY InitCopies, NextCopies, PTL DEF Spec

\* The state keeps its types.
THEOREM TypeCorrect == Spec => []TypeOK
  BY CopiesHold, PTL DEF CopiesInv

\* A user has no more copies of a period's metrics than there are syncs.
LEMMA CopiesFit == ASSUME CopiesInv PROVE CopiesBounded
<1> SUFFICES ASSUME NEW u \in Users
             PROVE  Cardinality(metrics[u]) <= Cardinality(Syncs)
  BY DEF CopiesBounded
<1> DEFINE f == [m \in metrics[u] |-> m.by]
<1>1. metrics[u] \subseteq Rows BY DEF CopiesInv, TypeOK
<1>2. f \in [metrics[u] -> Syncs] BY <1>1 DEF Rows
<1>3. \A a, b \in metrics[u] : f[a] = f[b] => a = b
  BY DEF CopiesInv, OneBatchEach
<1>4. f \in Injection(metrics[u], Syncs)
  BY <1>2, <1>3 DEF Injection, IsInjective
<1>5. IsFiniteSet(Syncs) BY IngestionAssumption
<1> QED BY <1>4, <1>5, FS_Injection

\* A user never has more batches of metrics than there are syncs.
THEOREM CopiesStayBounded == Spec => []CopiesBounded
  BY CopiesHold, CopiesFit, PTL

-----------------------------------------------------------------------------
\* Only the commit of a transaction changes the metrics, and it has a row to
\* put in.
LEMMA StepKeepsMetrics ==
    ASSUME CopiesInv, [Next]_vars
    PROVE  \A u \in Users : metrics[u] # {} => metrics'[u] # {}
<1>1. ASSUME NEW s \in Syncs, InsertMetrics(s)
      PROVE  \A u \in Users : metrics[u] # {} => metrics'[u] # {}
  BY <1>1 DEF InsertMetrics, CopiesInv, TypeOK
<1>2. CASE \E s \in Syncs : InsertMetrics(s) BY <1>1, <1>2
<1>3. CASE ~ \E s \in Syncs : InsertMetrics(s)
  <2>1. metrics' = metrics
    BY <1>3 DEF Next, Step, vars, Publish, GrowStale, Disconnect, Connect, Start,
       Fetch, StoreChannel, StoreRows, DeleteMetrics, LockMetrics, SkipRows, Fail
  <2> QED BY <2>1
<1> QED BY <1>2, <1>3

\* Readers never find the metrics of a user gone.
THEOREM MetricsStay == Spec => MetricsNeverVanish
<1>1. CopiesInv /\ [Next]_vars
        => [\A u \in Users : metrics[u] # {} => metrics'[u] # {}]_vars
  BY StepKeepsMetrics
<1> QED BY <1>1, CopiesHold, PTL DEF Spec, MetricsNeverVanish

-----------------------------------------------------------------------------
(* A sync that runs alone.                                                 *)

\* The tables are numbered in the order they are written in.
InOrder(place) ==
    /\ place["channel"] = 0
    /\ \A t \in Tables :
         /\ place[After[t]] = place[t] + 1
         /\ place[t] < place["delete"]
    /\ \A t, r \in Tables : place[t] = place[r] => t = r

Places == [Tables \cup {"delete"} -> 0..Cardinality(Tables)]

Place == CHOOSE place \in Places : InOrder(place)

\* Such a numbering exists.
LEMMA PlaceOrder ==
    /\ InOrder(Place)
    /\ \A t \in Tables : Place[t] \in Int /\ Place[t] >= 0
<1>1. \E place \in Places : InOrder(place)
  BY OrderAssumption DEF Places, InOrder, Tables
<1>2. Place \in Places /\ InOrder(Place)
  BY <1>1, Zenon DEF Place
<1> QED BY <1>2 DEF Places

\* The tables a sync has been through.
Written(s, t) ==
    \/ pc[s] \in {"delete", "locks", "insert"}
    \/ pc[s] \in Tables /\ Place[t] < Place[pc[s]]

\* A sync that has run alone so far has its version in every table it has been
\* through, the rows it gives to its user are its user's, and its DELETE has
\* found all there was.
Apart(s) ==
    \A q \in Syncs \ {s} :
      pc[q] # "idle" => user[q] # user[s] /\ chan[q] # chan[s]

Stored(s) ==
    /\ \A t \in Tables : Written(s, t) => shown[chan[s]][t] = seen[s]
    /\ Written(s, "channel") => owner[chan[s]] = user[s]
    /\ s \in WorkerSyncs /\ Written(s, "content")
         => itemOwner[chan[s]] = user[s]
    /\ pc[s] \in {"locks", "insert"} => snap[s] = metrics[user[s]]

LoneInv == \A s \in alone : pc[s] # "idle" => Apart(s) /\ Stored(s)

\* What a step of one sync leaves alone: the others, and the rows of channels
\* and users that are not its own.
SyncStep(q) == Step(q) \/ SkipRows(q) \/ Fail(q)

LEMMA OthersKept ==
    ASSUME CopiesInv, NEW q \in Syncs, SyncStep(q)
    PROVE  /\ pc[q] # "idle" /\ alone' \subseteq alone
           /\ pc'[q] # "idle" => user'[q] = user[q] /\ chan'[q] = chan[q]
           /\ \A s \in Syncs \ {q} :
                /\ pc'[s] = pc[s] /\ user'[s] = user[s] /\ chan'[s] = chan[s]
                /\ seen'[s] = seen[s]
                /\ user[s] # user[q] => snap'[s] = snap[s]
           /\ \A c \in Channels : c # chan[q] =>
                /\ shown'[c] = shown[c] /\ owner'[c] = owner[c]
                /\ itemOwner'[c] = itemOwner[c]
           /\ \A u \in Users : u # user[q] => metrics'[u] = metrics[u]
<1> USE IngestionAssumption
<1>0. TypeOK BY DEF CopiesInv
<1>1. CASE Fetch(q)
  BY <1>0, <1>1 DEF Fetch, Goto, TypeOK, worldVars, channelVars, histVars
<1>2. CASE StoreChannel(q)
  BY <1>0, <1>2 DEF StoreChannel, Show, Goto, TypeOK, Tables, worldVars, histVars
<1>3. CASE StoreRows(q)
  BY <1>0, <1>3 DEF StoreRows, Show, ContentOwner, Goto, TypeOK, Tables,
     worldVars, channelVars, histVars
<1>4. CASE DeleteMetrics(q)
  BY <1>0, <1>4 DEF DeleteMetrics, Goto, TypeOK, worldVars, channelVars, histVars
<1>5. CASE LockMetrics(q)
  BY <1>0, <1>5 DEF LockMetrics, Goto, TypeOK, worldVars, channelVars, histVars
<1>6. CASE InsertMetrics(q)
  <2> DEFINE found == [r \in Syncs |-> IF user[r] = user[q]
                                       THEN snap[r] \ snap[q] ELSE snap[r]]
  <2>1. found \in [Syncs -> SUBSET Rows] BY <1>0 DEF TypeOK
  <2>2. Done(q, found) BY <1>6 DEF InsertMetrics
  <2>3. \A r \in Syncs : user[r] # user[q] => found[r] = snap[r] OBVIOUS
  <2>4. pc[q] = "insert" /\ UNCHANGED <<shown, owner, itemOwner, alone>>
    BY <1>6 DEF InsertMetrics, channelVars, histVars
  <2>5. \A u \in Users : u # user[q] => metrics'[u] = metrics[u]
    BY <1>0, <1>6 DEF InsertMetrics, TypeOK
  <2> HIDE DEF found
  <2> QED BY <1>0, <2>1, <2>2, <2>3, <2>4, <2>5, DoneEffect
<1>7. CASE Fail(q) \/ (SkipRows(q) /\ pc[q] = "delete")
  <2>1. snap \in [Syncs -> SUBSET Rows] BY <1>0 DEF TypeOK
  <2>2. Done(q, snap) BY <1>7 DEF Fail, SkipRows
  <2>3. /\ pc[q] # "idle" /\ alone' \subseteq alone
        /\ UNCHANGED <<shown, owner, itemOwner, metrics>>
    BY <1>7 DEF Fail, SkipRows, channelVars
  <2> QED BY <1>0, <2>1, <2>2, <2>3, DoneEffect
<1>8. CASE SkipRows(q) /\ pc[q] # "delete"
  BY <1>0, <1>8 DEF SkipRows, Optional, Goto, TypeOK, worldVars, channelVars
<1> QED
  BY <1>1, <1>2, <1>3, <1>4, <1>5, <1>6, <1>7, <1>8 DEF SyncStep, Step

\* So another sync's step leaves what a lone one has stored.
LEMMA OtherKeepsLone ==
    ASSUME CopiesInv, LoneInv, NEW q \in Syncs, SyncStep(q),
           NEW s \in alone', s # q, pc'[s] # "idle"
    PROVE  Apart(s)' /\ Stored(s)'
<1> USE DEF CopiesInv
<1>1. s \in alone /\ s \in Syncs /\ pc[s] # "idle" BY OthersKept DEF TypeOK
<1>2. Apart(s) /\ Stored(s) BY <1>1 DEF LoneInv
<1>3. /\ user[q] # user[s] /\ chan[q] # chan[s]
      /\ user[s] \in Users /\ chan[s] \in Channels
  BY <1>1, <1>2, OthersKept DEF Apart, Busy
<1>4. /\ pc'[s] = pc[s] /\ user'[s] = user[s] /\ chan'[s] = chan[s]
      /\ seen'[s] = seen[s] /\ snap'[s] = snap[s]
      /\ shown'[chan[s]] = shown[chan[s]]
      /\ owner'[chan[s]] = owner[chan[s]]
      /\ itemOwner'[chan[s]] = itemOwner[chan[s]]
      /\ metrics'[user[s]] = metrics[user[s]]
  BY <1>1, <1>3, OthersKept
<1>5. Apart(s)'
  <2> SUFFICES ASSUME NEW r \in Syncs \ {s}, pc'[r] # "idle"
               PROVE  user'[r] # user'[s] /\ chan'[r] # chan'[s]
    BY DEF Apart
  <2>1. CASE r = q BY <1>3, <1>4, <2>1, OthersKept
  <2>2. CASE r # q
    <3>1. pc'[r] = pc[r] /\ user'[r] = user[r] /\ chan'[r] = chan[r]
      BY <2>2, OthersKept
    <3> QED BY <1>2, <1>4, <3>1 DEF Apart
  <2> QED BY <2>1, <2>2
<1>6. \A t : Written(s, t)' <=> Written(s, t) BY <1>4 DEF Written
<1>7. Stored(s)' BY <1>2, <1>4, <1>6 DEF Stored
<1> QED BY <1>5, <1>7

\* A lone sync stays apart through its own steps.
LEMMA OwnStepApart ==
    ASSUME CopiesInv, LoneInv, NEW s \in alone', s \in Syncs, SyncStep(s),
           pc'[s] # "idle"
    PROVE  Apart(s)'
<1> SUFFICES ASSUME NEW r \in Syncs \ {s}, pc'[r] # "idle"
             PROVE  user'[r] # user'[s] /\ chan'[r] # chan'[s]
  BY DEF Apart
<1>1. /\ pc'[r] = pc[r] /\ user'[r] = user[r] /\ chan'[r] = chan[r]
      /\ user'[s] = user[s] /\ chan'[s] = chan[s] /\ pc[s] # "idle"
      /\ s \in alone
  BY OthersKept
<1>2. Apart(s) BY <1>1 DEF LoneInv
<1> QED BY <1>1, <1>2 DEF Apart

\* With one table more, what it has been through is what it had been through
\* and that table.
LEMMA OneTableMore ==
    ASSUME NEW s \in Syncs, pc[s] \in Tables, pc'[s] = After[pc[s]],
           NEW t \in Tables, Written(s, t)'
    PROVE  t = pc[s] \/ Written(s, t)
<1>1. /\ Place[t] \in Int /\ Place[pc[s]] \in Int
      /\ Place[After[pc[s]]] = Place[pc[s]] + 1
      /\ Place[t] = Place[pc[s]] => t = pc[s]
  BY PlaceOrder DEF InOrder
<1>2. pc'[s] \in Tables \cup {"delete"} /\ pc'[s] \notin {"locks", "insert"}
  BY IngestionAssumption DEF Tables
<1>3. Place[t] < Place["delete"] BY PlaceOrder DEF InOrder
<1>4. Place[t] < Place[pc'[s]]
  BY <1>2, <1>3 DEF Written
<1> QED BY <1>1, <1>4 DEF Written

\* A lone sync stores what it should.
LEMMA OwnStepStored ==
    ASSUME CopiesInv, LoneInv, NEW s \in alone', s \in Syncs, SyncStep(s),
           pc'[s] # "idle"
    PROVE  Stored(s)'
<1> USE IngestionAssumption
<1>0. /\ TypeOK /\ Busy /\ Stored(s) /\ pc[s] # "idle"
      /\ user[s] \in Users /\ chan[s] \in Channels
  BY OthersKept DEF CopiesInv, LoneInv, Busy
<1>1. CASE Fetch(s)
  <2>1. pc'[s] = "channel" BY <1>0, <1>1 DEF Fetch, Goto, TypeOK
  <2>2. \A t \in Tables : ~ Written(s, t)'
    BY <2>1, PlaceOrder DEF Written, InOrder
  <2> QED BY <2>1, <2>2 DEF Stored, Tables
<1>2. CASE StoreChannel(s) \/ StoreRows(s)
  <2>1. pc[s] \in Tables BY <1>2 DEF StoreChannel, StoreRows, Tables
  <2>2. /\ pc'[s] = After[pc[s]] /\ UNCHANGED <<user, chan, seen, snap>>
        /\ shown'[chan[s]] = [shown[chan[s]] EXCEPT ![pc[s]] = seen[s]]
    <3>1. pc' = [pc EXCEPT ![s] = After[pc[s]]] /\ Show(s)
          /\ UNCHANGED <<user, chan, seen, snap>>
      BY <1>2 DEF StoreChannel, StoreRows, Goto
    <3>2. shown'[chan[s]] = [shown[chan[s]] EXCEPT ![pc[s]] = seen[s]]
      BY <1>0, <3>1 DEF Show, TypeOK
    <3>3. pc'[s] = After[pc[s]] BY <1>0, <3>1 DEF TypeOK
    <3> QED BY <3>1, <3>2, <3>3
  <2>3. \A t \in Tables : Written(s, t)' => t = pc[s] \/ Written(s, t)
    BY <2>1, <2>2, OneTableMore
  <2>4. \A t \in Tables : Written(s, t)' => shown'[chan[s]][t] = seen[s]
    <3>1. shown[chan[s]] \in [Tables -> 0..MaxVersion] BY <1>0 DEF TypeOK
    <3> QED BY <1>0, <2>1, <2>2, <2>3, <3>1 DEF Stored
  <2>5. Written(s, "channel")' => owner'[chan[s]] = user[s]
    <3>1. CASE StoreChannel(s) BY <1>0, <3>1 DEF StoreChannel, TypeOK
    <3>2. CASE StoreRows(s)
      <4>1. pc[s] # "channel" /\ owner' = owner
        BY <3>2 DEF StoreRows, channelVars
      <4> QED BY <1>0, <2>3, <4>1 DEF Stored, Tables
    <3> QED BY <1>2, <3>1, <3>2
  <2>6. s \in WorkerSyncs /\ Written(s, "content")'
          => itemOwner'[chan[s]] = user[s]
    <3>1. CASE pc[s] = "content"
      <4>1. StoreRows(s) BY <1>2, <3>1 DEF StoreChannel
      <4> QED BY <1>0, <3>1, <4>1 DEF StoreRows, ContentOwner, TypeOK
    <3>2. CASE pc[s] # "content"
      <4>1. itemOwner' = itemOwner
        BY <1>2, <3>2 DEF StoreChannel, StoreRows
      <4> QED BY <1>0, <2>3, <3>2, <4>1 DEF Stored, Tables
    <3> QED BY <3>1, <3>2
  <2>7. pc'[s] \notin {"locks", "insert"} BY <2>1, <2>2, AfterLabel
  <2> QED BY <2>2, <2>4, <2>5, <2>6, <2>7 DEF Stored
<1>3. CASE DeleteMetrics(s)
  <2>1. /\ pc[s] = "delete" /\ snap'[s] = metrics[user[s]]
        /\ UNCHANGED <<user, chan, seen, shown, owner, itemOwner, metrics>>
    BY <1>0, <1>3 DEF DeleteMetrics, TypeOK, channelVars
  <2>2. \A t : Written(s, t) BY <2>1 DEF Written
  <2> QED BY <1>0, <2>1, <2>2 DEF Stored
<1>4. CASE LockMetrics(s)
  <2>1. /\ pc[s] = "locks"
        /\ UNCHANGED <<user, chan, seen, snap, shown, owner, itemOwner,
                       metrics>>
    BY <1>4 DEF LockMetrics, channelVars
  <2>2. \A t : Written(s, t) BY <2>1 DEF Written
  <2> QED BY <1>0, <2>1, <2>2 DEF Stored
<1>5. CASE InsertMetrics(s) \/ Fail(s)
  <2>1. pc'[s] = "idle"
    BY <1>0, <1>5 DEF InsertMetrics, Fail, Done, Goto, TypeOK
  <2> QED BY <2>1
<1>6. CASE SkipRows(s)
  <2>1. s \notin alone' BY <1>6 DEF SkipRows
  <2> QED BY <2>1
<1> QED
  BY <1>1, <1>2, <1>3, <1>4, <1>5, <1>6 DEF SyncStep, Step

\* A sync that starts has stored nothing, and is alone with its user and its
\* channel if it is counted as alone.
LEMMA StartLone ==
    ASSUME CopiesInv, LoneInv, NEW q \in Syncs, NEW u \in Users, Start(q, u)
    PROVE  LoneInv'
<1> SUFFICES ASSUME NEW s \in alone', pc'[s] # "idle"
             PROVE  Apart(s)' /\ Stored(s)'
  BY DEF LoneInv
<1> DEFINE c == linked[u]
           others == {r \in Syncs \ {q} : Clash(r, u, c)}
<1>0. TypeOK BY DEF CopiesInv
<1>1. /\ pc'[q] = "fetch" /\ user'[q] = u /\ chan'[q] = c /\ pc[q] = "idle"
      /\ \A r \in Syncs \ {q} : /\ pc'[r] = pc[r] /\ user'[r] = user[r]
                                /\ chan'[r] = chan[r]
      /\ UNCHANGED <<shown, owner, itemOwner, metrics, seen, snap>>
      /\ alone' = AloneFrom(q, u, c)
  BY <1>0 DEF Start, Goto, TypeOK, channelVars
<1>2. /\ s \in Syncs
      /\ s = q => others = {}
      /\ s # q => s \in alone /\ ~ Clash(s, u, c)
  BY <1>0, <1>1 DEF AloneFrom, TypeOK
<1>3. CASE s = q
  <2>1. Apart(s)' BY <1>1, <1>2, <1>3 DEF Apart, Clash
  <2>2. \A t \in Tables : ~ Written(s, t)'
    BY <1>1, <1>3, IngestionAssumption DEF Written, Tables
  <2>3. Stored(s)'
    BY <1>1, <1>3, <2>2, IngestionAssumption DEF Stored, Tables
  <2> QED BY <2>1, <2>3
<1>4. CASE s # q
  <2>1. /\ pc[s] # "idle" /\ pc'[s] = pc[s] /\ user'[s] = user[s]
        /\ chan'[s] = chan[s] /\ s \in alone
    BY <1>1, <1>2, <1>4
  <2>2. Apart(s) /\ Stored(s) BY <2>1 DEF LoneInv
  <2>3. Apart(s)' BY <1>1, <1>2, <1>4, <2>1, <2>2 DEF Apart, Clash
  <2>4. \A t : Written(s, t)' <=> Written(s, t) BY <2>1 DEF Written
  <2>5. Stored(s)' BY <1>1, <2>1, <2>2, <2>4 DEF Stored
  <2> QED BY <2>3, <2>5
<1> QED BY <1>3, <1>4

\* Every step keeps what lone syncs have stored.
LEMMA NextLone == ASSUME CopiesInv, LoneInv, [Next]_vars PROVE LoneInv'
<1>1. CASE \E q \in Syncs : SyncStep(q)
  <2>1. PICK q \in Syncs : SyncStep(q) BY <1>1
  <2> SUFFICES ASSUME NEW s \in alone', pc'[s] # "idle"
               PROVE  Apart(s)' /\ Stored(s)'
    BY DEF LoneInv
  <2>2. CASE s = q BY <2>1, <2>2, OwnStepApart, OwnStepStored
  <2>3. CASE s # q BY <2>1, <2>3, OtherKeepsLone
  <2> QED BY <2>2, <2>3
<1>2. CASE \E q \in Syncs, u \in Users : Start(q, u)
  BY <1>2, StartLone
<1>3. CASE \/ UNCHANGED vars
           \/ \E c \in Channels : Publish(c) \/ GrowStale(c)
           \/ \E u \in Users : \/ Disconnect(u)
                               \/ \E c \in Channels : Connect(u, c)
  <2>1. UNCHANGED <<owner, shown, itemOwner, metrics, pc, user, chan, seen,
                    snap, alone>>
    BY <1>3 DEF vars, Publish, GrowStale, Disconnect, Connect, channelVars,
       syncVars, histVars
  <2>2. \A s, t : Written(s, t)' <=> Written(s, t) BY <2>1 DEF Written
  <2> QED BY <2>1, <2>2 DEF LoneInv, Apart, Stored
<1> QED BY <1>1, <1>2, <1>3 DEF Next, SyncStep

\* A lone sync that commits leaves everything as it fetched it.
LEMMA CommitRepairs ==
    ASSUME CopiesInv, LoneInv, NEW s \in alone, InsertMetrics(s)
    PROVE  LET u == user[s]  c == chan[s]
           IN /\ \A t \in Tables : shown'[c][t] = seen[s]
              /\ owner'[c] = u
              /\ s \in WorkerSyncs => itemOwner'[c] = u
              /\ metrics'[u] = {[by |-> s, chan |-> c, version |-> seen[s]]}
<1>1. /\ s \in Syncs /\ pc[s] = "insert"
      /\ UNCHANGED <<shown, owner, itemOwner>>
  BY DEF InsertMetrics, channelVars, CopiesInv, TypeOK
<1>2. Stored(s) BY <1>1 DEF LoneInv
<1>3. \A t : Written(s, t) BY <1>1 DEF Written
<1>4. user[s] \in Users BY <1>1 DEF CopiesInv, Busy
<1>5. metrics'[user[s]] = (metrics[user[s]] \ snap[s])
                            \cup {[by |-> s, chan |-> chan[s],
                                   version |-> seen[s]]}
  BY <1>4 DEF InsertMetrics, CopiesInv, TypeOK
<1>6. snap[s] = metrics[user[s]] BY <1>1, <1>2 DEF Stored
<1>7. metrics'[user[s]] = {[by |-> s, chan |-> chan[s], version |-> seen[s]]}
  BY <1>5, <1>6
<1> QED BY <1>1, <1>2, <1>3, <1>7 DEF Stored

\* A sync that runs alone repairs whatever the others have left.
THEOREM LoneSyncsRepair == Spec => LoneSyncRepairs
<1>1. Init => LoneInv BY DEF Init, LoneInv
<1>2. CopiesInv /\ LoneInv /\ [Next]_vars => LoneInv' BY NextLone
<1>3. Spec => []LoneInv BY <1>1, <1>2, CopiesHold, PTL DEF Spec
<1>4. CopiesInv /\ LoneInv =>
        [\A s \in alone : InsertMetrics(s) =>
           LET u == user[s]  c == chan[s]
           IN /\ \A t \in Tables : shown'[c][t] = seen[s]
              /\ owner'[c] = u
              /\ s \in WorkerSyncs => itemOwner'[c] = u
              /\ metrics'[u] = {[by |-> s, chan |-> c, version |-> seen[s]]}
        ]_vars
  BY CommitRepairs
<1> QED BY <1>3, <1>4, CopiesHold, PTL DEF Spec, LoneSyncRepairs

-----------------------------------------------------------------------------
(* The life of the worker process.                                         *)

\* What start() leaves behind at each of its points: the idle monitor is armed
\* last, nothing is closed before a start has failed, and a round of the monitor
\* runs only while it is armed.
StartedOnce ==
    /\ "idle" \in timers => start = "up"
    /\ pool = "ended" => start = "failed"
    /\ checking => "idle" \in timers

Scanning == \E b \in Jobs : QueueOf[b] = "batch" /\ job[b] = "running"

\* A round that has found nothing so far, in a process that was not busy since:
\* what there is waits to be counted, or was added by a scan that does.
NothingMissed ==
    checking /\ ~busy /\ idleFor > 0 =>
      \A j \in Jobs :
        job[j] \in Counted =>
          \/ QueueOf[j] \in unread
          \/ QueueOf[j] = "sync" /\ "batch" \in unread /\ Scanning

RuntimeInv == RuntimeTypeOK /\ StartedOnce /\ NothingMissed

\* At the start the process has neither workers nor jobs.
LEMMA InitRuntime == ASSUME RuntimeInit PROVE RuntimeInv
<1>1. /\ start \in {"assert", "batch", "ml", "up", "failed"}
      /\ workers \in {"none", "open", "closing", "closed"}
      /\ pool \in {"open", "ended"} /\ timers \subseteq {"batch", "ml", "idle"}
      /\ mode \in Modes
  BY DEF RuntimeInit
<1>2. stoppedByIdle \in BOOLEAN /\ busy \in BOOLEAN /\ checking \in BOOLEAN
  BY DEF RuntimeInit
<1>3. idleFor \in 0..IdleTimeout /\ unread \subseteq Queues
  BY RuntimeAssumption DEF RuntimeInit
<1>4. job \in [Jobs -> Counted \cup {"none", "settled"}]
  BY DEF RuntimeInit, Counted
<1>5. StartedOnce /\ NothingMissed
  BY DEF RuntimeInit, StartedOnce, NothingMissed
<1> QED BY <1>1, <1>2, <1>3, <1>4, <1>5 DEF RuntimeInv, RuntimeTypeOK

\* What a step changes of one job.
JobTypeOK == job \in [Jobs -> Counted \cup {"none", "settled"}]

\* The types of the process.
LEMMA RuntimeTypes ==
    ASSUME RuntimeTypeOK, [RuntimeNext]_runtimeVars PROVE RuntimeTypeOK'
<1> USE DEF lifeVars, checkVars
<1>1. CASE DatabaseReady \/ NotReady \/ FirstJobFails
  <2>1. idleFor' \in 0..IdleTimeout
    BY <1>1, RuntimeAssumption DEF RuntimeTypeOK, DatabaseReady, NotReady,
       FirstJobFails
  <2> QED BY <1>1, <2>1 DEF RuntimeTypeOK, DatabaseReady, NotReady, FirstJobFails
<1>2. ASSUME NEW q, Enqueue(q) PROVE idleFor' \in 0..IdleTimeout /\ JobTypeOK'
  BY <1>2, RuntimeAssumption DEF RuntimeTypeOK, Enqueue, Counted, JobTypeOK
<1>3. CASE FirstJob
  BY <1>2, <1>3 DEF RuntimeTypeOK, FirstJob, JobTypeOK
<1>4. CASE Stop \/ WorkersClosed
  BY <1>4 DEF RuntimeTypeOK, Stop, WorkersClosed
<1>5. CASE CheckIdle \/ (\E q \in Queues : CountQueue(q)) \/ CountFails
  BY <1>5 DEF RuntimeTypeOK, CheckIdle, CountQueue, CountFails
<1>6. CASE StillBusy \/ Trip \/ Tick
  <2>1. idleFor' \in 0..IdleTimeout
    BY <1>6, RuntimeAssumption DEF RuntimeTypeOK, StillBusy, Trip, Tick
  <2> QED BY <1>6, <2>1 DEF RuntimeTypeOK, StillBusy, Trip, Tick
<1>7. ASSUME NEW q \in Queues, IntervalFires(q) PROVE RuntimeTypeOK'
  BY <1>2, <1>7 DEF RuntimeTypeOK, IntervalFires, JobTypeOK
<1>8. ASSUME NEW j \in Jobs, PickUp(j) \/ Handle(j) \/ Promote(j)
      PROVE  RuntimeTypeOK'
  <2>1. idleFor' \in 0..IdleTimeout /\ JobTypeOK'
    BY <1>8, RuntimeAssumption
    DEF RuntimeTypeOK, PickUp, Handle, MarkActive, MarkEnded, MarkFails, Settle,
        Promote, Counted, JobTypeOK
  <2> QED
    BY <1>8, <2>1 DEF RuntimeTypeOK, PickUp, Handle, MarkActive, MarkEnded,
       MarkFails, Settle, Promote, JobTypeOK
<1>9. ASSUME NEW j \in Jobs, NEW k \in Jobs, AddSync(j, k)
      PROVE  RuntimeTypeOK'
  <2>1. JobTypeOK'
    BY <1>9 DEF RuntimeTypeOK, AddSync, Counted, JobTypeOK
  <2> QED BY <1>9, <2>1 DEF RuntimeTypeOK, AddSync, JobTypeOK
<1>10. CASE UNCHANGED runtimeVars
  BY <1>10 DEF RuntimeTypeOK, runtimeVars
<1> QED
  BY <1>1, <1>3, <1>4, <1>5, <1>6, <1>7, <1>8, <1>9, <1>10
  DEF RuntimeNext, Starting, CheckStep

\* Nothing but start() and stop() takes the process from one point to the next.
LEMMA StartKept ==
    ASSUME RuntimeInv, [RuntimeNext]_runtimeVars PROVE StartedOnce'
<1> USE DEF RuntimeInv, StartedOnce, lifeVars, checkVars
<1>1. CASE Starting
  BY <1>1 DEF Starting, DatabaseReady, NotReady, FirstJob, FirstJobFails
<1>2. CASE Stop \/ WorkersClosed
  BY <1>2 DEF Stop, WorkersClosed
<1>3. CASE CheckIdle \/ CheckStep \/ CountFails \/ Tick
  BY <1>3 DEF CheckIdle, CheckStep, CountQueue, StillBusy, Trip, CountFails, Tick
<1>4. ASSUME NEW q \in Queues, IntervalFires(q) PROVE StartedOnce'
  BY <1>4 DEF IntervalFires
<1>5. ASSUME NEW j \in Jobs,
             PickUp(j) \/ Handle(j) \/ Promote(j) \/ \E k \in Jobs : AddSync(j, k)
      PROVE  StartedOnce'
  BY <1>5 DEF PickUp, Handle, MarkActive, MarkEnded, MarkFails, Settle, Promote,
     AddSync
<1>6. CASE UNCHANGED runtimeVars
  BY <1>6 DEF runtimeVars
<1> QED BY <1>1, <1>2, <1>3, <1>4, <1>5, <1>6 DEF RuntimeNext

\* A job that changes hands stays counted until it is settled, and no scan ends
\* unnoticed.
LEMMA JobMoves ==
    ASSUME RuntimeInv, NEW j \in Jobs, PickUp(j) \/ Settle(j) \/ Promote(j)
    PROVE  NothingMissed'
<1>1. /\ UNCHANGED <<unread, busy, checking, idleFor>>
      /\ job[j] \in Counted \ {"running"}
      /\ \A i \in Jobs \ {j} : job'[i] = job[i]
  BY DEF RuntimeInv, RuntimeTypeOK, PickUp, Settle, Promote, Counted, lifeVars,
     checkVars
<1>2. Scanning => Scanning'
  BY <1>1 DEF Scanning
<1>3. \A i \in Jobs : job'[i] \in Counted => job[i] \in Counted
  BY <1>1
<1> QED BY <1>1, <1>2, <1>3 DEF RuntimeInv, NothingMissed

\* A scan that adds work is either still to be counted or known to be busy.
LEMMA ScanAdds ==
    ASSUME RuntimeInv, NEW j \in Jobs, NEW k \in Jobs, AddSync(j, k)
    PROVE  NothingMissed'
<1>1. /\ UNCHANGED <<unread, busy, checking, idleFor>>
      /\ job[j] = "running" /\ QueueOf[j] = "batch" /\ QueueOf[k] = "sync"
      /\ \A i \in Jobs \ {k} : job'[i] = job[i]
      /\ k # j
  BY DEF RuntimeInv, RuntimeTypeOK, AddSync, lifeVars, checkVars
<1>2. Scanning /\ Scanning'
  BY <1>1 DEF Scanning
<1>3. checking /\ ~busy /\ idleFor > 0 => "batch" \in unread
  BY <1>1 DEF RuntimeInv, NothingMissed, Counted
<1> QED BY <1>1, <1>2, <1>3 DEF RuntimeInv, NothingMissed

\* Counting a queue that holds something makes the round busy.
LEMMA CountSees ==
    ASSUME RuntimeInv, NEW q \in Queues, CountQueue(q) PROVE NothingMissed'
<1>1. /\ UNCHANGED <<checking, idleFor, job>>
      /\ unread' = unread \ {q}
      /\ ~busy' => ~busy /\ \A j \in Jobs : QueueOf[j] = q => job[j] \notin Counted
  BY DEF CountQueue
<1>2. ~busy' /\ Scanning => q # "batch"
  BY <1>1 DEF Scanning, Counted
<1>3. Scanning' <=> Scanning
  BY <1>1 DEF Scanning
<1> QED BY <1>1, <1>2, <1>3 DEF RuntimeInv, NothingMissed

\* While each write to worker_jobs is taken, a round misses nothing.
LEMMA RoundMissesNothing ==
    ASSUME "row" \notin Faults, RuntimeInv, [RuntimeNext]_runtimeVars
    PROVE  NothingMissed'
<1>0. RuntimeTypeOK /\ StartedOnce /\ NothingMissed BY DEF RuntimeInv
<1>1. CASE Starting
  <2>1. ~checking'
    BY <1>0, <1>1 DEF Starting, DatabaseReady, NotReady, FirstJob, FirstJobFails,
       StartedOnce, checkVars
  <2> QED BY <2>1 DEF NothingMissed
<1>2. CASE Stop \/ WorkersClosed \/ UNCHANGED runtimeVars
  <2>1. UNCHANGED <<unread, busy, checking, idleFor, job>>
    BY <1>2 DEF Stop, WorkersClosed, runtimeVars, checkVars
  <2> QED BY <1>0, <2>1 DEF NothingMissed, Scanning
<1>3. CASE CheckIdle
  <2>1. unread' = Queues /\ UNCHANGED job
    BY <1>3 DEF CheckIdle
  <2> QED BY <2>1, RuntimeAssumption DEF NothingMissed
<1>4. ASSUME NEW q \in Queues, CountQueue(q) PROVE NothingMissed'
  BY <1>4, CountSees
<1>5. CASE StillBusy \/ Trip \/ CountFails \/ Tick
  <2>1. ~checking'
    BY <1>5 DEF StillBusy, Trip, CountFails, Tick, checkVars
  <2> QED BY <2>1 DEF NothingMissed
<1>6. ASSUME NEW q \in Queues, IntervalFires(q) PROVE NothingMissed'
  BY <1>6 DEF IntervalFires, Enqueue, NothingMissed
<1>7. ASSUME NEW j \in Jobs, MarkActive(j) \/ MarkEnded(j) PROVE NothingMissed'
  BY <1>7 DEF MarkActive, MarkEnded, NothingMissed
<1>8. ASSUME NEW j \in Jobs, MarkFails(j) PROVE NothingMissed'
  <2>1. ~checking'
    BY <1>0, <1>8 DEF MarkFails, StartedOnce, checkVars
  <2> QED BY <2>1 DEF NothingMissed
<1>9. ASSUME NEW j \in Jobs, PickUp(j) \/ Settle(j) \/ Promote(j)
      PROVE  NothingMissed'
  BY <1>9, JobMoves
<1>10. ASSUME NEW j \in Jobs, NEW k \in Jobs, AddSync(j, k) PROVE NothingMissed'
  BY <1>10, ScanAdds
<1> QED
  BY <1>1, <1>2, <1>3, <1>4, <1>5, <1>6, <1>7, <1>8, <1>9, <1>10
  DEF RuntimeNext, CheckStep, Handle

\* The invariant of the worker process, while worker_jobs can be written.
THEOREM RuntimeInvariant == "row" \notin Faults => (RuntimeSpec => []RuntimeInv)
<1> SUFFICES ASSUME "row" \notin Faults PROVE RuntimeSpec => []RuntimeInv
  OBVIOUS
<1>1. RuntimeInv /\ [RuntimeNext]_runtimeVars => RuntimeInv'
  BY RuntimeTypes, StartKept, RoundMissesNothing DEF RuntimeInv
<1> QED BY <1>1, InitRuntime, PTL DEF RuntimeSpec

\* Whatever Faults are: the state of the process keeps its types
\* (RuntimeTypeOK).
THEOREM RuntimeTypeCorrect == RuntimeSpec => []RuntimeTypeOK
<1>1. RuntimeInit => RuntimeTypeOK
  BY InitRuntime DEF RuntimeInv
<1> QED BY <1>1, RuntimeTypes, PTL DEF RuntimeSpec

\* The idle monitor trips only when no job waits or runs, although it counts the
\* queues at different moments (checkIdleAndExit), for any number of jobs and
\* any time-out, while every write to worker_jobs is taken.
THEOREM MonitorTripsWhenDrained ==
    "row" \notin Faults => (RuntimeSpec => TripsOnlyWhenDrained)
<1> SUFFICES ASSUME "row" \notin Faults PROVE RuntimeSpec => TripsOnlyWhenDrained
  OBVIOUS
<1>1. RuntimeInv /\ [RuntimeNext]_runtimeVars =>
        [stoppedByIdle' /\ ~stoppedByIdle =>
           \A j \in Jobs : job[j] \notin Counted]_runtimeVars
  <2> SUFFICES ASSUME RuntimeInv, RuntimeNext, stoppedByIdle', ~stoppedByIdle
               PROVE  \A j \in Jobs : job[j] \notin Counted
    OBVIOUS
  <2>1. Trip
    BY DEF RuntimeNext, Starting, DatabaseReady, NotReady, FirstJob, Enqueue,
       FirstJobFails, Stop, WorkersClosed, CheckIdle, CheckStep, CountQueue,
       StillBusy, CountFails, Tick, IntervalFires, PickUp, Handle, MarkActive,
       MarkEnded, MarkFails, Settle, Promote, AddSync
  <2>2. checking /\ ~busy /\ idleFor > 0 /\ unread = {}
    BY <2>1, RuntimeAssumption DEF Trip, RoundDone
  <2> QED BY <2>2 DEF RuntimeInv, NothingMissed
<1>2. RuntimeSpec => []RuntimeInv
  BY RuntimeInvariant
<1> QED BY <1>1, <1>2, PTL DEF RuntimeSpec, TripsOnlyWhenDrained
=============================================================================
