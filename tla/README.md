# TLA+ models of the creator platform

The repository is a NestJS API (`src/src`), a Fastify worker process
(`src/workers`) and code both share (`src/shared`: database schema, queue
names, YouTube normalization, logging). PostgreSQL holds the data, Redis holds
BullMQ queues and caches, Google's APIs are called for identity and YouTube
statistics. Paths below are relative to the repository root as `src/`.

This directory holds TLA+ modules for the parts whose behaviour depends on
interleaving, failure or ordering, the TLC configurations that check small
instances of them, and TLAPS proofs for every value of the constants.

## 1. Inventory

### Worker process (`src/workers`)

* **Job runtime**, `services/worker-queue-runtime.service.ts`. State: three
  BullMQ queues (`youtube-sync-batch`, `youtube-sync`, `ml-inferencing`), table
  `worker_jobs`, timers, `lastNonIdleAt`, `stoppedByIdle`. Operations: `start`,
  `stop`, `enqueueBatchJob`, `enqueueMlJob`, `handleBatchJob`, `runJob`,
  `checkIdleAndExit`. A batch job scans for due users and, for all of them in
  parallel, looks for an open row, inserts a row, adds a job. `runJob` wraps
  every handler: `markActive`, handler, `markCompleted` or `markFailed`. Hard:
  no transaction spans PostgreSQL and Redis, checks and inserts interleave,
  processes die, locks expire, retries repeat what was half done.
* **Sync of one user**, `services/youtube-sync.service.ts`: freshness check,
  Google calls with a token refresh on 401, then seven separate writes. Hard:
  partial failure, stale tokens, concurrent syncs of one channel.
* **Process life**, `app.ts`, `main.ts`, `config/worker-env.ts`: `onReady`
  starts the runtime without awaiting it, `onClose` stops it.

### API process (`src/src`)

* **Start and stop**, `main.ts`: a flag that denies requests, a counter of
  requests in flight, `gracefulShutdown`.
* **Scoring queue**, `modules/queue`, `modules/ingestion/youtube`: ingestion
  stores normalized videos and adds a job to queue `youtube`; each API process
  also runs a BullMQ worker that scores the videos. Hard: retries reorder jobs,
  processes stop and start, the paused flag is global.
* **Sessions and tokens**, `modules/auth`, `modules/sessions`: access and
  refresh JWTs, one `sessions` row per refresh token, rotation at `refresh`.
  Hard: read, check, revoke and insert are separate awaits.
* **Accounts**: signup, admin signup, password and Google login, tenants by
  slug, onboarding, password change. Hard: check-then-insert against unique
  indexes, several inserts without a transaction; lookups compare tenants only.
* **Google OAuth grants**: state parameter, authorization code, encrypted
  tokens in `oauth_accounts`, refresh on 401, disconnect. Hard: parallel
  requests refresh the same grant, disconnect races refresh.
* **Ingestion of YouTube data**: channel, videos, analytics, comments,
  demographics, content items and metrics, approval of channels.
* **Caches**: `getMeDashboard` and others read through Redis with a time-out.
  Hard: a slow reader puts back what an update has just deleted, and an
  operation that was given up may still take effect.
* **SME campaigns and scouting**: reads and upserts behind checks of roles and
  owners. Hard: the check and the write are separate awaits.
* **Insights, discovery, search**: the figures of one creator are computed in
  three places, a search has two implementations, answers are cached under keys
  composed of the parameters. Hard: copies drift apart, edges of windows, pages
  and limits, requests that share a key.
* **Mapping of YouTube data**, twice: `shared/youtube` with the API's services,
  and the worker's own copy. Hard: missing and odd fields, duplicates in one
  batch, calls that fail one by one.
* **Plumbing**: logging, filters, guards, DTOs, health, Swagger, seeds.

### What makes each part correct

| part | properties that matter |
| --- | --- |
| worker jobs | rows precede jobs; a user has no more open jobs than there are batch runs at once; attempts bounded; table and queue agree; rows close; jobs settle |
| worker process | never stops over work in hand; a failed start releases everything; an idle process exits |
| scoring queue | scores catch up with the videos; jobs settle; a shutdown loses no job; the next process takes the waiting ones |
| API shutdown | the counter is never above the requests in flight; a shutdown ends in an exit unless `app.close()` itself is kept waiting |
| sessions | a rotated token is dead; one live session per login; revocation is final |
| grants | a disconnected grant stays away; a Google account has one user; logins lead to their owner |
| ingestion | metrics neither multiply without bound nor vanish; a sync that runs alone puts every table right |
| accounts | nobody but an administrator looks up users of another role |
| approval | it is durable before anyone is told; owners approve; no sync undoes it |
| caches | an onboarding is shown once its invalidation is through; stale entries die; keys tell requests apart |
| marketplace | only creators are offered, only by SMEs, campaigns are filled by owners |
| insights, search | figures of one creator add up, and agree wherever they are computed from the same rows; pages do not overlap |
| mapping | both ingestions take and store the same; no batch touches a row twice |
| database | repeated upserts change nothing; deletions leave no orphan, keep the audit log, the jobs and the other users, and take nothing that is another's alone |

## 2. Modules and the code

A module's VARIABLES are the state the code keeps, its actions the steps between
two awaits. Definitions named `...OffByOne`, `..._NoKey` and the like, each under
a comment that begins with *Faulty*, are the mistakes the properties were tried
against; the specifications do not use them.

| module | models | proofs |
| --- | --- | --- |
| `SyncJobs`, `JobLifecycle` | jobs of the worker, the table `worker_jobs` | `SyncJobsProofs` |
| `WorkerRuntime` | life of the worker process | `WorkerProofs` |
| `YoutubeIngestion` | the data both processes store | `WorkerProofs` |
| `YoutubeQueue` | scoring queue of the API | `ApiProcessProofs` |
| `ApiShutdown` | the end of an API process | `ApiProcessProofs` |
| `ApiRequests` | handlers in a process that ends, approval of channels | `ApiProcessProofs` |
| `Sessions` | refresh tokens and cookies | `SessionsProofs` |
| `GoogleAccounts` | users, logins and YouTube grants | `GoogleAccountsProofs` |
| `Tenants` | signups, tenants and who may look up whom | `EvaluationProofs` |
| `Dashboard` | `GET /users/me`, its caches, onboarding | `DashboardProofs` |
| `Marketplace` | campaigns and scouting | `EvaluationProofs` |
| `YoutubeFetch` | the calls to Google and what their failures mean | `EvaluationProofs` |
| `YoutubeNormalization`, `ApiYoutubeRows`, `WorkerYoutubeRows` | the rows made of Google's answers | `DataProofs` |
| `IngestedRows` | what Google answers, and what the rows of two ingestions owe each other | `DataProofs` |
| `DatabaseSchema` | tables, unique indexes, references, upserts | `EvaluationProofs` |
| `CreatorInsights` | the figures of creators | `DataProofs` |
| `CreatorDiscovery` | search, discovery, SME statistics | `EvaluationProofs` |
| `Arrays` | `filter` and the stable `sort` of JavaScript | `DataProofs` |
| `Figures` | what the figures of a creator owe each other | `DataProofs` |
| `Evaluation` | runs the pure modules, `Marketplace` and `Tenants` | `EvaluationProofs` |

`MC...` modules hold the sets TLC instantiates them with. The modules meet where
the code does: `SyncJobs` reduces what a sync stores to the steps a job's state
depends on, and `YoutubeIngestion` opens them up; the grant that
`YoutubeIngestion` calls `linked` is the row whose tokens `GoogleAccounts`
follows; `YoutubeIngestion` ends where the request enqueues a job of
`YoutubeQueue`; the stop of a process in `YoutubeQueue` is the hook that
`ApiShutdown` has run; `ApiRequests` EXTENDS `ApiShutdown` and gives its requests
handlers; what a sync in `YoutubeIngestion` fetches is `YoutubeFetch`, the rows
it stores are `ApiYoutubeRows` or `WorkerYoutubeRows`, and the statements it
stores them with are in `DatabaseSchema`.

### SyncJobs and JobLifecycle

`SyncJobs` follows a sync job through `worker_jobs` (`rowStatus`, `rowUser`,
`rowAttempts`), BullMQ (`bull`, `made`, `stalls`, `lock`), the promises of
`handleBatchJob` (`enq`, `enqJob`) and the slots of `runJob` (`pc`, `cur`,
`seen`). `fresh[u]` is the one bit of `youtube_channels.last_synced_at` the code
tests. Actions: `BatchScan`, `EnqCheck`, `EnqCreate`, `EnqAdd`, `EnqAbort`;
`PickUp`, `MarkActive`, `CheckFresh`, `StampChannel`, `PersistRest`,
`HandlerFail`, `MarkCompleted`, `MarkFailed`, `DbError`, `Resolve`, `Reject`,
`Crash`; `Promote`, `Stall`, `Age`. The constant `Faults` selects the failures
of the environment, so that one module serves the strong properties (few
faults) and the weak ones (all faults). Several batch runs are concurrent
because several workers may run, `WORKER_BATCH_CONCURRENCY` may exceed 1, and a
rejected `Promise.all` leaves promises running while BullMQ retries the scan.

`JobLifecycle` is what `worker_jobs` promises its readers: a row is queued with
its owner, becomes active, ends completed, failed or retrying, and never goes
from an end state back; a row is queued only for a user who has fewer than
`MaxOpen` open ones. `SyncJobs` implements it with `MaxOpen` the number of batch
runs: as many may have looked for an open job before the first of them inserts.
So "duplicate syncs are skipped at enqueue and execution time"
(`src/tasks/todo.md:181`) holds at enqueue of batch runs that do not overlap.

`CheckFresh` takes the type the query declares for `last_synced_at`, a `Date`,
at face value; how the driver delivers it is outside `src/`. No violation run
depends on the skip.

### WorkerRuntime

The process: `start` (database check, workers, timers, first jobs), `workers`,
`pool`, `timers`, `stoppedByIdle`, `idleFor` (time since `lastNonIdleAt`, in
ticks up to the time-out) and each job's state as `getJobCounts` classes it. A
round of the idle monitor (`CheckIdle`, `CountQueue` per queue, `StillBusy` or
`Trip`) interleaves with jobs; time does not pass within a round, and two rounds
do not overlap.

### YoutubeIngestion

A request to the API (`getYoutubeMetrics`) and a job of the worker (`syncUser`)
are both a *sync*: `Start` reads the connected account, `Fetch` asks Google,
then one statement per table. What YouTube says of a channel is a number,
`version`; `shown[c][t]` is the number a table was last given. The order of the
tables is the constant `After`. The two differ where the code does: the worker
skips a user whose channel is fresh; the upsert of content items changes the
owner in the worker only (`ContentOwner`); a refusal of Google that does not
fail the sync leaves out a table that is neither the channel's nor the content
items' (`Optional`). An account that a user has connected is refused to others;
the race of two who connect it at once is in `GoogleAccounts`. `alone` is history:
the syncs no other one of their user or channel has overlapped, which are those
`LoneSyncRepairs` speaks of. When such a sync comes is not said: an open row of
`worker_jobs` that nobody closes keeps its user out of every batch.

`content_metrics` has no unique index. A sync replaces a user's rows of the days
it covers in a transaction; the model keeps one such day, and one row for all
metrics of a sync. PostgreSQL runs at READ COMMITTED: `DeleteMetrics` finds the
rows committed by now, waits (`LockMetrics`) for a transaction that holds some
of them, and passes over those that are gone; `InsertMetrics` commits. A row is
named after the sync that wrote it; the invariant `OwnBatchFound` of the proofs
says why the name is never in use twice.

### YoutubeQueue

Queue `youtube` between API processes: `ingest` (a request has stored videos and
is about to enqueue), `version` and `scored` (which videos the stored scores were
computed from), job state (`place`, `made`, `stalls`, `runner`, `stage`, `snap`)
in Redis, and each process's life (`up`, `opened`). One channel is followed;
`upsertMlScores` is one statement over its videos.

### ApiShutdown

The flag, the counter and the progress of `gracefulShutdown`, with each
request's life. A response that ends normally emits `finish` and later `close`;
a broken one emits `close` alone. `app.close()` runs the destroy hooks, then waits
for the HTTP server (`Closed`), which waits for the requests on its connections;
`CloseFails` is a hook that throws before. So "Wait for in-flight requests to
finish, or until timeout" (`src/src/main.ts:308`) says what the loop does, not the
shutdown: a request that hangs keeps `await app.close()` of line 299 waiting,
before there is a deadline. `ShutdownEnds` names this exception.

### Sessions

Rows of `sessions` (`status`, with `origin`, `parent` and `owner` for the login, the
predecessor and the browser of each), the refresh cookie of each browser
(`jar`) and its requests (`pc`, `token`, `issued`): login, refresh (`Find`,
`CheckUser`, `Revoke`, `Issue`, the answer) and logout. Answers to requests of
one browser may overtake one another; a request may fail at every await.
Signatures and claims of the tokens are not modelled: a token is the session it
names. A user is active or not; `updatePassword` leaves sessions alone and is
left out.

### GoogleAccounts

Rows of `users`, `user_profiles` and `oauth_accounts` (`loginOf`; `grantId`,
`grantSub`, `grantTok`), with one handler per request: signup, login with
Google, connect, refresh, a sync of the worker, disconnect. An e-mail address
names a user and a Google account, a consent the refresh token Google issued for
it; the same person may use any of them. Ids of rows are serial numbers, since
the code writes refreshed tokens by the id it read before it asked Google.
`raced`, `linked` and `dropped` record history for the properties only.

### Tenants

Signups once more, for what `GoogleAccounts` leaves out: the tenant a user is
put into. `tenants` holds slugs, `accounts` the role, tenant and password of each
address; a handler (`at`, `form`) looks for the address, looks for the slug,
creates tenant, user and profile, and is given tokens, and may fail at each
await. What it leaves behind, a tenant without users or a user without tokens,
stays. A slug is the pair of what `slugify` makes of the name and of what follows
the last hyphen. A Google login goes by the address; the way by the Google
account, which creates nothing, is in `GoogleAccounts`.

### Dashboard

One creator's `getMeDashboard` with what it reads: `profile`, `connected` (the
YouTube grant) and `data` (the number of syncs stored), and the two entries in
Redis, `me` and `insights`. A handler is a program counter and what it `held`
between awaits. `RedisCacheService` waits two seconds: an operation that has not
answered goes into `late`, from where it takes effect at any later time or never.
Writers are `onboardCreator` (`StartOnboard`, `UpsertOnboarded`, `DeleteMe`),
`updatePassword`, `loginWithGoogle` with a new picture (`StartLogin`,
`SyncAvatar`, which writes every column back), connect and disconnect, and syncs.
`overlap` records that the last deletion of the entry may have come to nothing:
a dashboard was being computed, or Redis was late, or a login undid the
onboarding; the property says what holds outside of these cases. No property
covers the login that writes an old profile back: the code allows it (the hazard
list has it).

### ApiRequests

`ApiShutdown` with handlers: `approveChannel` and `approvePermissions`
(`CheckCache` in the first only, `ReadChannel`, `ApproveChannel`,
`SetChannelApproved`, `Answer`) and the upsert of a channel by a sync of any user
(`UpsertChannel`). A handler works on after its client has gone, and stops
between two awaits when the process exits. `owners`, `approvers` and `told` are
history.

### Marketplace

`createCampaign`, `addCreatorToCampaign` (check, `UpsertAssignment`),
`scoutCreator` (check, `UpsertScouted`) and `unscoutCreator`, for several requests
at once. The columns of a campaign that its owner writes are left out.

### Evaluation and the pure modules

Pure code is operators, evaluated in one step per case; a case is part of the
initial state, so TLC goes through all of them. `Evaluation` states what results
of different parts owe each other, never what a result is: the copies of the
code are each other's reference.

* `YoutubeFetch`: each call to Google is answered ok, refused with a token that
  has expired (the retry after the refresh counts), forbidden, disabled comments,
  or broken. `ApiFetch` and `WorkerFetch` are the two orders of calls and their
  `catch` blocks; the outcome is what is stored, what is missing and what the
  response says of it.
* `YoutubeNormalization`, `ApiYoutubeRows`, `WorkerYoutubeRows`: the rows of every
  table from one answer. Numbers that parse stand for themselves, a field Google
  leaves out is `Null`; what is written as text and parsed again, as durations
  are, is modelled by the parts the parser reads.
* `DatabaseSchema`: for each table its keys, its references with their ON DELETE
  and its `relations`; for each repository the conflict target and the columns of
  its SET. A row keeps the columns a key or a SET tells apart. `Owners` says whose a
  row is, for the deletions: one user, two for what an SME keeps of a creator, none
  for tenants, audit logs and worker jobs.
* `CreatorInsights`: the windows of days, the sums, the top content and the rates,
  for the creator and, separately written, for an SME. A read with a later clock
  is a read with a later `now`, as two calls of `new Date()` in one request are.
  `ORDER BY ... LIMIT` leaves ties open: the latest of channels created at one
  moment, and the last of videos published at one moment or undated, are any of
  them, so `getLatestChannelForUser` and `getRecentVideosWithScores` are sets of
  answers, a handler is a function of the answers it was given (`Queried`), and
  `Evaluation` pairs every response with what it was `given`. A week has no
  definition of its own here: `Figures` asks that `weeklyGrowth` be a sum over whole
  days, of the last seven or of the last six. The code cuts at this time of the
  seventh day back and the rows are dated at midnight, so it is six at any time but
  midnight, beside `windowDays: 7`.
* `CreatorDiscovery`: filters, joins, orders, limits and offsets of the searches,
  both branches of `SearchRepository`, the cache keys and the statistics. An order
  that is not total leaves a choice, and the operators return a set of answers.

## 3. What the runs check

| run | bounds | shows |
| --- | --- | --- |
| sync_faults | 1 job, 2 slots, 2 batch runs, 2 attempts, 2 stalls, all faults | AttemptsBounded, EveryJobSettles |
| sync_serial | 1 user, 3 jobs, 2 slots, 2 batch runs, 2 attempts, handlers fail | OpenJobsBounded, CompletionAgrees, RowsFollowJobs, OpenRowsClose, LifecycleSpec |
| runtime_life | one job per queue, four modes, time-out of 2 ticks | TripsOnlyWhenDrained, FailedStartReleases |
| runtime_no_exit | the same, no fault | **violated**: IdleExits |
| ingestion | 2 users, 1 channel, 3 tables, 1 request, 1 worker job, 2 versions, 1 failure | CopiesBounded, MetricsNeverVanish, LoneSyncRepairs |
| queue_life | 1 process, 2 jobs, 2 versions, every fault | ScoresCatchUp, ShutdownKeepsJobs, JobsSettle |
| queue_pause | 1 process, signals only | **violated**: StartedWorkerConsumes |
| api_requests | 3 requests, 2 users, deadline of 2 rounds | NeverOvercounted, ApprovalIsDurable, ApprovedByAnOwner, ApprovalLasts, ShutdownEnds |
| sessions | 2 browsers, one with 2 tabs, 3 sessions | RotatedIsRevoked, OneLivePerLogin, CookiesUsable |
| google_accounts | 2 people with Google accounts, 2 consents, 2 row ids, 2 requests | LinkedToOneUser, LoginByOwnAccount, DisconnectedStaysAway |
| dashboard | 2 requests, 2 names, 2 pictures, 2 writes, 1 late operation | OnboardingShown, DashboardCatchesUp |
| values | the cases of `MCEvaluation`; 2 requests of 5 ids and 2 campaigns; 2 signups of 2 addresses | FetchesAgree, RowsAgree, FiguresAgree, UpsertsAreSafe, DeletionsAreClean, SearchesAgree, KeysTellRequestsApart, OnlyCreatorsOffered, TenantsApart |

Violated runs state what a comment or a document of the repository says, and
TLC shows the code doing otherwise; `PROJECT.json` quotes the line:

* *IdleExits*: the monitor sets the flag that makes its own `stop()` return.
* *StartedWorkerConsumes*: the destroy hook pauses the queue in Redis for good.

### Why the bounds are enough

Each hazard that has a property needs few actors. Races between a check and an
insert, a run that lost its lock and its successor, two transactions, two tabs
or two requests that link one account need two actors and one thing they fight
over; a rotated token needs a third session to be told from its successors; a
row that was disconnected and connected again needs two ids. Two attempts and
two stalls have a first, a last and one in between. Two versions are an old and
a new one. In `sync_serial` two batch runs look for the open jobs of one user, and
a third job shows that the bound is of open jobs, not of all.
`YoutubeIngestion` keeps three of the six tables: the channel, which is
stamped first, the demographics, as one that may be left out, and the content
items, whose upsert differs; the other upserts are like one another. Where a
property was proved as well (section 5) the bound does not matter.

In `api_requests` the third request is for an approval that overlaps with a
change of owner while the process waits for another. In `dashboard`, a stale
entry takes a reader, a writer and one late operation; two writes let an
onboarding meet a login or a disconnect. Requests start again without bound, so
two handlers play as many parts as needed, two at a time.

`values` has one oddity at a time, as far as the code reads them apart: two
calls of a fetch fail, each in every way; an answer lists two videos with every
field absent or present and comments that repeat; a table holds one or two rows
against each upsert; every subset of a small crowd of creators is searched;
windows of days end on, before and after an edge; channels are created, and
videos published, at one moment or at no known one. Signups use names that make
one slug, one of them the slug of the administrators' tenant.

Where symmetry is declared (`sessions`, `google_accounts`) all properties are
invariants and no definition tells the permuted values apart.

Deadlock is checked except in the runs whose system stops by design: a worker
process or an API process that has exited takes no step, and a pure case of
`values` ends when it is evaluated.

## 4. Fairness

* *SyncJobs*. Promises of a live event loop go on, so the steps of a slot and of
  a batch run's promise are weakly fair; BullMQ hands out waiting jobs, promotes
  delayed ones and its stalled check returns jobs whose lock is dead. Scans,
  failures and the passing of time are owed to nobody.
* *WorkerRuntime*. The clock ticks, the interval of the monitor fires, BullMQ
  hands out jobs, `stop` and the closing of workers go on once begun. Signals
  and failures are not owed.
* *YoutubeQueue*. Started processes go on with their jobs and their shutdown,
  a stopped process is started again by its supervisor, BullMQ promotes and
  recovers. Picking up is strongly fair: processes stop and start in between.
* *ApiShutdown*, *ApiRequests*. Once `app.close()` has nothing to wait for it
  returns, and the polling loop and the exit go on. Hooks and requests need not
  end.
* *Dashboard*. Entries of Redis die when their TTL is over. No handler is owed
  progress: writes are finitely many, and `DashboardCatchesUp` has to hold
  whether or not the last handlers go on.

`YoutubeIngestion`, `Sessions`, `GoogleAccounts` and `Evaluation` state safety only.

## 5. What is proved

TLAPS checks every statement for every value of the constants that satisfies the
module's ASSUME (finite attempts, disjoint names, `None` outside of the sets).

**SyncJobs.** `FaultInv` is inductive under every fault: a busy slot runs a job
BullMQ knows and that had an attempt left (`SlotInv`), locks are held for active
jobs only (`LockInv`), a job never run has no attempt behind it (`NeverRun`), a
promise holds an id exactly while it is about to add the job (`PromiseInv`).
From it follow `TypeCorrect`, `RowsComeFirstAlways` and `AttemptsAlwaysBounded`.
Under `NoLockLost` (no crash, no stall) `TrustInv` adds
that a busy slot holds the lock of its job, so nobody else writes its row, and
what the row says at each point of a run: `CompletionIsRecorded`. Under
`OnlyHandlersFail`, `AgreeInv` adds the verdict `runJob` has written before
BullMQ gives its own: `RowsAgreeWithJobs`. Under `NoLockLost` again, `SerialInv`
counts the open jobs of a user together with the batch runs that have found none
and are about to create one (`Checked`): a run passes the check only when the
first are none, and its insert moves it from the second to the first. So their
number never exceeds that of the batch runs: `OpenJobsStayBounded`, and, each step
being a step of the abstract life cycle or a stutter, `ImplementsLifecycle`, for any
number of batch runs that race. Without `NoLockLost` a run that lost its lock may
open a closed row again.

**YoutubeIngestion.** `CopiesInv`: batches of a user come from different syncs,
and a sync about to insert has found its own earlier batch, because nobody else
writes under its name and what disappears from its list has disappeared from the
table. Hence `CopiesStayBounded` by an injection into the set of syncs;
`MetricsStay` because only a commit changes the rows and it brings one. `LoneInv`
follows a sync that runs alone from table to table: no other works on its user or
channel (`Apart`), what it has passed has what it fetched, and what its DELETE has
found is all there is (`Stored`); steps of others leave that as it is
(`OtherKeepsLone`), so its commit leaves its own data and nothing else:
`LoneSyncsRepair`.

**Sessions.** `RowInv`: requests carry tokens of rows that exist (`Holders`), a
handler about to insert a session has revoked the one it found (`RevokedFirst`),
and a session on its way to a browser is known to nobody else (`OnItsWay`); so
`RotatedIsRevoked`. `CookieInv`: a browser that keeps a revoked token without
having met an error is about to get other cookies; so `CookiesUsable`.
`ChainInv`: sessions descend from one another within a login (`Descent`), and a
request of a serial browser past its check presents the only live one
(`LastOfChain`); so `OneLivePerLogin`. What handlers hold between two awaits
decides, which is why none of the properties is inductive by itself.

**GoogleAccounts.** `GrantInv`: ids are given once (`Ids`), a refresh under way
knows the one row its token belongs to (`Homes`), a new consent is known only to
the request that connects it (`Fresh`), and the row a dropped token belonged to
is gone (`Gone`); so an update by a stale id finds nothing: `DisconnectIsFinal`.
`LoginInv` carries what a login handler knows of its user to the upsert:
`LoginIsOwn`. `OwnerInv` does so for an account that is not raced: `OneOwner`.

**ApiShutdown.** `CountInv` adds to the bound that the requests in flight are
finitely many. An arrival adds one to both sides, the end of a request takes one
off both, and the second event of a finished response only lowers the counter:
`CounterNeverLeaks`.

**ApiRequests.** `Implements` maps each step to one of `ApiShutdown` or a
stutter, so the counter's bound carries over (`HandlersDoNotLeak`).
`ApprovalInv` says of each handler what its place implies: past the check its
user has owned the channel, past the update the channel is approved. Hence
`DurableApproval` and `OwnersApprove`, which a change of owner in between does not
disturb; `ApprovalStays` because no upsert sets the column.

**Dashboard.** A deletion that meets no reader leaves an empty entry, and from
then on whatever the entry may be made of, the entry itself, late sets and the
handlers past their read of the profile, is of an onboarded profile. This
strengthening (`Fresh`) is what makes `OnboardingIsShown` inductive.

**YoutubeQueue.** A job that is locked is active, and its process lives and has
work in hand (`Locks`, `LocksAreHeld`), so the shutdown of a process, which
waits for the jobs in hand, never leaves one active behind:
`ShutdownsKeepJobs`. That scores catch up holds of one process that takes one
job at a time (`OneAtATime`; the hazard list has the two jobs for which it
fails). Then `ScoreInv` is inductive: only one job is past its read (`Alone`), a
job's reading is never older than the scores (`Forward`), and as long as the
scores are behind what was enqueued some job that will read anew, or has read
enough, is still due (`Owed`): `ScoresFollow`.

**WorkerRuntime.** `RuntimeInv` relates a round of the idle monitor to the queues
it counts one after the other: what a round that has found nothing so far did not
see either waits in a queue still to be counted or was added by a scan that is
itself still to be counted (`NothingMissed`), and the process has started once
(`StartedOnce`). Hence `MonitorTripsWhenDrained`, under the hypothesis
`"row" \notin Faults`: a job whose write to `worker_jobs` is refused does not renew
`lastNonIdleAt`, and with that fault TLC finds the property violated.

**Marketplace** runs inside `Evaluation` (`PartsRun`). A request between check and
write carries a pair that passed the check, and neither roles nor owners change:
`CreatorsOffered`, `AssignedByOwners`; no assignment is ever deleted: `CountsGrow`.

**Tenants.** The slug a handler looks for or creates ends in the role it signs up
(`SlugTellsRole`), so the slug of a user's tenant ends in the user's role, and
users whose tenant is the same have the same role (`AccountsInv`). So
`TenantsStayApart`, however signups interleave.

**The pure modules.** `CasesInvariant` says that a result is what the operators make
of a case that `CasesAssumption` allows; each property then follows for every
such case, not only those of `MCEvaluation`.

* `FetchesAlwaysAgree`: both orders of calls take the same decision at each of them
  (`CallErrors`), so a response that stores has passed the calls that must succeed
  (`StoredFetch`).
* `KeysTellApart`: the keys of the operations differ in length (8, 9 and 4 parts),
  and each is an injective function of what the answer depends on.
* `WritesAreSafe`: the second run of a statement finds the row of the first by the
  conflict target (`TargetKept`) and sets it to itself; every other unique index
  is one the target implies, but for the one on Google identities.
* `DeletionsStayClean`: references descend from a table to one of lower depth
  (`SchemaDescends`), so the cascade is complete after three rounds
  (`CascadeIsComplete`). None of its references leads into users, audit logs or jobs
  (`CascadeSparesTrails`, `SparedStays`), so of those only the deleted row goes. A
  cascading reference leads to rows that belong to all the owners of the row
  referred to (`SchemaCascades`, `ReferringBelongs`), so all that goes belongs to
  everyone the deleted row belongs to (`CascadeBelongs`, `DeletedBelongs`). Rows of
  two owners, as an SME's note of a creator, go with either.
* `SearchesAlwaysAgree`: the orders are total because they end in the id, so a
  page is a range of one order and two pages are disjoint ranges
  (`OneOrderOfFound`, `PageOfRows`); every hit is a hit with pg_trgm
  (`SimilarFindsMore`); the summary's folds are sums over the creators the search
  lists (`SummarySums`).
* `FiguresAlwaysAgree`: whatever the queries answer where their order leaves ties.
  The totals, the time series and the fold an SME is given are sums over the same
  set of days (`TotalAddsUp`, `GrowthsAdd`, `SmeTotalsAreTotals`); the week's cut
  lies between two midnights, so the days after it are whole and are the last six
  or seven (`WeekStartsAtMidnight`, `FirstDayIsRecent`). An answer of the videos
  holds none twice and only such as there are (`QueriedIsShown`), so both views of
  it list the same counts (`ContentIsTopContent`), and growth depends on the
  channel alone (`GrowthIsOfChannel`), top content and rates on the answer
  (`SmeIsShownTheSame`).
* `RowsAlwaysAgree`: what one copy filters, the other filters at the same indices
  (`VideosStored`, `ThreadsFetched`, `SharesKept`, `CountriesKept`); a
  deduplication that looks for an earlier comment of the same id and one that
  looks into what it has kept both keep the first of each id (`ApiDedupes`,
  `WorkerDedupes`); the rows of the videos, one after the other, have each comment
  once, as a comment is of one video (`Flattened`, `CommentsStored`). It assumes
  of Google's answers what `IsAnswer` says: the ids of videos, and the values
  within a report, are distinct, a comment is of one video, no country has a
  negative number of views, a snippet has a title. The last two are where the
  copies differ: the API leaves out the country and the video, the worker stores
  them.

These need induction over numbers, finite sets and sequences. The library's
induction theorems take an operator as a parameter, which no installed prover
instantiates; `DataProofs` derives what is needed from one fact, that a set of
numbers that is not empty has a least one (`LeastNatural`): `Induction` over subsets
of Nat, the existence and uniqueness of folds as functions (`FoldExists`,
`LeftFoldExists`, `RunsAreUnique`), and that a sum does not depend on its order
(`AnyOrder`, `SumAlong`). It is also why `filter` and `sort` are in closed form in
`Arrays`: `SortSeq` leaves the order of ties open, where JavaScript's sort is
stable, and `SelectSeq` cannot be unfolded by the provers.

**Only model-checked**: liveness (EveryJobSettles, OpenRowsClose,
JobsSettle, ShutdownEnds, FailedStartReleases, DashboardCatchesUp), which needs
fairness. Every invariant and every action property of a run is stated by a
theorem. Type invariants (`TypeCorrect` and the like) and
`RowsComeFirst` are proved and in no run.

## 6. What is not modelled

* Cache entries other than the dashboard, its insights and the approval: nothing
  deletes them, they die with their TTL; of the searches' the keys are modelled.
* Properties the code does not have are not stated in a weaker form that looks
  like them: that no login undoes an onboarding, that every overdue user gets a
  sync, that a creator whose analytics Google forbids keeps the old ones. The
  hazard list has them, with a note where no property covers them. A response that
  ends normally is counted off twice; `NeverOvercounted` bounds the counter from
  above only.
* The audit log, which nothing reads; e-mail verification, which only stamps a
  column; `updatePassword` as far as sessions go: it touches none.
* Columns of tables that no key, SET or property tells apart; migrations.
* Logging, filters, guards, DTOs, Swagger, health, seeds: they keep no state.
* The legacy ingestion service `modules/ingestion/youtube/youtube.service.ts`:
  no module provides it.
* `moveJobToDlq`, `deleteChannel` and `countCreatorsForCampaign` have no caller.
* Signatures, encryption and the inside of Google, PostgreSQL, Redis and BullMQ,
  beyond what the code relies on.

## 7. Plan

A refinement from `YoutubeIngestion` to one abstract step per sync, for syncs that
do not overlap.
