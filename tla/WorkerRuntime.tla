--------------------------- MODULE WorkerRuntime ---------------------------
(***************************************************************************)
(* The life of one worker process (WorkerQueueRuntimeService inside the    *)
(* Fastify app): start() checks the database, opens the BullMQ workers and *)
(* arms either the scheduler or the idle monitor; app.close() after a      *)
(* start that failed runs stop(); the idle monitor reads the three queues  *)
(* and stops the process when they have been empty long enough.            *)
(*                                                                         *)
(* lastNonIdleAt is kept as idleFor, the time since then in ticks, and     *)
(* never grows past IdleTimeout.  A monitor's round is short beside a      *)
(* tick: time does not pass while it runs.  What a job does to its row is  *)
(* in SyncJobs; here it matters when a job touches lastNonIdleAt.          *)
(***************************************************************************)
EXTENDS Naturals, FiniteSets

CONSTANTS
    Jobs,
    QueueOf,           \* the queue each job belongs to
    Modes,             \* <<WORKER_SCHEDULER_ENABLED, WORKER_EXIT_ON_IDLE>>
    IdleTimeout,       \* idleTimeoutMs in ticks
    Faults             \* "start", "row", "redis"

Queues == {"batch", "sync", "ml"}

ASSUME RuntimeAssumption ==
    /\ QueueOf \in [Jobs -> Queues]
    /\ Modes \subseteq BOOLEAN \X BOOLEAN
    /\ IdleTimeout \in Nat \ {0}
    /\ Faults \subseteq {"start", "row", "redis"}

VARIABLES
    mode,           \* the mode this process was started in
    start,          \* how far start() is
    workers,        \* the three BullMQ workers
    pool,           \* the PostgreSQL pool and the queue connections
    timers,         \* the intervals that are armed
    stoppedByIdle,
    idleFor,
    job,            \* the state of each job, of BullMQ and of its handler
    unread,         \* the queues a round of the idle monitor has yet to count
    busy,           \* that round has counted a job
    checking        \* a round of the idle monitor is under way

lifeVars  == <<mode, start, workers, pool, timers>>
checkVars == <<unread, busy, checking>>
runtimeVars == <<lifeVars, stoppedByIdle, idleFor, job, checkVars>>

\* getJobCounts('waiting', 'active', 'delayed', 'paused')
Counted == {"waiting", "picked", "running", "marked", "delayed"}

SchedulerEnabled == mode[1]
ExitOnIdle == mode[2]

RuntimeTypeOK ==
    /\ mode \in Modes
    /\ start \in {"assert", "batch", "ml", "up", "failed"}
    /\ workers \in {"none", "open", "closing", "closed"}
    /\ pool \in {"open", "ended"}
    /\ timers \subseteq {"batch", "ml", "idle"}
    /\ stoppedByIdle \in BOOLEAN
    /\ idleFor \in 0..IdleTimeout
    /\ job \in [Jobs -> Counted \cup {"none", "settled"}]
    /\ unread \subseteq Queues /\ busy \in BOOLEAN /\ checking \in BOOLEAN

\* Jobs may wait from before the process was started.
RuntimeInit ==
    /\ mode \in Modes
    /\ start = "assert" /\ workers = "none" /\ pool = "open" /\ timers = {}
    /\ stoppedByIdle = FALSE /\ idleFor = 0
    /\ job \in [Jobs -> {"none", "waiting"}]
    /\ unread = {} /\ busy = FALSE /\ checking = FALSE

-----------------------------------------------------------------------------
(* start()                                                                 *)

DatabaseReady ==
    /\ start = "assert"
    /\ workers' = "open"
    /\ IF SchedulerEnabled
       THEN start' = "batch" /\ timers' = {"batch", "ml"}
       ELSE start' = "up" /\ timers' = IF ExitOnIdle THEN {"idle"} ELSE {}
    /\ idleFor' = 0
    /\ UNCHANGED <<mode, pool, stoppedByIdle, job, checkVars>>

NotReady ==
    /\ "start" \in Faults
    /\ start = "assert"
    /\ start' = "failed"
    /\ UNCHANGED <<mode, workers, pool, timers, stoppedByIdle, idleFor, job, checkVars>>

Enqueue(q) ==
    /\ \E j \in Jobs : /\ QueueOf[j] = q /\ job[j] = "none"
                       /\ job' = [job EXCEPT ![j] = "waiting"]
    /\ idleFor' = 0

\* The first scan and the first ML job are awaited, one after the other.
FirstJob ==
    /\ \/ start = "batch" /\ Enqueue("batch") /\ start' = "ml"
       \/ start = "ml" /\ Enqueue("ml") /\ start' = "up"
    /\ UNCHANGED <<mode, workers, pool, timers, stoppedByIdle, checkVars>>

FirstJobFails ==
    /\ "start" \in Faults
    /\ start \in {"batch", "ml"}
    /\ start' = "failed"
    /\ UNCHANGED <<mode, workers, pool, timers, stoppedByIdle, idleFor, job, checkVars>>

\* An interval fires; a failure is an unhandled rejection, which is logged.
IntervalFires(q) ==
    /\ q \in timers \cap {"batch", "ml"}
    /\ pool = "open"
    /\ Enqueue(q)
    /\ UNCHANGED <<lifeVars, stoppedByIdle, checkVars>>

-----------------------------------------------------------------------------
(* app.close() and stop()                                                  *)

\* Faulty: stop() gives up when the workers were never created.
StopWithWorkersOnly ==
    /\ start = "failed" /\ pool = "open"
    /\ workers # "none"
    /\ timers' = {}
    /\ pool' = "ended"
    /\ workers' = "closing"
    /\ UNCHANGED <<mode, start, stoppedByIdle, idleFor, job, checkVars>>

\* Promise.all: the pool is ended at once, the workers wait for their jobs.
Stop ==
    /\ start = "failed" /\ pool = "open"
    /\ ~stoppedByIdle
    /\ timers' = {}
    /\ pool' = "ended"
    /\ workers' = IF workers = "none" THEN "closed" ELSE "closing"
    /\ UNCHANGED <<mode, start, stoppedByIdle, idleFor, job, checkVars>>

InHand == {j \in Jobs : job[j] \in {"picked", "running", "marked"}}

WorkersClosed ==
    /\ workers = "closing" /\ InHand = {}
    /\ workers' = "closed"
    /\ UNCHANGED <<mode, start, pool, timers, stoppedByIdle, idleFor, job, checkVars>>

-----------------------------------------------------------------------------
(* Jobs in the hands of this process.                                      *)

PickUp(j) ==
    /\ workers = "open" /\ job[j] = "waiting"
    /\ job' = [job EXCEPT ![j] = "picked"]
    /\ UNCHANGED <<lifeVars, stoppedByIdle, idleFor, checkVars>>

MarkActive(j) ==
    /\ job[j] = "picked" /\ pool = "open"
    /\ job' = [job EXCEPT ![j] = "running"]
    /\ idleFor' = 0
    /\ UNCHANGED <<lifeVars, stoppedByIdle, checkVars>>

\* handleBatchJob adds sync jobs.
AddSync(j, k) ==
    /\ job[j] = "running" /\ QueueOf[j] = "batch"
    /\ job[k] = "none" /\ QueueOf[k] = "sync"
    /\ job' = [job EXCEPT ![k] = "waiting"]
    /\ UNCHANGED <<lifeVars, stoppedByIdle, idleFor, checkVars>>

\* Faulty: lastNonIdleAt is not renewed when the handler has ended.
MarkEndedSilently(j) ==
    /\ job[j] = "running" /\ pool = "open"
    /\ job' = [job EXCEPT ![j] = "marked"]
    /\ UNCHANGED <<lifeVars, stoppedByIdle, idleFor, checkVars>>

\* markCompleted or markFailed
MarkEnded(j) ==
    /\ job[j] = "running" /\ pool = "open"
    /\ job' = [job EXCEPT ![j] = "marked"]
    /\ idleFor' = 0
    /\ UNCHANGED <<lifeVars, stoppedByIdle, checkVars>>

\* A write to worker_jobs is refused, as each is once the pool has ended.
MarkFails(j) ==
    /\ job[j] \in {"picked", "running"}
    /\ pool = "ended" \/ "row" \in Faults
    /\ job' = [job EXCEPT ![j] = "marked"]
    /\ UNCHANGED <<lifeVars, stoppedByIdle, idleFor, checkVars>>

\* BullMQ takes the job back.
Settle(j) ==
    /\ job[j] = "marked"
    /\ \E to \in {"settled", "delayed"} : job' = [job EXCEPT ![j] = to]
    /\ UNCHANGED <<lifeVars, stoppedByIdle, idleFor, checkVars>>

Promote(j) ==
    /\ job[j] = "delayed"
    /\ job' = [job EXCEPT ![j] = "waiting"]
    /\ UNCHANGED <<lifeVars, stoppedByIdle, idleFor, checkVars>>

-----------------------------------------------------------------------------
(* checkIdleAndExit                                                        *)

CheckIdle ==
    /\ "idle" \in timers /\ ~checking /\ ~stoppedByIdle
    /\ checking' = TRUE /\ busy' = FALSE /\ unread' = Queues
    /\ UNCHANGED <<lifeVars, stoppedByIdle, idleFor, job>>

\* The three answers of Promise.all come from Redis one at a time.
CountQueue(q) ==
    /\ q \in unread
    /\ unread' = unread \ {q}
    /\ busy' = (busy \/ \E j \in Jobs : QueueOf[j] = q /\ job[j] \in Counted)
    /\ UNCHANGED <<lifeVars, stoppedByIdle, idleFor, job, checking>>

\* Redis does not answer: the round ends in an unhandled rejection.
CountFails ==
    /\ "redis" \in Faults
    /\ unread # {}
    /\ unread' = {} /\ checking' = FALSE
    /\ UNCHANGED <<lifeVars, stoppedByIdle, idleFor, job, busy>>

RoundDone == checking /\ unread = {}

StillBusy ==
    /\ RoundDone
    /\ busy \/ idleFor < IdleTimeout
    /\ idleFor' = IF busy THEN 0 ELSE idleFor
    /\ checking' = FALSE
    /\ UNCHANGED <<lifeVars, stoppedByIdle, job, unread, busy>>

\* stoppedByIdle is set before this.stop() is called, which therefore returns
\* without closing anything.
Trip ==
    /\ RoundDone
    /\ ~busy /\ idleFor = IdleTimeout
    /\ stoppedByIdle' = TRUE
    /\ timers' = timers \ {"idle"}
    /\ checking' = FALSE
    /\ UNCHANGED <<mode, start, workers, pool, idleFor, job, unread, busy>>

Tick ==
    /\ ~checking /\ idleFor < IdleTimeout
    /\ idleFor' = idleFor + 1
    /\ UNCHANGED <<lifeVars, stoppedByIdle, job, checkVars>>

-----------------------------------------------------------------------------
Starting == DatabaseReady \/ NotReady \/ FirstJob \/ FirstJobFails

Handle(j) == MarkActive(j) \/ MarkEnded(j) \/ MarkFails(j) \/ Settle(j)

CheckStep == (\E q \in Queues : CountQueue(q)) \/ StillBusy \/ Trip

RuntimeNext ==
    \/ Starting \/ Stop \/ WorkersClosed
    \/ CheckIdle \/ CheckStep \/ CountFails \/ Tick
    \/ \E q \in Queues : IntervalFires(q)
    \/ \E j \in Jobs : \/ PickUp(j) \/ Handle(j) \/ Promote(j)
                       \/ \E k \in Jobs : AddSync(j, k)

RuntimeSpec == RuntimeInit /\ [][RuntimeNext]_runtimeVars

\* The event loop runs what is due, time passes, BullMQ hands out jobs.
RuntimeFairness ==
    /\ WF_runtimeVars(DatabaseReady \/ NotReady)
    /\ WF_runtimeVars(Stop) /\ WF_runtimeVars(WorkersClosed)
    /\ WF_runtimeVars(CheckIdle) /\ WF_runtimeVars(CheckStep) /\ WF_runtimeVars(Tick)
    /\ \A j \in Jobs : WF_runtimeVars(PickUp(j)) /\ WF_runtimeVars(Handle(j))

RuntimeFairSpec == RuntimeSpec /\ RuntimeFairness

-----------------------------------------------------------------------------
\* The three queues are counted at different moments while a scan moves work
\* from one to another.  Still, while no other process adds jobs and the database
\* takes every write, the monitor trips only when nothing is waiting or in hand
\* anywhere: whoever moves work renews lastNonIdleAt.  (runJob does not renew it
\* when a write to worker_jobs is refused.)
TripsOnlyWhenDrained ==
    [][stoppedByIdle' /\ ~stoppedByIdle =>
         \A j \in Jobs : job[j] \notin Counted]_runtimeVars

\* A start that failed, before or after the workers were opened, ends with
\* everything closed.
FailedStartReleases ==
    start = "failed" ~> workers = "closed" /\ pool = "ended" /\ timers = {}

\* "Added idle monitor that exits after queues remain empty for the configured
\* timeout."
IdleExits == stoppedByIdle ~> workers = "closed"
=============================================================================
