---------------------------- MODULE YoutubeQueue ----------------------------
(***************************************************************************)
(* The BullMQ queue 'youtube' of the API: an ingestion request stores the  *)
(* videos of a channel and adds a scoring job, the worker registered by    *)
(* each API process reads the videos back and upserts their scores, and    *)
(* the queue is paused when a process shuts down.                          *)
(*                                                                         *)
(* Queue state is in Redis and outlives every process; each process also   *)
(* remembers whether it has opened the queue, for only then does it pause  *)
(* it.  One channel is followed.  version counts the times its videos were *)
(* stored, scored is the version its scores were computed from, and queued *)
(* the version there was when a request was last answered that its scoring *)
(* is under way.                                                           *)
(***************************************************************************)
EXTENDS Naturals, FiniteSets

CONSTANTS
    Instances,    \* API processes
    Jobs,         \* ids BullMQ generates; a bound of the model
    MaxVersion,   \* a bound of the model on ingestions
    Concurrency,  \* BULLMQ_WORKER_CONCURRENCY
    MaxAttempts,  \* getRetryConfig().attempts
    MaxStalls,    \* BullMQ's maxStalledCount
    Faults,       \* "handler", "enqueue", "crash", and "signal": a shutdown
    Nobody

ASSUME QueueAssumption ==
    /\ MaxAttempts \in Nat \ {0}
    /\ MaxStalls \in Nat /\ Concurrency \in Nat \ {0} /\ MaxVersion \in Nat
    /\ Faults \subseteq {"handler", "enqueue", "crash", "signal"}
    /\ Nobody \notin Instances

VARIABLES
    up,       \* "up", "closing" or "down", for each process
    opened,   \* the processes whose QueueService holds the queue
    ingest,   \* "idle" or "stored": the ingestion request of each process
    version,
    scored,
    queued,
    place,    \* where BullMQ keeps each job
    made,     \* attemptsMade
    stalls,
    runner,   \* the process whose worker holds the job's lock
    stage,    \* how far process(job) is
    snap,     \* the version process(job) has read
    paused,   \* the queue is paused, in Redis, for every process
    crashed   \* a process has crashed, a history for ShutdownKeepsJobs

processVars == <<up, opened, ingest>>
dataVars    == <<version, scored, queued>>
jobVars     == <<place, made, stalls, runner, stage, snap>>
queueVars   == <<processVars, dataVars, jobVars, paused, crashed>>

Open == {"waiting", "active", "delayed"}

QueueTypeOK ==
    /\ up \in [Instances -> {"up", "closing", "down"}]
    /\ opened \subseteq Instances
    /\ ingest \in [Instances -> {"idle", "stored"}]
    /\ version \in Nat /\ scored \in Nat /\ queued \in Nat
    /\ place \in [Jobs -> Open \cup {"none", "completed", "failed"}]
    /\ made \in [Jobs -> Nat] /\ stalls \in [Jobs -> Nat]
    /\ runner \in [Jobs -> Instances \cup {Nobody}]
    /\ stage \in [Jobs -> {"read", "store", "done"}]
    /\ snap \in [Jobs -> Nat]
    /\ paused \in BOOLEAN /\ crashed \in BOOLEAN

QueueInit ==
    /\ up = [i \in Instances |-> "up"]
    /\ opened = {}
    /\ ingest = [i \in Instances |-> "idle"]
    /\ version = 0 /\ scored = 0 /\ queued = 0
    /\ place = [j \in Jobs |-> "none"]
    /\ made = [j \in Jobs |-> 0] /\ stalls = [j \in Jobs |-> 0]
    /\ runner = [j \in Jobs |-> Nobody]
    /\ stage = [j \in Jobs |-> "read"]
    /\ snap = [j \in Jobs |-> 0]
    /\ paused = FALSE /\ crashed = FALSE

-----------------------------------------------------------------------------
(* Ingestion: store, then enqueue.                                         *)

StoreVideos(i) ==
    /\ up[i] = "up" /\ ingest[i] = "idle"
    /\ version < MaxVersion
    /\ version' = version + 1
    /\ ingest' = [ingest EXCEPT ![i] = "stored"]
    /\ UNCHANGED <<up, opened, scored, queued, jobVars, paused, crashed>>

\* addYoutubeMetricsJob.  A depth above the backpressure limit is logged only.
Add(i, j) ==
    /\ up[i] = "up" /\ ingest[i] = "stored"
    /\ place[j] = "none"
    /\ place' = [place EXCEPT ![j] = "waiting"]
    /\ opened' = opened \cup {i}
    /\ ingest' = [ingest EXCEPT ![i] = "idle"]
    /\ queued' = version
    /\ UNCHANGED <<up, version, scored, made, stalls, runner, stage, snap,
                   paused, crashed>>

\* enqueueIngestionJobs answers with a warning: scoring is deferred.  Once the
\* process is closing its queue no longer takes jobs.
AddFails(i) ==
    /\ ingest[i] = "stored"
    /\ up[i] = "closing" \/ (up[i] = "up" /\ "enqueue" \in Faults)
    /\ opened' = IF up[i] = "up" THEN opened \cup {i} ELSE opened
    /\ ingest' = [ingest EXCEPT ![i] = "idle"]
    /\ UNCHANGED <<up, dataVars, jobVars, paused, crashed>>

-----------------------------------------------------------------------------
(* The worker of a process runs YoutubeMetricsProcessor.process.           *)

Held(i) == {j \in Jobs : runner[j] = i}

PickUp(i, j) ==
    /\ up[i] = "up" /\ ~paused
    /\ place[j] = "waiting"
    /\ Cardinality(Held(i)) < Concurrency
    /\ place' = [place EXCEPT ![j] = "active"]
    /\ runner' = [runner EXCEPT ![j] = i]
    /\ stage' = [stage EXCEPT ![j] = "read"]
    /\ UNCHANGED <<processVars, dataVars, made, stalls, snap, paused, crashed>>

ReadVideos(j) ==
    /\ runner[j] # Nobody /\ stage[j] = "read"
    /\ snap' = [snap EXCEPT ![j] = version]
    /\ stage' = [stage EXCEPT ![j] = "store"]
    /\ UNCHANGED <<processVars, dataVars, place, made, stalls, runner, paused,
                   crashed>>

\* upsertMlScores: one row per video, the last writer wins.
StoreScores(j) ==
    /\ runner[j] # Nobody /\ stage[j] = "store"
    /\ scored' = snap[j]
    /\ stage' = [stage EXCEPT ![j] = "done"]
    /\ UNCHANGED <<processVars, version, queued, place, made, stalls, runner,
                   snap, paused, crashed>>

Leave(j, to) ==
    /\ place' = [place EXCEPT ![j] = to]
    /\ made' = [made EXCEPT ![j] = @ + 1]
    /\ runner' = [runner EXCEPT ![j] = Nobody]

Complete(j) ==
    /\ runner[j] # Nobody /\ stage[j] = "done"
    /\ Leave(j, "completed")
    /\ UNCHANGED <<processVars, dataVars, stalls, stage, snap, paused, crashed>>

\* Faulty: process swallows the error, so BullMQ sees a success.
FailSwallowed(j) ==
    /\ "handler" \in Faults
    /\ runner[j] # Nobody /\ stage[j] # "done"
    /\ Leave(j, "completed")
    /\ UNCHANGED <<processVars, dataVars, stalls, stage, snap, paused, crashed>>

\* Faulty: attempts is not passed to BullMQ's verdict, which retries for ever.
FailForEver(j) ==
    /\ "handler" \in Faults
    /\ runner[j] # Nobody /\ stage[j] # "done"
    /\ place' = [place EXCEPT ![j] = "delayed"]
    /\ runner' = [runner EXCEPT ![j] = Nobody]
    /\ UNCHANGED <<processVars, dataVars, made, stalls, stage, snap, paused,
                   crashed>>

\* process rethrows every error and BullMQ retries until attempts is spent;
\* nothing calls moveJobToDlq.
Fail(j) ==
    /\ "handler" \in Faults
    /\ runner[j] # Nobody /\ stage[j] # "done"
    /\ Leave(j, IF made[j] + 1 >= MaxAttempts THEN "failed" ELSE "delayed")
    /\ UNCHANGED <<processVars, dataVars, stalls, stage, snap, paused, crashed>>

Promote(j) ==
    /\ place[j] = "delayed"
    /\ place' = [place EXCEPT ![j] = "waiting"]
    /\ UNCHANGED <<processVars, dataVars, made, stalls, runner, stage, snap,
                   paused, crashed>>

\* The lock of a job whose process died runs out.
Stall(j) ==
    /\ place[j] = "active" /\ runner[j] = Nobody
    /\ stalls' = [stalls EXCEPT ![j] = @ + 1]
    /\ place' = [place EXCEPT ![j] =
                   IF stalls[j] + 1 > MaxStalls THEN "failed" ELSE "waiting"]
    /\ UNCHANGED <<processVars, dataVars, made, runner, stage, snap, paused,
                   crashed>>

-----------------------------------------------------------------------------
(* Processes come and go.                                                  *)

Signal(i) ==
    /\ "signal" \in Faults
    /\ up[i] = "up"
    /\ up' = [up EXCEPT ![i] = "closing"]
    /\ UNCHANGED <<opened, ingest, dataVars, jobVars, paused, crashed>>

\* QueueService.onModuleDestroy: Queue.pause() pauses the queue in Redis.
PauseQueue(i) ==
    /\ up[i] = "closing" /\ i \in opened
    /\ paused' = TRUE
    /\ opened' = opened \ {i}
    /\ UNCHANGED <<up, ingest, dataVars, jobVars, crashed>>

\* Faulty: the worker is not closed, the process just exits.
ExitWithoutWaiting(i) ==
    /\ up[i] = "closing" /\ i \notin opened
    /\ up' = [up EXCEPT ![i] = "down"]
    /\ ingest' = [ingest EXCEPT ![i] = "idle"]
    /\ UNCHANGED <<opened, dataVars, jobVars, paused, crashed>>

\* YoutubeQueueWorker.onModuleDestroy has waited for the jobs in hand.
ExitProcess(i) ==
    /\ up[i] = "closing" /\ i \notin opened /\ Held(i) = {}
    /\ up' = [up EXCEPT ![i] = "down"]
    /\ ingest' = [ingest EXCEPT ![i] = "idle"]
    /\ UNCHANGED <<opened, dataVars, jobVars, paused, crashed>>

Crash(i) ==
    /\ "crash" \in Faults
    /\ up[i] # "down"
    /\ up' = [up EXCEPT ![i] = "down"]
    /\ opened' = opened \ {i}
    /\ ingest' = [ingest EXCEPT ![i] = "idle"]
    /\ runner' = [j \in Jobs |-> IF runner[j] = i THEN Nobody ELSE runner[j]]
    /\ crashed' = TRUE
    /\ UNCHANGED <<dataVars, place, made, stalls, stage, snap, paused>>

\* onModuleInit registers the worker; no code resumes the queue.
Start(i) ==
    /\ up[i] = "down"
    /\ up' = [up EXCEPT ![i] = "up"]
    /\ UNCHANGED <<opened, ingest, dataVars, jobVars, paused, crashed>>

-----------------------------------------------------------------------------
Process(j) == ReadVideos(j) \/ StoreScores(j) \/ Complete(j)

\* The bounds on versions or job ids are spent.
Exhausted ==
    /\ version = MaxVersion \/ \A j \in Jobs : place[j] # "none"
    /\ UNCHANGED queueVars

QueueNext ==
    \/ \E i \in Instances :
         \/ StoreVideos(i) \/ AddFails(i)
         \/ Signal(i) \/ PauseQueue(i) \/ ExitProcess(i) \/ Crash(i) \/ Start(i)
         \/ \E j \in Jobs : Add(i, j) \/ PickUp(i, j)
    \/ \E j \in Jobs : Process(j) \/ Fail(j) \/ Promote(j) \/ Stall(j)
    \/ Exhausted

QueueSpec == QueueInit /\ [][QueueNext]_queueVars

\* Processes that stop are started again, a worker that may take a job takes
\* one, and a job in hand goes on.
QueueFairness ==
    /\ \A i \in Instances : /\ WF_queueVars(PauseQueue(i))
                             /\ WF_queueVars(ExitProcess(i))
                             /\ WF_queueVars(Start(i))
    /\ \A j \in Jobs : /\ SF_queueVars(\E i \in Instances : PickUp(i, j))
                       /\ WF_queueVars(Process(j)) /\ WF_queueVars(Promote(j))
                       /\ WF_queueVars(Stall(j))

QueueFairSpec == QueueSpec /\ QueueFairness

-----------------------------------------------------------------------------
\* One worker with one job at a time: once the queue has drained with no job
\* given up, the scores are at least as new as the videos of every request that
\* was answered with a job, however often jobs were retried and overtook each
\* other, and whatever shutdowns and refused adds came between.
ScoresCatchUp ==
    (\A j \in Jobs : place[j] \in {"none", "completed"}) => scored >= queued

\* "Allows in-flight jobs to complete before connection closes": unless a
\* process crashes, an active job is in the hands of a process that lives, so
\* a shutdown at any point makes no job stall and run twice.
ShutdownKeepsJobs ==
    crashed \/ \A j \in Jobs :
      place[j] = "active" => runner[j] # Nobody /\ up[runner[j]] # "down"

\* Every job is completed or given up, unless a shutdown has paused the queue:
\* neither retries nor crashes keep it there for ever.
JobsSettle ==
    \A j \in Jobs :
      place[j] \in Open ~> place[j] \in {"completed", "failed"} \/ paused

\* "Worker will start consuming jobs from the youtube queue": a process that
\* is up and stays up takes every waiting job in the end.
StartedWorkerConsumes ==
    \A i \in Instances, j \in Jobs :
      up[i] = "up" /\ place[j] = "waiting"
        ~> up[i] # "up" \/ place[j] # "waiting"
=============================================================================
