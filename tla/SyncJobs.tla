------------------------------ MODULE SyncJobs ------------------------------
(***************************************************************************)
(* The life of a YouTube sync job in the worker process: the rows of table *)
(* worker_jobs, the BullMQ queue 'youtube-sync', the invocations of        *)
(* handleBatchJob that scan for due users and enqueue one job per user,    *)
(* and the worker slots that run the jobs through runJob and syncUser.     *)
(*                                                                         *)
(* Rows live in PostgreSQL and jobs in Redis.  No transaction spans the    *)
(* two and no unique constraint protects "one open job per user", so every *)
(* await of the code is a step here and the steps of different slots and   *)
(* batch runs interleave.                                                  *)
(*                                                                         *)
(* A user stands for an active account with a youtube-connect grant.  The  *)
(* age of its channel is reduced to one bit, fresh[u]: last_synced_at is   *)
(* younger than YOUTUBE_SYNC_STALE_AFTER_MINUTES.                          *)
(***************************************************************************)
EXTENDS Naturals, FiniteSets

CONSTANTS
    Users,        \* accounts findDueYoutubeSyncUsers may return
    JobIds,       \* the values randomUUID() yields; a bound of the model
    Slots,        \* places a sync job runs: a process and its concurrency
    BatchRuns,    \* concurrent invocations of handleBatchJob
    BatchSize,    \* YOUTUBE_SYNC_BATCH_SIZE
    MaxAttempts,  \* jobOptions.attempts = BULLMQ_MAX_RETRIES + 1
    MaxStalls,    \* BullMQ's maxStalledCount, which the code leaves alone
    Faults,       \* which failures the environment may produce
    None

FaultKinds == {"handler", "db", "enqueue", "crash", "stall"}

ASSUME ConstantsAssumption ==
    /\ MaxAttempts \in Nat \ {0}
    /\ MaxStalls \in Nat
    /\ BatchSize \in Nat \ {0}
    /\ Faults \subseteq FaultKinds
    /\ IsFiniteSet(BatchRuns)
    /\ None \notin Users \cup JobIds \cup Slots

VARIABLES
    rowStatus,    \* worker_jobs.status, "absent" while there is no row
    rowUser,      \* worker_jobs.user_id
    rowAttempts,  \* worker_jobs.attempts_made
    bull,         \* the BullMQ state of each job
    made,         \* BullMQ's attemptsMade
    stalls,       \* BullMQ's stalled counter
    lock,         \* the slot whose lock token BullMQ accepts for the job
    pc,           \* how far each slot is in runJob
    cur,          \* the job each slot runs
    seen,         \* job.attemptsMade as the slot read it when it got the job
    enq,          \* how far each user's promise of a batch run is
    enqJob,       \* the id that promise has generated
    fresh         \* the channel is up to date

rowVars  == <<rowStatus, rowUser, rowAttempts>>
bullVars == <<bull, made, stalls, lock>>
slotVars == <<pc, cur, seen>>
enqVars  == <<enq, enqJob>>
vars     == <<rowVars, bullVars, slotVars, enqVars, fresh>>

OpenStatus == {"queued", "active", "retrying"}
RowStatus  == {"absent", "completed", "failed"} \cup OpenStatus
BullState  == {"none", "waiting", "active", "delayed", "completed", "failed"}
HandlerPc  == {"check", "fetch", "persist"}
SlotPc     == {"idle", "start", "saved", "caught", "fatal", "resolved",
               "thrown", "thrownFatal"} \cup HandlerPc
EnqPc      == {"none", "check", "create", "add"}

TypeOK ==
    /\ rowStatus   \in [JobIds -> RowStatus]
    /\ rowUser     \in [JobIds -> Users \cup {None}]
    /\ rowAttempts \in [JobIds -> Nat]
    /\ bull   \in [JobIds -> BullState]
    /\ made   \in [JobIds -> Nat]
    /\ stalls \in [JobIds -> Nat]
    /\ lock   \in [JobIds -> Slots \cup {None}]
    /\ pc   \in [Slots -> SlotPc]
    /\ cur  \in [Slots -> JobIds \cup {None}]
    /\ seen \in [Slots -> Nat]
    /\ enq    \in [BatchRuns \X Users -> EnqPc]
    /\ enqJob \in [BatchRuns \X Users -> JobIds \cup {None}]
    /\ fresh  \in [Users -> BOOLEAN]

Init ==
    /\ rowStatus   = [j \in JobIds |-> "absent"]
    /\ rowUser     = [j \in JobIds |-> None]
    /\ rowAttempts = [j \in JobIds |-> 0]
    /\ bull   = [j \in JobIds |-> "none"]
    /\ made   = [j \in JobIds |-> 0]
    /\ stalls = [j \in JobIds |-> 0]
    /\ lock   = [j \in JobIds |-> None]
    /\ pc   = [s \in Slots |-> "idle"]
    /\ cur  = [s \in Slots |-> None]
    /\ seen = [s \in Slots |-> 0]
    /\ enq    = [p \in BatchRuns \X Users |-> "none"]
    /\ enqJob = [p \in BatchRuns \X Users |-> None]
    /\ fresh \in [Users -> BOOLEAN]

-----------------------------------------------------------------------------
(* handleBatchJob: scan, then for all due users in parallel look for an    *)
(* open row, insert a row, add the job to BullMQ.                          *)

OpenRow(j, u) == rowUser[j] = u /\ rowStatus[j] \in OpenStatus

OpenJobs(u) == {j \in JobIds : OpenRow(j, u)}

\* Faulty: the status list of the query forgets 'retrying'.
HasOpenJobNotRetrying(u) ==
    \E j \in JobIds : rowUser[j] = u /\ rowStatus[j] \in {"queued", "active"}

HasOpenJob(u) == \E j \in JobIds : OpenRow(j, u)

Due == {u \in Users : ~fresh[u]}

\* findDueYoutubeSyncUsers orders by age, of which the model keeps one bit:
\* any BatchSize of the due users may come first.
DueBatches ==
    {D \in SUBSET Due : \/ D = Due /\ Cardinality(Due) <= BatchSize
                        \/ Cardinality(D) = BatchSize}

BatchScan(b) ==
    /\ \A u \in Users : enq[<<b, u>>] = "none"
    /\ \E D \in DueBatches :
         enq' = [p \in BatchRuns \X Users |->
                   IF p[1] = b /\ p[2] \in D THEN "check" ELSE enq[p]]
    /\ UNCHANGED <<rowVars, bullVars, slotVars, enqJob, fresh>>

EnqCheck(b, u) ==
    /\ enq[<<b, u>>] = "check"
    /\ enq' = [enq EXCEPT ![<<b, u>>] =
                 IF HasOpenJob(u) THEN "none" ELSE "create"]
    /\ UNCHANGED <<rowVars, bullVars, slotVars, enqJob, fresh>>

EnqCreate(b, u, j) ==
    /\ enq[<<b, u>>] = "create"
    /\ rowStatus[j] = "absent"
    /\ rowStatus' = [rowStatus EXCEPT ![j] = "queued"]
    /\ rowUser' = [rowUser EXCEPT ![j] = u]
    /\ enq' = [enq EXCEPT ![<<b, u>>] = "add"]
    /\ enqJob' = [enqJob EXCEPT ![<<b, u>>] = j]
    /\ UNCHANGED <<rowAttempts, bullVars, slotVars, fresh>>

EnqAdd(b, u) ==
    /\ enq[<<b, u>>] = "add"
    /\ bull' = [bull EXCEPT ![enqJob[<<b, u>>]] = "waiting"]
    /\ enq' = [enq EXCEPT ![<<b, u>>] = "none"]
    /\ enqJob' = [enqJob EXCEPT ![<<b, u>>] = None]
    /\ UNCHANGED <<rowVars, made, stalls, lock, slotVars, fresh>>

\* A query or the add rejects, or the process dies: the promise ends where
\* it was and nothing it did is undone.  The batch job's retry is a new scan.
EnqAbort(b, u) ==
    /\ "enqueue" \in Faults
    /\ enq[<<b, u>>] # "none"
    /\ enq' = [enq EXCEPT ![<<b, u>>] = "none"]
    /\ enqJob' = [enqJob EXCEPT ![<<b, u>>] = None]
    /\ UNCHANGED <<rowVars, bullVars, slotVars, fresh>>

-----------------------------------------------------------------------------
(* runJob around syncUser, one slot at a time.                             *)

\* BullMQ hands a waiting job to an idle slot and locks it.
PickUp(s, j) ==
    /\ pc[s] = "idle"
    /\ bull[j] = "waiting"
    /\ bull' = [bull EXCEPT ![j] = "active"]
    /\ lock' = [lock EXCEPT ![j] = s]
    /\ pc' = [pc EXCEPT ![s] = "start"]
    /\ cur' = [cur EXCEPT ![s] = j]
    /\ seen' = [seen EXCEPT ![s] = made[j]]
    /\ UNCHANGED <<rowVars, made, stalls, enqVars, fresh>>

Goto(s, label) == pc' = [pc EXCEPT ![s] = label]

MarkActive(s) ==
    /\ pc[s] = "start"
    /\ rowStatus' = [rowStatus EXCEPT ![cur[s]] = "active"]
    /\ Goto(s, "check")
    /\ UNCHANGED <<rowUser, rowAttempts, bullVars, cur, seen, enqVars, fresh>>

\* syncUser returns at once when the channel is up to date.
CheckFresh(s) ==
    /\ pc[s] = "check"
    /\ Goto(s, IF fresh[rowUser[cur[s]]] THEN "saved" ELSE "fetch")
    /\ UNCHANGED <<rowVars, bullVars, cur, seen, enqVars, fresh>>

\* Google has answered; upsertChannel stamps last_synced_at before the rest.
StampChannel(s) ==
    /\ pc[s] = "fetch"
    /\ fresh' = [fresh EXCEPT ![rowUser[cur[s]]] = TRUE]
    /\ Goto(s, "persist")
    /\ UNCHANGED <<rowVars, bullVars, cur, seen, enqVars>>

PersistRest(s) ==
    /\ pc[s] = "persist"
    /\ Goto(s, "saved")
    /\ UNCHANGED <<rowVars, bullVars, cur, seen, enqVars, fresh>>

\* Only a refused refresh token, met while fetching, is unrecoverable.
HandlerFail(s) ==
    /\ "handler" \in Faults
    /\ \/ pc[s] \in HandlerPc /\ Goto(s, "caught")
       \/ pc[s] = "fetch" /\ Goto(s, "fatal")
    /\ UNCHANGED <<rowVars, bullVars, cur, seen, enqVars, fresh>>

MarkCompleted(s) ==
    /\ pc[s] = "saved"
    /\ rowStatus' = [rowStatus EXCEPT ![cur[s]] = "completed"]
    /\ rowAttempts' = [rowAttempts EXCEPT ![cur[s]] = seen[s] + 1]
    /\ Goto(s, "resolved")
    /\ UNCHANGED <<rowUser, bullVars, cur, seen, enqVars, fresh>>

\* Faulty: the attempts are compared with > instead of >=.
MarkFailedOffByOne(s) ==
    /\ pc[s] \in {"caught", "fatal"}
    /\ rowStatus' = [rowStatus EXCEPT ![cur[s]] =
                       IF seen[s] + 1 > MaxAttempts \/ pc[s] = "fatal"
                       THEN "failed" ELSE "retrying"]
    /\ rowAttempts' = [rowAttempts EXCEPT ![cur[s]] = seen[s] + 1]
    /\ Goto(s, IF pc[s] = "fatal" THEN "thrownFatal" ELSE "thrown")
    /\ UNCHANGED <<rowUser, bullVars, cur, seen, enqVars, fresh>>

\* Faulty: every failed attempt is recorded as the last one.
MarkFailedAtOnce(s) ==
    /\ pc[s] \in {"caught", "fatal"}
    /\ rowStatus' = [rowStatus EXCEPT ![cur[s]] = "failed"]
    /\ rowAttempts' = [rowAttempts EXCEPT ![cur[s]] = seen[s] + 1]
    /\ Goto(s, IF pc[s] = "fatal" THEN "thrownFatal" ELSE "thrown")
    /\ UNCHANGED <<rowUser, bullVars, cur, seen, enqVars, fresh>>

\* Faulty: the row adds up failures instead of taking BullMQ's count.
MarkFailedSumming(s) ==
    /\ pc[s] \in {"caught", "fatal"}
    /\ rowStatus' = [rowStatus EXCEPT ![cur[s]] =
                       IF seen[s] + 1 >= MaxAttempts \/ pc[s] = "fatal"
                       THEN "failed" ELSE "retrying"]
    /\ rowAttempts' = [rowAttempts EXCEPT ![cur[s]] = @ + 1]
    /\ Goto(s, IF pc[s] = "fatal" THEN "thrownFatal" ELSE "thrown")
    /\ UNCHANGED <<rowUser, bullVars, cur, seen, enqVars, fresh>>

\* Faulty: runJob starts over by itself instead of throwing.
MarkFailedInPlace(s) ==
    /\ pc[s] \in {"caught", "fatal"}
    /\ rowStatus' = [rowStatus EXCEPT ![cur[s]] = "retrying"]
    /\ rowAttempts' = [rowAttempts EXCEPT ![cur[s]] = seen[s] + 1]
    /\ Goto(s, "start")
    /\ UNCHANGED <<rowUser, bullVars, cur, seen, enqVars, fresh>>

MarkFailed(s) ==
    /\ pc[s] \in {"caught", "fatal"}
    /\ rowStatus' = [rowStatus EXCEPT ![cur[s]] =
                       IF seen[s] + 1 >= MaxAttempts \/ pc[s] = "fatal"
                       THEN "failed" ELSE "retrying"]
    /\ rowAttempts' = [rowAttempts EXCEPT ![cur[s]] = seen[s] + 1]
    /\ Goto(s, IF pc[s] = "fatal" THEN "thrownFatal" ELSE "thrown")
    /\ UNCHANGED <<rowUser, bullVars, cur, seen, enqVars, fresh>>

\* A write to worker_jobs rejects.  markActive is outside the try, so its
\* error goes straight to BullMQ; markCompleted's is caught like a failure of
\* the handler; markFailed's replaces the error that was being handled.
DbError(s) ==
    /\ "db" \in Faults
    /\ \/ pc[s] \in {"start", "caught", "fatal"} /\ Goto(s, "thrown")
       \/ pc[s] = "saved" /\ Goto(s, "caught")
    /\ UNCHANGED <<rowVars, bullVars, cur, seen, enqVars, fresh>>

Release(s) ==
    /\ pc' = [pc EXCEPT ![s] = "idle"]
    /\ cur' = [cur EXCEPT ![s] = None]
    /\ seen' = [seen EXCEPT ![s] = 0]

\* BullMQ settles a job only for the slot that still holds its lock.
Resolve(s) ==
    /\ pc[s] = "resolved"
    /\ IF lock[cur[s]] = s
       THEN /\ bull' = [bull EXCEPT ![cur[s]] = "completed"]
            /\ made' = [made EXCEPT ![cur[s]] = seen[s] + 1]
            /\ lock' = [lock EXCEPT ![cur[s]] = None]
       ELSE UNCHANGED <<bull, made, lock>>
    /\ Release(s)
    /\ UNCHANGED <<rowVars, stalls, enqVars, fresh>>

\* Faulty: runJob does not throw again, BullMQ takes the job for done.
RejectSwallowed(s) ==
    /\ pc[s] \in {"thrown", "thrownFatal"}
    /\ IF lock[cur[s]] = s
       THEN /\ bull' = [bull EXCEPT ![cur[s]] = "completed"]
            /\ made' = [made EXCEPT ![cur[s]] = seen[s] + 1]
            /\ lock' = [lock EXCEPT ![cur[s]] = None]
       ELSE UNCHANGED <<bull, made, lock>>
    /\ Release(s)
    /\ UNCHANGED <<rowVars, stalls, enqVars, fresh>>

\* BullMQ's verdict on a job that threw: UnrecoverableError settles it.
Reject(s) ==
    /\ pc[s] \in {"thrown", "thrownFatal"}
    /\ IF lock[cur[s]] = s
       THEN /\ bull' = [bull EXCEPT ![cur[s]] =
                          IF seen[s] + 1 >= MaxAttempts \/ pc[s] = "thrownFatal"
                          THEN "failed" ELSE "delayed"]
            /\ made' = [made EXCEPT ![cur[s]] = seen[s] + 1]
            /\ lock' = [lock EXCEPT ![cur[s]] = None]
       ELSE UNCHANGED <<bull, made, lock>>
    /\ Release(s)
    /\ UNCHANGED <<rowVars, stalls, enqVars, fresh>>

Crash(s) ==
    /\ "crash" \in Faults
    /\ pc[s] # "idle"
    /\ Release(s)
    /\ UNCHANGED <<rowVars, bullVars, enqVars, fresh>>

-----------------------------------------------------------------------------
(* What BullMQ and the clock do by themselves.                             *)

\* The backoff of a failed attempt is over.
Promote(j) ==
    /\ bull[j] = "delayed"
    /\ bull' = [bull EXCEPT ![j] = "waiting"]
    /\ UNCHANGED <<rowVars, made, stalls, lock, slotVars, enqVars, fresh>>

Running(s, j) == pc[s] # "idle" /\ cur[s] = j

LockIsDead(j) == ~\E s \in Slots : lock[j] = s /\ Running(s, j)

\* The lock of an active job was not renewed: its process died, or (fault
\* "stall") lives on, too busy to renew it, and finishes the run later.
Stall(j) ==
    /\ bull[j] = "active"
    /\ "stall" \in Faults \/ LockIsDead(j)
    /\ stalls' = [stalls EXCEPT ![j] = @ + 1]
    /\ bull' = [bull EXCEPT ![j] =
                  IF stalls[j] + 1 > MaxStalls THEN "failed" ELSE "waiting"]
    /\ lock' = [lock EXCEPT ![j] = None]
    /\ UNCHANGED <<rowVars, made, slotVars, enqVars, fresh>>

\* The stale-after period of the last sync passes.
Age(u) ==
    /\ fresh[u]
    /\ fresh' = [fresh EXCEPT ![u] = FALSE]
    /\ UNCHANGED <<rowVars, bullVars, slotVars, enqVars>>

\* The bound on JobIds is spent: no later scan can be followed.
Exhausted == (\A j \in JobIds : rowStatus[j] # "absent") /\ UNCHANGED vars

-----------------------------------------------------------------------------
Enqueue(b, u) ==
    \/ EnqCheck(b, u)
    \/ \E j \in JobIds : EnqCreate(b, u, j)
    \/ EnqAdd(b, u)

\* The steps of runJob that follow from its code once a job is picked up.
Run(s) ==
    \/ MarkActive(s)
    \/ CheckFresh(s)
    \/ StampChannel(s)
    \/ PersistRest(s)
    \/ MarkCompleted(s)
    \/ MarkFailed(s)
    \/ Resolve(s)
    \/ Reject(s)

Next ==
    \/ \E b \in BatchRuns : BatchScan(b)
    \/ \E b \in BatchRuns, u \in Users : Enqueue(b, u) \/ EnqAbort(b, u)
    \/ \E s \in Slots, j \in JobIds : PickUp(s, j)
    \/ \E s \in Slots : Run(s) \/ HandlerFail(s) \/ DbError(s) \/ Crash(s)
    \/ \E j \in JobIds : Promote(j) \/ Stall(j)
    \/ \E u \in Users : Age(u)
    \/ Exhausted

Spec == Init /\ [][Next]_vars

\* The event loop of a live worker keeps going (a promise's next await is
\* answered or rejects), and BullMQ keeps handing out, promoting and recovering
\* jobs.  Scans, failures and the passage of time are never owed.
Fairness ==
    /\ \A b \in BatchRuns, u \in Users : WF_vars(Enqueue(b, u))
    /\ \A s \in Slots : WF_vars(Run(s))
    /\ \A j \in JobIds : /\ WF_vars(\E s \in Slots : PickUp(s, j))
                         /\ WF_vars(Promote(j))
                         /\ WF_vars(LockIsDead(j) /\ Stall(j))

FairSpec == Spec /\ Fairness

-----------------------------------------------------------------------------
(* Properties under every fault.                                           *)

\* A job has a row before BullMQ knows its id, and until then no slot runs it.
JobRows ==
    \A j \in JobIds :
      /\ rowStatus[j] = "absent" <=> rowUser[j] = None
      /\ bull[j] # "none" => rowStatus[j] # "absent"
      /\ bull[j] = "none" => rowStatus[j] \in {"absent", "queued"}

\* A promise about to add a job is the only one that holds its id.
PromiseIds ==
    \A p, q \in BatchRuns \X Users :
      enq[p] = "add" =>
        /\ bull[enqJob[p]] = "none" /\ rowUser[enqJob[p]] = p[2]
        /\ enq[q] = "add" /\ enqJob[q] = enqJob[p] => p = q

\* Nothing of the queue is ahead of the table: an id that BullMQ knows has
\* its row, a row whose id BullMQ does not know has never been run, and two
\* promises never hold the same id (createJob before add, fresh ids).
RowsComeFirst == JobRows /\ PromiseIds

\* However often a job is retried, stalls or is finished late by a slot that
\* lost it, neither BullMQ nor the row counts more attempts than attempts
\* allows, and a job that will run again has an attempt left.
AttemptsBounded ==
    \A j \in JobIds :
      /\ made[j] <= MaxAttempts /\ rowAttempts[j] <= MaxAttempts
      /\ bull[j] \in {"waiting", "active", "delayed"} => made[j] < MaxAttempts

Settled(j) == bull[j] \in {"completed", "failed"}

\* Every job handed to BullMQ is eventually settled: retries and stalls are
\* both bounded, so no fault can make a job circulate for ever.
EveryJobSettles == \A j \in JobIds : bull[j] # "none" ~> Settled(j)

-----------------------------------------------------------------------------
(* Properties when no lock is lost: Faults without "crash" and "stall".    *)

\* What hasOpenJobForUser gives: batch runs that look at one moment whether a
\* user has an open job may all find none and all create one, but that is the
\* worst: a user never has more open jobs than there are batch runs at once,
\* however they and the jobs interleave.
OpenJobsBounded ==
    \A u \in Users : Cardinality(OpenJobs(u)) <= Cardinality(BatchRuns)

\* The table and the queue agree on success, even when writes fail: a job
\* BullMQ calls completed is completed in the table, and a completed row is
\* BullMQ's or about to be, so its job is not run again.
CompletionAgrees ==
    \A j \in JobIds :
      /\ bull[j] = "completed" => rowStatus[j] = "completed"
      /\ rowStatus[j] = "completed" =>
           \/ bull[j] = "completed"
           \/ \E s \in Slots : Running(s, j) /\ pc[s] = "resolved"

-----------------------------------------------------------------------------
(* Properties when only the handler fails.                                 *)

\* The row tells what BullMQ will do: runJob's choice between 'failed' and
\* 'retrying' is BullMQ's own, and an open row always has a job to close it,
\* or a promise about to add that job.
RowsFollowJobs ==
    \A j \in JobIds :
      /\ bull[j] = "failed"  => rowStatus[j] = "failed"
      /\ bull[j] = "delayed" => /\ rowStatus[j] = "retrying"
                                /\ rowAttempts[j] = made[j]
      /\ rowStatus[j] \in OpenStatus =>
           \/ bull[j] \in {"waiting", "active", "delayed"}
           \/ \E p \in BatchRuns \X Users : enq[p] = "add" /\ enqJob[p] = j

\* An open row keeps its user out of every later batch, so it must close.
OpenRowsClose ==
    \A j \in JobIds :
      rowStatus[j] \in OpenStatus ~> rowStatus[j] \in {"completed", "failed"}

-----------------------------------------------------------------------------
\* What worker_jobs promises its readers; SyncJobs implements it while no
\* lock is lost, with as many open jobs of a user as batch runs at once.
Lifecycle ==
    INSTANCE JobLifecycle WITH status <- rowStatus, owner <- rowUser,
                               MaxOpen <- Cardinality(BatchRuns)

LifecycleSpec == Lifecycle!Spec
=============================================================================
