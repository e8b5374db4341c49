---------------------------- MODULE JobLifecycle ----------------------------
(***************************************************************************)
(* The promise of table worker_jobs, the persistent lifecycle tracking of  *)
(* the worker's jobs: a job is queued only for a user who has fewer than   *)
(* MaxOpen open jobs, then alternates between active and retrying, and     *)
(* ends, for good, as completed or failed.                                 *)
(***************************************************************************)
EXTENDS Naturals, FiniteSets

CONSTANTS Users, JobIds, MaxOpen, None

VARIABLES status, owner

Open == {"queued", "active", "retrying"}

OpenJobs(u) == {j \in JobIds : owner[j] = u /\ status[j] \in Open}

Init ==
    /\ status = [j \in JobIds |-> "absent"]
    /\ owner = [j \in JobIds |-> None]

Queue(j, u) ==
    /\ status[j] = "absent"
    /\ Cardinality(OpenJobs(u)) < MaxOpen
    /\ status' = [status EXCEPT ![j] = "queued"]
    /\ owner' = [owner EXCEPT ![j] = u]

Start(j) ==
    /\ status[j] \in {"queued", "retrying"}
    /\ status' = [status EXCEPT ![j] = "active"]
    /\ UNCHANGED owner

End(j, verdict) ==
    /\ status[j] = "active"
    /\ status' = [status EXCEPT ![j] = verdict]
    /\ UNCHANGED owner

Next ==
    \E j \in JobIds :
      \/ \E u \in Users : Queue(j, u)
      \/ Start(j)
      \/ \E verdict \in {"completed", "failed", "retrying"} : End(j, verdict)

Spec == Init /\ [][Next]_<<status, owner>>
=============================================================================
