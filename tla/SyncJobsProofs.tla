--------------------------- MODULE SyncJobsProofs ---------------------------
(* Theorems about SyncJobs, for all values of its constants. *)
EXTENDS SyncJobs, FiniteSetTheorems, TLAPS

-----------------------------------------------------------------------------
(* The variables have their types. *)

LEMMA InitTypeOK == Init => TypeOK
  BY DEF Init, TypeOK, RowStatus, BullState, SlotPc, EnqPc

\* Every step keeps types.
LEMMA NextTypeOK == ASSUME TypeOK, [Next]_vars PROVE TypeOK'
<1> USE DEF TypeOK, RowStatus, OpenStatus, BullState, SlotPc, HandlerPc, EnqPc,
            rowVars, bullVars, slotVars, enqVars, Goto, Release
<1>1. CASE \E b \in BatchRuns : BatchScan(b)
  BY <1>1 DEF BatchScan
<1>2. CASE \E b \in BatchRuns, u \in Users : EnqCheck(b, u)
  BY <1>2 DEF EnqCheck
<1>3. CASE \E b \in BatchRuns, u \in Users, j \in JobIds : EnqCreate(b, u, j)
  BY <1>3 DEF EnqCreate
<1>4. CASE \E b \in BatchRuns, u \in Users : EnqAdd(b, u)
  <2>1. PICK b \in BatchRuns, u \in Users : EnqAdd(b, u)
    BY <1>4
  <2>2. <<b, u>> \in BatchRuns \X Users
    OBVIOUS
  <2>3. bull' \in [JobIds -> BullState]
    BY <2>1 DEF EnqAdd
  <2>4. enq' \in [BatchRuns \X Users -> EnqPc]
    BY <2>1, <2>2 DEF EnqAdd
  <2>5. enqJob' \in [BatchRuns \X Users -> JobIds \cup {None}]
    BY <2>1, <2>2 DEF EnqAdd
  <2> QED
    BY <2>1, <2>3, <2>4, <2>5 DEF EnqAdd
<1>5. CASE \E b \in BatchRuns, u \in Users : EnqAbort(b, u)
  BY <1>5 DEF EnqAbort
<1>6. CASE \E s \in Slots, j \in JobIds : PickUp(s, j)
  BY <1>6 DEF PickUp
<1>7. CASE \E s \in Slots : MarkActive(s) \/ CheckFresh(s)
  BY <1>7 DEF MarkActive, CheckFresh
<1>8. CASE \E s \in Slots : StampChannel(s) \/ PersistRest(s)
  <2>1. PICK s \in Slots : StampChannel(s) \/ PersistRest(s)
    BY <1>8
  <2>2. fresh' \in [Users -> BOOLEAN]
    BY <2>1 DEF StampChannel, PersistRest
  <2>3. pc' \in [Slots -> SlotPc]
    BY <2>1 DEF StampChannel, PersistRest
  <2> QED
    BY <2>1, <2>2, <2>3 DEF StampChannel, PersistRest
<1>9. CASE \E s \in Slots : MarkCompleted(s)
  <2>1. PICK s \in Slots : MarkCompleted(s)
    BY <1>9
  <2>2. seen[s] + 1 \in Nat
    OBVIOUS
  <2>3. rowStatus' \in [JobIds -> RowStatus]
    BY <2>1 DEF MarkCompleted
  <2>4. rowAttempts' \in [JobIds -> Nat]
    BY <2>1, <2>2 DEF MarkCompleted
  <2>5. pc' \in [Slots -> SlotPc]
    BY <2>1 DEF MarkCompleted
  <2> QED
    BY <2>1, <2>3, <2>4, <2>5 DEF MarkCompleted
<1>10. CASE \E s \in Slots : MarkFailed(s)
  <2>1. PICK s \in Slots : MarkFailed(s)
    BY <1>10
  <2>2. seen[s] + 1 \in Nat
    OBVIOUS
  <2>3. rowStatus' \in [JobIds -> RowStatus]
    BY <2>1 DEF MarkFailed
  <2>4. rowAttempts' \in [JobIds -> Nat]
    BY <2>1, <2>2 DEF MarkFailed
  <2>5. pc' \in [Slots -> SlotPc]
    BY <2>1 DEF MarkFailed
  <2> QED
    BY <2>1, <2>3, <2>4, <2>5 DEF MarkFailed
<1>11. CASE \E s \in Slots : HandlerFail(s) \/ DbError(s) \/ Crash(s)
  BY <1>11 DEF HandlerFail, DbError, Crash
<1>12. CASE \E s \in Slots : Resolve(s)
  BY <1>12 DEF Resolve
<1>13. CASE \E s \in Slots : Reject(s)
  BY <1>13 DEF Reject
<1>14. CASE \E j \in JobIds : Promote(j)
  BY <1>14 DEF Promote
<1>15. CASE \E j \in JobIds : Stall(j)
  BY <1>15 DEF Stall
<1>16. CASE \E u \in Users : Age(u)
  BY <1>16 DEF Age
<1>17. CASE UNCHANGED vars
  BY <1>17 DEF vars
<1> QED
  BY <1>1, <1>2, <1>3, <1>4, <1>5, <1>6, <1>7, <1>8, <1>9, <1>10, <1>11,
     <1>12, <1>13, <1>14, <1>15, <1>16, <1>17
     DEF Next, Enqueue, Run, Exhausted

\* Every variable of the model keeps its type, under every fault.
THEOREM TypeCorrect == Spec => []TypeOK
  BY InitTypeOK, NextTypeOK, PTL DEF Spec

-----------------------------------------------------------------------------
(* The invariant that every fault leaves true.                             *)

\* A busy slot runs a job that BullMQ knows and that had an attempt left.
SlotInv ==
    \A s \in Slots :
      /\ pc[s] = "idle" <=> cur[s] = None
      /\ pc[s] # "idle" => bull[cur[s]] # "none" /\ seen[s] < MaxAttempts

\* BullMQ holds a lock for active jobs only.
LockInv == \A j \in JobIds : lock[j] # None => bull[j] = "active"

\* A job that BullMQ has not got has no attempt behind it.
NeverRun == \A j \in JobIds : bull[j] = "none" => made[j] < MaxAttempts

PromiseInv ==
    \A p \in BatchRuns \X Users : enq[p] = "add" <=> enqJob[p] # None

FaultInv ==
    /\ TypeOK
    /\ JobRows
    /\ PromiseIds
    /\ AttemptsBounded
    /\ SlotInv
    /\ LockInv
    /\ NeverRun
    /\ PromiseInv

\* At the start no job is known and no slot is busy.
LEMMA InitFaultInv == Init => FaultInv
<1> SUFFICES ASSUME Init PROVE FaultInv
  OBVIOUS
<1>1. TypeOK
  BY InitTypeOK
<1>2. JobRows /\ PromiseIds
  BY DEF Init, JobRows, PromiseIds
<1>3. AttemptsBounded
  BY ConstantsAssumption DEF Init, AttemptsBounded
<1>4. SlotInv /\ LockInv /\ NeverRun /\ PromiseInv
  BY ConstantsAssumption DEF Init, SlotInv, LockInv, NeverRun, PromiseInv
<1> QED
  BY <1>1, <1>2, <1>3, <1>4 DEF FaultInv

\* Scanning, looking for an open job and giving up touch no row and no job.
LEMMA ScanKeepsFaultInv ==
    ASSUME FaultInv, NEW b \in BatchRuns,
           BatchScan(b) \/ \E u \in Users : EnqCheck(b, u) \/ EnqAbort(b, u)
    PROVE  FaultInv'
<1> USE DEF rowVars, bullVars, slotVars, enqVars
<1>1. TypeOK /\ TypeOK'
  BY NextTypeOK DEF FaultInv, Next, Enqueue
<1>2. UNCHANGED <<rowVars, bullVars, slotVars>>
  BY DEF BatchScan, EnqCheck, EnqAbort
<1>3. \A p \in BatchRuns \X Users :
        /\ enq'[p] = "add" => enq[p] = "add" /\ enqJob'[p] = enqJob[p]
        /\ enq'[p] = "add" <=> enqJob'[p] # None
  <2> SUFFICES ASSUME NEW p \in BatchRuns \X Users
               PROVE  /\ enq'[p] = "add" => enq[p] = "add" /\ enqJob'[p] = enqJob[p]
                      /\ enq'[p] = "add" <=> enqJob'[p] # None
    OBVIOUS
  <2>2. enq[p] = "add" <=> enqJob[p] # None
    BY DEF FaultInv, PromiseInv
  <2>3. CASE BatchScan(b)
    <3>1. PICK D \in DueBatches :
            enq'[p] = IF p[1] = b /\ p[2] \in D THEN "check" ELSE enq[p]
      BY <2>3 DEF BatchScan
    <3>2. enqJob' = enqJob /\ (p[1] = b => enq[p] = "none")
      BY <2>3 DEF BatchScan
    <3> QED
      BY <2>2, <3>1, <3>2
  <2>4. CASE \E u \in Users : EnqCheck(b, u)
    BY <1>1, <2>2, <2>4 DEF TypeOK, EnqCheck
  <2>5. CASE \E u \in Users : EnqAbort(b, u)
    BY <1>1, <2>2, <2>5 DEF TypeOK, EnqAbort
  <2> QED
    BY <2>3, <2>4, <2>5
<1>4. PromiseIds' /\ PromiseInv'
  BY <1>2, <1>3 DEF FaultInv, PromiseIds, PromiseInv
<1>5. JobRows' /\ AttemptsBounded' /\ SlotInv' /\ LockInv' /\ NeverRun'
  BY <1>2 DEF FaultInv, JobRows, AttemptsBounded, SlotInv, LockInv, NeverRun
<1> QED
  BY <1>1, <1>4, <1>5 DEF FaultInv

\* A new row takes an id that neither BullMQ nor another promise holds.
LEMMA CreateKeepsFaultInv ==
    ASSUME FaultInv, NEW b \in BatchRuns, NEW u \in Users, NEW j \in JobIds,
           EnqCreate(b, u, j)
    PROVE  FaultInv'
<1> USE DEF rowVars, bullVars, slotVars, enqVars
<1>1. TypeOK /\ TypeOK'
  BY NextTypeOK DEF FaultInv, Next, Enqueue
<1>2. /\ rowStatus[j] = "absent" /\ rowUser[j] = None /\ bull[j] = "none"
      /\ None \notin Users /\ None \notin JobIds
      /\ <<b, u>> \in BatchRuns \X Users
  BY ConstantsAssumption DEF FaultInv, JobRows, EnqCreate
<1>3. \A p \in BatchRuns \X Users : enq[p] = "add" => enqJob[p] # j
  BY <1>1, <1>2 DEF FaultInv, TypeOK, PromiseIds
<1>4. JobRows'
  BY <1>1, <1>2 DEF FaultInv, TypeOK, JobRows, EnqCreate
<1>5. PromiseInv'
  BY <1>1, <1>2 DEF FaultInv, TypeOK, PromiseInv, EnqCreate
<1>6. PromiseIds'
  <2> SUFFICES ASSUME NEW p \in BatchRuns \X Users, NEW q \in BatchRuns \X Users,
                      enq'[p] = "add"
               PROVE  /\ bull'[enqJob'[p]] = "none"
                      /\ rowUser'[enqJob'[p]] = p[2]
                      /\ enq'[q] = "add" /\ enqJob'[q] = enqJob'[p] => p = q
    BY DEF PromiseIds
  <2>1. \A r \in BatchRuns \X Users :
          /\ r = <<b, u>> => enqJob'[r] = j /\ enq'[r] = "add"
          /\ r # <<b, u>> => enqJob'[r] = enqJob[r] /\ enq'[r] = enq[r]
    BY <1>1, <1>2 DEF TypeOK, EnqCreate
  <2>2. CASE p = <<b, u>>
    BY <1>1, <1>2, <1>3, <2>1, <2>2 DEF TypeOK, EnqCreate
  <2>3. CASE p # <<b, u>>
    <3>1. enqJob[p] \in JobIds /\ enqJob[p] # j /\ bull[enqJob[p]] = "none"
      BY <1>1, <1>3, <2>1, <2>3 DEF FaultInv, TypeOK, PromiseIds, PromiseInv
    <3> QED
      BY <1>1, <1>2, <2>1, <2>3, <3>1 DEF FaultInv, TypeOK, PromiseIds, EnqCreate
  <2> QED
    BY <2>2, <2>3
<1>7. AttemptsBounded' /\ SlotInv' /\ LockInv' /\ NeverRun'
  BY DEF FaultInv, AttemptsBounded, SlotInv, LockInv, NeverRun, EnqCreate
<1> QED
  BY <1>1, <1>4, <1>5, <1>6, <1>7 DEF FaultInv

\* Adding a job to the queue, or giving up on it, keeps the invariant.
LEMMA AddKeepsFaultInv ==
    ASSUME FaultInv, NEW b \in BatchRuns, NEW u \in Users, EnqAdd(b, u)
    PROVE  FaultInv'
<1> USE DEF rowVars, bullVars, slotVars, enqVars
<1>1. TypeOK /\ TypeOK'
  BY NextTypeOK DEF FaultInv, Next, Enqueue
<1> DEFINE p == <<b, u>>
           j == enqJob[p]
<1>2. p \in BatchRuns \X Users /\ enq[p] = "add" /\ j # None
  BY DEF FaultInv, PromiseInv, EnqAdd
<1>3. j \in JobIds /\ bull[j] = "none" /\ rowUser[j] = u /\ u # None
  BY <1>1, <1>2, ConstantsAssumption DEF FaultInv, TypeOK, PromiseIds
<1>4. made[j] < MaxAttempts
  BY <1>1, <1>3 DEF FaultInv, NeverRun
<1>5. JobRows'
  BY <1>1, <1>3 DEF FaultInv, TypeOK, JobRows, EnqAdd
<1>6. PromiseInv'
  BY <1>1, <1>2 DEF FaultInv, TypeOK, PromiseInv, EnqAdd
<1>7. PromiseIds'
  <2>1. \A q \in BatchRuns \X Users :
          enq'[q] = "add" => enq[q] = "add" /\ enqJob'[q] = enqJob[q]
                             /\ enqJob[q] # j
    BY <1>1, <1>2 DEF FaultInv, TypeOK, PromiseIds, EnqAdd
  <2>2. \A i \in JobIds : i # j => bull'[i] = bull[i]
    BY <1>1 DEF TypeOK, EnqAdd
  <2> QED
    BY <1>1, <2>1, <2>2 DEF FaultInv, TypeOK, PromiseIds, PromiseInv, EnqAdd
<1>8. AttemptsBounded'
  BY <1>1, <1>3, <1>4 DEF FaultInv, TypeOK, AttemptsBounded, EnqAdd
<1>9. SlotInv' /\ LockInv' /\ NeverRun'
  BY <1>1, <1>3 DEF FaultInv, TypeOK, SlotInv, LockInv, NeverRun, EnqAdd
<1> QED
  BY <1>1, <1>5, <1>6, <1>7, <1>8, <1>9 DEF FaultInv

\* BullMQ's own steps, which take a job from one unfinished state to another
\* or, for a stall, to failed.
LEMMA QueueKeepsFaultInv ==
    ASSUME FaultInv, NEW j \in JobIds,
           (\E s \in Slots : PickUp(s, j)) \/ Promote(j) \/ Stall(j)
    PROVE  FaultInv'
<1> USE DEF rowVars, bullVars, slotVars, enqVars
<1>1. TypeOK /\ TypeOK'
  BY NextTypeOK DEF FaultInv, Next
<1>2. /\ bull[j] \in {"waiting", "active", "delayed"} /\ bull'[j] # "none"
      /\ \A i \in JobIds : i # j => bull'[i] = bull[i] /\ lock'[i] = lock[i]
      /\ UNCHANGED <<rowVars, made, enqVars>>
      /\ j # None /\ None \notin Slots
  BY <1>1, ConstantsAssumption DEF TypeOK, PickUp, Promote, Stall
<1>3. JobRows' /\ AttemptsBounded' /\ NeverRun' /\ PromiseInv'
  BY <1>1, <1>2 DEF FaultInv, TypeOK, JobRows, AttemptsBounded, NeverRun, PromiseInv
<1>4. PromiseIds'
  BY <1>1, <1>2 DEF FaultInv, TypeOK, PromiseIds, PromiseInv
<1>5. LockInv'
  BY <1>1, <1>2 DEF FaultInv, TypeOK, LockInv, PickUp, Promote, Stall
<1>6. SlotInv'
  <2>1. CASE \E s \in Slots : PickUp(s, j)
    <3>1. made[j] < MaxAttempts
      BY <1>2 DEF FaultInv, AttemptsBounded
    <3> QED
      BY <1>1, <1>2, <2>1, <3>1 DEF FaultInv, TypeOK, SlotInv, PickUp
  <2>2. CASE Promote(j) \/ Stall(j)
    BY <1>1, <1>2, <2>2 DEF FaultInv, TypeOK, SlotInv, Promote, Stall
  <2> QED
    BY <2>1, <2>2
<1> QED
  BY <1>1, <1>3, <1>4, <1>5, <1>6 DEF FaultInv

\* The steps of a slot up to the verdict, the writes to the row among them.
LEMMA SlotKeepsFaultInv ==
    ASSUME FaultInv, NEW s \in Slots,
           \/ MarkActive(s) \/ CheckFresh(s) \/ StampChannel(s)
           \/ PersistRest(s) \/ HandlerFail(s) \/ DbError(s)
           \/ MarkCompleted(s) \/ MarkFailed(s)
    PROVE  FaultInv'
<1> USE DEF rowVars, bullVars, slotVars, enqVars, Goto
<1>1. TypeOK /\ TypeOK'
  BY NextTypeOK DEF FaultInv, Next, Run
<1>2. /\ pc[s] # "idle" /\ pc'[s] # "idle"
      /\ \A t \in Slots : t # s => pc'[t] = pc[t]
      /\ UNCHANGED <<rowUser, bullVars, cur, seen, enqVars>>
  BY <1>1 DEF TypeOK, MarkActive, CheckFresh, StampChannel, PersistRest,
              HandlerFail, DbError, MarkCompleted, MarkFailed, HandlerPc
<1>3. cur[s] \in JobIds /\ bull[cur[s]] # "none" /\ seen[s] < MaxAttempts
  BY <1>1, <1>2 DEF FaultInv, TypeOK, SlotInv
<1>4. SlotInv'
  BY <1>1, <1>2 DEF FaultInv, TypeOK, SlotInv
<1>5. LockInv' /\ NeverRun' /\ PromiseInv' /\ PromiseIds'
  BY <1>2 DEF FaultInv, LockInv, NeverRun, PromiseInv, PromiseIds
<1>6. /\ \A j \in JobIds : j # cur[s] => rowStatus'[j] = rowStatus[j]
      /\ rowStatus[cur[s]] # "absent" => rowStatus'[cur[s]] # "absent"
  BY <1>1, <1>3 DEF TypeOK, MarkActive, CheckFresh, StampChannel, PersistRest,
              HandlerFail, DbError, MarkCompleted, MarkFailed
<1>7. JobRows'
  BY <1>1, <1>2, <1>3, <1>6 DEF FaultInv, JobRows
<1>8. \A j \in JobIds : rowAttempts'[j] <= MaxAttempts
  <2>1. CASE MarkCompleted(s) \/ MarkFailed(s)
    <3>1. rowAttempts' = [rowAttempts EXCEPT ![cur[s]] = seen[s] + 1]
      BY <2>1 DEF MarkCompleted, MarkFailed
    <3>2. seen[s] + 1 <= MaxAttempts
      BY <1>1, <1>3, ConstantsAssumption DEF TypeOK
    <3> QED
      BY <1>1, <1>3, <3>1, <3>2 DEF FaultInv, TypeOK, AttemptsBounded
  <2>2. CASE UNCHANGED rowAttempts
    BY <2>2 DEF FaultInv, AttemptsBounded
  <2> QED
    BY <2>1, <2>2 DEF MarkActive, CheckFresh, StampChannel, PersistRest,
              HandlerFail, DbError
<1>9. AttemptsBounded'
  BY <1>2, <1>8 DEF FaultInv, AttemptsBounded
<1> QED
  BY <1>1, <1>4, <1>5, <1>7, <1>9 DEF FaultInv

\* A slot lets its job go: BullMQ settles it, puts it off, or finds that the
\* lock is gone; a crash says nothing to BullMQ.
LEMMA ReleaseKeepsFaultInv ==
    ASSUME FaultInv, NEW s \in Slots, Resolve(s) \/ Reject(s) \/ Crash(s)
    PROVE  FaultInv'
<1> USE DEF rowVars, bullVars, slotVars, enqVars, Release
<1>1. TypeOK /\ TypeOK'
  BY NextTypeOK DEF FaultInv, Next, Run
<1> DEFINE j == cur[s]
<1>2. j \in JobIds /\ j # None /\ s # None /\ bull[j] # "none"
      /\ seen[s] < MaxAttempts
  BY <1>1, ConstantsAssumption
     DEF FaultInv, TypeOK, SlotInv, Resolve, Reject, Crash
<1>3. /\ pc'[s] = "idle" /\ cur'[s] = None
      /\ \A t \in Slots : t # s => pc'[t] = pc[t] /\ cur'[t] = cur[t]
                                   /\ seen'[t] = seen[t]
      /\ UNCHANGED <<rowVars, enqVars>>
  BY <1>1 DEF TypeOK, Resolve, Reject, Crash
<1>4. \/ UNCHANGED bullVars
      \/ /\ bull'[j] \in {"completed", "failed"}
            \/ (bull'[j] = "delayed" /\ seen[s] + 1 < MaxAttempts)
         /\ made'[j] = seen[s] + 1
         /\ lock'[j] = None
  <2>1. CASE lock[j] = s /\ Resolve(s)
    BY <1>1, <1>2, <2>1 DEF TypeOK, Resolve
  <2>2. CASE lock[j] = s /\ Reject(s)
    <3>1. ~(seen[s] + 1 >= MaxAttempts) => seen[s] + 1 < MaxAttempts
      BY <1>1, ConstantsAssumption DEF TypeOK
    <3>2. /\ bull'[j] = IF seen[s] + 1 >= MaxAttempts \/ pc[s] = "thrownFatal"
                       THEN "failed" ELSE "delayed"
          /\ made'[j] = seen[s] + 1
          /\ lock'[j] = None
      BY <1>1, <1>2, <2>2 DEF TypeOK, Reject
    <3> QED
      BY <3>1, <3>2
  <2>3. CASE ~(lock[j] = s /\ (Resolve(s) \/ Reject(s)))
    BY <2>3 DEF Resolve, Reject, Crash
  <2> QED
    BY <2>1, <2>2, <2>3
<1>5. /\ bull'[j] # "none"
      /\ \A i \in JobIds : i # j => /\ bull'[i] = bull[i] /\ lock'[i] = lock[i]
                                    /\ made'[i] = made[i]
  <2>1. bull'[j] # "none"
    BY <1>2, <1>4
  <2> QED
    BY <1>1, <1>2, <2>1 DEF TypeOK, Resolve, Reject, Crash
<1>6. JobRows' /\ PromiseIds' /\ PromiseInv'
  BY <1>1, <1>2, <1>3, <1>5
     DEF FaultInv, TypeOK, JobRows, PromiseIds, PromiseInv
<1>7. SlotInv'
  BY <1>1, <1>2, <1>3, <1>5 DEF FaultInv, TypeOK, SlotInv
<1>8. LockInv' /\ NeverRun'
  BY <1>1, <1>2, <1>4, <1>5 DEF FaultInv, TypeOK, LockInv, NeverRun
<1>9. AttemptsBounded'
  <2>1. seen[s] + 1 <= MaxAttempts
    BY <1>1, <1>2, ConstantsAssumption DEF TypeOK
  <2>2. CASE UNCHANGED bullVars
    BY <1>3, <2>2 DEF FaultInv, AttemptsBounded
  <2>3. CASE ~UNCHANGED bullVars
    <3>1. /\ made'[j] = seen[s] + 1
          /\ bull'[j] \in {"completed", "failed"}
             \/ (bull'[j] = "delayed" /\ seen[s] + 1 < MaxAttempts)
      BY <1>1, <1>2, <1>4, <2>3 DEF TypeOK
    <3> QED
      BY <1>1, <1>2, <1>3, <1>5, <2>1, <3>1 DEF FaultInv, TypeOK, AttemptsBounded
  <2> QED
    BY <2>2, <2>3
<1> QED
  BY <1>1, <1>6, <1>7, <1>8, <1>9 DEF FaultInv

\* So does every step, under every fault.
LEMMA NextFaultInv == ASSUME FaultInv, [Next]_vars PROVE FaultInv'
<1>1. CASE UNCHANGED vars \/ \E u \in Users : Age(u)
  <2>1. TypeOK'
    BY <1>1, NextTypeOK DEF FaultInv, Next
  <2> QED
    BY <1>1, <2>1 DEF vars, rowVars, bullVars, slotVars, enqVars, Age, FaultInv,
       JobRows, PromiseIds, AttemptsBounded, SlotInv, LockInv, NeverRun, PromiseInv
<1>2. CASE \E b \in BatchRuns : BatchScan(b)
  BY <1>2, ScanKeepsFaultInv
<1>3. CASE \E b \in BatchRuns, u \in Users : Enqueue(b, u) \/ EnqAbort(b, u)
  BY <1>3, ScanKeepsFaultInv, CreateKeepsFaultInv, AddKeepsFaultInv DEF Enqueue
<1>4. CASE \/ \E s \in Slots, j \in JobIds : PickUp(s, j)
           \/ \E j \in JobIds : Promote(j) \/ Stall(j)
  BY <1>4, QueueKeepsFaultInv
<1>5. CASE \E s \in Slots : Run(s) \/ HandlerFail(s) \/ DbError(s) \/ Crash(s)
  BY <1>5, SlotKeepsFaultInv, ReleaseKeepsFaultInv DEF Run
<1> QED
  BY <1>1, <1>2, <1>3, <1>4, <1>5 DEF Next, Exhausted

\* A job's row always comes before the job, and no promise can add a job
\* under an id that was used: createJob precedes add, under every fault.
THEOREM RowsComeFirstAlways == Spec => []RowsComeFirst
<1>1. FaultInv => RowsComeFirst
  BY DEF FaultInv, RowsComeFirst
<1> QED
  BY <1>1, InitFaultInv, NextFaultInv, PTL DEF Spec

\* No interleaving of retries, stalls and late finishes gives a job more
\* attempts than jobOptions.attempts.
THEOREM AttemptsAlwaysBounded == Spec => []AttemptsBounded
<1>1. FaultInv => AttemptsBounded
  BY DEF FaultInv
<1> QED
  BY <1>1, InitFaultInv, NextFaultInv, PTL DEF Spec

-----------------------------------------------------------------------------
(* When no lock is lost, a job belongs to one slot from the moment it is   *)
(* picked up until BullMQ has its verdict, and the row can be trusted.     *)

NoLockLost == "crash" \notin Faults /\ "stall" \notin Faults

HoldInv == \A s \in Slots : pc[s] # "idle" => lock[cur[s]] = s

ActiveInv ==
    \A j \in JobIds : bull[j] = "active" => lock[j] \in Slots /\ Running(lock[j], j)

\* What the row says at each point of a run.
RunInv ==
    \A s \in Slots :
      /\ pc[s] = "start" => rowStatus[cur[s]] \in OpenStatus
      /\ pc[s] \in HandlerPc \cup {"saved", "caught", "fatal"} =>
           rowStatus[cur[s]] = "active"
      /\ pc[s] = "resolved" => rowStatus[cur[s]] = "completed"
      /\ pc[s] = "thrownFatal" => rowStatus[cur[s]] = "failed"
      /\ pc[s] = "thrown" =>
           \/ rowStatus[cur[s]] \in OpenStatus
           \/ rowStatus[cur[s]] = "failed" /\ seen[s] + 1 >= MaxAttempts

\* What the row says while no slot has the job.
QueueInv ==
    \A j \in JobIds :
      /\ bull[j] \in {"waiting", "delayed"} => rowStatus[j] \in OpenStatus
      /\ bull[j] = "completed" => rowStatus[j] = "completed"
      /\ bull[j] = "failed" => rowStatus[j] # "completed"

TrustInv == FaultInv /\ HoldInv /\ ActiveInv /\ RunInv /\ QueueInv

\* At the start no slot is busy.
LEMMA InitTrustInv == Init => TrustInv
  BY InitFaultInv DEF Init, TrustInv, HoldInv, ActiveInv, RunInv, QueueInv,
     Running, HandlerPc

\* Two busy slots have different jobs.
LEMMA OneSlotPerJob ==
    ASSUME TrustInv, NEW s \in Slots, NEW t \in Slots, s # t,
           pc[s] # "idle", pc[t] # "idle"
    PROVE  cur[s] # cur[t]
  BY DEF TrustInv, HoldInv

\* A batch run only makes rows and jobs no slot has seen.
LEMMA EnqueueKeepsTrustInv ==
    ASSUME TrustInv, NEW b \in BatchRuns,
           \/ BatchScan(b)
           \/ \E u \in Users : Enqueue(b, u) \/ EnqAbort(b, u)
    PROVE  TrustInv'
<1> USE DEF rowVars, bullVars, slotVars, enqVars
<1>1. FaultInv /\ FaultInv' /\ TypeOK
  BY NextFaultInv DEF TrustInv, FaultInv, Next
<1>2. CASE BatchScan(b) \/ \E u \in Users : EnqCheck(b, u) \/ EnqAbort(b, u)
  <2>1. UNCHANGED <<rowVars, bullVars, slotVars>>
    BY <1>2 DEF BatchScan, EnqCheck, EnqAbort
  <2>2. HoldInv' /\ ActiveInv'
    BY <2>1 DEF TrustInv, HoldInv, ActiveInv, Running
  <2>3. RunInv' /\ QueueInv'
    BY <2>1 DEF TrustInv, RunInv, QueueInv
  <2> QED
    BY <1>1, <2>2, <2>3 DEF TrustInv
<1>3. CASE \E u \in Users, j \in JobIds : EnqCreate(b, u, j)
  <2>1. PICK u \in Users, j \in JobIds : EnqCreate(b, u, j)
    BY <1>3
  <2>2. bull[j] = "none"
    BY <1>1, <2>1 DEF FaultInv, JobRows, EnqCreate
  <2>3. \A s \in Slots : pc[s] # "idle" => cur[s] \in JobIds /\ cur[s] # j
    BY <1>1, <2>2 DEF FaultInv, TypeOK, SlotInv
  <2>4. /\ UNCHANGED <<bullVars, slotVars>>
        /\ \A i \in JobIds : i # j => rowStatus'[i] = rowStatus[i]
    BY <1>1, <2>1 DEF TypeOK, EnqCreate
  <2> QED
    BY <1>1, <2>2, <2>3, <2>4 DEF TrustInv, HoldInv, ActiveInv, RunInv, QueueInv,
       Running, HandlerPc
<1>4. CASE \E u \in Users : EnqAdd(b, u)
  <2>1. PICK u \in Users : EnqAdd(b, u)
    BY <1>4
  <2> DEFINE j == enqJob[<<b, u>>]
  <2>2. j \in JobIds /\ bull[j] = "none" /\ rowUser[j] = u /\ u # None
    BY <1>1, <2>1, ConstantsAssumption
       DEF FaultInv, TypeOK, PromiseInv, PromiseIds, EnqAdd
  <2>3. rowStatus[j] = "queued"
    BY <1>1, <2>2 DEF FaultInv, JobRows
  <2>4. /\ UNCHANGED <<rowVars, lock, slotVars>>
        /\ bull'[j] = "waiting"
        /\ \A i \in JobIds : i # j => bull'[i] = bull[i]
    BY <1>1, <2>1, <2>2 DEF TypeOK, EnqAdd
  <2> QED
    BY <1>1, <2>2, <2>3, <2>4 DEF TrustInv, HoldInv, ActiveInv, RunInv, QueueInv,
       Running, OpenStatus
<1> QED
  BY <1>2, <1>3, <1>4 DEF Enqueue

\* BullMQ hands out a job to the one slot that locks it.
LEMMA QueueKeepsTrustInv ==
    ASSUME TrustInv, NoLockLost, NEW j \in JobIds,
           (\E s \in Slots : PickUp(s, j)) \/ Promote(j) \/ Stall(j)
    PROVE  TrustInv'
<1> USE DEF rowVars, bullVars, slotVars, enqVars
<1>1. FaultInv /\ FaultInv' /\ TypeOK /\ TypeOK'
  BY NextFaultInv DEF TrustInv, FaultInv, Next
<1>2. ~Stall(j)
  BY DEF TrustInv, ActiveInv, NoLockLost, Stall, LockIsDead
<1>3. CASE Promote(j)
  <2>1. /\ UNCHANGED <<rowVars, lock, slotVars>>
        /\ bull[j] = "delayed" /\ bull'[j] = "waiting"
        /\ \A i \in JobIds : i # j => bull'[i] = bull[i]
    BY <1>1, <1>3 DEF TypeOK, Promote
  <2> QED
    BY <1>1, <2>1 DEF TrustInv, HoldInv, ActiveInv, RunInv, QueueInv, Running
<1>4. CASE \E s \in Slots : PickUp(s, j)
  <2>1. PICK s \in Slots : PickUp(s, j)
    BY <1>4
  <2>2. /\ bull[j] = "waiting" /\ bull'[j] = "active" /\ lock'[j] = s
        /\ pc[s] = "idle" /\ pc'[s] = "start" /\ cur'[s] = j
        /\ \A i \in JobIds : i # j => bull'[i] = bull[i] /\ lock'[i] = lock[i]
        /\ \A t \in Slots : t # s => pc'[t] = pc[t] /\ cur'[t] = cur[t]
                                     /\ seen'[t] = seen[t]
        /\ UNCHANGED rowVars
    BY <1>1, <2>1 DEF TypeOK, PickUp
  <2>3. \A t \in Slots : pc[t] # "idle" => cur[t] \in JobIds /\ cur[t] # j
    BY <1>1, <2>2, ConstantsAssumption
       DEF TrustInv, FaultInv, TypeOK, SlotInv, HoldInv, LockInv
  <2>4. HoldInv'
    BY <1>1, <2>2, <2>3 DEF TrustInv, HoldInv
  <2>7. ActiveInv'
    <3> SUFFICES ASSUME NEW i \in JobIds, bull'[i] = "active"
                 PROVE  /\ lock'[i] \in Slots
                        /\ pc'[lock'[i]] # "idle" /\ cur'[lock'[i]] = i
      BY DEF ActiveInv, Running
    <3>1. CASE i = j
      BY <2>2, <3>1 DEF Running
    <3>2. CASE i # j
      <4>1. lock[i] \in Slots /\ pc[lock[i]] # "idle" /\ cur[lock[i]] = i
        BY <2>2, <3>2 DEF TrustInv, ActiveInv, Running
      <4>2. lock[i] # s /\ lock'[i] = lock[i]
        BY <2>2, <3>2, <4>1
      <4> QED
        BY <2>2, <4>1, <4>2 DEF Running
    <3> QED
      BY <3>1, <3>2
  <2>5. RunInv'
    BY <1>1, <2>2, <2>3 DEF TrustInv, RunInv, QueueInv, HandlerPc
  <2>6. QueueInv'
    BY <1>1, <2>2 DEF TrustInv, QueueInv
  <2> QED
    BY <1>1, <2>4, <2>7, <2>5, <2>6 DEF TrustInv
<1> QED
  BY <1>2, <1>3, <1>4

\* A slot writes the row of its own job.
LEMMA SlotKeepsTrustInv ==
    ASSUME TrustInv, NEW s \in Slots,
           \/ MarkActive(s) \/ CheckFresh(s) \/ StampChannel(s)
           \/ PersistRest(s) \/ HandlerFail(s) \/ DbError(s)
           \/ MarkCompleted(s) \/ MarkFailed(s)
    PROVE  TrustInv'
<1> USE DEF rowVars, bullVars, slotVars, enqVars, Goto
<1>1. FaultInv /\ FaultInv' /\ TypeOK /\ TypeOK'
  BY NextFaultInv DEF TrustInv, FaultInv, Next, Run
<1> DEFINE j == cur[s]
<1>2. /\ pc[s] # "idle" /\ pc'[s] # "idle"
      /\ \A t \in Slots : t # s => pc'[t] = pc[t]
      /\ UNCHANGED <<rowUser, bullVars, cur, seen, enqVars>>
  BY <1>1 DEF TypeOK, MarkActive, CheckFresh, StampChannel, PersistRest,
              HandlerFail, DbError, MarkCompleted, MarkFailed, HandlerPc
<1>3. j \in JobIds /\ lock[j] = s /\ bull[j] = "active"
  BY <1>1, <1>2, ConstantsAssumption
     DEF TrustInv, FaultInv, TypeOK, SlotInv, HoldInv, LockInv
<1>4. \A t \in Slots : t # s /\ pc[t] # "idle" => cur[t] # j /\ cur[t] \in JobIds
  BY <1>1, <1>2, OneSlotPerJob DEF FaultInv, TypeOK, SlotInv
<1>5. \A i \in JobIds : i # j => rowStatus'[i] = rowStatus[i]
  BY <1>1, <1>3 DEF TypeOK, MarkActive, CheckFresh, StampChannel, PersistRest,
              HandlerFail, DbError, MarkCompleted, MarkFailed
<1>6. HoldInv' /\ ActiveInv'
  BY <1>2 DEF TrustInv, HoldInv, ActiveInv, Running
<1>7. QueueInv'
  BY <1>2, <1>3, <1>5 DEF TrustInv, QueueInv
<1>8. /\ pc'[s] = "start" => rowStatus'[j] \in OpenStatus
      /\ pc'[s] \in HandlerPc \cup {"saved", "caught", "fatal"} =>
           rowStatus'[j] = "active"
      /\ pc'[s] = "resolved" => rowStatus'[j] = "completed"
      /\ pc'[s] = "thrownFatal" => rowStatus'[j] = "failed"
      /\ pc'[s] = "thrown" =>
           \/ rowStatus'[j] \in OpenStatus
           \/ rowStatus'[j] = "failed" /\ seen[s] + 1 >= MaxAttempts
  <2> USE DEF HandlerPc, OpenStatus
  <2>1. CASE MarkActive(s)
    BY <1>1, <1>3, <2>1 DEF TypeOK, MarkActive
  <2>2. CASE CheckFresh(s) \/ StampChannel(s) \/ PersistRest(s) \/ HandlerFail(s)
    BY <1>1, <1>3, <2>2 DEF TrustInv, RunInv, TypeOK, CheckFresh, StampChannel,
       PersistRest, HandlerFail
  <2>3. CASE DbError(s)
    BY <1>1, <1>3, <2>3 DEF TrustInv, RunInv, TypeOK, DbError
  <2>4. CASE MarkCompleted(s)
    BY <1>1, <1>3, <2>4 DEF TypeOK, MarkCompleted
  <2>5. CASE MarkFailed(s)
    <3>1. /\ pc'[s] = IF pc[s] = "fatal" THEN "thrownFatal" ELSE "thrown"
          /\ rowStatus'[j] = IF seen[s] + 1 >= MaxAttempts \/ pc[s] = "fatal"
                             THEN "failed" ELSE "retrying"
      BY <1>1, <1>3, <2>5 DEF TypeOK, MarkFailed
    <3> QED
      BY <3>1
  <2> QED
    BY <2>1, <2>2, <2>3, <2>4, <2>5
<1>9. RunInv'
  BY <1>2, <1>4, <1>5, <1>8 DEF TrustInv, RunInv, HandlerPc
<1> QED
  BY <1>1, <1>6, <1>7, <1>9 DEF TrustInv

\* A job that settles leaves its slot.
LEMMA SettleKeepsTrustInv ==
    ASSUME TrustInv, NEW s \in Slots, Resolve(s) \/ Reject(s)
    PROVE  TrustInv'
<1> USE DEF rowVars, bullVars, slotVars, enqVars, Release
<1>1. FaultInv /\ FaultInv' /\ TypeOK /\ TypeOK'
  BY NextFaultInv DEF TrustInv, FaultInv, Next, Run
<1> DEFINE j == cur[s]
<1>2. pc[s] # "idle" /\ j \in JobIds /\ lock[j] = s /\ bull[j] = "active"
  BY <1>1, ConstantsAssumption
     DEF TrustInv, FaultInv, TypeOK, SlotInv, HoldInv, LockInv, Resolve, Reject
<1>3. \A t \in Slots : t # s /\ pc[t] # "idle" => cur[t] # j /\ cur[t] \in JobIds
  BY <1>1, <1>2, OneSlotPerJob DEF FaultInv, TypeOK, SlotInv
<1>4. /\ pc'[s] = "idle"
      /\ \A t \in Slots : t # s => pc'[t] = pc[t] /\ cur'[t] = cur[t]
                                   /\ seen'[t] = seen[t]
      /\ \A i \in JobIds : i # j => bull'[i] = bull[i] /\ lock'[i] = lock[i]
      /\ UNCHANGED <<rowVars, enqVars>>
  BY <1>1, <1>2 DEF TypeOK, Resolve, Reject
<1>5. /\ bull'[j] \in {"completed", "failed", "delayed"}
      /\ bull'[j] = "completed" => rowStatus[j] = "completed"
      /\ bull'[j] = "failed" => rowStatus[j] # "completed"
      /\ bull'[j] = "delayed" => rowStatus[j] \in OpenStatus
  <2>1. CASE Resolve(s)
    BY <1>1, <1>2, <2>1 DEF TrustInv, RunInv, TypeOK, Resolve
  <2>2. CASE Reject(s)
    <3>1. bull'[j] = IF seen[s] + 1 >= MaxAttempts \/ pc[s] = "thrownFatal"
                     THEN "failed" ELSE "delayed"
      BY <1>1, <1>2, <2>2 DEF TypeOK, Reject
    <3>2. pc[s] \in {"thrown", "thrownFatal"}
      BY <2>2 DEF Reject
    <3> QED
      BY <3>1, <3>2 DEF TrustInv, RunInv, OpenStatus
  <2> QED
    BY <2>1, <2>2
<1>6. HoldInv' /\ RunInv'
  BY <1>2, <1>3, <1>4 DEF TrustInv, HoldInv, RunInv, HandlerPc
<1>7. ActiveInv'
  <2> SUFFICES ASSUME NEW i \in JobIds, bull'[i] = "active"
               PROVE  /\ lock'[i] \in Slots
                      /\ pc'[lock'[i]] # "idle" /\ cur'[lock'[i]] = i
    BY DEF ActiveInv, Running
  <2>1. i # j /\ bull[i] = "active" /\ lock'[i] = lock[i]
    BY <1>4, <1>5
  <2>2. lock[i] \in Slots /\ pc[lock[i]] # "idle" /\ cur[lock[i]] = i
    BY <2>1 DEF TrustInv, ActiveInv, Running
  <2> QED
    BY <1>2, <1>4, <2>1, <2>2 DEF Running
<1>8. QueueInv'
  BY <1>4, <1>5 DEF TrustInv, QueueInv
<1> QED
  BY <1>1, <1>6, <1>7, <1>8 DEF TrustInv

\* So every step keeps what is known of a slot that holds its lock.
LEMMA NextTrustInv ==
    ASSUME TrustInv, NoLockLost, [Next]_vars PROVE TrustInv'
<1>1. CASE UNCHANGED vars \/ \E u \in Users : Age(u)
  <2>1. FaultInv'
    BY <1>1, NextFaultInv DEF TrustInv, Next
  <2>2. UNCHANGED <<rowVars, bullVars, slotVars>>
    BY <1>1 DEF vars, Age
  <2> QED
    BY <2>1, <2>2 DEF rowVars, bullVars, slotVars, TrustInv, HoldInv, ActiveInv,
       RunInv, QueueInv, Running
<1>2. ~\E s \in Slots : Crash(s)
  BY DEF NoLockLost, Crash
<1> QED
  BY <1>1, <1>2, EnqueueKeepsTrustInv, QueueKeepsTrustInv, SlotKeepsTrustInv,
     SettleKeepsTrustInv DEF Next, Run, Exhausted

\* While no lock is lost, success is recorded exactly: a completed job has a
\* completed row, whatever writes to worker_jobs were refused, and a completed
\* row's job is not run again.
THEOREM CompletionIsRecorded ==
    ASSUME NoLockLost PROVE Spec => []CompletionAgrees
<1>1. ASSUME TrustInv PROVE CompletionAgrees
  <2> SUFFICES ASSUME NEW j \in JobIds
               PROVE  /\ bull[j] = "completed" => rowStatus[j] = "completed"
                      /\ rowStatus[j] = "completed" =>
                           \/ bull[j] = "completed"
                           \/ \E s \in Slots : Running(s, j) /\ pc[s] = "resolved"
    BY DEF CompletionAgrees
  <2>1. bull[j] = "completed" => rowStatus[j] = "completed"
    BY <1>1 DEF TrustInv, QueueInv
  <2>2. ASSUME rowStatus[j] = "completed", bull[j] # "completed"
        PROVE  \E s \in Slots : Running(s, j) /\ pc[s] = "resolved"
    <3>1. bull[j] = "active"
      BY <1>1, <2>2 DEF TrustInv, FaultInv, TypeOK, BullState, QueueInv, JobRows,
         OpenStatus
    <3>2. lock[j] \in Slots /\ Running(lock[j], j)
      BY <1>1, <3>1 DEF TrustInv, ActiveInv
    <3>3. pc[lock[j]] = "resolved"
      BY <1>1, <2>2, <3>2 DEF TrustInv, FaultInv, TypeOK, SlotPc, RunInv, Running,
         OpenStatus
    <3> QED
      BY <3>2, <3>3
  <2> QED
    BY <2>1, <2>2
<1> QED
  BY <1>1, InitTrustInv, NextTrustInv, PTL DEF Spec

-----------------------------------------------------------------------------
(* When only handlers fail, the row says what BullMQ is going to do.       *)

OnlyHandlersFail == Faults \subseteq {"handler"}

\* runJob's verdict on an attempt that failed, before BullMQ's.
VerdictInv ==
    \A s \in Slots :
      pc[s] = "thrown" =>
        /\ rowAttempts[cur[s]] = seen[s] + 1
        /\ rowStatus[cur[s]] = IF seen[s] + 1 >= MaxAttempts
                               THEN "failed" ELSE "retrying"

AgreeInv == TrustInv /\ VerdictInv /\ RowsFollowJobs

Promised(j) ==
    \E p \in BatchRuns \X Users : enq[p] = "add" /\ enqJob[p] = j

\* At the start there is neither row nor job.
LEMMA InitAgreeInv == Init => AgreeInv
  BY InitTrustInv DEF Init, AgreeInv, VerdictInv, RowsFollowJobs, OpenStatus

\* Batch runs: a new row comes with the promise to add its job.
LEMMA EnqueueKeepsAgreeInv ==
    ASSUME AgreeInv, OnlyHandlersFail, NEW b \in BatchRuns,
           BatchScan(b) \/ \E u \in Users : Enqueue(b, u) \/ EnqAbort(b, u)
    PROVE  AgreeInv'
<1> USE DEF rowVars, bullVars, slotVars, enqVars
<1>1. /\ TrustInv' /\ FaultInv /\ TypeOK /\ JobRows /\ PromiseIds
      /\ VerdictInv /\ RowsFollowJobs
  BY EnqueueKeepsTrustInv DEF AgreeInv, TrustInv, FaultInv
<1>2. CASE BatchScan(b) \/ \E u \in Users : EnqCheck(b, u)
  <2>1. UNCHANGED <<rowVars, bullVars, slotVars, enqJob>>
    BY <1>2 DEF BatchScan, EnqCheck
  <2>2. \A p \in BatchRuns \X Users : enq[p] = "add" => enq'[p] = "add"
    <3>1. CASE BatchScan(b)
      BY <3>1 DEF BatchScan
    <3>2. CASE \E u \in Users : EnqCheck(b, u)
      BY <1>1, <3>2 DEF TypeOK, EnqCheck
    <3> QED BY <1>2, <3>1, <3>2
  <2> QED
    BY <1>1, <2>1, <2>2 DEF AgreeInv, VerdictInv, RowsFollowJobs
<1>3. CASE \E u \in Users, j \in JobIds : EnqCreate(b, u, j)
  <2>1. PICK u \in Users, j \in JobIds : EnqCreate(b, u, j)
    BY <1>3
  <2>2. bull[j] = "none"
    BY <1>1, <2>1 DEF JobRows, EnqCreate
  <2>3. \A s \in Slots : pc[s] # "idle" => cur[s] \in JobIds /\ cur[s] # j
    BY <1>1, <2>2 DEF FaultInv, TypeOK, SlotInv
  <2>4. /\ UNCHANGED <<rowAttempts, bullVars, slotVars>>
        /\ \A i \in JobIds : i # j => rowStatus'[i] = rowStatus[i]
        /\ rowStatus'[j] = "queued"
        /\ enq'[<<b, u>>] = "add" /\ enqJob'[<<b, u>>] = j
        /\ \A p \in BatchRuns \X Users :
             p # <<b, u>> => enq'[p] = enq[p] /\ enqJob'[p] = enqJob[p]
        /\ enq[<<b, u>>] # "add"
    BY <1>1, <2>1 DEF TypeOK, EnqCreate
  <2>5. VerdictInv'
    BY <1>1, <2>3, <2>4 DEF VerdictInv
  <2>6. RowsFollowJobs'
    <3> SUFFICES ASSUME NEW i \in JobIds
                 PROVE  /\ bull[i] = "failed" => rowStatus'[i] = "failed"
                        /\ bull[i] = "delayed" => /\ rowStatus'[i] = "retrying"
                                                  /\ rowAttempts[i] = made[i]
                        /\ rowStatus'[i] \in OpenStatus =>
                             \/ bull[i] \in {"waiting", "active", "delayed"}
                             \/ Promised(i)'
      BY <2>4 DEF RowsFollowJobs, Promised
    <3>1. CASE i = j
      BY <2>2, <2>4, <3>1 DEF Promised
    <3>2. CASE i # j
      <4>1. Promised(i) => Promised(i)'
        BY <2>4 DEF Promised
      <4> QED BY <1>1, <2>4, <3>2, <4>1 DEF RowsFollowJobs, Promised
    <3> QED BY <3>1, <3>2
  <2> QED BY <1>1, <2>5, <2>6 DEF AgreeInv
<1>4. CASE \E u \in Users : EnqAdd(b, u)
  <2>1. PICK u \in Users : EnqAdd(b, u)
    BY <1>4
  <2> DEFINE j == enqJob[<<b, u>>]
  <2>2. j \in JobIds /\ bull[j] = "none"
    BY <1>1, <2>1, ConstantsAssumption DEF FaultInv, TypeOK, PromiseInv,
       PromiseIds, EnqAdd
  <2>3. /\ UNCHANGED <<rowVars, made, slotVars>>
        /\ bull'[j] = "waiting"
        /\ \A i \in JobIds : i # j => bull'[i] = bull[i]
        /\ \A p \in BatchRuns \X Users :
             p # <<b, u>> => enq'[p] = enq[p] /\ enqJob'[p] = enqJob[p]
    BY <1>1, <2>1, <2>2 DEF TypeOK, EnqAdd
  <2>4. VerdictInv'
    BY <1>1, <2>3 DEF VerdictInv
  <2>5. RowsFollowJobs'
    <3> SUFFICES ASSUME NEW i \in JobIds
                 PROVE  /\ bull'[i] = "failed" => rowStatus[i] = "failed"
                        /\ bull'[i] = "delayed" => /\ rowStatus[i] = "retrying"
                                                   /\ rowAttempts[i] = made[i]
                        /\ rowStatus[i] \in OpenStatus =>
                             \/ bull'[i] \in {"waiting", "active", "delayed"}
                             \/ Promised(i)'
      BY <2>3 DEF RowsFollowJobs, Promised
    <3>1. CASE i = j
      BY <2>3, <3>1
    <3>2. CASE i # j
      <4>1. Promised(i) => Promised(i)'
        BY <2>3, <3>2 DEF Promised
      <4> QED BY <1>1, <2>3, <3>2, <4>1 DEF RowsFollowJobs, Promised
    <3> QED BY <3>1, <3>2
  <2> QED BY <1>1, <2>4, <2>5 DEF AgreeInv
<1>5. ~\E u \in Users : EnqAbort(b, u)
  BY DEF OnlyHandlersFail, EnqAbort
<1> QED
  BY <1>2, <1>3, <1>4, <1>5 DEF Enqueue

\* BullMQ's own steps move a live job to another live state.
LEMMA QueueKeepsAgreeInv ==
    ASSUME AgreeInv, OnlyHandlersFail, NEW j \in JobIds,
           (\E s \in Slots : PickUp(s, j)) \/ Promote(j) \/ Stall(j)
    PROVE  AgreeInv'
<1> USE DEF rowVars, bullVars, slotVars, enqVars
<1>1. NoLockLost BY DEF OnlyHandlersFail, NoLockLost
<1>2. TrustInv' /\ TypeOK /\ VerdictInv /\ RowsFollowJobs
  BY <1>1, QueueKeepsTrustInv DEF AgreeInv, TrustInv, FaultInv
<1>3. ~Stall(j)
  BY <1>1 DEF AgreeInv, TrustInv, ActiveInv, NoLockLost, Stall, LockIsDead
<1>4. /\ bull'[j] \in {"waiting", "active"}
      /\ bull[j] \in {"waiting", "delayed"}
      /\ \A i \in JobIds : i # j => bull'[i] = bull[i]
      /\ UNCHANGED <<rowVars, made, enqVars>>
  <2>1. CASE Promote(j)
    BY <1>2, <2>1 DEF TypeOK, Promote
  <2>2. CASE \E s \in Slots : PickUp(s, j)
    BY <1>2, <2>2 DEF TypeOK, PickUp
  <2> QED BY <1>3, <2>1, <2>2
<1>5. RowsFollowJobs'
  BY <1>2, <1>4 DEF RowsFollowJobs
<1>6. VerdictInv'
  <2>1. CASE Promote(j)
    BY <1>2, <2>1 DEF VerdictInv, Promote
  <2>2. CASE \E s \in Slots : PickUp(s, j)
    <3>1. PICK s \in Slots : PickUp(s, j) BY <2>2
    <3>2. /\ pc'[s] = "start"
          /\ \A t \in Slots : t # s => pc'[t] = pc[t] /\ cur'[t] = cur[t]
                                       /\ seen'[t] = seen[t]
      BY <1>2, <3>1 DEF TypeOK, PickUp
    <3> QED BY <1>2, <1>4, <3>2 DEF VerdictInv
  <2> QED BY <1>3, <2>1, <2>2
<1> QED
  BY <1>2, <1>5, <1>6 DEF AgreeInv

\* A slot writes the row of an active job only.
LEMMA SlotKeepsAgreeInv ==
    ASSUME AgreeInv, OnlyHandlersFail, NEW s \in Slots,
           \/ MarkActive(s) \/ CheckFresh(s) \/ StampChannel(s)
           \/ PersistRest(s) \/ HandlerFail(s) \/ DbError(s)
           \/ MarkCompleted(s) \/ MarkFailed(s)
    PROVE  AgreeInv'
<1> USE DEF rowVars, bullVars, slotVars, enqVars, Goto
<1>1. TrustInv /\ TrustInv' /\ FaultInv /\ TypeOK /\ VerdictInv /\ RowsFollowJobs
  BY SlotKeepsTrustInv DEF AgreeInv, TrustInv, FaultInv
<1> DEFINE j == cur[s]
<1>0. ~DbError(s) BY DEF OnlyHandlersFail, DbError
<1>2. /\ pc[s] # "idle" /\ pc'[s] # "idle"
      /\ \A t \in Slots : t # s => pc'[t] = pc[t]
      /\ UNCHANGED <<bullVars, cur, seen, enqVars>>
  BY <1>1 DEF TypeOK, MarkActive, CheckFresh, StampChannel, PersistRest,
              HandlerFail, DbError, MarkCompleted, MarkFailed, HandlerPc
<1>3. j \in JobIds /\ bull[j] = "active"
  BY <1>1, <1>2, ConstantsAssumption
     DEF TrustInv, FaultInv, TypeOK, SlotInv, HoldInv, LockInv
<1>4. \A t \in Slots : t # s /\ pc[t] # "idle" => cur[t] # j /\ cur[t] \in JobIds
  BY <1>1, <1>2, OneSlotPerJob DEF FaultInv, TypeOK, SlotInv
<1>5. \A i \in JobIds :
        i # j => rowStatus'[i] = rowStatus[i] /\ rowAttempts'[i] = rowAttempts[i]
  BY <1>1, <1>3 DEF TypeOK, MarkActive, CheckFresh, StampChannel, PersistRest,
              HandlerFail, MarkCompleted, MarkFailed, DbError
<1>6. RowsFollowJobs'
  BY <1>1, <1>2, <1>3, <1>5 DEF RowsFollowJobs
<1>7. pc'[s] = "thrown" =>
        /\ rowAttempts'[j] = seen[s] + 1
        /\ rowStatus'[j] = IF seen[s] + 1 >= MaxAttempts
                           THEN "failed" ELSE "retrying"
  <2>1. CASE MarkFailed(s)
    BY <1>1, <1>3, <2>1 DEF TypeOK, MarkFailed
  <2>2. CASE ~MarkFailed(s)
    <3>1. pc'[s] # "thrown"
      BY <1>0, <1>1, <2>2 DEF TypeOK, MarkActive, CheckFresh, StampChannel,
         PersistRest, HandlerFail, MarkCompleted
    <3> QED BY <3>1
  <2> QED BY <2>1, <2>2
<1>8. VerdictInv'
  BY <1>1, <1>2, <1>4, <1>5, <1>7 DEF VerdictInv
<1> QED
  BY <1>1, <1>6, <1>8 DEF AgreeInv

\* BullMQ's verdict is the one the row has.
LEMMA SettleKeepsAgreeInv ==
    ASSUME AgreeInv, NEW s \in Slots, Resolve(s) \/ Reject(s)
    PROVE  AgreeInv'
<1> USE DEF rowVars, bullVars, slotVars, enqVars, Release
<1>1. TrustInv /\ TrustInv' /\ FaultInv /\ TypeOK /\ VerdictInv /\ RowsFollowJobs
  BY SettleKeepsTrustInv DEF AgreeInv, TrustInv, FaultInv
<1> DEFINE j == cur[s]
<1>2. pc[s] # "idle" /\ j \in JobIds /\ lock[j] = s
  BY <1>1, ConstantsAssumption
     DEF TrustInv, FaultInv, TypeOK, SlotInv, HoldInv, Resolve, Reject
<1>3. /\ pc'[s] = "idle"
      /\ \A t \in Slots : t # s => pc'[t] = pc[t] /\ cur'[t] = cur[t]
                                   /\ seen'[t] = seen[t]
      /\ \A i \in JobIds : i # j => bull'[i] = bull[i] /\ made'[i] = made[i]
      /\ UNCHANGED <<rowVars, enqVars>>
  BY <1>1, <1>2 DEF TypeOK, Resolve, Reject
<1>4. /\ bull'[j] = "failed" => rowStatus[j] = "failed"
      /\ bull'[j] = "delayed" => /\ rowStatus[j] = "retrying"
                                 /\ rowAttempts[j] = made'[j]
      /\ rowStatus[j] \in OpenStatus => bull'[j] = "delayed"
  <2>1. CASE Resolve(s)
    <3>1. bull'[j] = "completed" BY <1>1, <1>2, <2>1 DEF TypeOK, Resolve
    <3>2. rowStatus[j] = "completed"
      BY <1>1, <2>1 DEF TrustInv, RunInv, Resolve
    <3> QED BY <3>1, <3>2 DEF OpenStatus
  <2>2. CASE Reject(s)
    <3>1. /\ bull'[j] = IF seen[s] + 1 >= MaxAttempts \/ pc[s] = "thrownFatal"
                        THEN "failed" ELSE "delayed"
          /\ made'[j] = seen[s] + 1
      BY <1>1, <1>2, <2>2 DEF TypeOK, Reject
    <3>2. CASE pc[s] = "thrown"
      BY <1>1, <3>1, <3>2 DEF VerdictInv, OpenStatus
    <3>3. CASE pc[s] = "thrownFatal"
      BY <1>1, <3>1, <3>3 DEF TrustInv, RunInv, OpenStatus
    <3> QED BY <2>2, <3>2, <3>3 DEF Reject
  <2> QED BY <2>1, <2>2
<1>5. RowsFollowJobs'
  BY <1>1, <1>2, <1>3, <1>4 DEF RowsFollowJobs
<1>6. VerdictInv'
  BY <1>1, <1>3 DEF VerdictInv
<1> QED
  BY <1>1, <1>5, <1>6 DEF AgreeInv

\* Every step keeps what rows and jobs say of each other.
LEMMA NextAgreeInv ==
    ASSUME AgreeInv, OnlyHandlersFail, [Next]_vars PROVE AgreeInv'
<1>1. CASE UNCHANGED vars \/ \E u \in Users : Age(u)
  <2>1. TrustInv'
    BY <1>1, NextTrustInv DEF AgreeInv, OnlyHandlersFail, NoLockLost, Next
  <2>2. UNCHANGED <<rowVars, bullVars, slotVars, enqVars>>
    BY <1>1 DEF vars, Age
  <2> QED
    BY <2>1, <2>2 DEF rowVars, bullVars, slotVars, enqVars, AgreeInv, VerdictInv,
       RowsFollowJobs
<1>2. ~\E s \in Slots : Crash(s)
  BY DEF OnlyHandlersFail, Crash
<1> QED
  BY <1>1, <1>2, EnqueueKeepsAgreeInv, QueueKeepsAgreeInv, SlotKeepsAgreeInv,
     SettleKeepsAgreeInv DEF Next, Run, Exhausted

\* runJob's choice between 'failed' and 'retrying' is BullMQ's own, and no open
\* row is without a job, for any number of batch runs at once.
THEOREM RowsAgreeWithJobs ==
    ASSUME OnlyHandlersFail PROVE Spec => []RowsFollowJobs
<1>1. AgreeInv => RowsFollowJobs BY DEF AgreeInv
<1> QED
  BY <1>1, InitAgreeInv, NextAgreeInv, PTL DEF Spec

-----------------------------------------------------------------------------
(* Batch runs that overlap: a user's open jobs and the runs about to create *)
(* one for that user are together no more than the batch runs.             *)

Checked(u) == {b \in BatchRuns : enq[<<b, u>>] = "create"}

CountInv ==
    \A u \in Users :
      /\ IsFiniteSet(OpenJobs(u))
      /\ Cardinality(OpenJobs(u)) + Cardinality(Checked(u))
           <= Cardinality(BatchRuns)

SerialInv == TrustInv /\ CountInv

\* Sets of batch runs are finite, and no larger than all of them.
LEMMA CheckedCount ==
    ASSUME NEW C \in SUBSET BatchRuns
    PROVE  /\ IsFiniteSet(C) /\ Cardinality(C) \in Nat
           /\ Cardinality(BatchRuns) \in Nat
           /\ Cardinality(C) <= Cardinality(BatchRuns)
<1>1. IsFiniteSet(BatchRuns)
  BY ConstantsAssumption
<1>2. IsFiniteSet(C) /\ Cardinality(C) <= Cardinality(BatchRuns)
  BY <1>1, FS_Subset
<1> QED
  BY <1>1, <1>2, FS_CardinalityType

\* What follows from an unchanged or smaller pair of sets.
LEMMA FewerCount ==
    ASSUME NEW O, NEW P \in SUBSET O, IsFiniteSet(O),
           NEW C \in SUBSET BatchRuns, NEW D \in SUBSET C,
           Cardinality(O) + Cardinality(C) <= Cardinality(BatchRuns)
    PROVE  /\ IsFiniteSet(P)
           /\ Cardinality(P) + Cardinality(D) <= Cardinality(BatchRuns)
<1>1. /\ IsFiniteSet(P) /\ Cardinality(P) <= Cardinality(O)
      /\ Cardinality(P) \in Nat /\ Cardinality(O) \in Nat
  BY FS_Subset, FS_CardinalityType
<1>2. IsFiniteSet(C) /\ Cardinality(C) \in Nat /\ Cardinality(BatchRuns) \in Nat
  BY CheckedCount
<1>3. Cardinality(D) <= Cardinality(C) /\ Cardinality(D) \in Nat
  BY <1>2, FS_Subset, FS_CardinalityType
<1> QED
  BY <1>1, <1>2, <1>3

\* At the start no user has an open row and no run has found that.
LEMMA InitSerialInv == Init => SerialInv
<1> SUFFICES ASSUME Init, NEW u \in Users
             PROVE  /\ IsFiniteSet(OpenJobs(u))
                    /\ Cardinality(OpenJobs(u)) + Cardinality(Checked(u))
                         <= Cardinality(BatchRuns)
  BY InitTrustInv DEF SerialInv, CountInv
<1>1. OpenJobs(u) = {} /\ Checked(u) = {}
  BY DEF Init, OpenJobs, OpenRow, OpenStatus, Checked
<1>2. Cardinality(BatchRuns) \in Nat
  BY CheckedCount
<1> QED
  BY <1>1, <1>2, FS_EmptySet

\* What a step that inserts no row may do to the table: follow the lifecycle.
RowStep ==
    /\ UNCHANGED rowUser
    /\ \/ UNCHANGED rowStatus
       \/ \E j \in JobIds : Lifecycle!Start(j)
       \/ \E j \in JobIds, v \in {"completed", "failed", "retrying"} :
            Lifecycle!End(j, v)

\* A step that inserts no row opens none for a user.
LEMMA NoInsertRowStep ==
    ASSUME TrustInv, NoLockLost, [Next]_vars,
           ~\E b \in BatchRuns, u \in Users, j \in JobIds : EnqCreate(b, u, j)
    PROVE  RowStep
<1> USE DEF rowVars, bullVars, slotVars, enqVars
<1>1. CASE \E s \in Slots : MarkActive(s) \/ MarkCompleted(s) \/ MarkFailed(s)
  <2>1. PICK s \in Slots : MarkActive(s) \/ MarkCompleted(s) \/ MarkFailed(s)
    BY <1>1
  <2> DEFINE j == cur[s]
  <2>2. j \in JobIds /\ rowStatus \in [JobIds -> RowStatus]
    BY <2>1, ConstantsAssumption DEF TrustInv, FaultInv, TypeOK, SlotInv,
       MarkActive, MarkCompleted, MarkFailed
  <2>3. CASE MarkActive(s)
    <3>1. rowStatus[j] \in OpenStatus
      BY <2>3 DEF TrustInv, RunInv, MarkActive
    <3>2. CASE rowStatus[j] = "active"
      BY <2>2, <2>3, <3>2 DEF MarkActive, RowStep
    <3>3. CASE rowStatus[j] # "active"
      BY <2>2, <2>3, <3>1, <3>3 DEF MarkActive, RowStep, OpenStatus, Lifecycle!Start
    <3> QED
      BY <3>2, <3>3
  <2>4. CASE MarkCompleted(s)
    <3>1. rowStatus[j] = "active"
      BY <2>4 DEF TrustInv, RunInv, MarkCompleted
    <3> QED
      BY <2>2, <2>4, <3>1 DEF MarkCompleted, RowStep, Lifecycle!End
  <2>5. CASE MarkFailed(s)
    <3>1. rowStatus[j] = "active"
      BY <2>5 DEF TrustInv, RunInv, MarkFailed
    <3>2. PICK v \in {"failed", "retrying"} :
            rowStatus' = [rowStatus EXCEPT ![j] = v]
      BY <2>5 DEF MarkFailed
    <3> QED
      BY <2>2, <2>5, <3>1, <3>2 DEF MarkFailed, RowStep, Lifecycle!End
  <2> QED
    BY <2>1, <2>3, <2>4, <2>5
<1>2. CASE ~\E s \in Slots : MarkActive(s) \/ MarkCompleted(s) \/ MarkFailed(s)
  <2>1. UNCHANGED <<rowUser, rowStatus>>
    BY <1>2 DEF Next, Enqueue, Run, Exhausted, vars, BatchScan, EnqCheck, EnqAdd,
       EnqAbort, PickUp, CheckFresh, StampChannel, PersistRest, HandlerFail,
       DbError, Resolve, Reject, Crash, Promote, Stall, Age
  <2> QED
    BY <2>1 DEF RowStep
<1> QED
  BY <1>1, <1>2

\* Such a step opens no row, so it can spoil neither a check nor uniqueness.
LEMMA RowStepOpensNothing ==
    ASSUME TypeOK, RowStep, NEW j \in JobIds, NEW u, OpenRow(j, u)'
    PROVE  OpenRow(j, u)
<1>1. CASE UNCHANGED rowStatus
  BY <1>1 DEF RowStep, OpenRow
<1>2. CASE \E i \in JobIds : Lifecycle!Start(i)
  BY <1>2 DEF TypeOK, RowStep, OpenRow, OpenStatus, Lifecycle!Start
<1>3. CASE \E i \in JobIds, v \in {"completed", "failed", "retrying"} :
             Lifecycle!End(i, v)
  BY <1>3 DEF TypeOK, RowStep, OpenRow, OpenStatus, Lifecycle!End
<1> QED
  BY <1>1, <1>2, <1>3 DEF RowStep

\* A run about to create a job for a user is counted with the user's jobs, so
\* there is room for one more.
LEMMA InsertIsQueue ==
    ASSUME SerialInv, NEW b \in BatchRuns, NEW u \in Users, NEW j \in JobIds,
           EnqCreate(b, u, j)
    PROVE  Lifecycle!Queue(j, u)
<1>1. b \in Checked(u)
  BY DEF EnqCreate, Checked
<1>2. /\ IsFiniteSet(OpenJobs(u))
      /\ Cardinality(OpenJobs(u)) + Cardinality(Checked(u))
           <= Cardinality(BatchRuns)
  BY DEF SerialInv, CountInv
<1>3. Cardinality(Checked(u)) # 0 /\ Cardinality(Checked(u)) \in Nat
  BY <1>1, CheckedCount, FS_EmptySet DEF Checked
<1>4. Cardinality(OpenJobs(u)) \in Nat /\ Cardinality(BatchRuns) \in Nat
  BY <1>2, FS_CardinalityType, ConstantsAssumption
<1>5. Cardinality(OpenJobs(u)) < Cardinality(BatchRuns)
  BY <1>2, <1>3, <1>4
<1>6. Lifecycle!OpenJobs(u) = OpenJobs(u)
  BY DEF Lifecycle!OpenJobs, Lifecycle!Open, OpenJobs, OpenRow, OpenStatus
<1>7. \A S : Lifecycle!Cardinality(S) = Cardinality(S)
  BY DEF Lifecycle!Cardinality, Lifecycle!IsFiniteSet, Cardinality, IsFiniteSet
<1> QED
  BY <1>5, <1>6, <1>7 DEF EnqCreate, Lifecycle!Queue

\* An insert takes its run out of those about to create a job, and adds a job.
LEMMA CreateKeepsCount ==
    ASSUME TypeOK, CountInv, NEW b \in BatchRuns, NEW u \in Users,
           NEW j \in JobIds, EnqCreate(b, u, j)
    PROVE  CountInv'
<1> SUFFICES ASSUME NEW v \in Users
             PROVE  /\ IsFiniteSet(OpenJobs(v)')
                    /\ Cardinality(OpenJobs(v)') + Cardinality(Checked(v)')
                         <= Cardinality(BatchRuns)
  BY DEF CountInv
<1>1. /\ enq[<<b, u>>] = "create" /\ enq'[<<b, u>>] = "add"
      /\ \A p \in BatchRuns \X Users : p # <<b, u>> => enq'[p] = enq[p]
      /\ rowUser'[j] = u /\ rowStatus'[j] = "queued" /\ rowStatus[j] = "absent"
      /\ \A i \in JobIds : i # j => /\ rowUser'[i] = rowUser[i]
                                    /\ rowStatus'[i] = rowStatus[i]
  BY DEF TypeOK, EnqCreate
<1>2. /\ IsFiniteSet(OpenJobs(v)) /\ Checked(v) \in SUBSET BatchRuns
      /\ Cardinality(OpenJobs(v)) + Cardinality(Checked(v))
           <= Cardinality(BatchRuns)
  BY DEF CountInv, Checked
<1>3. CASE v # u
  <2>1. OpenJobs(v)' = OpenJobs(v) /\ Checked(v)' = Checked(v)
    BY <1>1, <1>3 DEF OpenJobs, OpenRow, OpenStatus, Checked
  <2> QED
    BY <1>2, <2>1
<1>4. CASE v = u
  <2>1. /\ OpenJobs(v)' = OpenJobs(v) \cup {j} /\ j \notin OpenJobs(v)
        /\ Checked(v)' = Checked(v) \ {b} /\ b \in Checked(v)
    BY <1>1, <1>4 DEF OpenJobs, OpenRow, OpenStatus, Checked
  <2>2. /\ IsFiniteSet(OpenJobs(v)')
        /\ Cardinality(OpenJobs(v)') = Cardinality(OpenJobs(v)) + 1
    BY <1>2, <2>1, FS_AddElement
  <2>3. Cardinality(Checked(v)') = Cardinality(Checked(v)) - 1
    BY <1>2, <2>1, CheckedCount, FS_RemoveElement
  <2>4. Cardinality(OpenJobs(v)) \in Nat /\ Cardinality(Checked(v)) \in Nat
    BY <1>2, CheckedCount, FS_CardinalityType
  <2> QED
    BY <1>2, <2>2, <2>3, <2>4
<1> QED
  BY <1>3, <1>4

\* A run that looks for an open job joins those about to create one only when
\* there is none.
LEMMA CheckKeepsCount ==
    ASSUME TypeOK, CountInv, NEW b \in BatchRuns, NEW u \in Users,
           EnqCheck(b, u)
    PROVE  CountInv'
<1> SUFFICES ASSUME NEW v \in Users
             PROVE  /\ IsFiniteSet(OpenJobs(v)')
                    /\ Cardinality(OpenJobs(v)') + Cardinality(Checked(v)')
                         <= Cardinality(BatchRuns)
  BY DEF CountInv
<1>1. /\ IsFiniteSet(OpenJobs(v)) /\ Checked(v) \in SUBSET BatchRuns
      /\ Cardinality(OpenJobs(v)) + Cardinality(Checked(v))
           <= Cardinality(BatchRuns)
  BY DEF CountInv, Checked
<1>2. /\ OpenJobs(v)' = OpenJobs(v)
      /\ \A p \in BatchRuns \X Users : p # <<b, u>> => enq'[p] = enq[p]
  BY DEF EnqCheck, TypeOK, OpenJobs, OpenRow, rowVars
<1>3. CASE v = u /\ ~HasOpenJob(u)
  <2>1. OpenJobs(v) = {}
    BY <1>3 DEF OpenJobs, HasOpenJob
  <2>2. /\ Cardinality(Checked(v)') <= Cardinality(BatchRuns)
        /\ Cardinality(Checked(v)') \in Nat
    <3>1. Checked(v)' \in SUBSET BatchRuns
      BY DEF Checked
    <3> QED
      BY <3>1, CheckedCount
  <2> QED
    BY <1>2, <2>1, <2>2, FS_EmptySet
<1>4. CASE v # u \/ HasOpenJob(u)
  <2>1. Checked(v)' = Checked(v)
    BY <1>2, <1>4 DEF Checked, EnqCheck, TypeOK
  <2> QED
    BY <1>1, <1>2, <2>1
<1> QED
  BY <1>3, <1>4

\* No other step opens a row, or makes a run ready to create one.
LEMMA NextSerialInv ==
    ASSUME SerialInv, NoLockLost, [Next]_vars PROVE SerialInv'
<1>1. TrustInv' /\ TypeOK
  BY NextTrustInv DEF SerialInv, TrustInv, FaultInv
<1>2. CASE \E b \in BatchRuns, u \in Users, j \in JobIds : EnqCreate(b, u, j)
  BY <1>1, <1>2, CreateKeepsCount DEF SerialInv
<1>3. CASE \E b \in BatchRuns, u \in Users : EnqCheck(b, u)
  BY <1>1, <1>3, CheckKeepsCount DEF SerialInv
<1>4. ASSUME ~\E b \in BatchRuns, u \in Users, j \in JobIds : EnqCreate(b, u, j),
             ~\E b \in BatchRuns, u \in Users : EnqCheck(b, u)
      PROVE  CountInv'
  <2> SUFFICES ASSUME NEW u \in Users
               PROVE  /\ IsFiniteSet(OpenJobs(u)')
                      /\ Cardinality(OpenJobs(u)') + Cardinality(Checked(u)')
                           <= Cardinality(BatchRuns)
    BY DEF CountInv
  <2>1. RowStep
    BY <1>4, NoInsertRowStep DEF SerialInv
  <2>2. OpenJobs(u)' \subseteq OpenJobs(u)
    BY <1>1, <2>1, RowStepOpensNothing DEF OpenJobs
  <2>3. \A p \in BatchRuns \X Users : enq'[p] = "create" => enq[p] = "create"
    <3>1. CASE \E b \in BatchRuns : BatchScan(b)
      BY <1>1, <3>1 DEF BatchScan, TypeOK
    <3>2. CASE \E b \in BatchRuns, v \in Users : EnqAdd(b, v) \/ EnqAbort(b, v)
      BY <1>1, <3>2 DEF TypeOK, EnqAdd, EnqAbort
    <3>3. CASE UNCHANGED enq
      BY <3>3
    <3> QED
      BY <1>4, <3>1, <3>2, <3>3 DEF Next, Enqueue, Run, Exhausted, vars,
         enqVars, PickUp, MarkActive, CheckFresh, StampChannel, PersistRest,
         HandlerFail, DbError, MarkCompleted, MarkFailed, Resolve, Reject, Crash,
         Promote, Stall, Age
  <2>4. Checked(u)' \subseteq Checked(u) /\ Checked(u) \subseteq BatchRuns
    BY <2>3 DEF Checked
  <2>5. /\ IsFiniteSet(OpenJobs(u))
        /\ Cardinality(OpenJobs(u)) + Cardinality(Checked(u))
             <= Cardinality(BatchRuns)
    BY DEF SerialInv, CountInv
  <2> QED
    BY <2>2, <2>4, <2>5, FewerCount
<1> QED
  BY <1>1, <1>2, <1>3, <1>4 DEF SerialInv

\* However many batch runs overlap, and through refused writes and lost
\* enqueues, a user has no more open jobs than there are batch runs at once, as
\* long as no lock is lost: one, where batch runs do not overlap.
THEOREM OpenJobsStayBounded ==
    ASSUME NoLockLost PROVE Spec => []OpenJobsBounded
<1>1. ASSUME SerialInv PROVE OpenJobsBounded
  <2> SUFFICES ASSUME NEW u \in Users
               PROVE  Cardinality(OpenJobs(u)) <= Cardinality(BatchRuns)
    BY DEF OpenJobsBounded
  <2>1. /\ IsFiniteSet(OpenJobs(u)) /\ Checked(u) \in SUBSET BatchRuns
        /\ Cardinality(OpenJobs(u)) + Cardinality(Checked(u))
             <= Cardinality(BatchRuns)
    BY <1>1 DEF SerialInv, CountInv, Checked
  <2>2. /\ Cardinality(OpenJobs(u)) \in Nat /\ Cardinality(Checked(u)) \in Nat
        /\ Cardinality(BatchRuns) \in Nat
    BY <2>1, CheckedCount, FS_CardinalityType
  <2> QED
    BY <2>1, <2>2
<1> QED
  BY <1>1, InitSerialInv, NextSerialInv, PTL DEF Spec

\* While no lock is lost the rows of worker_jobs live as JobLifecycle says:
\* every step of the workers is a step of that lifecycle, or leaves it alone.
THEOREM ImplementsLifecycle ==
    ASSUME NoLockLost PROVE Spec => LifecycleSpec
<1>1. Init => Lifecycle!Init
  BY DEF Init, Lifecycle!Init
<1>2. ASSUME SerialInv, [Next]_vars
      PROVE  [Lifecycle!Next]_<<rowStatus, rowUser>>
  <2>1. CASE \E b \in BatchRuns, u \in Users, j \in JobIds : EnqCreate(b, u, j)
    BY <1>2, <2>1, InsertIsQueue DEF Lifecycle!Next
  <2>2. CASE RowStep
    BY <2>2 DEF RowStep, Lifecycle!Next
  <2> QED
    BY <1>2, <2>1, <2>2, NoInsertRowStep DEF SerialInv
<1> QED
  BY <1>1, <1>2, InitSerialInv, NextSerialInv, PTL
     DEF Spec, LifecycleSpec, Lifecycle!Spec
=============================================================================
