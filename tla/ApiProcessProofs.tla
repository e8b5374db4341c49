-------------------------- MODULE ApiProcessProofs --------------------------
(***************************************************************************)
(* What holds of a process of the API: its shutdown (ApiShutdown), the     *)
(* handlers of its requests (ApiRequests) and its scoring worker           *)
(* (YoutubeQueue), for any requests, users, jobs, time-out and faults.     *)
(*                                                                         *)
(* First the counter of the process alone: it follows the set of the       *)
(* requests in flight (CountInv).  Seen from the counter, handlers are     *)
(* requests like any other (Implements), so what holds of it carries over. *)
(* Of an approval the order of the steps decides: ApprovalInv adds to the  *)
(* properties what a handler that is past a step can rely on.              *)
(*                                                                         *)
(* The lock of a scoring job is held only by a process that lives and only *)
(* while the job is active (Locks), which a shutdown keeps since the       *)
(* worker waits for the jobs in hand.  With one worker and one job at a    *)
(* time no other job stores scores between a job's read and its write, so  *)
(* scores never go back, and whenever they are behind what was promised a  *)
(* job that will bring them up to date is still in the queue (Owed).       *)
(***************************************************************************)
EXTENDS ApiRequests, YoutubeQueue, FiniteSetTheorems, TLAPS

(* The counter never exceeds the requests in flight, which are finitely    *)
(* many.                                                                   *)
CountInv == TypeOK /\ IsFiniteSet(Running) /\ NeverOvercounted

-----------------------------------------------------------------------------
\* One request more or less in flight.
LEMMA RunningSize ==
    ASSUME CountInv, NEW r \in Requests
    PROVE  /\ Cardinality(Running) \in Nat
           /\ req[r] = "running" => Cardinality(Running) > 0
           /\ req[r] # "running" =>
                /\ IsFiniteSet(Running \cup {r})
                /\ Cardinality(Running \cup {r}) = Cardinality(Running) + 1
           /\ req[r] = "running" =>
                /\ IsFiniteSet(Running \ {r})
                /\ Cardinality(Running \ {r}) = Cardinality(Running) - 1
<1>1. IsFiniteSet(Running) BY DEF CountInv
<1>2. Cardinality(Running) \in Nat BY <1>1, FS_CardinalityType
<1>3. ASSUME req[r] # "running"
      PROVE  /\ IsFiniteSet(Running \cup {r})
             /\ Cardinality(Running \cup {r}) = Cardinality(Running) + 1
  <2>1. r \notin Running BY <1>3 DEF Running
  <2> QED BY <1>1, <2>1, FS_AddElement
<1>4. ASSUME req[r] = "running"
      PROVE  /\ IsFiniteSet(Running \ {r}) /\ Cardinality(Running) > 0
             /\ Cardinality(Running \ {r}) = Cardinality(Running) - 1
  <2>1. r \in Running BY <1>4 DEF Running
  <2>2. Cardinality(Running) # 0 BY <1>1, <2>1, FS_EmptySet
  <2> QED BY <1>1, <1>2, <2>1, <2>2, FS_RemoveElement
<1> QED BY <1>2, <1>3, <1>4

\* A process that starts counts no request.
LEMMA InitCount == ASSUME Init PROVE CountInv
<1>1. Running = {} BY DEF Init, Running
<1>2. IsFiniteSet(Running) /\ Cardinality(Running) = 0 BY <1>1, FS_EmptySet
<1>3. TypeOK
  <2>1. waited \in 0..Timeout BY TimeoutAssumption DEF Init
  <2>2. req \in [Requests -> {"none", "running", "finished", "aborted", "done",
                             "refused"}] BY DEF Init
  <2> QED BY <2>1, <2>2 DEF Init, TypeOK
<1>4. NeverOvercounted BY <1>2 DEF Init, NeverOvercounted
<1> QED
  BY <1>2, <1>3, <1>4 DEF CountInv

\* A step of a request: the counter follows the set, but never falls below 0.
LEMMA RequestKeepsCount ==
    ASSUME CountInv, NEW r \in Requests,
           \/ Arrive(r) \/ Refuse(r) \/ Finish(r)
           \/ Close(r) \/ Abort(r) \/ EndAborted(r)
    PROVE  CountInv'
<1>0. Cardinality(Running) \in Nat BY RunningSize
<1>1. TypeOK /\ NeverOvercounted BY DEF CountInv
<1>2. TypeOK'
  BY <1>1 DEF TypeOK, Arrive, Refuse, Finish, Close, Abort, EndAborted, Goto,
     Decrement, shutdownVars
<1>3. \A q \in Requests : q # r => req'[q] = req[q]
  BY <1>1 DEF TypeOK, Arrive, Refuse, Finish, Close, Abort, EndAborted, Goto
<1>4. CASE Arrive(r)
  <2>1. /\ req[r] = "none" /\ req'[r] = "running"
        /\ inflightRequests' = inflightRequests + 1
    BY <1>1, <1>4 DEF TypeOK, Arrive, Goto
  <2>2. Running' = Running \cup {r}
    BY <1>3, <2>1 DEF Running
  <2>3. /\ IsFiniteSet(Running \cup {r})
        /\ Cardinality(Running \cup {r}) = Cardinality(Running) + 1
    BY <2>1, RunningSize
  <2>4. inflightRequests' <= Cardinality(Running')
    BY <1>1, <1>0, <2>1, <2>2, <2>3 DEF NeverOvercounted, TypeOK
  <2> QED BY <1>2, <2>2, <2>3, <2>4 DEF CountInv, NeverOvercounted
<1>5. CASE Finish(r) \/ Abort(r)
  <2>1. /\ req[r] = "running" /\ req'[r] # "running" /\ Decrement
    BY <1>1, <1>5 DEF TypeOK, Finish, Abort, Goto
  <2>2. Running' = Running \ {r}
    BY <1>3, <2>1 DEF Running
  <2>3. /\ IsFiniteSet(Running \ {r}) /\ Cardinality(Running) > 0
        /\ Cardinality(Running \ {r}) = Cardinality(Running) - 1
    BY <2>1, RunningSize
  <2>4. inflightRequests' <= Cardinality(Running')
    BY <1>1, <1>0, <2>1, <2>2, <2>3 DEF NeverOvercounted, TypeOK, Decrement
  <2> QED BY <1>2, <2>2, <2>3, <2>4 DEF CountInv, NeverOvercounted
<1>6. CASE Refuse(r) \/ Close(r) \/ EndAborted(r)
  <2>1. /\ req[r] # "running" /\ req'[r] # "running"
        /\ inflightRequests' \in Nat /\ inflightRequests' <= inflightRequests
    BY <1>1, <1>6 DEF TypeOK, Refuse, Close, EndAborted, Goto, Decrement
  <2>2. Running' = Running
    BY <1>3, <2>1 DEF Running
  <2>3. IsFiniteSet(Running) BY DEF CountInv
  <2>4. inflightRequests' <= Cardinality(Running')
    BY <1>1, <1>0, <2>1, <2>2, <2>3 DEF NeverOvercounted, TypeOK
  <2> QED BY <1>2, <2>2, <2>3, <2>4 DEF CountInv, NeverOvercounted
<1> QED
  BY <1>4, <1>5, <1>6

\* No step of the process lets the counter run ahead of the requests.
LEMMA NextCount == ASSUME CountInv, [Next]_vars PROVE CountInv'
<1>1. CASE \E r \in Requests : \/ Arrive(r) \/ Refuse(r) \/ Finish(r)
                               \/ Close(r) \/ Abort(r) \/ EndAborted(r)
  BY <1>1, RequestKeepsCount
<1>2. CASE \/ Shutdown \/ RunHooks \/ Closed \/ CloseFails \/ Wait \/ Exit
          \/ UNCHANGED vars
  <2>1. UNCHANGED <<inflightRequests, req>>
    BY <1>2 DEF Shutdown, RunHooks, Closed, CloseFails, Wait, Exit, vars
  <2>2. TypeOK BY DEF CountInv
  <2>3. TypeOK'
    <3>1. CASE Shutdown \/ RunHooks \/ Closed \/ CloseFails \/ Exit
      BY <2>1, <2>2, <3>1 DEF TypeOK, Shutdown, RunHooks, Closed, CloseFails,
         Exit
    <3>2. CASE Wait
      BY <2>1, <2>2, <3>2, TimeoutAssumption DEF TypeOK, Wait
    <3>3. CASE UNCHANGED vars
      BY <2>2, <3>3 DEF TypeOK, vars, shutdownVars
    <3> QED BY <1>2, <3>1, <3>2, <3>3
  <2>4. Running' = Running
    BY <2>1 DEF Running
  <2> QED
    BY <2>1, <2>3, <2>4 DEF CountInv, NeverOvercounted
<1> QED
  BY <1>1, <1>2 DEF Next

-----------------------------------------------------------------------------
\* The state keeps its types.
THEOREM TypeCorrect == Spec => []TypeOK
  BY InitCount, NextCount, PTL DEF Spec, CountInv

\* The counter is never above the number of requests in flight, so it cannot
\* hold a shutdown up for a request that has gone.
THEOREM CounterNeverLeaks == Spec => []NeverOvercounted
  BY InitCount, NextCount, PTL DEF Spec, CountInv

-----------------------------------------------------------------------------
(* The actor of a request that is past its checks has owned the channel,   *)
(* and the channel still exists; whoever owns it now has stored it.        *)
PastChecks ==
    \A r \in Requests :
        /\ step[r] # "none" => actor[r] \in Users
        /\ step[r] = "update" => actor[r] \in owners /\ owner # None

(* Past the update, the channel is approved, for good.                     *)
PastUpdate ==
    \A r \in Requests : step[r] \in {"cache", "approved"} => isApproved

ApprovalInv ==
    /\ RequestsTypeOK /\ PastChecks /\ PastUpdate
    /\ owner # None => owner \in owners
    /\ ApprovalIsDurable /\ ApprovedByAnOwner

\* At the start nobody has asked for an approval.
LEMMA InitApproval == RequestsInit => ApprovalInv
  BY UsersAssumption
  DEF RequestsInit, ApprovalInv, RequestsTypeOK, PastChecks, PastUpdate,
      ApprovalIsDurable, ApprovedByAnOwner, Steps

(* What a step of a handler does to the places of all handlers.            *)
LEMMA GoesAt ==
  ASSUME RequestsTypeOK, NEW r \in Requests, NEW label \in Steps,
         Goes(r, label)
  PROVE  /\ step' \in [Requests -> Steps] /\ actor' = actor
         /\ step'[r] = label
         /\ \A q \in Requests \ {r} : step'[q] = step[q]
  BY DEF Goes, RequestsTypeOK

\* A request that comes in has checked nothing yet.
LEMMA ReceiveStep ==
  ASSUME ApprovalInv, NEW r \in Requests, Receive(r)
  PROVE  ApprovalInv'
<1>1. PICK u \in Users : actor' = [actor EXCEPT ![r] = u]
  BY DEF Receive
<1>2. PICK first \in {"health", "read", "upsert"} :
        step' = [step EXCEPT ![r] = first]
  BY DEF Receive
<1>3. UNCHANGED <<channelVars, histVars>>
  BY DEF Receive
<1>4. RequestsTypeOK'
  BY <1>1, <1>2, <1>3
  DEF ApprovalInv, RequestsTypeOK, channelVars, histVars, Steps
<1>5. PastChecks' /\ PastUpdate'
  BY <1>1, <1>2, <1>3
  DEF ApprovalInv, RequestsTypeOK, PastChecks, PastUpdate, channelVars,
      histVars
<1> QED
  BY <1>3, <1>4, <1>5
  DEF ApprovalInv, ApprovalIsDurable, ApprovedByAnOwner, channelVars, histVars

\* Past the check of the channel, its user has owned it.
LEMMA ReadStep ==
  ASSUME ApprovalInv, NEW r \in Requests, CheckCache(r) \/ ReadChannel(r)
  PROVE  ApprovalInv'
<1>1. UNCHANGED <<channelVars, histVars>>
  BY DEF CheckCache, ReadChannel
<1>2. PICK label \in {"read", "update", "other"} :
        /\ Goes(r, label)
        /\ label = "update" => owner # None /\ owner = actor[r]
  BY DEF CheckCache, ReadChannel, After, MayApprove
<1>3. step[r] # "none"
  BY DEF CheckCache, ReadChannel, Runs
<1>4. /\ step' \in [Requests -> Steps] /\ actor' = actor
      /\ step'[r] = label
      /\ \A q \in Requests \ {r} : step'[q] = step[q]
  BY <1>2, GoesAt DEF ApprovalInv, Steps
<1>5. RequestsTypeOK'
  BY <1>1, <1>4 DEF ApprovalInv, RequestsTypeOK, channelVars, histVars
<1>6. PastChecks' /\ PastUpdate'
  BY <1>1, <1>2, <1>3, <1>4
  DEF ApprovalInv, PastChecks, PastUpdate, channelVars, histVars
<1> QED
  BY <1>1, <1>5, <1>6
  DEF ApprovalInv, ApprovalIsDurable, ApprovedByAnOwner, channelVars, histVars

\* The update approves a channel for a user who has owned it.
LEMMA ApproveStep ==
  ASSUME ApprovalInv, NEW r \in Requests, ApproveChannel(r)
  PROVE  ApprovalInv'
<1>1. /\ step[r] = "update" /\ isApproved' = TRUE
      /\ approvers' = approvers \cup {actor[r]} /\ Goes(r, "cache")
      /\ UNCHANGED <<owner, cachedApproval, owners, told>>
  BY DEF ApproveChannel, Runs, After
<1>2. /\ step' \in [Requests -> Steps] /\ actor' = actor
      /\ step'[r] = "cache"
      /\ \A q \in Requests \ {r} : step'[q] = step[q]
  BY <1>1, GoesAt DEF ApprovalInv, Steps
<1>3. actor[r] \in Users /\ actor[r] \in owners /\ owner \in Users
  BY <1>1 DEF ApprovalInv, PastChecks, RequestsTypeOK
<1>4. RequestsTypeOK'
  BY <1>1, <1>2, <1>3 DEF ApprovalInv, RequestsTypeOK
<1>5. PastChecks' /\ PastUpdate'
  BY <1>1, <1>2, <1>3 DEF ApprovalInv, PastChecks, PastUpdate
<1> QED
  BY <1>1, <1>3, <1>4, <1>5
  DEF ApprovalInv, ApprovalIsDurable, ApprovedByAnOwner

\* Only an approval that is stored is put into the cache or answered.
LEMMA CacheStep ==
  ASSUME ApprovalInv, NEW r \in Requests, SetChannelApproved(r)
  PROVE  ApprovalInv'
<1>1. /\ step[r] = "cache" /\ cachedApproval' \in {cachedApproval, TRUE}
      /\ Goes(r, "approved") /\ UNCHANGED <<owner, isApproved, histVars>>
  BY DEF SetChannelApproved, Runs, After
<1>2. /\ step' \in [Requests -> Steps] /\ actor' = actor
      /\ step'[r] = "approved"
      /\ \A q \in Requests \ {r} : step'[q] = step[q]
  BY <1>1, GoesAt DEF ApprovalInv, Steps
<1>3. isApproved
  BY <1>1 DEF ApprovalInv, PastUpdate
<1>4. RequestsTypeOK'
  BY <1>1, <1>2 DEF ApprovalInv, RequestsTypeOK, histVars
<1>5. PastChecks' /\ PastUpdate'
  BY <1>1, <1>2, <1>3 DEF ApprovalInv, PastChecks, PastUpdate, histVars
<1> QED
  BY <1>1, <1>3, <1>4, <1>5
  DEF ApprovalInv, ApprovalIsDurable, ApprovedByAnOwner, histVars

\* The upsert of a sync may change the owner, never the approval.
LEMMA UpsertStep ==
  ASSUME ApprovalInv, NEW r \in Requests, UpsertChannel(r)
  PROVE  ApprovalInv'
<1>1. /\ step[r] = "upsert" /\ owner' = actor[r] /\ isApproved' = isApproved
      /\ owners' = owners \cup {actor[r]} /\ Goes(r, "other")
      /\ UNCHANGED <<cachedApproval, approvers, told>>
  BY DEF UpsertChannel, Runs, KeptApproval
<1>2. /\ step' \in [Requests -> Steps] /\ actor' = actor
      /\ step'[r] = "other"
      /\ \A q \in Requests \ {r} : step'[q] = step[q]
  BY <1>1, GoesAt DEF ApprovalInv, Steps
<1>3. actor[r] \in Users /\ actor[r] # None
  BY <1>1, UsersAssumption DEF ApprovalInv, PastChecks
<1>4. RequestsTypeOK'
  BY <1>1, <1>2, <1>3 DEF ApprovalInv, RequestsTypeOK
<1>5. PastChecks' /\ PastUpdate'
  BY <1>1, <1>2, <1>3 DEF ApprovalInv, PastChecks, PastUpdate
<1> QED
  BY <1>1, <1>3, <1>4, <1>5
  DEF ApprovalInv, ApprovalIsDurable, ApprovedByAnOwner

(* The handler is over: a client is told only what it has done.            *)
LEMMA EndStep ==
  ASSUME ApprovalInv, NEW r \in Requests, Answer(r) \/ EndUnheard(r)
  PROVE  ApprovalInv'
<1>1. /\ step' = [step EXCEPT ![r] = "none"]
      /\ told' \in {told, told \/ step[r] = "approved"}
      /\ UNCHANGED <<channelVars, actor, owners, approvers>>
  BY DEF Answer, EndUnheard, histVars
<1>2. /\ step' \in [Requests -> Steps] /\ step'[r] = "none"
      /\ \A q \in Requests \ {r} : step'[q] = step[q]
  BY <1>1 DEF ApprovalInv, RequestsTypeOK, Steps
<1>3. told' \in BOOLEAN /\ (told' => told \/ step[r] = "approved")
  BY <1>1 DEF ApprovalInv, RequestsTypeOK
<1>4. told' => isApproved
  BY <1>3 DEF ApprovalInv, ApprovalIsDurable, PastUpdate
<1>5. RequestsTypeOK'
  BY <1>1, <1>2, <1>3 DEF ApprovalInv, RequestsTypeOK, channelVars
<1>6. PastChecks' /\ PastUpdate'
  BY <1>1, <1>2 DEF ApprovalInv, PastChecks, PastUpdate, channelVars
<1> QED
  BY <1>1, <1>4, <1>5, <1>6
  DEF ApprovalInv, ApprovalIsDurable, ApprovedByAnOwner, channelVars

(* The steps that leave the handlers alone, and the end of an entry.       *)
LEMMA OtherStep ==
  ASSUME ApprovalInv, UNCHANGED handlerVars \/ ExpireApproval
  PROVE  ApprovalInv'
<1>1. /\ UNCHANGED <<owner, isApproved, step, actor, histVars>>
      /\ cachedApproval' \in {cachedApproval, FALSE}
  BY DEF handlerVars, channelVars, ExpireApproval
<1>2. RequestsTypeOK' /\ PastChecks' /\ PastUpdate'
  BY <1>1
  DEF ApprovalInv, RequestsTypeOK, PastChecks, PastUpdate, histVars
<1>3. ApprovalIsDurable'
  BY <1>1 DEF ApprovalInv, ApprovalIsDurable, RequestsTypeOK, histVars
<1>4. ApprovedByAnOwner' /\ (owner' # None => owner' \in owners')
  BY <1>1 DEF ApprovalInv, ApprovedByAnOwner, histVars
<1> QED
  BY <1>2, <1>3, <1>4 DEF ApprovalInv

\* So every step of a process with handlers keeps the invariant.
LEMMA ApprovalStep ==
  ASSUME ApprovalInv, [RequestsNext]_allVars
  PROVE  ApprovalInv'
<1>1. CASE \E r \in Requests : Receive(r)
  BY <1>1, ReceiveStep
<1>2. CASE \E r \in Requests : Handle(r)
  BY <1>2, ReadStep, ApproveStep, CacheStep, UpsertStep DEF Handle
<1>3. CASE \E r \in Requests : Answer(r) \/ EndUnheard(r)
  BY <1>3, EndStep
<1>4. CASE UNCHANGED handlerVars \/ ExpireApproval
  BY <1>4, OtherStep
<1> QED
  BY <1>1, <1>2, <1>3, <1>4 DEF RequestsNext, allVars

-----------------------------------------------------------------------------
(* To the counter and the shutdown, a handler's steps are nothing.         *)
LEMMA StepImplements == [RequestsNext]_allVars => [Next]_vars
<1>1. ASSUME NEW r \in Requests, Handle(r)
      PROVE  UNCHANGED vars
  BY <1>1 DEF Handle, CheckCache, ReadChannel, ApproveChannel,
     SetChannelApproved, UpsertChannel, Goes
<1>2. ASSUME NEW r \in Requests, Receive(r) \/ Answer(r) \/ EndUnheard(r)
      PROVE  Next
  BY <1>2 DEF Receive, Answer, EndUnheard, Next
<1>3. ASSUME NEW r \in Requests, Refuse(r) \/ Close(r) \/ Abort(r)
      PROVE  Next
  BY <1>3 DEF Next
<1>4. ASSUME ExpireApproval PROVE UNCHANGED vars
  BY <1>4 DEF ExpireApproval
<1>5. ASSUME \/ Shutdown \/ RunHooks \/ Closed \/ CloseFails
             \/ Wait \/ Exit
      PROVE  Next
  BY <1>5 DEF Next
<1>6. ASSUME UNCHANGED allVars PROVE UNCHANGED vars
  BY <1>6 DEF allVars
<1> QED
  BY <1>1, <1>2, <1>3, <1>4, <1>5, <1>6 DEF RequestsNext

(* The process with its handlers is a process as ApiShutdown describes it. *)
THEOREM Implements == RequestsSpec => Spec
<1>1. RequestsInit => Init
  BY DEF RequestsInit
<1> QED
  BY <1>1, StepImplements, PTL DEF RequestsSpec, Spec

(* With handlers, too, the counter never exceeds the requests in flight.   *)
THEOREM HandlersDoNotLeak == RequestsSpec => []NeverOvercounted
  BY Implements, CounterNeverLeaks, PTL

(* The invariant is inductive.                                             *)
THEOREM ApprovalInvariant == RequestsSpec => []ApprovalInv
<1>1. ApprovalInv /\ [RequestsNext]_allVars => ApprovalInv'
  BY ApprovalStep
<1> QED
  BY <1>1, InitApproval, PTL DEF RequestsSpec

(* Handlers and the channel have their types; an approved channel exists.  *)
THEOREM RequestsTypeCorrect == RequestsSpec => []RequestsTypeOK
<1>1. ApprovalInv => RequestsTypeOK
  BY DEF ApprovalInv
<1> QED
  BY <1>1, ApprovalInvariant, PTL

(* Wherever the process is cut off, the cache and the clients know of no   *)
(* approval that the database has not.                                     *)
THEOREM DurableApproval == RequestsSpec => []ApprovalIsDurable
<1>1. ApprovalInv => ApprovalIsDurable
  BY DEF ApprovalInv
<1> QED
  BY <1>1, ApprovalInvariant, PTL

(* Nobody approves a channel that has never been stored for them, whoever  *)
(* stores it between the check and the update.                             *)
THEOREM OwnersApprove == RequestsSpec => []ApprovedByAnOwner
<1>1. ApprovalInv => ApprovedByAnOwner
  BY DEF ApprovalInv
<1> QED
  BY <1>1, ApprovalInvariant, PTL

(* No step of any handler takes an approval back.                          *)
THEOREM ApprovalStays == RequestsSpec => ApprovalLasts
<1>1. [RequestsNext]_allVars => [isApproved => isApproved']_allVars
  <2> SUFFICES ASSUME [RequestsNext]_allVars, isApproved
               PROVE  isApproved' \/ UNCHANGED allVars
    OBVIOUS
  <2>1. CASE \E r \in Requests : Handle(r)
    BY <2>1 DEF Handle, CheckCache, ReadChannel, ApproveChannel,
       SetChannelApproved, UpsertChannel, KeptApproval, channelVars
  <2>2. CASE \E r \in Requests : Receive(r) \/ Answer(r) \/ EndUnheard(r)
    BY <2>2 DEF Receive, Answer, EndUnheard, channelVars
  <2>3. CASE UNCHANGED handlerVars \/ ExpireApproval
    BY <2>3 DEF handlerVars, channelVars, ExpireApproval
  <2> QED
    BY <2>1, <2>2, <2>3 DEF RequestsNext
<1> QED
  BY <1>1, PTL DEF RequestsSpec, ApprovalLasts

-----------------------------------------------------------------------------
(* The scoring queue.                                                      *)
Locks ==
    \A j \in Jobs :
        /\ runner[j] # Nobody => place[j] = "active" /\ up[runner[j]] # "down"
        /\ place[j] = "active" /\ runner[j] = Nobody => crashed

\* At the start no job is locked.
LEMMA InitTypes == QueueInit => QueueTypeOK /\ Locks
<1>1. QueueInit => QueueTypeOK
  <2> SUFFICES ASSUME QueueInit PROVE QueueTypeOK
    OBVIOUS
  <2>1. paused \in BOOLEAN /\ crashed \in BOOLEAN
    BY DEF QueueInit
  <2>2. /\ up \in [Instances -> {"up", "closing", "down"}]
        /\ ingest \in [Instances -> {"idle", "stored"}]
        /\ opened \subseteq Instances
        /\ place \in [Jobs -> Open \cup {"none", "completed", "failed"}]
    BY DEF QueueInit, Open
  <2>3. /\ made \in [Jobs -> Nat] /\ stalls \in [Jobs -> Nat]
        /\ snap \in [Jobs -> Nat]
        /\ version \in Nat /\ scored \in Nat /\ queued \in Nat
    BY DEF QueueInit
  <2>4. /\ runner \in [Jobs -> Instances \cup {Nobody}]
        /\ stage \in [Jobs -> {"read", "store", "done"}]
    BY DEF QueueInit
  <2> QED
    BY <2>1, <2>2, <2>3, <2>4 DEF QueueTypeOK
<1>2. QueueInit => Locks
  BY DEF QueueInit, Locks
<1> QED
  BY <1>1, <1>2

(* Every step is one of a job or one of a process.                         *)
JobStep(j) ==
    \/ \E i \in Instances : Add(i, j) \/ PickUp(i, j)
    \/ Process(j) \/ Fail(j) \/ Promote(j) \/ Stall(j)

ProcessStep(i) ==
    \/ StoreVideos(i) \/ AddFails(i)
    \/ Signal(i) \/ PauseQueue(i) \/ ExitProcess(i) \/ Crash(i) \/ Start(i)

\* A step is a job's, or a process', or changes nothing.
LEMMA QueueSteps ==
    ASSUME [QueueNext]_queueVars
    PROVE  \/ \E j \in Jobs : JobStep(j)
           \/ \E i \in Instances : ProcessStep(i)
           \/ UNCHANGED queueVars
<1>1. CASE \E i \in Instances :
             \/ StoreVideos(i) \/ AddFails(i)
             \/ Signal(i) \/ PauseQueue(i) \/ ExitProcess(i)
             \/ Crash(i) \/ Start(i)
  BY <1>1 DEF ProcessStep
<1>2. CASE \E i \in Instances, j \in Jobs : Add(i, j) \/ PickUp(i, j)
  BY <1>2 DEF JobStep
<1>3. CASE \E j \in Jobs : Process(j) \/ Fail(j) \/ Promote(j) \/ Stall(j)
  BY <1>3 DEF JobStep
<1>4. CASE Exhausted \/ UNCHANGED queueVars
  BY <1>4 DEF Exhausted
<1> QED
  BY <1>1, <1>2, <1>3, <1>4 DEF QueueNext

-----------------------------------------------------------------------------
(* Types.                                                                  *)
LEMMA JobTypes ==
    ASSUME QueueTypeOK, NEW j \in Jobs, JobStep(j) PROVE QueueTypeOK'
<1>1. CASE \E i \in Instances : Add(i, j)
  BY <1>1 DEF QueueTypeOK, Add, Open
<1>2. CASE \E i \in Instances : PickUp(i, j)
  BY <1>2 DEF QueueTypeOK, PickUp, Open, processVars, dataVars
<1>3. CASE ReadVideos(j) \/ StoreScores(j)
  BY <1>3 DEF QueueTypeOK, ReadVideos, StoreScores, processVars, dataVars
<1>4. CASE Complete(j)
  BY <1>4 DEF QueueTypeOK, Complete, Leave, processVars, dataVars
<1>5. CASE Fail(j)
  BY <1>5 DEF QueueTypeOK, Fail, Leave, Open, processVars, dataVars
<1>6. CASE Promote(j) \/ Stall(j)
  BY <1>6 DEF QueueTypeOK, Promote, Stall, Open, processVars, dataVars
<1> QED
  BY <1>1, <1>2, <1>3, <1>4, <1>5, <1>6 DEF JobStep, Process

\* So do the steps of a process.
LEMMA ProcessTypes ==
    ASSUME QueueTypeOK, NEW i \in Instances, ProcessStep(i) PROVE QueueTypeOK'
<1>1. CASE StoreVideos(i) \/ AddFails(i)
  BY <1>1 DEF QueueTypeOK, StoreVideos, AddFails, dataVars, jobVars
<1>2. CASE Signal(i) \/ PauseQueue(i) \/ ExitProcess(i) \/ Start(i)
  BY <1>2 DEF QueueTypeOK, Signal, PauseQueue, ExitProcess, Start,
                dataVars, jobVars
<1>3. CASE Crash(i)
  BY <1>3 DEF QueueTypeOK, Crash, dataVars
<1> QED
  BY <1>1, <1>2, <1>3 DEF ProcessStep

\* So does every step.
LEMMA StepTypes == ASSUME QueueTypeOK, [QueueNext]_queueVars PROVE QueueTypeOK'
<1>1. CASE UNCHANGED queueVars
  BY <1>1 DEF QueueTypeOK, queueVars, processVars, dataVars, jobVars
<1> QED
  BY <1>1, QueueSteps, JobTypes, ProcessTypes

-----------------------------------------------------------------------------
(* Locks.                                                                  *)
LEMMA JobLocks ==
    ASSUME QueueTypeOK, Locks, NEW j \in Jobs, JobStep(j) PROVE Locks'
<1>1. /\ UNCHANGED <<up, crashed>>
      /\ \A k \in Jobs : k # j => /\ place'[k] = place[k]
                                  /\ runner'[k] = runner[k]
  BY DEF QueueTypeOK, JobStep, Add, PickUp, Process, ReadVideos, StoreScores,
     Complete, Fail, Leave, Promote, Stall, processVars
<1>2. \/ place'[j] = "active" /\ runner'[j] \in Instances
           /\ up[runner'[j]] # "down"
      \/ place'[j] # "active" /\ runner'[j] = Nobody
  <2>1. CASE \E i \in Instances : Add(i, j)
    BY <2>1 DEF QueueTypeOK, Locks, Add
  <2>2. CASE \E i \in Instances : PickUp(i, j)
    BY <2>2 DEF QueueTypeOK, PickUp
  <2>3. CASE ReadVideos(j) \/ StoreScores(j)
    BY <2>3 DEF QueueTypeOK, Locks, ReadVideos, StoreScores
  <2>4. CASE Complete(j) \/ Fail(j)
    BY <2>4 DEF QueueTypeOK, Complete, Fail, Leave
  <2>5. CASE Promote(j)
    BY <2>5 DEF QueueTypeOK, Locks, Promote
  <2>6. CASE Stall(j)
    BY <2>6 DEF QueueTypeOK, Stall
  <2> QED
    BY <2>1, <2>2, <2>3, <2>4, <2>5, <2>6 DEF JobStep, Process
<1> QED
  BY <1>1, <1>2, QueueAssumption DEF Locks

\* A process keeps what locks and slots say of each other.
LEMMA ProcessLocks ==
    ASSUME QueueTypeOK, Locks, NEW i \in Instances, ProcessStep(i) PROVE Locks'
<1>1. CASE Signal(i) \/ Start(i)
  <2>1. /\ UNCHANGED <<place, runner, crashed>>
        /\ \A k \in Instances : up[k] # "down" => up'[k] # "down"
    BY <1>1 DEF QueueTypeOK, Signal, Start, jobVars
  <2>2. \A j \in Jobs : runner[j] \in Instances \cup {Nobody}
    BY DEF QueueTypeOK
  <2> QED
    BY <2>1, <2>2 DEF Locks
<1>2. CASE ExitProcess(i)
  <2>1. /\ UNCHANGED <<place, runner, crashed>>
        /\ \A k \in Instances : k # i => up'[k] = up[k]
        /\ \A j \in Jobs : runner[j] # i
    BY <1>2 DEF QueueTypeOK, ExitProcess, Held, jobVars
  <2>2. \A j \in Jobs : runner[j] \in Instances \cup {Nobody}
    BY DEF QueueTypeOK
  <2> QED
    BY <2>1, <2>2 DEF Locks
<1>3. CASE Crash(i)
  <2>1. /\ crashed' /\ UNCHANGED place
        /\ \A k \in Instances : k # i => up'[k] = up[k]
    BY <1>3 DEF QueueTypeOK, Crash
  <2>2. \A j \in Jobs : runner'[j] = IF runner[j] = i THEN Nobody ELSE runner[j]
    BY <1>3 DEF Crash
  <2>3. \A j \in Jobs : runner[j] \in Instances \cup {Nobody}
    BY DEF QueueTypeOK
  <2> QED
    BY <2>1, <2>2, <2>3 DEF Locks
<1>4. CASE PauseQueue(i) \/ StoreVideos(i) \/ AddFails(i)
  BY <1>4 DEF Locks, PauseQueue, StoreVideos, AddFails, jobVars
<1> QED
  BY <1>1, <1>2, <1>3, <1>4 DEF ProcessStep

\* So does every step.
LEMMA StepLocks == ASSUME QueueTypeOK, Locks, [QueueNext]_queueVars PROVE Locks'
<1>1. CASE UNCHANGED queueVars
  BY <1>1 DEF Locks, queueVars, processVars, jobVars
<1> QED
  BY <1>1, QueueSteps, JobLocks, ProcessLocks

(* The state of the queue, of the jobs and of the processes keeps its      *)
(* types.                                                                  *)
THEOREM QueueTypeCorrect == QueueSpec => []QueueTypeOK
  BY InitTypes, StepTypes, PTL DEF QueueSpec

\* A job in a slot is active in BullMQ and has an attempt left.
THEOREM LocksAreHeld == QueueSpec => [](QueueTypeOK /\ Locks)
<1>1. QueueTypeOK /\ Locks /\ [QueueNext]_queueVars => (QueueTypeOK /\ Locks)'
  BY StepTypes, StepLocks
<1> QED
  BY <1>1, InitTypes, PTL DEF QueueSpec

(* However many processes there are and however they are shut down, started *)
(* and replaced: unless one crashes, every active job is in the hands of a  *)
(* process that lives, since onModuleDestroy of the worker waits for it.    *)
THEOREM ShutdownsKeepJobs == QueueSpec => []ShutdownKeepsJobs
<1>1. Locks => ShutdownKeepsJobs
  BY DEF Locks, ShutdownKeepsJobs
<1> QED
  BY <1>1, LocksAreHeld, PTL

-----------------------------------------------------------------------------
(* Scores, with one process that works on one job at a time.               *)
OneAtATime == Concurrency = 1 /\ \A i, k \in Instances : i = k

Alone ==
    \A j, k \in Jobs : runner[j] # Nobody /\ runner[k] # Nobody => j = k

(* What a job in hand has read is not older than what is stored.           *)
Forward ==
    /\ scored <= version /\ queued <= version
    /\ \A j \in Jobs : snap[j] <= version
    /\ \A j \in Jobs : runner[j] # Nobody /\ stage[j] = "store"
                          => scored <= snap[j]

(* Job j is yet to bring the scores up to what was promised, or given up.  *)
Due(j) ==
    \/ place[j] \in {"waiting", "delayed", "failed"}
    \/ place[j] = "active" /\ runner[j] = Nobody
    \/ place[j] = "active" /\ stage[j] = "read"
    \/ place[j] = "active" /\ stage[j] = "store" /\ snap[j] >= queued

Owed == queued > scored => \E j \in Jobs : Due(j)

ScoreInv == QueueTypeOK /\ Locks /\ Alone /\ Forward /\ Owed

\* At the start every score is of the videos stored.
LEMMA InitScores == QueueInit => ScoreInv
<1>1. QueueInit => Alone /\ Forward /\ Owed
  BY DEF QueueInit, Alone, Forward, Owed
<1> QED
  BY <1>1, InitTypes DEF ScoreInv

(* A worker with a job in hand takes no other.                             *)
LEMMA TakesOne ==
    ASSUME OneAtATime, QueueTypeOK, Alone, NEW i \in Instances, NEW j \in Jobs,
           PickUp(i, j)
    PROVE  \A k \in Jobs : runner[k] = Nobody
<1> SUFFICES ASSUME NEW k \in Jobs, runner[k] # Nobody PROVE FALSE
  OBVIOUS
<1>1. runner[k] = i
  BY DEF OneAtATime, QueueTypeOK
<1>2. Held(i) = {k}
  BY <1>1, QueueAssumption DEF Held, Alone
<1>3. Cardinality(Held(i)) = 1
  BY <1>2, FS_Singleton
<1> QED
  BY <1>3 DEF PickUp, OneAtATime

\* Two jobs never work at a time, if slots and processes admit one.
LEMMA StepAlone ==
    ASSUME OneAtATime, QueueTypeOK, Alone, [QueueNext]_queueVars PROVE Alone'
<1>1. CASE \E i \in Instances, j \in Jobs : PickUp(i, j)
  <2>1. PICK i \in Instances, j \in Jobs : PickUp(i, j)
    BY <1>1
  <2>2. \A k \in Jobs : runner[k] = Nobody
    BY <2>1, TakesOne
  <2>3. \A k \in Jobs : k # j => runner'[k] = Nobody
    BY <2>1, <2>2 DEF PickUp, QueueTypeOK
  <2> QED
    BY <2>3 DEF Alone
<1>2. CASE \A j \in Jobs : runner'[j] \in {Nobody, runner[j]}
  BY <1>2 DEF Alone
<1>3. ASSUME NEW j \in Jobs, JobStep(j), ~\E i \in Instances : PickUp(i, j)
      PROVE  \A k \in Jobs : runner'[k] \in {Nobody, runner[k]}
  BY <1>3 DEF QueueTypeOK, JobStep, Add, Process, ReadVideos, StoreScores,
     Complete, Fail, Leave, Promote, Stall
<1>4. ASSUME NEW i \in Instances, ProcessStep(i)
      PROVE  \A k \in Jobs : runner'[k] \in {Nobody, runner[k]}
  BY <1>4 DEF ProcessStep, StoreVideos, AddFails, Signal, PauseQueue,
              ExitProcess, Crash, Start, jobVars
<1>5. CASE UNCHANGED queueVars
  BY <1>5 DEF Alone, queueVars, jobVars
<1> QED
  BY <1>1, <1>2, <1>3, <1>4, <1>5, QueueSteps

\* What a job, the queue or an ingestion does keeps the account of scores.
LEMMA JobScores ==
    ASSUME OneAtATime, ScoreInv, NEW j \in Jobs, JobStep(j)
    PROVE  Forward' /\ Owed'
<1> USE DEF ScoreInv
<1>1. \A k \in Jobs : k # j =>
        /\ place'[k] = place[k] /\ runner'[k] = runner[k]
        /\ stage'[k] = stage[k] /\ snap'[k] = snap[k]
  BY DEF QueueTypeOK, JobStep, Add, PickUp, Process, ReadVideos, StoreScores,
     Complete, Fail, Leave, Promote, Stall, jobVars
<1>2. version' = version
  BY DEF JobStep, Add, PickUp, Process, ReadVideos, StoreScores, Complete,
     Fail, Promote, Stall, dataVars
<1>3. CASE \E i \in Instances : Add(i, j)
  <2>1. /\ queued' = version /\ scored' = scored /\ place'[j] = "waiting"
        /\ UNCHANGED <<runner, stage, snap>>
    BY <1>3 DEF QueueTypeOK, Add
  <2>2. Due(j)'
    BY <2>1 DEF Due
  <2> QED
    BY <1>2, <2>1, <2>2 DEF QueueTypeOK, Forward, Owed
<1>4. CASE StoreScores(j)
  <2>1. /\ scored' = snap[j] /\ queued' = queued /\ UNCHANGED <<snap, place>>
        /\ runner' = runner /\ runner[j] # Nobody
        /\ stage[j] = "store" /\ stage'[j] = "done"
    BY <1>4 DEF QueueTypeOK, StoreScores
  <2>2. scored <= snap[j] /\ snap[j] <= version
    BY <2>1 DEF Forward
  <2>3. Forward'
    BY <1>1, <1>2, <2>1, <2>2 DEF Forward, Alone
  <2>4. Owed'
    <3> SUFFICES ASSUME queued' > scored' PROVE \E k \in Jobs : Due(k)'
      BY DEF Owed
    <3>1. queued > scored /\ ~(snap[j] >= queued)
      BY <2>1, <2>2 DEF QueueTypeOK, Forward
    <3>2. PICK k \in Jobs : Due(k)
      BY <3>1 DEF Owed
    <3>3. k # j
      BY <2>1, <3>1, <3>2 DEF Due, Locks
    <3> QED
      BY <1>1, <2>1, <3>2, <3>3 DEF Due
  <2> QED
    BY <2>3, <2>4
<1>5. CASE /\ ~\E i \in Instances : Add(i, j)
           /\ ~StoreScores(j)
  <2>1. scored' = scored /\ queued' = queued
    BY <1>5 DEF JobStep, PickUp, Process, ReadVideos, Complete, Fail,
       Promote, Stall, dataVars
  <2>2. \/ runner'[j] = Nobody \/ stage'[j] # "store"
        \/ snap'[j] = version /\ runner[j] # Nobody
    BY <1>5 DEF QueueTypeOK, Locks, JobStep, PickUp, Process, ReadVideos,
       Complete, Fail, Leave, Promote, Stall
  <2>3. snap'[j] <= version
    BY <1>5 DEF QueueTypeOK, Forward, JobStep, PickUp, Process, ReadVideos,
       Complete, Fail, Leave, Promote, Stall
  <2>4. Forward'
    BY <1>1, <1>2, <2>1, <2>2, <2>3 DEF Forward
  <2>5. Due(j) => Due(j)'
    <3>1. CASE Complete(j)
      BY <3>1 DEF Due, Locks, Complete
    <3>2. CASE \E i \in Instances : PickUp(i, j)
      BY <3>2 DEF QueueTypeOK, Due, PickUp
    <3>3. CASE ReadVideos(j)
      BY <2>1, <3>3 DEF QueueTypeOK, Due, Forward, Locks, ReadVideos
    <3>4. CASE Fail(j)
      BY <3>4 DEF QueueTypeOK, Due, Fail, Leave
    <3>5. CASE Promote(j) \/ Stall(j)
      BY <3>5 DEF QueueTypeOK, Due, Promote, Stall
    <3> QED
      BY <1>5, <3>1, <3>2, <3>3, <3>4, <3>5 DEF JobStep, Process
  <2>6. \A k \in Jobs : Due(k) => Due(k)'
    BY <1>1, <2>1, <2>5 DEF Due
  <2> QED
    BY <2>1, <2>4, <2>6 DEF Owed
<1> QED
  BY <1>3, <1>4, <1>5

\* So does what a process does when it starts or stops.
LEMMA ProcessScores ==
    ASSUME ScoreInv, NEW i \in Instances, ProcessStep(i)
    PROVE  Forward' /\ Owed'
<1> USE DEF ScoreInv
<1>1. /\ UNCHANGED <<scored, queued, place, stage, snap>>
      /\ version' >= version
      /\ \A j \in Jobs : runner'[j] \in {Nobody, runner[j]}
  BY DEF QueueTypeOK, ProcessStep, StoreVideos, AddFails, Signal, PauseQueue,
     ExitProcess, Crash, Start, dataVars, jobVars
<1>2. version \in Nat /\ version' \in Nat /\ scored \in Nat /\ queued \in Nat
      /\ \A j \in Jobs : snap[j] \in Nat
  BY ProcessTypes DEF QueueTypeOK
<1>3. Forward'
  BY <1>1, <1>2 DEF Forward
<1>4. \A j \in Jobs : Due(j) => Due(j)'
  BY <1>1 DEF Due
<1> QED
  BY <1>1, <1>3, <1>4 DEF Owed

\* So does every step.
LEMMA StepScores ==
    ASSUME OneAtATime, ScoreInv, [QueueNext]_queueVars PROVE ScoreInv'
<1>1. QueueTypeOK' /\ Locks' /\ Alone'
  BY StepTypes, StepLocks, StepAlone DEF ScoreInv
<1>2. CASE UNCHANGED queueVars
  BY <1>1, <1>2 DEF ScoreInv, Forward, Owed, Due, queueVars, dataVars, jobVars
<1> QED
  BY <1>1, <1>2, QueueSteps, JobScores, ProcessScores DEF ScoreInv

(* One process with one job at a time, and any number of jobs, ingestions,  *)
(* retries, stalls, crashes and shutdowns: once the queue has drained and   *)
(* no job was given up, the scores are as new as any request was promised   *)
(* (enqueueIngestionJobs against process, which reads before it stores).    *)
THEOREM ScoresFollow == OneAtATime /\ QueueSpec => []ScoresCatchUp
<1>1. ScoreInv => ScoresCatchUp
  BY DEF ScoreInv, QueueTypeOK, Owed, Due, Locks, ScoresCatchUp
<1>2. OneAtATime /\ ScoreInv /\ [QueueNext]_queueVars => ScoreInv'
  BY StepScores
<1>3. OneAtATime => OneAtATime'
  BY DEF OneAtATime
<1> QED
  BY <1>1, <1>2, <1>3, InitScores, PTL DEF QueueSpec
=============================================================================
