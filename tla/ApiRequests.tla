---------------------------- MODULE ApiRequests ----------------------------
(***************************************************************************)
(* Requests about a YouTube channel, handled by a process that may stop at *)
(* any moment: ApiShutdown with the handlers that approve the channel for  *)
(* analytics and those that store it again.  An approval is a column of    *)
(* youtube_channels and, beside it, an entry in Redis that lives a week.   *)
(*                                                                         *)
(* A handler works on when its client has gone, and is cut off between any *)
(* two steps when the process exits.                                       *)
(***************************************************************************)
EXTENDS ApiShutdown

CONSTANTS
    Users,
    None

ASSUME UsersAssumption == None \notin Users

VARIABLES
    owner,          \* youtube_channels.user_id, None without a row
    isApproved,     \* youtube_channels.is_approved
    cachedApproval, \* the approval is in Redis
    step,           \* the next step of the handler of each request
    actor,          \* the user who sent it
    owners,         \* history: users the channel has been stored for
    approvers,      \* history: users who have approved it
    told            \* history: a client was told that it is approved

channelVars == <<owner, isApproved, cachedApproval>>
histVars    == <<owners, approvers, told>>
handlerVars == <<channelVars, step, actor, histVars>>
allVars     == <<vars, handlerVars>>

Steps == {"none", "health", "read", "update", "cache", "approved",
          "upsert", "other"}

RequestsTypeOK ==
    /\ owner \in Users \cup {None} /\ owners \subseteq Users
    /\ isApproved \in BOOLEAN /\ cachedApproval \in BOOLEAN
    /\ step \in [Requests -> Steps]
    /\ actor \in [Requests -> Users \cup {None}]
    /\ approvers \subseteq Users /\ told \in BOOLEAN
    /\ isApproved => owner \in Users

RequestsInit ==
    /\ Init
    /\ owner = None /\ isApproved = FALSE /\ cachedApproval = FALSE
    /\ step = [r \in Requests |-> "none"]
    /\ actor = [r \in Requests |-> None]
    /\ owners = {} /\ approvers = {} /\ told = FALSE

-----------------------------------------------------------------------------
\* The process runs the handler of r, whether or not its client listens.
Runs(r, label) ==
    /\ main # "exited"
    /\ req[r] \in {"running", "aborted"}
    /\ step[r] = label

Goes(r, label) ==
    /\ step' = [step EXCEPT ![r] = label]
    /\ UNCHANGED <<vars, actor>>

\* approveChannel, approvePermissions, or a request that stores the channel.
Receive(r) ==
    /\ Arrive(r)
    /\ \E u \in Users : actor' = [actor EXCEPT ![r] = u]
    /\ \E first \in {"health", "read", "upsert"} :
         step' = [step EXCEPT ![r] = first]
    /\ UNCHANGED <<channelVars, histVars>>

\* checkCache sets and deletes a key of its own, and is not heeded.
CheckCache(r) ==
    /\ Runs(r, "health")
    /\ Goes(r, "read")
    /\ UNCHANGED <<channelVars, histVars>>

\* The steps of an approval.
\* Faulty: the cache is told first.
CacheFirst == [read |-> "cache", cache |-> "update", update |-> "approved"]

After == [read |-> "update", update |-> "cache", cache |-> "approved"]

\* Faulty: a channel that exists may be approved by anyone.
MayApproveAny(u) == owner # None

MayApprove(u) == owner # None /\ owner = u

\* 404 without a row and 403 for another user's channel end the request.
ReadChannel(r) ==
    /\ Runs(r, "read")
    /\ Goes(r, IF MayApprove(actor[r]) THEN After.read ELSE "other")
    /\ UNCHANGED <<channelVars, histVars>>

\* By id, whoever owns the channel by now.
ApproveChannel(r) ==
    /\ Runs(r, "update")
    /\ isApproved' = TRUE
    /\ approvers' = approvers \cup {actor[r]}
    /\ Goes(r, After.update)
    /\ UNCHANGED <<owner, cachedApproval, owners, told>>

\* A cache that fails is only logged.
SetChannelApproved(r) ==
    /\ Runs(r, "cache")
    /\ cachedApproval' \in {cachedApproval, TRUE}
    /\ Goes(r, After.cache)
    /\ UNCHANGED <<owner, isApproved, histVars>>

\* Faulty: every column is set from the values, is_approved with its default.
KeptApprovalNot == FALSE

\* is_approved is not in the SET of ON CONFLICT.
KeptApproval == isApproved

\* The channel is stored for whoever has synced it last.
UpsertChannel(r) ==
    /\ Runs(r, "upsert")
    /\ owner' = actor[r]
    /\ isApproved' = KeptApproval
    /\ owners' = owners \cup {actor[r]}
    /\ Goes(r, "other")
    /\ UNCHANGED <<cachedApproval, approvers, told>>

\* The handler returns and the answer is sent, or the handler throws on the
\* way and the answer is an error.
Answer(r) ==
    /\ Finish(r)
    /\ step' = [step EXCEPT ![r] = "none"]
    /\ told' = (told \/ step[r] = "approved")
    /\ UNCHANGED <<channelVars, actor, owners, approvers>>

EndUnheard(r) ==
    /\ EndAborted(r)
    /\ step' = [step EXCEPT ![r] = "none"]
    /\ UNCHANGED <<channelVars, actor, histVars>>

\* A week has passed, or Redis is flushed.
ExpireApproval ==
    /\ cachedApproval
    /\ cachedApproval' = FALSE
    /\ UNCHANGED <<vars, owner, isApproved, step, actor, histVars>>

Handle(r) ==
    \/ CheckCache(r) \/ ReadChannel(r) \/ ApproveChannel(r)
    \/ SetChannelApproved(r) \/ UpsertChannel(r)

RequestsNext ==
    \/ \E r \in Requests :
         \/ Receive(r) \/ Handle(r) \/ Answer(r) \/ EndUnheard(r)
         \/ (Refuse(r) \/ Close(r) \/ Abort(r)) /\ UNCHANGED handlerVars
    \/ ExpireApproval
    \/ /\ \/ Shutdown \/ RunHooks \/ Closed \/ CloseFails
          \/ Wait \/ Exit
       /\ UNCHANGED handlerVars

RequestsSpec == RequestsInit /\ [][RequestsNext]_allVars /\ GoesOn

-----------------------------------------------------------------------------
\* No sync undoes an approval, for whichever user it stores the channel, and
\* no exit of the process does ("Re-sync via upsertChannel preserves existing
\* approval", agent-docs/findings.md:182).
ApprovalLasts == [][isApproved => isApproved']_allVars

\* Redis and the clients never know of an approval the database has not:
\* wherever the process is cut off, a flushed cache loses nothing
\* ("Approval is now durable", agent-docs/findings.md:182).
ApprovalIsDurable == cachedApproval \/ told => isApproved

\* Only a user the channel has been stored for can have approved it, though
\* it may belong to another by the time of the update.
ApprovedByAnOwner == approvers \subseteq owners
=============================================================================
