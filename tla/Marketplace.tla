----------------------------- MODULE Marketplace -----------------------------
(***************************************************************************)
(* Scouting and campaigns (creator-discovery.service.ts and                *)
(* sme-campaigns.service.ts with their repositories): SMEs keep a list of  *)
(* scouted creators and assign creators to their campaigns.  A request     *)
(* first reads what it has to know, awaits the answer, and then writes, so *)
(* the steps of several requests interleave.  A request that is refused    *)
(* ends at once.  Users keep their roles: no code changes or deletes them. *)
(***************************************************************************)
EXTENDS Naturals, FiniteSets

CONSTANTS
    Users,      \* ids, of users and of nobody
    Role,       \* the role of each id, None where there is no such user
    Campaigns,  \* ids of campaigns; also a bound on how many there are
    Requests,   \* requests under way
    None

Statuses == {"shortlisted", "invited", "active", "removed"}

ASSUME MarketAssumption ==
    /\ Role \in [Users -> {"sme", "admin", "creator", "user", None}]
    /\ None \notin Users \cup Statuses
    /\ None \notin {"sme", "admin", "creator", "user"}

VARIABLES
    campaigns,    \* sme_campaigns.sme_user_id, None without a row
    assignments,  \* sme_campaign_creators.status, None without a row
    scouted,      \* the rows of sme_scouted_creators, <<sme, creator>>
    pc,           \* what each request does next
    actor,        \* its user
    campaign,     \* the campaign it names
    creator,      \* the creator it names
    status        \* the status it asks for

marketRows  == <<campaigns, assignments, scouted>>
requestVars == <<pc, actor, campaign, creator, status>>
marketVars  == <<marketRows, requestVars>>

MarketTypeOK ==
    /\ campaigns \in [Campaigns -> Users \cup {None}]
    /\ assignments \in [Campaigns \X Users -> Statuses \cup {None}]
    /\ scouted \in SUBSET (Users \X Users)
    /\ pc \in [Requests -> {"idle", "assign", "scout"}]
    /\ actor \in [Requests -> Users \cup {None}]
    /\ campaign \in [Requests -> Campaigns \cup {None}]
    /\ creator \in [Requests -> Users \cup {None}]
    /\ status \in [Requests -> Statuses \cup {None}]

MarketInit ==
    /\ campaigns = [c \in Campaigns |-> None]
    /\ assignments = [p \in Campaigns \X Users |-> None]
    /\ scouted = {}
    /\ pc = [r \in Requests |-> "idle"]
    /\ actor = [r \in Requests |-> None]
    /\ campaign = [r \in Requests |-> None]
    /\ creator = [r \in Requests |-> None]
    /\ status = [r \in Requests |-> None]

assertSmeActor(u) == Role[u] \in {"sme", "admin"}

(* Request r goes on to step p, on behalf of u.                            *)
Await(r, p, u, k, c, s) ==
    /\ pc' = [pc EXCEPT ![r] = p]
    /\ actor' = [actor EXCEPT ![r] = u]
    /\ campaign' = [campaign EXCEPT ![r] = k]
    /\ creator' = [creator EXCEPT ![r] = c]
    /\ status' = [status EXCEPT ![r] = s]

Done(r) == Await(r, "idle", None, None, None, None)

-----------------------------------------------------------------------------
(* Campaigns.                                                              *)
createCampaign(r, u, k) ==
    /\ pc[r] = "idle" /\ assertSmeActor(u)
    /\ campaigns[k] = None
    /\ campaigns' = [campaigns EXCEPT ![k] = u]
    /\ UNCHANGED <<assignments, scouted, requestVars>>

findCampaignByIdForSme(k, u) == campaigns[k] # None /\ campaigns[k] = u

(* addCreatorToCampaign up to the await of its two queries.                *)
addCreatorToCampaign(r, u, k, c, s) ==
    /\ pc[r] = "idle" /\ assertSmeActor(u)
    /\ findCampaignByIdForSme(k, u)
    /\ Role[c] = "creator"
    /\ Await(r, "assign", u, k, c, s)
    /\ UNCHANGED marketRows

(* Its upsert: the row of a creator gets the new status, removed too.      *)
UpsertAssignment(r) ==
    /\ pc[r] = "assign"
    /\ assignments' =
           [assignments EXCEPT ![<<campaign[r], creator[r]>>] = status[r]]
    /\ Done(r)
    /\ UNCHANGED <<campaigns, scouted>>

(* creatorCount of listCampaigns: every row, whatever its status.          *)
creatorCount(k) == Cardinality({c \in Users : assignments[<<k, c>>] # None})

-----------------------------------------------------------------------------
(* Scouting.                                                               *)
(* Faulty: any user can be scouted.                                        *)
scoutCreator_Anyone(r, u, c) ==
    /\ pc[r] = "idle" /\ assertSmeActor(u)
    /\ Role[c] # None
    /\ Await(r, "scout", u, None, c, None)
    /\ UNCHANGED marketRows
scoutCreator(r, u, c) ==
    /\ pc[r] = "idle" /\ assertSmeActor(u)
    /\ Role[c] = "creator"
    /\ Await(r, "scout", u, None, c, None)
    /\ UNCHANGED marketRows

UpsertScouted(r) ==
    /\ pc[r] = "scout"
    /\ scouted' = scouted \cup {<<actor[r], creator[r]>>}
    /\ Done(r)
    /\ UNCHANGED <<campaigns, assignments>>

(* Nothing is asked of the creator, who need not be on the list.           *)
unscoutCreator(r, u, c) ==
    /\ pc[r] = "idle" /\ assertSmeActor(u)
    /\ scouted' = scouted \ {<<u, c>>}
    /\ UNCHANGED <<campaigns, assignments, requestVars>>

-----------------------------------------------------------------------------
RequestStep(r) ==
    \/ \E u \in Users, k \in Campaigns : createCampaign(r, u, k)
    \/ \E u, c \in Users, k \in Campaigns, s \in Statuses :
           addCreatorToCampaign(r, u, k, c, s)
    \/ UpsertAssignment(r)
    \/ \E u, c \in Users : scoutCreator(r, u, c)
    \/ UpsertScouted(r)
    \/ \E u, c \in Users : unscoutCreator(r, u, c)

MarketNext == \E r \in Requests : RequestStep(r)

MarketSpec == MarketInit /\ [][MarketNext]_marketVars

-----------------------------------------------------------------------------
(* Whoever is scouted or assigned is a creator, and stands on the list of  *)
(* an SME or an administrator or in a campaign of theirs.  The checks are  *)
(* made by a request before it awaits the database, the rows written after *)
(* (the checks of scoutCreator and addCreatorToCampaign); no foreign key   *)
(* knows of roles.                                                         *)
OnlyCreatorsOffered ==
    /\ \A p \in scouted : assertSmeActor(p[1]) /\ Role[p[2]] = "creator"
    /\ \A k \in Campaigns, c \in Users :
         assignments[<<k, c>>] # None =>
             /\ campaigns[k] # None /\ assertSmeActor(campaigns[k])
             /\ Role[c] = "creator"

(* A campaign is changed by its owner alone: an assignment changes when a  *)
(* request of the campaign's owner that names it writes                    *)
(* (findCampaignByIdForSme, read before the write).                        *)
OwnersAssign ==
    [][\A k \in Campaigns, c \in Users :
         assignments'[<<k, c>>] # assignments[<<k, c>>] =>
             \E r \in Requests :
                 /\ pc[r] = "assign" /\ pc'[r] = "idle"
                 /\ campaign[r] = k /\ creator[r] = c
                 /\ actor[r] = campaigns[k]]_marketVars

(* The creators counted for a campaign never become fewer: who is removed  *)
(* keeps the row, with its status (addCreatorToCampaign only ever writes a *)
(* status, and findCampaignsBySmeUserId counts every row).                 *)
CountsOnlyGrow ==
    [][\A k \in Campaigns, c \in Users :
         assignments[<<k, c>>] # None => assignments'[<<k, c>>] # None]_marketVars
=============================================================================
