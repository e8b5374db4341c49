-------------------------- MODULE EvaluationProofs --------------------------
(***************************************************************************)
(* Proofs about Evaluation and the modules it is made of.                  *)
(*                                                                         *)
(* Marketplace, for any users, campaigns and requests: what a request has  *)
(* checked still holds when it writes, since a campaign never changes its  *)
(* owner and nobody changes roles, so the inductive invariant adds to the  *)
(* properties what the requests under way have checked.                    *)
(*                                                                         *)
(* Tenants, for any people, names and signups under way: a tenant's slug   *)
(* ends in the role of all its users.                                      *)
(*                                                                         *)
(* The cases, for any of the kind the assumptions of Evaluation admit: the *)
(* inductive invariant says that a result is what the code makes of its    *)
(* case, and a lemma about the operators of YoutubeFetch, CreatorDiscovery *)
(* and DatabaseSchema, or one of DataProofs about CreatorInsights and the  *)
(* rows of an ingestion, says what that is.                                *)
(***************************************************************************)
EXTENDS Evaluation, DataProofs

-----------------------------------------------------------------------------
(* Marketplace.                                                            *)

(* A request that is about to assign names a creator and a campaign of its *)
(* actor; one that is about to scout names a creator and acts for an SME.  *)
Checked ==
    \A r \in Requests :
        /\ pc[r] = "assign" =>
             /\ campaign[r] \in Campaigns /\ status[r] \in Statuses
             /\ creator[r] \in Users /\ Role[creator[r]] = "creator"
             /\ actor[r] \in Users /\ assertSmeActor(actor[r])
             /\ campaigns[campaign[r]] = actor[r]
        /\ pc[r] = "scout" =>
             /\ creator[r] \in Users /\ Role[creator[r]] = "creator"
             /\ actor[r] \in Users /\ assertSmeActor(actor[r])

MarketInv == MarketTypeOK /\ OnlyCreatorsOffered /\ Checked

(* Owners stay, and an assignment is only replaced by another.             *)
Kept ==
    /\ \A k \in Campaigns : campaigns[k] # None => campaigns'[k] = campaigns[k]
    /\ \A k \in Campaigns, c \in Users :
         assignments[<<k, c>>] # None => assignments'[<<k, c>>] # None

\* At the start no request has checked anything.
LEMMA InitMarket == MarketInit => MarketInv
  BY MarketAssumption
  DEF MarketInit, MarketInv, MarketTypeOK, OnlyCreatorsOffered, Checked

-----------------------------------------------------------------------------
(* Types.                                                                  *)
LEMMA AwaitType ==
  ASSUME NEW r \in Requests, MarketTypeOK,
         NEW p \in {"idle", "assign", "scout"}, NEW u \in Users \cup {None},
         NEW k \in Campaigns \cup {None}, NEW c \in Users \cup {None},
         NEW s \in Statuses \cup {None}, Await(r, p, u, k, c, s)
  PROVE  /\ pc' \in [Requests -> {"idle", "assign", "scout"}]
         /\ actor' \in [Requests -> Users \cup {None}]
         /\ campaign' \in [Requests -> Campaigns \cup {None}]
         /\ creator' \in [Requests -> Users \cup {None}]
         /\ status' \in [Requests -> Statuses \cup {None}]
  BY DEF Await, MarketTypeOK

(* What Await does to each request.                                        *)
LEMMA AwaitAt ==
  ASSUME MarketTypeOK, NEW r \in Requests,
         NEW p, NEW u, NEW k, NEW c, NEW s, Await(r, p, u, k, c, s)
  PROVE  /\ pc'[r] = p /\ actor'[r] = u /\ campaign'[r] = k
         /\ creator'[r] = c /\ status'[r] = s
         /\ \A q \in Requests \ {r} :
              /\ pc'[q] = pc[q] /\ actor'[q] = actor[q]
              /\ campaign'[q] = campaign[q] /\ creator'[q] = creator[q]
              /\ status'[q] = status[q]
  BY DEF Await, MarketTypeOK

\* A new campaign belongs to an SME, and is nobody's else afterwards.
LEMMA CreateStep ==
  ASSUME MarketInv, NEW r \in Requests, NEW u \in Users, NEW k \in Campaigns,
         createCampaign(r, u, k)
  PROVE  MarketInv' /\ Kept
<1>1. /\ campaigns' \in [Campaigns -> Users \cup {None}]
      /\ campaigns'[k] = u
      /\ \A j \in Campaigns \ {k} : campaigns'[j] = campaigns[j]
  BY DEF createCampaign, MarketInv, MarketTypeOK
<1>2. UNCHANGED <<assignments, scouted, requestVars>> /\ campaigns[k] = None
      /\ assertSmeActor(u)
  BY DEF createCampaign
<1>3. MarketTypeOK'
  BY <1>1, <1>2 DEF MarketInv, MarketTypeOK, requestVars
<1>4. OnlyCreatorsOffered'
  BY <1>1, <1>2 DEF MarketInv, OnlyCreatorsOffered, assertSmeActor
<1>5. Checked'
  <2> SUFFICES ASSUME NEW q \in Requests
               PROVE  /\ pc[q] = "assign" =>
                           /\ campaign[q] \in Campaigns
                           /\ status[q] \in Statuses
                           /\ creator[q] \in Users
                           /\ Role[creator[q]] = "creator"
                           /\ actor[q] \in Users /\ assertSmeActor(actor[q])
                           /\ campaigns'[campaign[q]] = actor[q]
                      /\ pc[q] = "scout" =>
                           /\ creator[q] \in Users
                           /\ Role[creator[q]] = "creator"
                           /\ actor[q] \in Users /\ assertSmeActor(actor[q])
    BY <1>2 DEF Checked, requestVars, assertSmeActor
  <2>1. pc[q] = "assign" => campaign[q] # k
    BY <1>2, MarketAssumption DEF MarketInv, Checked
  <2> QED
    BY <1>1, <2>1 DEF MarketInv, Checked
<1>6. Kept
  BY <1>1, <1>2 DEF Kept
<1> QED
  BY <1>3, <1>4, <1>5, <1>6 DEF MarketInv

(* A request that has checked what it needs, and awaits its write.         *)
LEMMA AssignStep ==
  ASSUME MarketInv, NEW r \in Requests, NEW u \in Users, NEW c \in Users,
         NEW k \in Campaigns, NEW s \in Statuses,
         addCreatorToCampaign(r, u, k, c, s)
  PROVE  MarketInv' /\ Kept
<1>1. /\ Await(r, "assign", u, k, c, s) /\ UNCHANGED marketRows
      /\ assertSmeActor(u) /\ campaigns[k] = u /\ Role[c] = "creator"
  BY DEF addCreatorToCampaign, findCampaignByIdForSme
<1>2. MarketTypeOK'
  BY <1>1, AwaitType DEF MarketInv, MarketTypeOK, marketRows
<1>3. OnlyCreatorsOffered' /\ Kept
  BY <1>1 DEF MarketInv, OnlyCreatorsOffered, marketRows, Kept, assertSmeActor
<1>4. Checked'
  BY <1>1, AwaitAt DEF MarketInv, Checked, marketRows, assertSmeActor
<1> QED
  BY <1>2, <1>3, <1>4 DEF MarketInv

\* A request past its checks carries what has passed them.
LEMMA ScoutStep ==
  ASSUME MarketInv, NEW r \in Requests, NEW u \in Users, NEW c \in Users,
         scoutCreator(r, u, c)
  PROVE  MarketInv' /\ Kept
<1>1. /\ Await(r, "scout", u, None, c, None) /\ UNCHANGED marketRows
      /\ assertSmeActor(u) /\ Role[c] = "creator"
  BY DEF scoutCreator
<1>2. MarketTypeOK'
  BY <1>1, AwaitType DEF MarketInv, MarketTypeOK, marketRows
<1>3. OnlyCreatorsOffered' /\ Kept
  BY <1>1 DEF MarketInv, OnlyCreatorsOffered, marketRows, Kept, assertSmeActor
<1>4. Checked'
  BY <1>1, AwaitAt DEF MarketInv, Checked, marketRows, assertSmeActor
<1> QED
  BY <1>2, <1>3, <1>4 DEF MarketInv

-----------------------------------------------------------------------------
(* The writes.                                                             *)
(* The requests under way have checked the same, if no owner changes.      *)
LEMMA DoneChecked ==
  ASSUME MarketInv, NEW r \in Requests, Done(r), UNCHANGED campaigns
  PROVE  Checked'
  BY AwaitAt DEF MarketInv, Checked, Done, assertSmeActor

\* The assignment written is of a creator, in a campaign of the actor.
LEMMA UpsertAssignmentStep ==
  ASSUME MarketInv, NEW r \in Requests, UpsertAssignment(r)
  PROVE  /\ MarketInv' /\ Kept
         /\ \A k \in Campaigns, c \in Users :
              assignments'[<<k, c>>] # assignments[<<k, c>>] =>
                  /\ pc[r] = "assign" /\ pc'[r] = "idle"
                  /\ campaign[r] = k /\ creator[r] = c
                  /\ actor[r] = campaigns[k]
<1>1. /\ pc[r] = "assign" /\ Done(r)
      /\ assignments' =
           [assignments EXCEPT ![<<campaign[r], creator[r]>>] = status[r]]
      /\ UNCHANGED <<campaigns, scouted>>
  BY DEF UpsertAssignment
<1>2. /\ campaign[r] \in Campaigns /\ status[r] \in Statuses
      /\ creator[r] \in Users /\ Role[creator[r]] = "creator"
      /\ actor[r] \in Users /\ assertSmeActor(actor[r])
      /\ campaigns[campaign[r]] = actor[r]
  BY <1>1 DEF MarketInv, Checked
<1>3. /\ <<campaign[r], creator[r]>> \in Campaigns \X Users
      /\ assignments' \in [Campaigns \X Users -> Statuses \cup {None}]
      /\ assignments'[<<campaign[r], creator[r]>>] = status[r]
      /\ \A p \in Campaigns \X Users :
           p # <<campaign[r], creator[r]>> => assignments'[p] = assignments[p]
  BY <1>1, <1>2 DEF MarketInv, MarketTypeOK
<1>4. status[r] # None /\ actor[r] # None
  BY <1>2, MarketAssumption
<1>5. MarketTypeOK'
  BY <1>1, <1>3, AwaitType DEF MarketInv, MarketTypeOK, Done
<1>6. \A k \in Campaigns, c \in Users :
        <<k, c>> = <<campaign[r], creator[r]>>
          \/ assignments'[<<k, c>>] = assignments[<<k, c>>]
  BY <1>3
<1>7. OnlyCreatorsOffered'
  BY <1>1, <1>2, <1>4, <1>6
  DEF MarketInv, OnlyCreatorsOffered, assertSmeActor
<1>8. Kept
  BY <1>1, <1>3, <1>4, <1>6 DEF Kept
<1>9. Checked'
  BY <1>1, DoneChecked
<1>10. pc'[r] = "idle"
  BY <1>1, AwaitAt DEF Done, MarketInv
<1> QED
  BY <1>1, <1>2, <1>5, <1>6, <1>7, <1>8, <1>9, <1>10 DEF MarketInv

\* The creator put on a list is one, the list an SME's.
LEMMA UpsertScoutedStep ==
  ASSUME MarketInv, NEW r \in Requests, UpsertScouted(r)
  PROVE  MarketInv' /\ Kept
<1>1. /\ pc[r] = "scout" /\ Done(r)
      /\ scouted' = scouted \cup {<<actor[r], creator[r]>>}
      /\ UNCHANGED <<campaigns, assignments>>
  BY DEF UpsertScouted
<1>2. /\ creator[r] \in Users /\ Role[creator[r]] = "creator"
      /\ actor[r] \in Users /\ assertSmeActor(actor[r])
  BY <1>1 DEF MarketInv, Checked
<1>3. MarketTypeOK'
  <2>1. MarketTypeOK /\ Await(r, "idle", None, None, None, None)
    BY <1>1 DEF MarketInv, Done
  <2>2. /\ pc' \in [Requests -> {"idle", "assign", "scout"}]
        /\ actor' \in [Requests -> Users \cup {None}]
        /\ campaign' \in [Requests -> Campaigns \cup {None}]
        /\ creator' \in [Requests -> Users \cup {None}]
        /\ status' \in [Requests -> Statuses \cup {None}]
    BY <2>1, AwaitType
  <2>3. scouted' \in SUBSET (Users \X Users)
    BY <1>1, <1>2, <2>1 DEF MarketTypeOK
  <2> QED
    BY <1>1, <2>1, <2>2, <2>3 DEF MarketTypeOK
<1>4. OnlyCreatorsOffered' /\ Kept
  BY <1>1, <1>2 DEF MarketInv, OnlyCreatorsOffered, Kept, assertSmeActor
<1>5. Checked'
  BY <1>1, DoneChecked
<1> QED
  BY <1>3, <1>4, <1>5 DEF MarketInv

\* Taking a creator off a list disturbs no check.
LEMMA UnscoutStep ==
  ASSUME MarketInv, NEW r \in Requests, NEW u \in Users, NEW c \in Users,
         unscoutCreator(r, u, c)
  PROVE  MarketInv' /\ Kept
<1>1. /\ scouted' = scouted \ {<<u, c>>}
      /\ UNCHANGED <<campaigns, assignments, requestVars>>
  BY DEF unscoutCreator
<1>2. MarketTypeOK' /\ Checked'
  BY <1>1 DEF MarketInv, MarketTypeOK, Checked, requestVars, assertSmeActor
<1>3. OnlyCreatorsOffered' /\ Kept
  BY <1>1 DEF MarketInv, OnlyCreatorsOffered, Kept, assertSmeActor
<1> QED
  BY <1>2, <1>3 DEF MarketInv

\* Nothing happens to the market while cases are evaluated.
LEMMA StutterStep ==
  ASSUME MarketInv, UNCHANGED marketVars
  PROVE  MarketInv' /\ Kept
  BY DEF MarketInv, MarketTypeOK, OnlyCreatorsOffered, Checked, Kept,
         marketVars, marketRows, requestVars, assertSmeActor

-----------------------------------------------------------------------------
(* Any step: it keeps the invariant, and assignments change as they may.   *)
OwnerAssigns ==
    \A k \in Campaigns, c \in Users :
        assignments'[<<k, c>>] # assignments[<<k, c>>] =>
            \E r \in Requests :
                /\ pc[r] = "assign" /\ pc'[r] = "idle"
                /\ campaign[r] = k /\ creator[r] = c
                /\ actor[r] = campaigns[k]

\* Every step of the market keeps the invariant.
LEMMA MarketStep ==
  ASSUME MarketInv, [MarketNext]_marketVars
  PROVE  MarketInv' /\ Kept /\ OwnerAssigns
<1>1. CASE UNCHANGED marketVars
  BY <1>1, StutterStep DEF OwnerAssigns, marketVars, marketRows
<1>2. CASE MarketNext
  <2>1. PICK r \in Requests : RequestStep(r)
    BY <1>2 DEF MarketNext
  <2>2. CASE \E u \in Users, k \in Campaigns : createCampaign(r, u, k)
    BY <2>2, CreateStep DEF createCampaign, OwnerAssigns
  <2>3. CASE \E u, c \in Users, k \in Campaigns, s \in Statuses :
                addCreatorToCampaign(r, u, k, c, s)
    BY <2>3, AssignStep DEF addCreatorToCampaign, marketRows, OwnerAssigns
  <2>4. CASE UpsertAssignment(r)
    BY <2>4, UpsertAssignmentStep DEF OwnerAssigns
  <2>5. CASE \E u, c \in Users : scoutCreator(r, u, c)
    BY <2>5, ScoutStep DEF scoutCreator, marketRows, OwnerAssigns
  <2>6. CASE UpsertScouted(r)
    BY <2>6, UpsertScoutedStep DEF UpsertScouted, OwnerAssigns
  <2>7. CASE \E u, c \in Users : unscoutCreator(r, u, c)
    BY <2>7, UnscoutStep DEF unscoutCreator, OwnerAssigns
  <2> QED
    BY <2>1, <2>2, <2>3, <2>4, <2>5, <2>6, <2>7 DEF RequestStep
<1> QED
  BY <1>1, <1>2

(* What the requests under way have checked holds when they write, and so  *)
(* do the types and OnlyCreatorsOffered.                                   *)
THEOREM MarketInvariant == MarketSpec => []MarketInv
<1>1. MarketInit => MarketInv
  BY InitMarket
<1>2. MarketInv /\ [MarketNext]_marketVars => MarketInv'
  BY MarketStep
<1> QED
  BY <1>1, <1>2, PTL DEF MarketSpec

(* Rows and requests have their types (MarketTypeOK).                      *)
THEOREM MarketTypes == MarketSpec => []MarketTypeOK
<1>1. MarketInv => MarketTypeOK
  BY DEF MarketInv
<1> QED
  BY <1>1, MarketInvariant, PTL

(* Only creators are scouted or assigned, and only by an SME or an         *)
(* administrator, whatever requests interleave.                            *)
THEOREM CreatorsOffered == MarketSpec => []OnlyCreatorsOffered
<1>1. MarketInv => OnlyCreatorsOffered
  BY DEF MarketInv
<1> QED
  BY <1>1, MarketInvariant, PTL

(* An assignment is only changed for the owner of its campaign.            *)
THEOREM AssignedByOwners == MarketSpec => OwnersAssign
<1>1. MarketInv /\ [MarketNext]_marketVars => [OwnerAssigns]_marketVars
  BY MarketStep
<1>2. MarketSpec => [][OwnerAssigns]_marketVars
  BY <1>1, MarketInvariant, PTL DEF MarketSpec
<1> QED
  BY <1>2 DEF OwnersAssign, OwnerAssigns

(* No creator counted for a campaign is ever lost to the count.            *)
THEOREM CountsGrow == MarketSpec => CountsOnlyGrow
<1>1. MarketInv /\ [MarketNext]_marketVars =>
        [\A k \in Campaigns, c \in Users :
            assignments[<<k, c>>] # None =>
                assignments'[<<k, c>>] # None]_marketVars
  BY MarketStep DEF Kept
<1> QED
  BY <1>1, MarketInvariant, PTL DEF MarketSpec, CountsOnlyGrow

-----------------------------------------------------------------------------
(* Tenants.                                                                *)
AccountsTypeOK ==
    /\ accounts \in [People -> Accounts!Account \cup {None}]
    /\ tokens \subseteq People
    /\ at \in [Handlers -> {"idle", "findUser", "findTenant", "createTenant",
                            "createUser", "createProfile", "issue"}]
    /\ form \in [Handlers -> Forms \cup {None}]
    /\ \A h \in Handlers : at[h] # "idle" => form[h] \in Forms

(* Whoever has tokens, or is about to get them, has an account.            *)
TokensHaveAccounts ==
    /\ \A p \in tokens : accounts[p] # None
    /\ \A h \in Handlers : at[h] \in {"createProfile", "issue"}
                               => accounts[form[h].email] # None

(* The slug of a tenant ends in the role of its users.                     *)
TenantTellsRole ==
    \A p \in People :
        accounts[p] # None => accounts[p].tenant[2] = accounts[p].role

AccountsInv == AccountsTypeOK /\ TokensHaveAccounts /\ TenantTellsRole

\* The role at the end of a slug is the role it was made for.
LEMMA SlugTellsRole ==
    ASSUME NEW f \in Forms PROVE Accounts!Slug(f)[2] = f.role
  BY DEF Accounts!Slug, Accounts!PreferredSlug

\* The accounts of the start are in tenants of their own role.
LEMMA InitAccounts == Accounts!AccountsInit => AccountsInv
  BY DEF Accounts!AccountsInit, AccountsInv, AccountsTypeOK,
         TokensHaveAccounts, TenantTellsRole

(* A step that leaves the accounts alone, and at most issues tokens.       *)
LEMMA WaitingStep ==
    ASSUME AccountsInv, NEW h \in Handlers, UNCHANGED <<accounts, tokens>>,
           \/ \E f \in Forms : Accounts!Receive(h, f)
           \/ Accounts!FindByEmail(h) \/ Accounts!FindTenantBySlug(h)
           \/ Accounts!CreateTenant(h) \/ Accounts!CreateProfile(h)
           \/ Accounts!Abort(h)
    PROVE  AccountsInv'
<1> USE DEF AccountsInv, AccountsTypeOK
<1>1. \A g \in Handlers : g # h => at'[g] = at[g] /\ form'[g] = form[g]
  BY DEF Accounts!Receive, Accounts!FindByEmail, Accounts!FindTenantBySlug,
     Accounts!CreateTenant, Accounts!CreateProfile, Accounts!Abort,
     Accounts!Goes, Accounts!Done
<1>2. /\ at' \in [Handlers -> {"idle", "findUser", "findTenant",
                     "createTenant", "createUser", "createProfile", "issue"}]
      /\ form' \in [Handlers -> Forms \cup {None}]
      /\ at'[h] # "idle" => form'[h] \in Forms
  BY DEF Accounts!Receive, Accounts!FindByEmail, Accounts!FindTenantBySlug,
     Accounts!CreateTenant, Accounts!CreateProfile, Accounts!Abort,
     Accounts!Goes, Accounts!Done
<1>3. at'[h] \in {"createProfile", "issue"} => accounts[form'[h].email] # None
  BY DEF TokensHaveAccounts, Accounts!Receive, Accounts!FindByEmail,
     Accounts!FindTenantBySlug, Accounts!CreateTenant,
     Accounts!CreateProfile, Accounts!Abort, Accounts!Goes, Accounts!Done
<1> QED
  BY <1>1, <1>2, <1>3 DEF TokensHaveAccounts, TenantTellsRole

\* A user is created in a tenant whose slug ends in the user's role.
LEMMA CreateUserStep ==
    ASSUME AccountsInv, NEW h \in Handlers, Accounts!CreateUser(h)
    PROVE  AccountsInv'
<1> USE DEF AccountsInv, AccountsTypeOK
<1> DEFINE f == form[h]
           row == [role |-> f.role, tenant |-> Accounts!Slug(f),
                   hasPassword |-> ~f.google]
<1>1. f \in Forms /\ f.email \in People /\ f.role \in Accounts!Roles
  BY FormsAssumption DEF Accounts!CreateUser
<1>2. /\ accounts[f.email] = None
      /\ accounts' = [accounts EXCEPT ![f.email] = row]
      /\ tokens' = tokens /\ form' = form
      /\ at' = [at EXCEPT ![h] = "createProfile"]
  BY DEF Accounts!CreateUser, Accounts!Goes
<1>3. row \in Accounts!Account /\ row # None
  <2>1. (~f.google) \in BOOLEAN
    OBVIOUS
  <2>2. Accounts!Slug(f) \in {Accounts!Slug(g) : g \in Forms}
    BY <1>1
  <2>3. row \in Accounts!Account
    BY <1>1, <2>1, <2>2 DEF Accounts!Account
  <2> QED
    BY <2>3, FormsAssumption
<1>4. row.tenant[2] = row.role
  BY <1>1, SlugTellsRole
<1> HIDE DEF row
<1>5. /\ accounts' \in [People -> Accounts!Account \cup {None}]
      /\ accounts'[f.email] = row
      /\ \A p \in People : p # f.email => accounts'[p] = accounts[p]
  BY <1>1, <1>2, <1>3
<1>6. AccountsTypeOK'
  BY <1>1, <1>2, <1>5
<1>7. TokensHaveAccounts'
  BY <1>1, <1>2, <1>3, <1>5, FormsAssumption DEF TokensHaveAccounts
<1>8. TenantTellsRole'
  BY <1>4, <1>5 DEF TenantTellsRole
<1> QED
  BY <1>6, <1>7, <1>8

(* Tokens are issued at the end of a signup, and by the logins.            *)
LEMMA TokensStep ==
    ASSUME AccountsInv,
           \/ \E h \in Handlers : Accounts!IssueTokens(h)
           \/ \E p \in People : Accounts!login(p) \/ Accounts!adminLogin(p)
    PROVE  AccountsInv'
<1> USE DEF AccountsInv, AccountsTypeOK
<1>1. CASE \E h \in Handlers : Accounts!IssueTokens(h)
  <2>1. PICK h \in Handlers : Accounts!IssueTokens(h)
    BY <1>1
  <2>2. form[h].email \in People /\ accounts[form[h].email] # None
    BY <2>1, FormsAssumption DEF TokensHaveAccounts, Accounts!IssueTokens
  <2> QED
    BY <2>1, <2>2 DEF TokensHaveAccounts, TenantTellsRole,
       Accounts!IssueTokens, Accounts!Done
<1>2. CASE \E p \in People : Accounts!login(p) \/ Accounts!adminLogin(p)
  BY <1>2 DEF TokensHaveAccounts, TenantTellsRole, Accounts!login,
     Accounts!adminLogin, Accounts!Login
<1> QED
  BY <1>1, <1>2

\* A password is changed in place.
LEMMA PasswordStep ==
    ASSUME AccountsInv, NEW p \in People, Accounts!updatePassword(p)
    PROVE  AccountsInv'
<1> USE DEF AccountsInv, AccountsTypeOK
<1>1. /\ accounts' = [accounts EXCEPT ![p].hasPassword = TRUE]
      /\ UNCHANGED <<tokens, at, form>>
      /\ accounts[p] \in Accounts!Account
  BY DEF Accounts!updatePassword, TokensHaveAccounts
<1> DEFINE row == [accounts[p] EXCEPT !.hasPassword = TRUE]
<1>2. /\ row \in Accounts!Account /\ row # None
      /\ row.tenant = accounts[p].tenant /\ row.role = accounts[p].role
  BY <1>1, FormsAssumption DEF Accounts!Account
<1>3. accounts' = [accounts EXCEPT ![p] = row]
  BY <1>1
<1>4. accounts[p] # None
  BY <1>1, FormsAssumption
<1> HIDE DEF row
<1>5. /\ accounts' \in [People -> Accounts!Account \cup {None}]
      /\ accounts'[p] = row
      /\ \A q \in People : q # p => accounts'[q] = accounts[q]
  BY <1>2, <1>3
<1>6. \A q \in People : accounts[q] # None => accounts'[q] # None
  BY <1>2, <1>5
<1>7. AccountsTypeOK'
  BY <1>1, <1>5
<1>8. TokensHaveAccounts'
  BY <1>1, <1>6, FormsAssumption DEF TokensHaveAccounts
<1>9. TenantTellsRole'
  BY <1>2, <1>4, <1>5 DEF TenantTellsRole
<1> QED
  BY <1>7, <1>8, <1>9

\* Every step of a signup or a login keeps the invariant.
LEMMA AccountsStep ==
    ASSUME AccountsInv, [Accounts!AccountsNext]_accountVars
    PROVE  AccountsInv'
<1>1. CASE UNCHANGED accountVars
  BY <1>1 DEF accountVars, AccountsInv, AccountsTypeOK, TokensHaveAccounts,
     TenantTellsRole
<1>2. ASSUME NEW h \in Handlers,
             \/ \E f \in Forms : Accounts!Receive(h, f)
             \/ Accounts!FindByEmail(h) \/ Accounts!FindTenantBySlug(h)
             \/ Accounts!CreateTenant(h) \/ Accounts!CreateProfile(h)
             \/ Accounts!Abort(h)
      PROVE  AccountsInv'
  <2>1. UNCHANGED <<accounts, tokens>>
    BY <1>2 DEF Accounts!Receive, Accounts!FindByEmail,
       Accounts!FindTenantBySlug, Accounts!CreateTenant,
       Accounts!CreateProfile, Accounts!Abort
  <2> QED
    BY <1>2, <2>1, WaitingStep
<1>3. ASSUME NEW h \in Handlers, Accounts!CreateUser(h)
      PROVE  AccountsInv'
  BY <1>3, CreateUserStep
<1>4. CASE \/ \E h \in Handlers : Accounts!IssueTokens(h)
           \/ \E p \in People : Accounts!login(p) \/ Accounts!adminLogin(p)
  BY <1>4, TokensStep
<1>5. ASSUME NEW p \in People, Accounts!updatePassword(p)
      PROVE  AccountsInv'
  BY <1>5, PasswordStep
<1> QED
  BY <1>1, <1>2, <1>3, <1>4, <1>5 DEF Accounts!AccountsNext

-----------------------------------------------------------------------------
(* Evaluation: the two machines run inside it, one case at a time.         *)
LEMMA StepOfParts ==
    [Next]_vars => /\ [MarketNext]_marketVars
                   /\ [Accounts!AccountsNext]_Accounts!accountVars
<1> SUFFICES ASSUME [Next]_vars
             PROVE  /\ [MarketNext]_marketVars
                    /\ [Accounts!AccountsNext]_accountVars
  BY DEF accountVars, Accounts!accountVars
<1>1. CASE \/ EvaluateFetch \/ EvaluateRows \/ EvaluateWrite \/ EvaluateDelete
           \/ EvaluateInsights \/ EvaluatePages \/ EvaluateSearch
           \/ EvaluateKeys \/ EvaluateStats
  BY <1>1 DEF EvaluateFetch, EvaluateRows, EvaluateWrite, EvaluateDelete,
     EvaluateInsights, EvaluatePages, EvaluateSearch, EvaluateKeys,
     EvaluateStats, Yields
<1>2. CASE Trade
  BY <1>2 DEF Trade
<1>3. CASE Register
  BY <1>3 DEF Register
<1>4. CASE UNCHANGED vars
  BY <1>4 DEF vars
<1> QED
  BY <1>1, <1>2, <1>3, <1>4 DEF Next

(* Campaigns, scouting and signups go on as their modules describe them.   *)
THEOREM PartsRun == Spec => MarketSpec /\ Accounts!AccountsSpec
<1>1. Init => MarketInit /\ Accounts!AccountsInit
  BY DEF Init
<1> QED
  BY <1>1, StepOfParts, PTL DEF Spec, MarketSpec, Accounts!AccountsSpec

(* Whoever signs up however often: accounts and tokens have their types,   *)
(* and a tenant tells the role of everyone in it.                           *)
THEOREM AccountsInvariant == Accounts!AccountsSpec => []AccountsInv
<1>1. AccountsInv /\ [Accounts!AccountsNext]_Accounts!accountVars
        => AccountsInv'
  BY AccountsStep DEF accountVars, Accounts!accountVars
<1> QED
  BY <1>1, InitAccounts, PTL DEF Accounts!AccountsSpec

(* Whatever names people choose and however their signups interleave, fail *)
(* and are repeated, only an administrator can look up users of another    *)
(* role: the comparison of tenants in getAccessibleUserOrThrow and         *)
(* getTenantUsers is enough, since a tenant's slug ends in the role of     *)
(* everyone resolveTenantForSignup puts there.                             *)
THEOREM TenantsStayApart == Spec => []TenantsApart
<1>1. AccountsInv => TenantsApart
  <2> SUFFICES ASSUME AccountsInv, NEW asker \in tokens, NEW p \in People
               PROVE  /\ accounts[asker] # None
                      /\ (/\ accounts[p] # None
                          /\ accounts[asker].role # "admin"
                          /\ \/ Accounts!getAccessibleUser(asker, p)
                             \/ p \in Accounts!getTenantUsers(asker))
                         => accounts[p].role = accounts[asker].role
    BY DEF TenantsApart, Accounts!TenantsApart
  <2>1. asker \in People /\ accounts[asker] # None
    BY DEF AccountsInv, AccountsTypeOK, TokensHaveAccounts
  <2>2. accounts[asker].tenant[2] = accounts[asker].role
    BY <2>1 DEF AccountsInv, TenantTellsRole
  <2>3. accounts[p] # None => accounts[p].tenant[2] = accounts[p].role
    BY DEF AccountsInv, TenantTellsRole
  <2> QED
    BY <2>1, <2>2, <2>3 DEF Accounts!getAccessibleUser,
       Accounts!getTenantUsers
<1> QED
  BY <1>1, PartsRun, AccountsInvariant, PTL

-----------------------------------------------------------------------------
(* The cases.                                                              *)

(* The case is one of those given, and the result, once there is one, is   *)
(* what the code makes of it.                                              *)
CaseGiven ==
    /\ case.kind = "fetch"  => case \in FetchCases
    /\ case.kind = "rows"   => case \in RowCases
    /\ case.kind = "write"  => case \in WriteCases
    /\ case.kind = "delete" => case \in DeleteCases
    /\ case.kind = "insights" => case \in InsightCases
    /\ case.kind = "pages"  => case \in PageCases
    /\ case.kind = "search" => case \in SearchCases
    /\ case.kind = "keys"   => case \in KeyCases
    /\ case.kind = "stats"  => case \in StatsCases

\* The page of a search that starts at an offset.
PageAt(c, offset) ==
    Discovery!discoverCreators(c.users, [c.params EXCEPT !.offset = offset])

\* The responses a creator and an SME may be given of a case.
AudienceOf(c) ==
    {[channel |-> channel,
      response |-> Insights!getAudienceInsights(c.profile, channel, c.days,
                                                c.now)] :
        channel \in Insights!getLatestChannelForUser(c.channels)}
ContentOf(c) ==
    {[given |-> q,
      response |-> Insights!getContentInsights(q.channel, q.videos, c.limit)] :
        q \in Insights!Queried(c.channels, c.limit)}
PerformanceOf(c) ==
    {[given |-> q,
      response |-> Insights!getPerformanceInsights(q.channel, q.videos, c.days,
                                                   c.now, c.later)] :
        q \in Insights!Queried(c.channels, c.limit)}
SmeOf(c) ==
    {[given |-> q,
      response |-> Insights!getCreatorProfileForSme(
                       c.profile, q.channel, q.videos, c.days, c.now,
                       c.later)] :
        q \in Insights!Queried(c.channels, c.limit)}

Makes(c, r) ==
    /\ c.kind = "fetch" =>
         \E outcome \in Fetch!ApiFetch(c.grant, c.found, c.answers) :
            r = [api |-> outcome, ingestion |-> Fetch!Ingestion(outcome),
                 worker |-> Fetch!WorkerFetch(c.grant, c.found, c.answers)]
    /\ c.kind = "rows" =>
         LET rows == Api!ApiRows(c.user, c.google)
         IN  r = [api |-> rows, worker |-> Worker!WorkerRows(c.user, c.google),
                  job |-> Api!EnqueueIngestionJobs(c.google, 10, rows.videos)]
    /\ c.kind = "write" =>
         LET once == Db!Upsert(c.statement, c.table, c.row)
         IN  r = [once |-> once,
                  again |-> Db!Upsert(c.statement, once.rows, c.row)]
    /\ c.kind = "delete" => r = Db!Delete(c.db, c.table, c.row)
    /\ c.kind = "insights" =>
         r = [audience |-> AudienceOf(c), content |-> ContentOf(c),
              performance |-> PerformanceOf(c), sme |-> SmeOf(c)]
    /\ c.kind = "pages" =>
         \E first \in PageAt(c, c.params.offset),
            second \in PageAt(c, c.params.offset + c.params.limit) :
            r = [first |-> first.creators, second |-> second.creators]
    /\ c.kind = "search" =>
         \E plain \in Discovery!SearchCreators(c.users, c.query, c.limit,
                                               FALSE),
            similar \in Discovery!SearchCreators(c.users, c.query, c.limit,
                                                 TRUE) :
            r = [plain |-> plain.creators, similar |-> similar.creators]
    /\ c.kind = "keys" =>
         r = [one |-> Ask(c.users, c.one), two |-> Ask(c.users, c.two)]
    /\ c.kind = "stats" =>
         \E all \in Discovery!searchCreators(
                       c.users, Discovery!AnyCreator(Null, 100)) :
            r = [stats |-> Discovery!getSmeStats(c.users), all |-> all]

ResultOfCase == result # Null => Makes(case, result)

\* A case is given from the start and has no result.
LEMMA InitCase == Init => CaseGiven /\ ResultOfCase
<1> SUFFICES ASSUME Init PROVE CaseGiven /\ ResultOfCase
  OBVIOUS
<1>1. CaseGiven
  BY CasesAssumption DEF Init, CaseGiven
<1>2. ResultOfCase
  BY DEF Init, ResultOfCase
<1> QED
  BY <1>1, <1>2

\* One step evaluates it.
LEMMA CaseStep ==
    CaseGiven /\ ResultOfCase /\ [Next]_vars => CaseGiven' /\ ResultOfCase'
<1> SUFFICES ASSUME CaseGiven, ResultOfCase, [Next]_vars
             PROVE  CaseGiven' /\ ResultOfCase'
  OBVIOUS
<1>1. case' = case
  BY DEF Next, vars, EvaluateFetch, EvaluateRows, EvaluateWrite,
     EvaluateDelete, EvaluateInsights, EvaluatePages, EvaluateSearch,
     EvaluateKeys, EvaluateStats, Yields, Trade, Register
<1>2. CaseGiven'
  BY <1>1 DEF CaseGiven
<1> SUFFICES ResultOfCase'
  BY <1>2
<1>3. CASE result' = result
  BY <1>1, <1>3 DEF ResultOfCase
<1>4. CASE EvaluateFetch
  <2>1. \E outcome \in Fetch!ApiFetch(case.grant, case.found,
                                      case.answers) :
          result' = [api |-> outcome, ingestion |-> Fetch!Ingestion(outcome),
                     worker |-> Fetch!WorkerFetch(case.grant, case.found,
                                                  case.answers)]
    BY <1>4 DEF EvaluateFetch, Yields
  <2>2. case.kind = "fetch"
    BY <1>4 DEF EvaluateFetch, Pending
  <2> QED
    BY <1>1, <2>1, <2>2 DEF ResultOfCase, Makes
<1>5. CASE EvaluateWrite
  BY <1>1, <1>5 DEF EvaluateWrite, Pending, Yields, ResultOfCase, Makes
<1>6. CASE EvaluateDelete
  BY <1>1, <1>6 DEF EvaluateDelete, Pending, Yields, ResultOfCase, Makes
<1>7. CASE EvaluateKeys
  BY <1>1, <1>7 DEF EvaluateKeys, Pending, Yields, ResultOfCase, Makes
<1>8. CASE EvaluatePages
  <2>1. \E first \in PageAt(case, case.params.offset),
           second \in PageAt(case, case.params.offset + case.params.limit) :
          result' = [first |-> first.creators, second |-> second.creators]
    BY <1>8 DEF EvaluatePages, Yields, PageAt
  <2>2. case.kind = "pages"
    BY <1>8 DEF EvaluatePages, Pending
  <2> QED
    BY <1>1, <2>1, <2>2 DEF ResultOfCase, Makes
<1>9. CASE EvaluateSearch
  <2>1. \E plain \in Discovery!SearchCreators(case.users, case.query,
                                               case.limit, FALSE),
           similar \in Discovery!SearchCreators(case.users, case.query,
                                                case.limit, TRUE) :
          result' = [plain |-> plain.creators, similar |-> similar.creators]
    BY <1>9 DEF EvaluateSearch, Yields
  <2>2. case.kind = "search"
    BY <1>9 DEF EvaluateSearch, Pending
  <2> QED
    BY <1>1, <2>1, <2>2 DEF ResultOfCase, Makes
<1>10. CASE EvaluateStats
  <2>1. \E all \in Discovery!searchCreators(
                      case.users, Discovery!AnyCreator(Null, 100)) :
          result' = [stats |-> Discovery!getSmeStats(case.users),
                     all |-> all]
    BY <1>10 DEF EvaluateStats, Yields
  <2>2. case.kind = "stats"
    BY <1>10 DEF EvaluateStats, Pending
  <2> QED
    BY <1>1, <2>1, <2>2 DEF ResultOfCase, Makes
<1>11. CASE EvaluateInsights
  <2>1. result' = [audience |-> AudienceOf(case), content |-> ContentOf(case),
                   performance |-> PerformanceOf(case), sme |-> SmeOf(case)]
    BY <1>11, Zenon DEF EvaluateInsights, Yields, AudienceOf, ContentOf,
       PerformanceOf, SmeOf
  <2>2. case.kind = "insights"
    BY <1>11 DEF EvaluateInsights, Pending
  <2> QED
    BY <1>1, <2>1, <2>2 DEF ResultOfCase, Makes
<1>12. CASE EvaluateRows
  BY <1>1, <1>12 DEF EvaluateRows, Pending, Yields, ResultOfCase, Makes
<1>13. CASE case.kind \in {"market", "accounts"}
  BY <1>1, <1>13 DEF ResultOfCase, Makes
<1> QED
  BY <1>3, <1>4, <1>5, <1>6, <1>7, <1>8, <1>9, <1>10, <1>11, <1>12, <1>13
  DEF Next, vars, Trade, Register

(* A result is what the code makes of the case that was given.             *)
THEOREM CasesInvariant == Spec => [](CaseGiven /\ ResultOfCase)
  BY InitCase, CaseStep, PTL DEF Spec

-----------------------------------------------------------------------------
(* Fetching: the API and the worker, call by call.                         *)

(* What is fetched when every call of the API may be made.                 *)
Usable(grant) ==
    /\ grant.linked
    /\ grant.usable \/ (grant.refreshable /\ grant.google = "ok")

ErrorOf(grant, answer) == Fetch!fetchGoogleJsonWithRefresh(grant, answer)

(* An error names its type; only a call that is refused with a 401, or not *)
(* made for lack of a token, is an InvalidToken.                           *)
LEMMA ResponseErrors ==
    ASSUME NEW r \in Fetch!Responses
    PROVE  /\ r = "ok" <=> Fetch!fetchGoogleJson(r) = Fetch!NoError
           /\ r = "unauthorized" <=>
                Fetch!fetchGoogleJson(r).type = "InvalidToken"
           /\ r = "commentsDisabled" <=>
                Fetch!isGoogleCommentsDisabledError(Fetch!fetchGoogleJson(r))
  BY DEF Fetch!Responses, Fetch!fetchGoogleJson, Fetch!NoError, Fetch!Err,
         Fetch!isGoogleCommentsDisabledError

\* What the refresh of a grant fails with, in the API and in the worker.
LEMMA RefreshErrors ==
    ASSUME NEW grant \in Fetch!Grants
    PROVE  LET e == Fetch!refreshGoogleOauthTokensForUser(grant)
           IN  /\ e = Fetch!NoError <=> /\ grant.linked /\ grant.refreshable
                                        /\ grant.google = "ok"
               /\ e.type = "InvalidToken" <=>
                    \/ ~grant.linked \/ ~grant.refreshable
                    \/ grant.google = "revoked"
               /\ ~Fetch!isGoogleCommentsDisabledError(e)
               /\ Fetch!WorkerRefresh(grant) = "ok" <=>
                    grant.refreshable /\ \/ grant.google = "ok"
                                         \/ grant.google = "revoked"
                                              /\ grant.usable
<1>1. /\ grant.linked \in BOOLEAN /\ grant.refreshable \in BOOLEAN
      /\ grant.usable \in BOOLEAN /\ grant.google \in {"ok", "revoked", "down"}
  BY DEF Fetch!Grants
<1>2. CASE ~grant.linked
  BY <1>1, <1>2 DEF Fetch!refreshGoogleOauthTokensForUser, Fetch!NoError,
     Fetch!Err, Fetch!isGoogleCommentsDisabledError, Fetch!WorkerRefresh
<1>3. CASE grant.linked /\ ~grant.refreshable
  BY <1>1, <1>3 DEF Fetch!refreshGoogleOauthTokensForUser, Fetch!NoError,
     Fetch!Err, Fetch!isGoogleCommentsDisabledError, Fetch!WorkerRefresh
<1>4. CASE grant.linked /\ grant.refreshable
  BY <1>1, <1>4 DEF Fetch!refreshGoogleOauthTokensForUser, Fetch!NoError,
     Fetch!Err, Fetch!isGoogleCommentsDisabledError, Fetch!WorkerRefresh
<1> QED
  BY <1>1, <1>2, <1>3, <1>4

\* What a call that failed is taken for, by both processes alike.
LEMMA CallErrors ==
    ASSUME NEW grant \in Fetch!Grants,
           NEW a \in Fetch!Responses \X Fetch!Responses
    PROVE  LET e == ErrorOf(grant, a)
           IN  /\ e = Fetch!NoError => Usable(grant) /\ Final(a) = "ok"
               /\ Fetch!isGoogleCommentsDisabledError(e) =>
                      Final(a) = "commentsDisabled"
               /\ Usable(grant) /\ e.type # "InvalidToken" =>
                      (Fetch!WorkerCall(grant, a) = "ok" <=> e = Fetch!NoError)
<1> DEFINE e     == ErrorOf(grant, a)
           token == Fetch!resolveGoogleAccessToken(grant)
           renew == Fetch!refreshGoogleOauthTokensForUser(grant)
           worker == Fetch!WorkerRefresh(grant)
<1>1. /\ grant.linked \in BOOLEAN /\ grant.refreshable \in BOOLEAN
      /\ grant.usable \in BOOLEAN /\ grant.google \in {"ok", "revoked", "down"}
  BY DEF Fetch!Grants
<1>2. a[1] \in Fetch!Responses /\ a[2] \in Fetch!Responses
  OBVIOUS
<1>3. /\ token = Fetch!NoError <=> Usable(grant)
      /\ ~Fetch!isGoogleCommentsDisabledError(token)
  <2>1. \A reason :
           /\ Fetch!Required(reason) # Fetch!NoError
           /\ ~Fetch!isGoogleCommentsDisabledError(Fetch!Required(reason))
           /\ ~Fetch!isGoogleCommentsDisabledError(Fetch!NoError)
    BY DEF Fetch!Required, Fetch!NoError, Fetch!Err,
       Fetch!isGoogleCommentsDisabledError
  <2>2. /\ renew = Fetch!NoError <=>
             grant.linked /\ grant.refreshable /\ grant.google = "ok"
        /\ ~Fetch!isGoogleCommentsDisabledError(renew)
    BY RefreshErrors
  <2>3. token = IF ~grant.linked
                THEN Fetch!Required("oauth-account-not-found")
                ELSE IF grant.usable THEN Fetch!NoError
                ELSE IF ~grant.refreshable
                THEN Fetch!Required("missing-refresh-token") ELSE renew
    BY DEF Fetch!resolveGoogleAccessToken
  <2> HIDE DEF token, renew
  <2>4. CASE ~grant.linked
    BY <2>1, <2>3, <2>4 DEF Usable
  <2>5. CASE grant.linked /\ grant.usable
    BY <2>1, <2>3, <2>5 DEF Usable
  <2>6. CASE grant.linked /\ ~grant.usable /\ ~grant.refreshable
    BY <2>1, <2>3, <2>6 DEF Usable
  <2>7. CASE grant.linked /\ ~grant.usable /\ grant.refreshable
    <3>1. token = renew
      BY <2>3, <2>7
    <3> QED
      BY <2>2, <2>7, <3>1 DEF Usable
  <2> QED
    BY <1>1, <2>4, <2>5, <2>6, <2>7
<1>4. e = IF token # Fetch!NoError THEN token
          ELSE IF Fetch!fetchGoogleJson(a[1]).type # "InvalidToken"
          THEN Fetch!fetchGoogleJson(a[1])
          ELSE IF renew # Fetch!NoError THEN renew
          ELSE Fetch!fetchGoogleJson(a[2])
  BY DEF ErrorOf, Fetch!fetchGoogleJsonWithRefresh
<1>5. Fetch!NoError.type = "none"
  BY DEF Fetch!NoError, Fetch!Err
<1>6. Fetch!WorkerCall(grant, a) = "ok" <=>
          /\ grant.usable \/ worker = "ok"
          /\ IF a[1] # "unauthorized" THEN a[1] = "ok"
             ELSE worker = "ok" /\ a[2] = "ok"
  BY <1>1 DEF Fetch!WorkerCall
<1> HIDE DEF e, token, renew, worker
<1>7. CASE token # Fetch!NoError
  BY <1>3, <1>4, <1>7 DEF e
<1>8. CASE token = Fetch!NoError /\ a[1] # "unauthorized"
  <2>1. e = Fetch!fetchGoogleJson(a[1])
    BY <1>2, <1>4, <1>8, ResponseErrors
  <2>2. Final(a) = a[1]
    BY <1>8 DEF Final
  <2>3. grant.usable \/ worker = "ok"
    BY <1>1, <1>3, <1>8, RefreshErrors DEF Usable, worker
  <2> QED
    BY <1>2, <1>3, <1>6, <1>8, <2>1, <2>2, <2>3, ResponseErrors DEF e
<1>9. CASE token = Fetch!NoError /\ a[1] = "unauthorized"
  <2>1. e = IF renew # Fetch!NoError THEN renew
            ELSE Fetch!fetchGoogleJson(a[2])
    BY <1>2, <1>4, <1>9, ResponseErrors
  <2>2. Final(a) = a[2]
    BY <1>9 DEF Final
  <2>3. CASE renew = Fetch!NoError
    <3>1. worker = "ok"
      BY <1>1, <2>3, RefreshErrors DEF renew, worker
    <3> QED
      BY <1>2, <1>3, <1>6, <1>9, <2>1, <2>2, <2>3, <3>1, ResponseErrors DEF e
  <2>4. CASE renew # Fetch!NoError
    <3>1. ~Fetch!isGoogleCommentsDisabledError(renew)
      BY RefreshErrors DEF renew
    <3>2. renew.type = "InvalidToken" \/ worker # "ok"
      BY <1>1, <2>4, RefreshErrors DEF renew, worker
    <3> QED
      BY <1>6, <1>9, <2>1, <2>4, <3>1, <3>2 DEF e
  <2> QED
    BY <2>3, <2>4
<1> QED
  BY <1>7, <1>8, <1>9

(* What has happened when the API stores what it has fetched.              *)
Stored(grant, found, answers, outcome) ==
    LET error(c)  == ErrorOf(grant, answers[c])
        Fails(cs) == {c \in cs : error(c) # Fetch!NoError}
    IN  /\ error("channel") = Fetch!NoError /\ found.channel = "named"
        /\ error("search") = Fetch!NoError
        /\ found.videos =>
             /\ error("videos") = Fetch!NoError
             /\ \A c \in Fetch!Comments :
                  \/ error(c) = Fetch!NoError
                  \/ Fetch!isGoogleCommentsDisabledError(error(c))
        /\ error("analytics").type \in {"none", "InsufficientPermissions"}
        /\ \A c \in Fetch!Demographics :
             \/ error(c) = Fetch!NoError
             \/ Fetch!isRecoverableDemographicsError(error(c))
        /\ outcome.analyticsStatus =
             IF error("analytics") # Fetch!NoError
             THEN "warning" ELSE "success"
        /\ outcome.demographicsStatus =
             IF Fails(Fetch!Demographics) # {} THEN "warning" ELSE "success"
        /\ outcome.missing =
             Fails({"analytics"}) \cup Fails(Fetch!Demographics)
               \cup (IF found.videos THEN Fails(Fetch!Comments) ELSE {})

\* What a fetch of the API that is stored tells of its calls.
LEMMA StoredOutcome ==
    ASSUME NEW grant, NEW found \in Fetch!Findings, NEW answers,
           NEW outcome \in Fetch!ApiFetch(grant, found, answers),
           outcome.stored
    PROVE  Stored(grant, found, answers, outcome)
<1> DEFINE error(c) == ErrorOf(grant, answers[c])
           Fails(cs) == {c \in cs : error(c) # Fetch!NoError}
           listing == Fetch!Listing(grant, found, answers)
           demo == Fetch!fetchAudienceDemographics(grant, answers)
<1>1. /\ listing = {Fetch!NoError}
      /\ error("analytics").type \in {"none", "InsufficientPermissions"}
      /\ demo.error = Fetch!NoError
      /\ outcome =
           [stored |-> TRUE, error |-> Fetch!NoError,
            analyticsStatus |-> IF error("analytics") # Fetch!NoError
                                THEN "warning" ELSE "success",
            demographicsStatus |-> IF demo.failed # {}
                                   THEN "warning" ELSE "success",
            missing |-> {c \in Fetch!Comments :
                            found.videos /\ error(c) # Fetch!NoError}
                          \cup {c \in {"analytics"} :
                                  error("analytics") # Fetch!NoError}
                          \cup demo.failed]
  BY DEF Fetch!ApiFetch, Fetch!Refused, ErrorOf
<1>2. /\ demo.failed = Fails(Fetch!Demographics)
      /\ \A c \in Fetch!Demographics :
           \/ error(c) = Fetch!NoError
           \/ Fetch!isRecoverableDemographicsError(error(c))
  BY <1>1 DEF Fetch!fetchAudienceDemographics, Fetch!Demographics, ErrorOf
<1>3. /\ error("channel") = Fetch!NoError /\ found.channel = "named"
      /\ error("search") = Fetch!NoError
      /\ found.videos =>
           /\ error("videos") = Fetch!NoError
           /\ \A c \in Fetch!Comments :
                \/ error(c) = Fetch!NoError
                \/ Fetch!isGoogleCommentsDisabledError(error(c))
  BY <1>1 DEF Fetch!Listing, Fetch!Findings, ErrorOf, Fetch!NoError, Fetch!Err
<1> HIDE DEF error, demo, listing
<1>4. outcome.missing =
        Fails({"analytics"}) \cup Fails(Fetch!Demographics)
          \cup (IF found.videos THEN Fails(Fetch!Comments) ELSE {})
  BY <1>1, <1>2
<1> QED
  BY <1>1, <1>2, <1>3, <1>4 DEF error, Stored

(* What the worker lacks of what it may do without, and whether it stores. *)
LEMMA WorkerOutcome ==
    ASSUME NEW grant, NEW found, NEW answers
    PROVE  LET w == Fetch!WorkerFetch(grant, found, answers)
               Call(c) == Fetch!WorkerCall(grant, answers[c])
               needed == {"channel", "search", "analytics"}
                           \cup (IF found.videos THEN {"videos"} ELSE {})
           IN  /\ w.stored <=> /\ grant.linked /\ found.channel = "named"
                               /\ \A c \in needed : Call(c) = "ok"
               /\ w.stored => w.missing =
                     {c \in Fetch!Demographics
                              \cup (IF found.videos
                                    THEN Fetch!Comments ELSE {}) :
                        Call(c) # "ok"}
<1>1. ASSUME NEW b \in BOOLEAN, NEW missing, NEW retried
      PROVE  /\ [stored |-> b, missing |-> missing,
                 retried |-> retried].stored = b
             /\ [stored |-> b, missing |-> missing,
                 retried |-> retried].missing = missing
  OBVIOUS
<1> QED
  BY <1>1 DEF Fetch!WorkerFetch, Fetch!Needed

\* So a call it needs went well, and one it can do without is reported.
LEMMA StoredFetch ==
    ASSUME NEW grant \in Fetch!Grants, NEW found \in Fetch!Findings,
           NEW answers \in Fetch!Answers,
           NEW outcome \in Fetch!ApiFetch(grant, found, answers),
           outcome.stored
    PROVE  /\ \A c \in {"channel", "search"} : Final(answers[c]) = "ok"
           /\ Final(answers["analytics"]) # "ok" =>
                outcome.analyticsStatus = "warning"
           /\ (\E c \in Fetch!Demographics : Final(answers[c]) # "ok") =>
                outcome.demographicsStatus = "warning"
           /\ found.videos => \A c \in Fetch!Comments :
                Final(answers[c]) \in {"ok", "commentsDisabled"}
           /\ LET w == Fetch!WorkerFetch(grant, found, answers)
              IN  IF "analytics" \in outcome.missing THEN ~w.stored
                  ELSE w.stored /\ w.missing = outcome.missing
<1> DEFINE error(c) == ErrorOf(grant, answers[c])
           Fails(cs) == {c \in cs : error(c) # Fetch!NoError}
<1>1. \A c \in Fetch!Calls :
         /\ error(c) = Fetch!NoError =>
              Usable(grant) /\ Final(answers[c]) = "ok"
         /\ Fetch!isGoogleCommentsDisabledError(error(c)) =>
              Final(answers[c]) = "commentsDisabled"
         /\ Usable(grant) /\ error(c).type # "InvalidToken" =>
              (Fetch!WorkerCall(grant, answers[c]) = "ok"
                 <=> error(c) = Fetch!NoError)
  BY CallErrors DEF Fetch!Answers
<1>2. /\ error("channel") = Fetch!NoError /\ found.channel = "named"
      /\ error("search") = Fetch!NoError
      /\ found.videos =>
           /\ error("videos") = Fetch!NoError
           /\ \A c \in Fetch!Comments :
                \/ error(c) = Fetch!NoError
                \/ Fetch!isGoogleCommentsDisabledError(error(c))
      /\ error("analytics").type \in {"none", "InsufficientPermissions"}
      /\ \A c \in Fetch!Demographics :
           \/ error(c) = Fetch!NoError
           \/ Fetch!isRecoverableDemographicsError(error(c))
      /\ outcome.analyticsStatus =
           IF error("analytics") # Fetch!NoError THEN "warning" ELSE "success"
      /\ outcome.demographicsStatus =
           IF Fails(Fetch!Demographics) # {} THEN "warning" ELSE "success"
      /\ outcome.missing =
           Fails({"analytics"}) \cup Fails(Fetch!Demographics)
             \cup (IF found.videos THEN Fails(Fetch!Comments) ELSE {})
  <2>1. Stored(grant, found, answers, outcome)
    BY StoredOutcome
  <2> QED
    BY <2>1 DEF Stored
<1>3. /\ Fetch!Demographics \cup Fetch!Comments
           \cup {"channel", "search", "videos", "analytics"} = Fetch!Calls
      /\ "analytics" \notin Fetch!Demographics \cup Fetch!Comments
  BY DEF Fetch!Demographics, Fetch!Comments, Fetch!Calls
<1>4. Usable(grant) /\ grant.linked
  BY <1>1, <1>2, <1>3 DEF Usable
<1>5. \A e : e = Fetch!NoError \/ Fetch!isGoogleCommentsDisabledError(e)
               \/ Fetch!isRecoverableDemographicsError(e)
               \/ e.type \in {"none", "InsufficientPermissions"}
               => e.type # "InvalidToken"
  BY DEF Fetch!NoError, Fetch!Err, Fetch!isGoogleCommentsDisabledError,
         Fetch!isRecoverableDemographicsError
<1> HIDE DEF error
<1>6. \A c \in {"channel", "search", "analytics"} \cup Fetch!Demographics
             \cup (IF found.videos THEN {"videos"} \cup Fetch!Comments
                  ELSE {}) :
         Fetch!WorkerCall(grant, answers[c]) = "ok"
           <=> error(c) = Fetch!NoError
  BY <1>1, <1>2, <1>3, <1>4, <1>5
<1>7. "analytics" \in outcome.missing <=> error("analytics") # Fetch!NoError
  BY <1>2, <1>3
<1> DEFINE w == Fetch!WorkerFetch(grant, found, answers)
<1>8. w.stored <=> error("analytics") = Fetch!NoError
  BY <1>2, <1>4, <1>6, WorkerOutcome
<1>9. error("analytics") = Fetch!NoError => w.missing = outcome.missing
  <2> SUFFICES ASSUME error("analytics") = Fetch!NoError
               PROVE  w.missing = outcome.missing
    OBVIOUS
  <2>1. w.missing = {c \in Fetch!Demographics
                            \cup (IF found.videos
                                  THEN Fetch!Comments ELSE {}) :
                      Fetch!WorkerCall(grant, answers[c]) # "ok"}
    BY <1>8, WorkerOutcome
  <2> HIDE DEF w
  <2> QED
    BY <1>2, <1>6, <2>1
<1> HIDE DEF w
<1>10. /\ \A c \in {"channel", "search"} : Final(answers[c]) = "ok"
       /\ Final(answers["analytics"]) # "ok" =>
            outcome.analyticsStatus = "warning"
       /\ (\E c \in Fetch!Demographics : Final(answers[c]) # "ok") =>
            outcome.demographicsStatus = "warning"
       /\ found.videos => \A c \in Fetch!Comments :
            Final(answers[c]) \in {"ok", "commentsDisabled"}
  BY <1>1, <1>2, <1>3
<1> QED
  BY <1>7, <1>8, <1>9, <1>10 DEF w

(* Whatever Google answers, the API says what is missing of what it        *)
(* stores, and the worker stores the same, but for the analytics that are  *)
(* forbidden (getYoutubeMetrics of socials.service.ts, syncUser).          *)
THEOREM FetchesAlwaysAgree == Spec => []FetchesAgree
<1>1. CaseGiven /\ ResultOfCase => FetchesAgree
  <2> SUFFICES ASSUME CaseGiven, ResultOfCase, Evaluated("fetch"),
                      result.api.stored
               PROVE  FetchesAgree
    BY DEF FetchesAgree, ApiTellsWhatIsMissing, WorkerKeepsUp
  <2>1. /\ case.grant \in Fetch!Grants /\ case.found \in Fetch!Findings
        /\ case.answers \in Fetch!Answers
    BY CasesAssumption DEF CaseGiven, Evaluated
  <2>2. /\ result.api
             \in Fetch!ApiFetch(case.grant, case.found, case.answers)
        /\ result.worker
             = Fetch!WorkerFetch(case.grant, case.found, case.answers)
    BY DEF ResultOfCase, Makes, Evaluated
  <2>3. ApiTellsWhatIsMissing
    BY <2>1, <2>2, StoredFetch DEF ApiTellsWhatIsMissing, Refuses
  <2>4. WorkerKeepsUp
    BY <2>1, <2>2, StoredFetch DEF WorkerKeepsUp
  <2> QED
    BY <2>3, <2>4 DEF FetchesAgree
<1> QED
  BY <1>1, CasesInvariant, PTL

-----------------------------------------------------------------------------
(* The entries of the cache.                                               *)

(* The entries of the three operations differ, and each tells all that the *)
(* answer depends on.                                                      *)
LEMMA DiscoverKeys ==
    ASSUME NEW p, NEW q,
           Discovery!IsParams(p), Discovery!IsParams(q),
           Discovery!discoverKey(p) = Discovery!discoverKey(q)
    PROVE  Discovery!normalizeSearchParams(p)
             = Discovery!normalizeSearchParams(q)
<1> DEFINE n(x) == Discovery!normalizeSearchParams(x)
           text(x) == Discovery!normalizeOptionalText(x)
<1>1. ASSUME NEW x, Discovery!IsParams(x)
      PROVE  n(x) = [query |-> text(x.query), bioQuery |-> text(x.bioQuery),
                     platform |-> x.platform, min |-> x.min, max |-> x.max,
                     limit |-> x.limit, offset |-> x.offset]
  <2>1. n(x) = [[x EXCEPT !.query = text(x.query)]
                   EXCEPT !.bioQuery = text(x.bioQuery)]
    BY DEF Discovery!normalizeSearchParams
  <2> HIDE DEF n, text
  <2> QED
    BY <1>1, <2>1 DEF Discovery!IsParams
<1>2. \A x : Discovery!discoverKey(x) =
               <<"discover", n(x).query, n(x).bioQuery, n(x).platform,
                 n(x).min, n(x).max, n(x).limit, n(x).offset>>
  BY DEF Discovery!discoverKey
<1> HIDE DEF n, text
<1>3. /\ n(p).query = n(q).query /\ n(p).bioQuery = n(q).bioQuery
      /\ n(p).platform = n(q).platform /\ n(p).min = n(q).min
      /\ n(p).max = n(q).max /\ n(p).limit = n(q).limit
      /\ n(p).offset = n(q).offset
  BY <1>2
<1>4. n(p) = n(q)
  BY <1>1, <1>3
<1> QED
  BY <1>4 DEF n

\* A key of a discovery has 8 parts, that of a search one more.
LEMMA KeyLengths ==
    ASSUME NEW p
    PROVE  /\ Discovery!discoverKey(p)
                \in Seq({"search"}
                           \cup {Discovery!discoverKey(p)[i] : i \in 1..8})
           /\ Len(Discovery!discoverKey(p)) = 8
           /\ Len(Discovery!searchKey(p)) = 9
  BY DEF Discovery!discoverKey, Discovery!searchKey

\* Searches that share a key share the rest of it, a discovery's key.
LEMMA SearchKeys ==
    ASSUME NEW p, NEW q,
           Discovery!searchKey(p) = Discovery!searchKey(q)
    PROVE  Discovery!discoverKey(p) = Discovery!discoverKey(q)
<1> DEFINE s == Discovery!discoverKey(p)
           t == Discovery!discoverKey(q)
           Elements == {"search"} \cup {s[i] : i \in 1..8}
                         \cup {t[i] : i \in 1..8}
<1>1. <<"search">> \o s = <<"search">> \o t
  BY DEF Discovery!searchKey
<1>2. s \in Seq(Elements) /\ t \in Seq(Elements)
  <2>1. /\ s \in Seq({"search"} \cup {s[i] : i \in 1..8})
        /\ t \in Seq({"search"} \cup {t[i] : i \in 1..8})
    BY KeyLengths
  <2> HIDE DEF s, t
  <2> QED
    BY <2>1, SeqMonotonic
<1> HIDE DEF s, t
<1>3. "search" \in Elements
  OBVIOUS
<1> HIDE DEF Elements
<1>4. <<"search">> \in Seq(Elements)
  BY <1>3
<1>5. Len(s) = 8 /\ Len(t) = 8
  BY KeyLengths DEF s, t
<1> DEFINE h == <<"search">>
<1>6. h \in Seq(Elements) /\ Len(h) = 1
  BY <1>4
<1> HIDE DEF h
<1>7. ASSUME NEW i \in 1..8, NEW u \in Seq(Elements), Len(u) = 8
      PROVE  (h \o u)[i + 1] = u[i]
  <2>1. \A j \in 1..9 : (h \o u)[j] = IF j <= 1 THEN h[j] ELSE u[j - 1]
    <3>1. Len(h) + Len(u) = 9
      BY <1>6, <1>7
    <3>2. \A j \in 1..Len(h) + Len(u) :
            (h \o u)[j] = IF j <= Len(h) THEN h[j] ELSE u[j - Len(h)]
      BY <1>6, <1>7, ConcatProperties
    <3> QED
      BY <1>6, <3>1, <3>2
  <2>2. i + 1 \in 1..9 /\ ~(i + 1 <= 1) /\ (i + 1) - 1 = i
    OBVIOUS
  <2> QED
    BY <2>1, <2>2
<1>8. h \o s = h \o t
  BY <1>1 DEF h
<1>9. s = t
  <2>1. \A i \in 1..8 : (h \o s)[i + 1] = s[i] /\ (h \o t)[i + 1] = t[i]
    BY <1>2, <1>5, <1>7
  <2>2. \A i \in 1..8 : s[i] = t[i]
    BY <1>8, <2>1
  <2> QED
    BY <1>2, <1>5, <2>2, SeqEqual
<1> QED
  BY <1>9 DEF s, t

\* Comparisons that share a key have the same answers.
LEMMA CompareKeys ==
    ASSUME NEW users, NEW r, NEW q,
           Discovery!compareKey(r.ids, r.query, r.limit)
             = Discovery!compareKey(q.ids, q.query, q.limit)
    PROVE  Discovery!compareCreators(users, r.ids, r.query, r.limit)
             = Discovery!compareCreators(users, q.ids, q.query, q.limit)
<1>1. /\ r.ids = q.ids /\ r.limit = q.limit
      /\ Discovery!normalizeOptionalText(r.query)
           = Discovery!normalizeOptionalText(q.query)
  BY DEF Discovery!compareKey
<1> QED
  BY <1>1 DEF Discovery!compareCreators

\* A key of a comparison has 4 parts.
LEMMA CompareLength ==
    ASSUME NEW ids, NEW query, NEW limit
    PROVE  Len(Discovery!compareKey(ids, query, limit)) = 4
  BY DEF Discovery!compareKey

\* Requests that share a key share the answers, whatever each one asks.
LEMMA KeysTell ==
    ASSUME NEW users, NEW one, NEW two, IsRequest(one), IsRequest(two),
           Ask(users, one).key = Ask(users, two).key
    PROVE  Ask(users, one).answers = Ask(users, two).answers
<1>1. \A r : IsRequest(r) =>
          \/ /\ r.op = "discover" /\ Discovery!IsParams(r.params)
             /\ Ask(users, r).key = Discovery!discoverKey(r.params)
             /\ Ask(users, r).answers
                  = Discovery!discoverCreators(users, r.params)
          \/ /\ r.op = "search" /\ Discovery!IsParams(r.params)
             /\ Ask(users, r).key = Discovery!searchKey(r.params)
             /\ Ask(users, r).answers
                  = Discovery!discoverCreators(users, r.params)
          \/ /\ r.op = "compare"
             /\ Ask(users, r).key
                  = Discovery!compareKey(r.ids, r.query, r.limit)
             /\ Ask(users, r).answers
                  = Discovery!compareCreators(users, r.ids, r.query, r.limit)
  BY DEF IsRequest, Ask
<1>2. /\ one.op \in {"discover", "search", "compare"}
      /\ two.op \in {"discover", "search", "compare"}
  BY DEF IsRequest
<1>3. one.op = two.op
  <2>1. ASSUME NEW r, IsRequest(r)
        PROVE  Len(Ask(users, r).key) = CASE r.op = "discover" -> 8
                                          [] r.op = "search"   -> 9
                                          [] r.op = "compare"  -> 4
    <3>1. CASE r.op = "compare"
      BY <1>1, <2>1, <3>1, CompareLength
    <3>2. CASE r.op # "compare"
      BY <1>1, <2>1, <3>2, KeyLengths
    <3> QED
      BY <3>1, <3>2
  <2> QED
    BY <1>2, <2>1
<1>4. ASSUME NEW p, NEW q, Discovery!IsParams(p), Discovery!IsParams(q),
             Discovery!discoverKey(p) = Discovery!discoverKey(q)
      PROVE  Discovery!discoverCreators(users, p)
               = Discovery!discoverCreators(users, q)
  BY <1>4, DiscoverKeys DEF Discovery!discoverCreators
<1>5. CASE one.op = "compare"
  <2>1. Ask(users, one).key
          = Discovery!compareKey(one.ids, one.query, one.limit)
    BY <1>1, <1>5
  <2>2. Ask(users, two).key
          = Discovery!compareKey(two.ids, two.query, two.limit)
    BY <1>1, <1>3, <1>5
  <2>3. Discovery!compareCreators(users, one.ids, one.query, one.limit)
          = Discovery!compareCreators(users, two.ids, two.query, two.limit)
    BY <2>1, <2>2, CompareKeys
  <2> QED
    BY <1>1, <1>3, <1>5, <2>3
<1>6. CASE one.op # "compare"
  <2>1. Discovery!IsParams(one.params) /\ Discovery!IsParams(two.params)
    BY <1>3, <1>6 DEF IsRequest
  <2>2. Discovery!discoverKey(one.params) = Discovery!discoverKey(two.params)
    <3>1. CASE one.op = "discover"
      BY <1>1, <1>3, <3>1
    <3>2. CASE one.op = "search"
      <4>1. Discovery!searchKey(one.params) = Discovery!searchKey(two.params)
        BY <1>1, <1>3, <3>2
      <4> QED
        BY <4>1, SearchKeys
    <3> QED
      BY <1>2, <1>6, <3>1, <3>2
  <2>3. Discovery!discoverCreators(users, one.params)
          = Discovery!discoverCreators(users, two.params)
    BY <1>4, <2>1, <2>2
  <2> QED
    BY <1>1, <1>3, <1>6, <2>3
<1> QED
  BY <1>5, <1>6

(* However the cache is keyed by discoverCreators, searchCreators and      *)
(* compareCreators: two requests that share an entry have one answer.      *)
THEOREM KeysTellApart == Spec => []KeysTellRequestsApart
<1>1. CaseGiven /\ ResultOfCase => KeysTellRequestsApart
  <2> SUFFICES ASSUME CaseGiven, ResultOfCase, Evaluated("keys"),
                      result.one.key = result.two.key
               PROVE  result.one.answers = result.two.answers
    BY DEF KeysTellRequestsApart
  <2>1. IsRequest(case.one) /\ IsRequest(case.two)
    BY CasesAssumption DEF CaseGiven, Evaluated
  <2>2. /\ result.one = Ask(case.users, case.one)
        /\ result.two = Ask(case.users, case.two)
    BY DEF ResultOfCase, Makes, Evaluated
  <2> QED
    BY <2>1, <2>2, KeysTell
<1> QED
  BY <1>1, CasesInvariant, PTL

-----------------------------------------------------------------------------
(* Writes with ON CONFLICT.                                                *)

(* The one index a conflict may be over, which the update does not touch.  *)
OneIndex(stmt) ==
    /\ stmt.table # "oauthAccounts"
    /\ Db!Schema[stmt.table].keys = {stmt.target}
    /\ \A c \in stmt.target : c \notin stmt.set

\* All statements but one can collide with one index only, their target.
LEMMA StatementFacts ==
    ASSUME NEW stmt \in Db!Upserts
    PROVE  \/ OneIndex(stmt)
           \/ stmt = Db!upsertOauthAccountByUserProviderPurpose
<1> USE DEF Db!OnConflict, OneIndex, Db!Schema, Db!Tbl
<1>1. OneIndex(Db!upsertProfile)
  BY DEF Db!upsertProfile, Db!userProfiles
<1>2. OneIndex(Db!upsertMlScores)
  BY DEF Db!upsertMlScores, Db!youtubeMlScores
<1>3. OneIndex(Db!upsertChannel)
  BY DEF Db!upsertChannel, Db!youtubeChannels
<1>4. OneIndex(Db!upsertVideos)
  BY DEF Db!upsertVideos, Db!youtubeVideos
<1>5. OneIndex(Db!upsertDailyAnalytics)
  BY DEF Db!upsertDailyAnalytics, Db!youtubeDailyAnalytics
<1>6. /\ OneIndex(Db!upsertVideoComments)
      /\ OneIndex(Db!workerUpsertVideoComments)
  BY DEF Db!upsertVideoComments, Db!workerUpsertVideoComments,
         Db!youtubeVideoComments
<1>7. OneIndex(Db!upsertAudienceDemographics)
  BY DEF Db!upsertAudienceDemographics, Db!youtubeAudienceDemographics
<1>8. /\ OneIndex(Db!upsertContentItems)
      /\ OneIndex(Db!workerUpsertContentItems)
  BY DEF Db!upsertContentItems, Db!workerUpsertContentItems, Db!contentItems
<1>9. OneIndex(Db!addCreatorToCampaign)
  BY DEF Db!addCreatorToCampaign, Db!smeCampaignCreators
<1>10. OneIndex(Db!scoutCreator)
  BY DEF Db!scoutCreator, Db!smeScoutedCreators
<1> HIDE DEF Db!OnConflict, OneIndex, Db!Schema, Db!Tbl
<1> QED
  BY <1>1, <1>2, <1>3, <1>4, <1>5, <1>6, <1>7, <1>8, <1>9, <1>10
  DEF Db!Upserts

(* The accounts of Google have a second index, over an identity.           *)
LEMMA IdentityFacts ==
    LET stmt == Db!upsertOauthAccountByUserProviderPurpose
    IN  /\ stmt.table = "oauthAccounts"
        /\ stmt.target = {"userId", "provider", "purpose"}
        /\ stmt.set = {"providerUserId", "payload"}
        /\ Db!Schema[stmt.table].keys =
             {stmt.target, {"provider", "providerUserId", "purpose"}}
  BY DEF Db!upsertOauthAccountByUserProviderPurpose, Db!OnConflict,
     Db!Schema, Db!Tbl, Db!oauthAccounts

\* A statement looks a row up by a key of the table and does not set it.
LEMMA TargetKept ==
    ASSUME NEW stmt \in Db!Upserts
    PROVE  /\ stmt.target \in Db!Schema[stmt.table].keys
           /\ \A c \in stmt.target : c \notin stmt.set
<1>1. CASE OneIndex(stmt)
  BY <1>1 DEF OneIndex
<1>2. CASE stmt = Db!upsertOauthAccountByUserProviderPurpose
  <2> DEFINE s == Db!upsertOauthAccountByUserProviderPurpose
  <2>1. /\ s.target \in Db!Schema[s.table].keys
        /\ \A c \in s.target : c \notin s.set
    <3> HIDE DEF s
    <3> QED
      BY IdentityFacts DEF s
  <2> QED
    BY <1>2, <2>1
<1> QED
  BY <1>1, <1>2, StatementFacts

(* What an update keeps and sets, on the rows of a table.                  *)
LEMMA UpdatedRow ==
    ASSUME NEW stmt \in Db!Upserts, NEW old, NEW row,
           Db!IsRow(stmt.table, old), Db!IsRow(stmt.table, row)
    PROVE  LET new == Db!Updated(stmt, old, row)
           IN  /\ Db!IsRow(stmt.table, new)
               /\ Db!Updated(stmt, new, row) = new
               /\ Db!Updated(stmt, row, row) = row
               /\ \A c \in Db!Columns(stmt.table) :
                    new[c] = IF c \in stmt.set THEN row[c] ELSE old[c]
               /\ \A c \in stmt.target : new[c] = old[c]
<1>1. /\ DOMAIN old = Db!Columns(stmt.table)
      /\ DOMAIN row = Db!Columns(stmt.table)
  BY DEF Db!IsRow
<1>2. \A c \in stmt.target : c \in Db!Columns(stmt.table) /\ c \notin stmt.set
  BY TargetKept DEF Db!Columns
<1> QED
  BY <1>1, <1>2 DEF Db!Updated, Db!IsRow

(* A row that is added or updated is the one a repetition hits.            *)
LEMMA InsertedAgain ==
    ASSUME NEW stmt, NEW rows, NEW row, Db!IsWrite(stmt, rows, row),
           Db!Hit(stmt, rows, row) = {},
           ~Db!Clashes(stmt.table, rows, DOMAIN rows, row)
    PROVE  Db!Upsert(stmt, Append(rows, row), row)
             = Db!Outcome(FALSE, Append(rows, row))
<1> DEFINE n == Len(rows)
           S == {rows[i] : i \in DOMAIN rows} \cup {row}
           more == Append(rows, row)
<1>1. /\ stmt \in Db!Upserts /\ Db!IsRow(stmt.table, row)
      /\ \A c \in stmt.target : row[c] # Null
      /\ rows \in Seq({rows[i] : i \in DOMAIN rows})
  BY DEF Db!IsWrite, Db!IsTable
<1>2. rows \in Seq(S) /\ n \in Nat /\ DOMAIN rows = 1..n
  BY <1>1, SeqMonotonic, LenProperties
<1>3. /\ more \in Seq(S) /\ DOMAIN more = 1..n + 1 /\ more[n + 1] = row
      /\ \A i \in 1..n : more[i] = rows[i]
  BY <1>2
<1> HIDE DEF more, n
<1>4. Db!Hit(stmt, more, row) = {n + 1}
  <2>1. n + 1 \in Db!Hit(stmt, more, row)
    BY <1>1, <1>2, <1>3 DEF Db!Hit, Db!SameKey
  <2>2. \A i \in 1..n : i \notin Db!Hit(stmt, more, row)
    BY <1>2, <1>3 DEF Db!Hit
  <2>3. Db!Hit(stmt, more, row) \subseteq 1..n + 1
    BY <1>3 DEF Db!Hit
  <2> QED
    BY <1>2, <2>1, <2>2, <2>3
<1>5. Db!Upsert(stmt, more, row) = Db!UpdateAt(stmt, more, n + 1, row)
  BY <1>1, <1>4, TargetKept DEF Db!Upsert
<1>6. Db!Updated(stmt, more[n + 1], row) = row
  BY <1>1, <1>3, UpdatedRow
<1>7. ~Db!Clashes(stmt.table, more, DOMAIN more \ {n + 1}, row)
  BY <1>2, <1>3 DEF Db!Clashes
<1>8. [more EXCEPT ![n + 1] = row] = more
  BY <1>2, <1>3, LenProperties
<1>9. Db!UpdateAt(stmt, more, n + 1, row) = Db!Outcome(FALSE, more)
  BY <1>6, <1>7, <1>8 DEF Db!UpdateAt
<1> QED
  BY <1>5, <1>9 DEF more

(* The row that is updated, what becomes of it, and of the table.          *)
Place(stmt, rows, row)   == CHOOSE i \in Db!Hit(stmt, rows, row) : TRUE
NewRow(stmt, rows, row)  ==
    Db!Updated(stmt, rows[Place(stmt, rows, row)], row)
NewRows(stmt, rows, row) ==
    [rows EXCEPT ![Place(stmt, rows, row)] = NewRow(stmt, rows, row)]
Barred(stmt, rows, row)  ==
    Db!Clashes(stmt.table, rows, DOMAIN rows \ {Place(stmt, rows, row)},
               NewRow(stmt, rows, row))

\* A row that was updated is found and updated again alike.
LEMMA UpdatedAgain ==
    ASSUME NEW stmt, NEW rows, NEW row, Db!IsWrite(stmt, rows, row),
           Db!Hit(stmt, rows, row) # {}, ~Barred(stmt, rows, row)
    PROVE  Db!Upsert(stmt, NewRows(stmt, rows, row), row)
             = Db!Outcome(FALSE, NewRows(stmt, rows, row))
<1> DEFINE i    == Place(stmt, rows, row)
           new  == NewRow(stmt, rows, row)
           next == NewRows(stmt, rows, row)
<1>1. /\ stmt \in Db!Upserts /\ Db!IsRow(stmt.table, row)
      /\ i \in DOMAIN rows /\ Db!IsRow(stmt.table, rows[i])
  BY DEF Db!IsWrite, Db!IsTable, Db!Hit, Place
<1>2. /\ \A c \in stmt.target : new[c] = rows[i][c]
      /\ Db!Updated(stmt, new, row) = new
  <2> DEFINE old == rows[i]
  <2>1. Db!IsRow(stmt.table, old)
    BY <1>1
  <2> HIDE DEF old
  <2>2. /\ \A c \in stmt.target : Db!Updated(stmt, old, row)[c] = old[c]
        /\ Db!Updated(stmt, Db!Updated(stmt, old, row), row)
             = Db!Updated(stmt, old, row)
    BY <1>1, <2>1, UpdatedRow
  <2> QED
    BY <2>2 DEF old, NewRow
<1>3. /\ ~Db!Clashes(stmt.table, rows, DOMAIN rows \ {i}, new)
      /\ next = [rows EXCEPT ![i] = new]
  BY DEF Barred, NewRows
<1> HIDE DEF i, new, next
<1>4. /\ DOMAIN next = DOMAIN rows /\ next[i] = new
      /\ \A j \in DOMAIN rows \ {i} : next[j] = rows[j]
      /\ [next EXCEPT ![i] = new] = next
  <2>1. rows = [j \in DOMAIN rows |-> rows[j]]
    BY LenProperties DEF Db!IsWrite, Db!IsTable
  <2> QED
    BY <1>1, <1>3, <2>1
<1>5. Db!Hit(stmt, next, row) = Db!Hit(stmt, rows, row)
  <2>1. \A j \in DOMAIN rows : \A c \in stmt.target : next[j][c] = rows[j][c]
    BY <1>2, <1>4
  <2>2. \A j \in DOMAIN rows : Db!SameKey(stmt.target, next[j], row)
                                <=> Db!SameKey(stmt.target, rows[j], row)
    BY <2>1 DEF Db!SameKey
  <2> QED
    BY <1>4, <2>2 DEF Db!Hit
<1>6. Db!Upsert(stmt, next, row) = Db!UpdateAt(stmt, next, i, row)
  BY <1>1, <1>5, TargetKept DEF Db!Upsert, Place, i
<1>7. ~Db!Clashes(stmt.table, next, DOMAIN next \ {i}, new)
  BY <1>3, <1>4 DEF Db!Clashes
<1>8. Db!UpdateAt(stmt, next, i, row) = Db!Outcome(FALSE, next)
  BY <1>2, <1>4, <1>7 DEF Db!UpdateAt
<1> QED
  BY <1>6, <1>8 DEF next

(* What becomes of a write.                                                *)
LEMMA UpsertCases ==
    ASSUME NEW stmt, NEW rows, NEW row, Db!IsWrite(stmt, rows, row)
    PROVE  Db!Upsert(stmt, rows, row) =
             IF Db!Hit(stmt, rows, row) = {}
             THEN IF Db!Clashes(stmt.table, rows, DOMAIN rows, row)
                  THEN Db!Outcome(TRUE, rows)
                  ELSE Db!Outcome(FALSE, Append(rows, row))
             ELSE IF Barred(stmt, rows, row) THEN Db!Outcome(TRUE, rows)
                  ELSE Db!Outcome(FALSE, NewRows(stmt, rows, row))
  BY TargetKept DEF Db!IsWrite, Db!Upsert, Db!Insert, Db!UpdateAt,
     Barred, NewRows, NewRow, Place

\* So a statement that is run twice leaves what one run leaves.
LEMMA Retried ==
    ASSUME NEW stmt, NEW rows, NEW row, Db!IsWrite(stmt, rows, row)
    PROVE  LET once == Db!Upsert(stmt, rows, row)
           IN  Db!Upsert(stmt, once.rows, row) = once
<1> DEFINE once == Db!Upsert(stmt, rows, row)
<1>1. \A more : /\ Db!Outcome(FALSE, more).rows = more
                /\ Db!Outcome(TRUE, more).rows = more
  BY DEF Db!Outcome
<1> SUFFICES Db!Upsert(stmt, once.rows, row) = once
  OBVIOUS
<1> HIDE DEF once
<1>2. CASE once = Db!Outcome(TRUE, rows)
  BY <1>1, <1>2 DEF once
<1>3. CASE /\ Db!Hit(stmt, rows, row) = {}
           /\ ~Db!Clashes(stmt.table, rows, DOMAIN rows, row)
  <2>1. once = Db!Outcome(FALSE, Append(rows, row))
    BY <1>3, UpsertCases DEF once
  <2> QED
    BY <1>1, <1>3, <2>1, InsertedAgain
<1>4. CASE Db!Hit(stmt, rows, row) # {} /\ ~Barred(stmt, rows, row)
  <2>1. once = Db!Outcome(FALSE, NewRows(stmt, rows, row))
    BY <1>4, UpsertCases DEF once
  <2> QED
    BY <1>1, <1>4, <2>1, UpdatedAgain
<1> QED
  BY <1>2, <1>3, <1>4, UpsertCases DEF once

(* Two rows of a table that share a key are one row.                       *)
LEMMA KeysAreKeys ==
    ASSUME NEW t, NEW rows, Db!IsTable(t, rows),
           NEW i \in DOMAIN rows, NEW j \in DOMAIN rows,
           NEW key \in Db!Schema[t].keys, Db!SameKey(key, rows[j], rows[i])
    PROVE  i = j
  BY DEF Db!IsTable, Db!Clashes

(* An upsert that fails does so over an identity of somebody else.         *)
SomebodyElses(rows, row) ==
    \E i \in DOMAIN rows : /\ rows[i].providerUserId = row.providerUserId
                            /\ rows[i].userId # row.userId

\* An insert is barred only by a row it would collide with.
LEMMA InsertFails ==
    ASSUME NEW stmt, NEW rows, NEW row, Db!IsWrite(stmt, rows, row),
           Db!Hit(stmt, rows, row) = {},
           Db!Clashes(stmt.table, rows, DOMAIN rows, row)
    PROVE  stmt.table = "oauthAccounts" /\ SomebodyElses(rows, row)
<1>1. PICK i \in DOMAIN rows, key \in Db!Schema[stmt.table].keys :
         Db!SameKey(key, rows[i], row)
  BY DEF Db!Clashes
<1>2. ~Db!SameKey(stmt.target, rows[i], row)
  BY DEF Db!Hit
<1>3. stmt = Db!upsertOauthAccountByUserProviderPurpose
  BY <1>1, <1>2, StatementFacts DEF Db!IsWrite, OneIndex
<1>4. /\ stmt.table = "oauthAccounts"
      /\ stmt.target = {"userId", "provider", "purpose"}
      /\ key = {"provider", "providerUserId", "purpose"}
  BY <1>1, <1>2, <1>3, IdentityFacts
<1>5. row.userId # Null
  BY <1>4 DEF Db!IsWrite
<1>6. /\ rows[i].providerUserId = row.providerUserId
      /\ rows[i].userId # row.userId
  BY <1>1, <1>2, <1>4, <1>5 DEF Db!SameKey
<1> QED
  BY <1>4, <1>6 DEF SomebodyElses

\* So is an update.
LEMMA UpdateFails ==
    ASSUME NEW stmt, NEW rows, NEW row, Db!IsWrite(stmt, rows, row),
           Db!Hit(stmt, rows, row) # {}, Barred(stmt, rows, row)
    PROVE  stmt.table = "oauthAccounts" /\ SomebodyElses(rows, row)
<1> DEFINE i   == Place(stmt, rows, row)
           old == rows[i]
           new == NewRow(stmt, rows, row)
<1>1. /\ stmt \in Db!Upserts /\ Db!IsRow(stmt.table, row)
      /\ i \in DOMAIN rows /\ Db!SameKey(stmt.target, old, row)
      /\ Db!IsTable(stmt.table, rows) /\ Db!IsRow(stmt.table, old)
  BY DEF Db!IsWrite, Db!IsTable, Db!Hit, Place
<1>2. PICK j \in DOMAIN rows \ {i}, key \in Db!Schema[stmt.table].keys :
         Db!SameKey(key, rows[j], new)
  BY DEF Barred, Db!Clashes
<1>3. new = Db!Updated(stmt, old, row)
  BY DEF NewRow
<1> HIDE DEF i, old, new
<1>4. /\ \A c \in stmt.target : new[c] = old[c]
      /\ \A c \in Db!Columns(stmt.table) :
           new[c] = IF c \in stmt.set THEN row[c] ELSE old[c]
  BY <1>1, <1>3, UpdatedRow
<1>5. ~Db!SameKey(stmt.target, rows[j], old)
  BY <1>1, <1>2, TargetKept, KeysAreKeys DEF old
<1>6. ~Db!SameKey(stmt.target, rows[j], new)
  BY <1>4, <1>5 DEF Db!SameKey
<1>7. stmt = Db!upsertOauthAccountByUserProviderPurpose
  BY <1>1, <1>2, <1>6, StatementFacts DEF OneIndex
<1>8. /\ stmt.table = "oauthAccounts"
      /\ stmt.target = {"userId", "provider", "purpose"}
      /\ stmt.set = {"providerUserId", "payload"}
      /\ Db!Schema[stmt.table].keys =
           {stmt.target, {"provider", "providerUserId", "purpose"}}
  BY <1>7, IdentityFacts
<1>9. key = {"provider", "providerUserId", "purpose"}
  BY <1>2, <1>6, <1>8
<1>10. new.providerUserId = row.providerUserId
  <2>1. "providerUserId" \in UNION Db!Schema[stmt.table].keys
    BY <1>8
  <2>2. "providerUserId" \in Db!Columns(stmt.table)
    BY <2>1 DEF Db!Columns
  <2> QED
    BY <1>4, <1>8, <2>2
<1>11. rows[j].providerUserId = row.providerUserId
  BY <1>2, <1>9, <1>10 DEF Db!SameKey
<1>12. rows[j].userId # row.userId
  <2>1. row.userId = old.userId /\ old.userId # Null
    BY <1>1, <1>8 DEF Db!SameKey
  <2>2. /\ rows[j].provider = old.provider /\ rows[j].provider # Null
        /\ rows[j].purpose = old.purpose /\ rows[j].purpose # Null
    BY <1>2, <1>4, <1>8, <1>9 DEF Db!SameKey
  <2> QED
    BY <1>5, <1>8, <2>1, <2>2 DEF Db!SameKey
<1> QED
  BY <1>2, <1>8, <1>11, <1>12 DEF SomebodyElses

\* The one index that can bar it is that of the Google identity.
LEMMA FailsOverIdentity ==
    ASSUME NEW stmt, NEW rows, NEW row, Db!IsWrite(stmt, rows, row),
           Db!Upsert(stmt, rows, row).error
    PROVE  stmt.table = "oauthAccounts" /\ SomebodyElses(rows, row)
<1>1. \A more : ~Db!Outcome(FALSE, more).error
  BY DEF Db!Outcome
<1>2. \/ /\ Db!Hit(stmt, rows, row) = {}
         /\ Db!Clashes(stmt.table, rows, DOMAIN rows, row)
      \/ Db!Hit(stmt, rows, row) # {} /\ Barred(stmt, rows, row)
  BY <1>1, UpsertCases
<1> QED
  BY <1>2, InsertFails, UpdateFails

(* Every statement with ON CONFLICT may be repeated, on any table without  *)
(* duplicates and for any row; it fails only over the identity of another  *)
(* user, the second unique index of oauth_accounts.                        *)
THEOREM WritesAreSafe == Spec => []UpsertsAreSafe
<1>1. CaseGiven /\ ResultOfCase => UpsertsAreSafe
  <2> SUFFICES ASSUME CaseGiven, ResultOfCase, Evaluated("write")
               PROVE  UpsertsAreSafe
    BY DEF UpsertsAreSafe, RetriesChangeNothing, OnlyIdentitiesClash
  <2>1. Db!IsWrite(case.statement, case.table, case.row)
    BY CasesAssumption DEF CaseGiven, Evaluated
  <2>2. /\ result.once = Db!Upsert(case.statement, case.table, case.row)
        /\ result.again = Db!Upsert(case.statement, result.once.rows,
                                    case.row)
    BY DEF ResultOfCase, Makes, Evaluated
  <2>3. result.again = result.once
    BY <2>1, <2>2, Retried
  <2>4. RetriesChangeNothing
    BY <2>3 DEF RetriesChangeNothing
  <2>5. OnlyIdentitiesClash
    BY <2>1, <2>2, FailsOverIdentity DEF OnlyIdentitiesClash, SomebodyElses
  <2> QED
    BY <2>4, <2>5 DEF UpsertsAreSafe
<1> QED
  BY <1>1, CasesInvariant, PTL

-----------------------------------------------------------------------------
(* Deletions.                                                              *)

Trails == {"auditLogs", "workerJobs", "users"}

(* How far a table is from users along the references that cascade.        *)
Depth ==
    [tenants |-> 0, users |-> 0, oauthAccounts |-> 1, sessions |-> 1,
     auditLogs |-> 1, workerJobs |-> 1, youtubeChannels |-> 1,
     youtubeVideos |-> 2, youtubeDailyAnalytics |-> 2,
     youtubeMlScores |-> 3, youtubeVideoComments |-> 3,
     youtubeAudienceDemographics |-> 2, userProfiles |-> 1,
     contentItems |-> 1, contentMetrics |-> 2, contentConversions |-> 2,
     smeScoutedCreators |-> 1, smeCampaigns |-> 1,
     smeCampaignCreators |-> 2]

(* A deletion cascades away from users, never to itself or to a trail.     *)
Descends(u) ==
    /\ "id" \notin DOMAIN Db!Schema[u].refs
    /\ \A c \in DOMAIN Db!Schema[u].refs : \A v :
         Db!Schema[u].refs[c] = Db!Ref(v, "cascade") =>
             /\ v \in DOMAIN Db!Schema /\ u \notin Trails
             /\ Depth[v] < Depth[u]

\* A reference tells its table and what a deletion does.
LEMMA RefsDiffer ==
    ASSUME NEW v, NEW w, NEW a, NEW b, Db!Ref(v, a) = Db!Ref(w, b)
    PROVE  v = w /\ a = b
  BY DEF Db!Ref

\* References lead to tables nearer to the tenants.
LEMMA SchemaDescends ==
    /\ DOMAIN Depth = DOMAIN Db!Schema
    /\ \A u \in DOMAIN Db!Schema : Depth[u] \in 0..3 /\ Descends(u)
<1>1. DOMAIN Depth = DOMAIN Db!Schema
  BY DEF Depth, Db!Schema
<1>2. \A u \in DOMAIN Db!Schema : Depth[u] \in 0..3
  BY DEF Depth, Db!Schema
<1> USE DEF Db!Ref, Db!Tbl, Db!NoRefs, Depth, Trails
<1>3. /\ Descends("tenants")
      /\ Descends("oauthAccounts") /\ Descends("sessions")
  BY DEF Descends, Db!Schema, Db!tenants, Db!oauthAccounts, Db!sessions
<1>4. Descends("auditLogs") /\ Descends("workerJobs") /\ Descends("users")
  <2>1. \A v, t : /\ Db!Ref(t, "set null") # Db!Ref(v, "cascade")
                  /\ Db!Ref(t, "restrict") # Db!Ref(v, "cascade")
    BY RefsDiffer
  <2> HIDE DEF Db!Ref
  <2> DEFINE audits == Db!Schema["auditLogs"].refs
             jobs   == Db!Schema["workerJobs"].refs
  <2>2. DOMAIN audits = {"userId"}
    BY DEF Db!Schema, Db!auditLogs
  <2>3. audits["userId"] = Db!Ref("users", "set null")
    BY DEF Db!Schema, Db!auditLogs
  <2>4. DOMAIN jobs = {"userId", "tenantId"}
    BY DEF Db!Schema, Db!workerJobs
  <2>5. jobs["userId"] = Db!Ref("users", "set null")
    BY DEF Db!Schema, Db!workerJobs
  <2>6. jobs["tenantId"] = Db!Ref("tenants", "set null")
    BY DEF Db!Schema, Db!workerJobs
  <2> DEFINE people == Db!Schema["users"].refs
  <2>9. DOMAIN people = {"tenantId"}
    BY DEF Db!Schema, Db!users
  <2>10. people["tenantId"] = Db!Ref("tenants", "restrict")
    BY DEF Db!Schema, Db!users
  <2> HIDE DEF audits, jobs, people, Db!Tbl
  <2>11. Descends("users")
    BY <2>1, <2>9, <2>10 DEF Descends, people
  <2>7. Descends("auditLogs")
    BY <2>1, <2>2, <2>3 DEF Descends, audits
  <2>8. Descends("workerJobs")
    BY <2>1, <2>4, <2>5, <2>6 DEF Descends, jobs
  <2> QED
    BY <2>7, <2>8, <2>11
<1>5. /\ Descends("youtubeChannels") /\ Descends("youtubeVideos")
      /\ Descends("youtubeDailyAnalytics")
      /\ Descends("youtubeAudienceDemographics")
  BY DEF Descends, Db!Schema, Db!youtubeChannels, Db!youtubeVideos,
     Db!youtubeDailyAnalytics, Db!youtubeAudienceDemographics
<1>6. /\ Descends("youtubeMlScores") /\ Descends("youtubeVideoComments")
  BY DEF Descends, Db!Schema, Db!youtubeMlScores, Db!youtubeVideoComments
<1>7. /\ Descends("userProfiles") /\ Descends("contentItems")
  BY DEF Descends, Db!Schema, Db!userProfiles, Db!contentItems
<1>8. Descends("contentMetrics") /\ Descends("contentConversions")
  BY DEF Descends, Db!Schema, Db!contentMetrics, Db!contentConversions,
     Db!ItemRefs
<1>9. /\ Descends("smeScoutedCreators") /\ Descends("smeCampaigns")
      /\ Descends("smeCampaignCreators")
  BY DEF Descends, Db!Schema, Db!smeScoutedCreators, Db!smeCampaigns,
     Db!smeCampaignCreators
<1> HIDE DEF Db!Ref, Db!Tbl, Db!NoRefs, Depth, Trails
<1>10. \A u \in DOMAIN Db!Schema :
          u \in {"tenants", "users", "oauthAccounts", "sessions",
                 "auditLogs", "workerJobs", "youtubeChannels",
                 "youtubeVideos", "youtubeDailyAnalytics",
                 "youtubeMlScores", "youtubeVideoComments",
                 "youtubeAudienceDemographics", "userProfiles",
                 "contentItems", "contentMetrics", "contentConversions",
                 "smeScoutedCreators", "smeCampaigns",
                 "smeCampaignCreators"}
  BY DEF Db!Schema
<1> QED
  BY <1>1, <1>2, <1>3, <1>4, <1>5, <1>6, <1>7, <1>8, <1>9, <1>10

(* Every relation but the parent of a worker job is a foreign key, and     *)
(* says what a deletion does.                                              *)
IsForeignKey(u, c, v) ==
    /\ u \in DOMAIN Db!Schema /\ v \in DOMAIN Db!Schema
    /\ c \in DOMAIN Db!Schema[u].refs
    /\ \E action \in {"cascade", "restrict", "set null"} :
          Db!Schema[u].refs[c] = Db!Ref(v, action)

\* A relation of the code is a reference of the schema.
LEMMA RelationsAreKeys ==
    ASSUME NEW rel \in Db!Relations
                         \ {<<"workerJobs", "parentJobId", "workerJobs">>}
    PROVE  IsForeignKey(rel[1], rel[2], rel[3])
<1> USE DEF IsForeignKey, Db!Tbl, Db!Schema
<1>1. /\ IsForeignKey("users", "tenantId", "tenants")
      /\ IsForeignKey("sessions", "userId", "users")
      /\ IsForeignKey("oauthAccounts", "userId", "users")
  BY DEF Db!users, Db!sessions, Db!oauthAccounts
<1>2. IsForeignKey("auditLogs", "userId", "users")
  BY DEF Db!auditLogs
<1>3. /\ IsForeignKey("workerJobs", "userId", "users")
      /\ IsForeignKey("workerJobs", "tenantId", "tenants")
  BY DEF Db!workerJobs
<1>4. /\ IsForeignKey("youtubeChannels", "userId", "users")
      /\ IsForeignKey("youtubeVideos", "channelId", "youtubeChannels")
      /\ IsForeignKey("youtubeDailyAnalytics", "channelId",
                      "youtubeChannels")
      /\ IsForeignKey("youtubeVideoComments", "videoId", "youtubeVideos")
      /\ IsForeignKey("youtubeAudienceDemographics", "channelId",
                      "youtubeChannels")
      /\ IsForeignKey("youtubeMlScores", "videoId", "youtubeVideos")
  BY DEF Db!youtubeChannels, Db!youtubeVideos, Db!youtubeDailyAnalytics,
     Db!youtubeVideoComments, Db!youtubeAudienceDemographics,
     Db!youtubeMlScores
<1>5. /\ IsForeignKey("userProfiles", "userId", "users")
      /\ IsForeignKey("contentItems", "userId", "users")
      /\ IsForeignKey("contentMetrics", "userId", "users")
      /\ IsForeignKey("contentMetrics", "contentItemId", "contentItems")
      /\ IsForeignKey("contentConversions", "userId", "users")
      /\ IsForeignKey("contentConversions", "contentItemId", "contentItems")
  BY DEF Db!userProfiles, Db!contentItems, Db!contentMetrics,
     Db!contentConversions, Db!ItemRefs
<1>6. /\ IsForeignKey("smeScoutedCreators", "smeUserId", "users")
      /\ IsForeignKey("smeScoutedCreators", "creatorUserId", "users")
      /\ IsForeignKey("smeCampaigns", "smeUserId", "users")
      /\ IsForeignKey("smeCampaignCreators", "campaignId", "smeCampaigns")
      /\ IsForeignKey("smeCampaignCreators", "creatorUserId", "users")
  BY DEF Db!smeScoutedCreators, Db!smeCampaigns, Db!smeCampaignCreators
<1> HIDE DEF IsForeignKey, Db!Tbl, Db!Schema
<1>7. CASE rel \in Db!AccountRelations
  BY <1>1, <1>2, <1>3, <1>7 DEF Db!AccountRelations
<1>8. CASE rel \in Db!YoutubeRelations
  BY <1>4, <1>8 DEF Db!YoutubeRelations
<1>9. CASE rel \in Db!ContentRelations
  BY <1>5, <1>9 DEF Db!ContentRelations
<1>10. CASE rel \in Db!SmeRelations
  BY <1>6, <1>10 DEF Db!SmeRelations
<1> QED
  BY <1>7, <1>8, <1>9, <1>10 DEF Db!Relations

(* A row y refers to a row x, with what a deletion of x does to y.         *)
Refers(db, y, x, action) ==
    y \in Db!Referring(db, x[1], x[2].id, action)

\* The rows that a cascade reaches in a step.
LEMMA ReferringRows ==
    ASSUME NEW db, Db!IsDatabase(db), NEW t, NEW id, NEW action,
           NEW y \in Db!Referring(db, t, id, action)
    PROVE  /\ y[1] \in DOMAIN Db!Schema /\ y[2] \in db[y[1]]
           /\ y = <<y[1], y[2]>>
           /\ action = "cascade" =>
                /\ t \in DOMAIN Db!Schema /\ y[1] \notin Trails
                /\ Depth[t] < Depth[y[1]]
<1>1. PICK u \in DOMAIN db : y \in {u} \X db[u]
  BY DEF Db!Referring
<1>2. /\ y[1] = u /\ y[2] \in db[u] /\ y = <<y[1], y[2]>>
      /\ u \in DOMAIN Db!Schema
  BY <1>1 DEF Db!IsDatabase
<1>3. \E c \in DOMAIN Db!Schema[u].refs :
         Db!Schema[u].refs[c] = Db!Ref(t, action)
  BY <1>2 DEF Db!Referring
<1> QED
  BY <1>2, <1>3, SchemaDescends DEF Descends

\* What a step of a cascade adds to the rows it has reached.
LEMMA GrownRows ==
    ASSUME NEW db, NEW S, NEW y
    PROVE  y \in Db!Grown(db, S) <=>
             y \in S \/ \E x \in S : Refers(db, y, x, "cascade")
  BY DEF Db!Grown, Refers

(* After three steps along the references nothing is left to cascade to.   *)
LEMMA CascadeIsComplete ==
    ASSUME NEW db, Db!IsDatabase(db), NEW S,
           \A x \in S : x[1] \in DOMAIN Db!Schema
    PROVE  \A x \in Db!Cascade(db, S) : \A y :
              Refers(db, y, x, "cascade") => y \in Db!Cascade(db, S)
<1> DEFINE one   == Db!Grown(db, S)
           two   == Db!Grown(db, one)
           three == Db!Grown(db, two)
<1>1. \A x, y : Refers(db, y, x, "cascade") =>
         /\ x[1] \in DOMAIN Db!Schema /\ y[1] \in DOMAIN Db!Schema
         /\ Depth[x[1]] < Depth[y[1]]
  BY ReferringRows DEF Refers
<1>2. \A u \in DOMAIN Db!Schema : Depth[u] \in 0..3
  BY SchemaDescends
<1>3. /\ \A y : y \in one <=>
             y \in S \/ \E x \in S : Refers(db, y, x, "cascade")
      /\ \A y : y \in two <=>
             y \in one \/ \E x \in one : Refers(db, y, x, "cascade")
      /\ \A y : y \in three <=>
             y \in two \/ \E x \in two : Refers(db, y, x, "cascade")
  BY GrownRows
<1> HIDE DEF one, two, three
<1>4. \A y \in one : y \in S \/ Depth[y[1]] >= 1
  BY <1>1, <1>2, <1>3
<1>5. \A y \in two : y \in one \/ Depth[y[1]] >= 2
  BY <1>1, <1>2, <1>3, <1>4
<1>6. \A y \in three : y \in two \/ Depth[y[1]] >= 3
  BY <1>1, <1>2, <1>3, <1>5
<1>7. ASSUME NEW x \in three, NEW y, Refers(db, y, x, "cascade")
      PROVE  y \in three
  BY <1>1, <1>2, <1>3, <1>6, <1>7
<1>8. three = Db!Cascade(db, S)
  BY DEF one, two, three, Db!Cascade
<1> QED
  BY <1>7, <1>8

(* No trail is reached, and only rows that are in the database are.        *)
LEMMA CascadeSparesTrails ==
    ASSUME NEW db, Db!IsDatabase(db), NEW S,
           NEW y \in Db!Cascade(db, S), y[1] \in Trails
    PROVE  y \in S
<1>1. \A T : y \in Db!Grown(db, T) => y \in T
  BY GrownRows, ReferringRows DEF Refers
<1> QED
  BY <1>1 DEF Db!Cascade

-----------------------------------------------------------------------------
(* What is left of a row that stays.                                       *)
LEMMA KeptRow ==
    ASSUME NEW db, Db!IsDatabase(db), NEW gone,
           NEW u \in DOMAIN db, NEW r \in db[u]
    PROVE  /\ Db!Kept(gone, u, r).id = r.id
           /\ \A c \in DOMAIN Db!Schema[u].refs :
                Db!Kept(gone, u, r)[c] =
                  IF Db!Dangles(gone, u, r, c) THEN Null ELSE r[c]
<1>1. /\ u \in DOMAIN Db!Schema /\ "id" \in DOMAIN r
      /\ \A c \in DOMAIN Db!Schema[u].refs : c \in DOMAIN r
  BY DEF Db!IsDatabase
<1>2. ~Db!Dangles(gone, u, r, "id")
  BY <1>1, SchemaDescends DEF Descends, Db!Dangles
<1> QED
  BY <1>1, <1>2 DEF Db!Kept

(* A reference that leads to a row that goes is cut, or its row goes too.  *)
LEMMA NothingDangles ==
    ASSUME NEW db, Db!IsDatabase(db), NEW gone, ~Db!Held(db, gone),
           \A x \in gone : \A y : Refers(db, y, x, "cascade") => y \in gone,
           NEW u, NEW c, NEW v, IsForeignKey(u, c, v),
           NEW r \in db[u], <<u, r>> \notin gone,
           NEW x \in db[v], x.id = r[c], <<v, x>> \in gone
    PROVE  Db!Dangles(gone, u, r, c)
<1>1. PICK action \in {"cascade", "restrict", "set null"} :
         Db!Schema[u].refs[c] = Db!Ref(v, action)
  BY DEF IsForeignKey
<1>2. u \in DOMAIN db /\ c \in DOMAIN Db!Schema[u].refs
  BY DEF IsForeignKey, Db!IsDatabase
<1>3. <<u, r>> \in Db!Referring(db, v, x.id, action)
  <2> DEFINE y == <<u, r>>
  <2>1. y[1] = u /\ y[2] = r /\ y \in {u} \X db[u]
    OBVIOUS
  <2> HIDE DEF y
  <2>2. y \in UNION {{w} \X db[w] : w \in DOMAIN db}
    BY <1>2, <2>1
  <2>3. Db!Schema[y[1]].refs[c] = Db!Ref(v, action) /\ y[2][c] = x.id
    BY <1>1, <2>1
  <2>4. y \in Db!Referring(db, v, x.id, action)
    BY <1>2, <2>1, <2>2, <2>3 DEF Db!Referring
  <2> QED
    BY <2>4 DEF y
<1>4. action # "cascade"
  BY <1>3 DEF Refers
<1>5. action # "restrict"
  BY <1>3 DEF Db!Held
<1> QED
  BY <1>1, <1>2, <1>4, <1>5 DEF Db!Dangles

(* Whatever is deleted, every reference that is left leads to a row.       *)
LEMMA DeletedIntact ==
    ASSUME NEW db, Db!IsDatabase(db), NEW t \in DOMAIN db, NEW row \in db[t]
    PROVE  Db!Intact(Db!Delete(db, t, row))
<1> DEFINE gone   == Db!Cascade(db, {<<t, row>>})
           Left(u) == {r \in db[u] : <<u, r>> \notin gone}
           left   == [u \in DOMAIN db |->
                        {Db!Kept(gone, u, r) : r \in Left(u)}]
<1>1. CASE Db!Held(db, gone)
  BY <1>1 DEF Db!Delete, Db!IsDatabase
<1>2. CASE ~Db!Held(db, gone)
  <2>1. Db!Delete(db, t, row) = left
    BY <1>2 DEF Db!Delete
  <2>2. \A x \in gone : \A y : Refers(db, y, x, "cascade") => y \in gone
    BY CascadeIsComplete DEF Db!IsDatabase
  <2> HIDE DEF gone
  <2>3. ASSUME NEW rel \in Db!Relations
                     \ {<<"workerJobs", "parentJobId", "workerJobs">>},
               NEW s \in left[rel[1]], s[rel[2]] # Null
        PROVE  \E x \in left[rel[3]] : x.id = s[rel[2]]
    <3> DEFINE u == rel[1]
               c == rel[2]
               v == rel[3]
    <3>1. /\ IsForeignKey(u, c, v) /\ u \in DOMAIN db /\ v \in DOMAIN db
          /\ c \in DOMAIN Db!Schema[u].refs
      BY RelationsAreKeys DEF IsForeignKey, Db!IsDatabase
    <3>2. PICK r \in db[u] : <<u, r>> \notin gone /\ s = Db!Kept(gone, u, r)
      BY <2>3, <3>1
    <3>3. ~Db!Dangles(gone, u, r, c) /\ s[c] = r[c]
      BY <2>3, <3>1, <3>2, KeptRow
    <3>4. PICK x \in db[v] : x.id = r[c]
      BY <2>3, <3>3 DEF Db!IsDatabase, Db!Intact
    <3>5. <<v, x>> \notin gone
      BY <1>2, <2>2, <3>1, <3>2, <3>3, <3>4, NothingDangles
    <3>6. Db!Kept(gone, v, x) \in left[v] /\ Db!Kept(gone, v, x).id = x.id
      BY <3>1, <3>4, <3>5, KeptRow
    <3> QED
      BY <3>3, <3>4, <3>6
  <2> QED
    BY <2>1, <2>3 DEF Db!Intact
<1> QED
  BY <1>1, <1>2

\* A row that does not go stays, under its id.
LEMMA SparedStays ==
    ASSUME NEW db, Db!IsDatabase(db), NEW t \in DOMAIN db, NEW row \in db[t],
           NEW u \in DOMAIN db, NEW r \in db[u],
           <<u, r>> \notin Db!Cascade(db, {<<t, row>>})
    PROVE  \E s \in Db!Delete(db, t, row)[u] : s.id = r.id
<1> DEFINE gone   == Db!Cascade(db, {<<t, row>>})
           Left(w) == {x \in db[w] : <<w, x>> \notin gone}
           left   == [w \in DOMAIN db |->
                        {Db!Kept(gone, w, x) : x \in Left(w)}]
<1>1. CASE Db!Held(db, gone)
  BY <1>1 DEF Db!Delete
<1>2. CASE ~Db!Held(db, gone)
  <2>1. Db!Delete(db, t, row) = left
    BY <1>2 DEF Db!Delete
  <2> HIDE DEF gone
  <2>2. <<u, r>> \notin gone
    BY DEF gone
  <2>3. Db!Kept(gone, u, r) \in left[u] /\ Db!Kept(gone, u, r).id = r.id
    BY <2>2, KeptRow
  <2> QED
    BY <2>1, <2>3
<1> QED
  BY <1>1, <1>2

\* A deletion takes nothing from a trail but the row itself.
LEMMA DeletedTrails ==
    ASSUME NEW db, Db!IsDatabase(db), NEW t \in DOMAIN db, NEW row \in db[t],
           NEW u \in Trails, NEW r \in db[u]
    PROVE  \/ \E s \in Db!Delete(db, t, row)[u] : s.id = r.id
           \/ u = t /\ r = row
<1> DEFINE gone == Db!Cascade(db, {<<t, row>>})
           x == <<u, r>>
<1>1. u \in DOMAIN db
  BY DEF Trails, Db!IsDatabase, Db!Schema
<1>2. CASE <<u, r>> \notin gone
  BY <1>1, <1>2, SparedStays
<1>3. CASE <<u, r>> \in gone
  <2>1. x[1] \in Trails /\ x \in Db!Cascade(db, {<<t, row>>})
    BY <1>3
  <2> HIDE DEF x
  <2>2. x \in {<<t, row>>}
    BY <2>1, CascadeSparesTrails
  <2>3. <<u, r>> = <<t, row>>
    BY <2>2 DEF x
  <2> QED BY <2>3
<1> QED BY <1>2, <1>3

(* The references along which a deletion cascades.                         *)
OfUsers ==
    {<<t, "userId">> :
        t \in {"oauthAccounts", "sessions", "youtubeChannels",
               "userProfiles", "contentItems", "contentMetrics",
               "contentConversions"}}
    \cup {<<"smeScoutedCreators", "smeUserId">>,
          <<"smeScoutedCreators", "creatorUserId">>,
          <<"smeCampaigns", "smeUserId">>,
          <<"smeCampaignCreators", "creatorUserId">>}
OfChannels ==
    {<<t, "channelId">> :
        t \in {"youtubeVideos", "youtubeDailyAnalytics",
               "youtubeAudienceDemographics"}}
OfVideos ==
    {<<t, "videoId">> : t \in {"youtubeMlScores", "youtubeVideoComments"}}
OfItems ==
    {<<t, "contentItemId">> : t \in {"contentMetrics", "contentConversions"}}

Cascades(u, c, v) ==
    \/ v = "users" /\ <<u, c>> \in OfUsers
    \/ v = "youtubeChannels" /\ <<u, c>> \in OfChannels
    \/ v = "youtubeVideos" /\ <<u, c>> \in OfVideos
    \/ v = "contentItems" /\ <<u, c>> \in OfItems
    \/ v = "smeCampaigns" /\ <<u, c>> = <<"smeCampaignCreators", "campaignId">>

CascadesOnly(u) ==
    \A c \in DOMAIN Db!Schema[u].refs : \A v :
        Db!Schema[u].refs[c] = Db!Ref(v, "cascade") => Cascades(u, c, v)

\* There are no others in the schema.
LEMMA SchemaCascades ==
    ASSUME NEW u \in DOMAIN Db!Schema, NEW c \in DOMAIN Db!Schema[u].refs,
           NEW v, Db!Schema[u].refs[c] = Db!Ref(v, "cascade")
    PROVE  Cascades(u, c, v)
<1>1. \A w \in Trails : w \in DOMAIN Db!Schema => CascadesOnly(w)
  BY SchemaDescends DEF Descends, CascadesOnly
<1> USE DEF CascadesOnly, Cascades, OfUsers, OfChannels, OfVideos, OfItems,
        Db!Ref, Db!Tbl, Db!NoRefs
<1>2. /\ CascadesOnly("tenants") /\ CascadesOnly("oauthAccounts")
      /\ CascadesOnly("sessions")
  BY DEF Db!Schema, Db!tenants, Db!oauthAccounts, Db!sessions
<1>3. /\ CascadesOnly("youtubeChannels") /\ CascadesOnly("youtubeVideos")
  BY DEF Db!Schema, Db!youtubeChannels, Db!youtubeVideos
<1>4. /\ CascadesOnly("youtubeDailyAnalytics")
      /\ CascadesOnly("youtubeAudienceDemographics")
  BY DEF Db!Schema, Db!youtubeDailyAnalytics, Db!youtubeAudienceDemographics
<1>5. CascadesOnly("youtubeMlScores") /\ CascadesOnly("youtubeVideoComments")
  BY DEF Db!Schema, Db!youtubeMlScores, Db!youtubeVideoComments
<1>6. CascadesOnly("userProfiles") /\ CascadesOnly("contentItems")
  BY DEF Db!Schema, Db!userProfiles, Db!contentItems
<1>7. CascadesOnly("contentMetrics") /\ CascadesOnly("contentConversions")
  BY DEF Db!Schema, Db!contentMetrics, Db!contentConversions, Db!ItemRefs
<1>8. CascadesOnly("smeScoutedCreators") /\ CascadesOnly("smeCampaigns")
  BY DEF Db!Schema, Db!smeScoutedCreators, Db!smeCampaigns
<1>9. CascadesOnly("smeCampaignCreators")
  BY DEF Db!Schema, Db!smeCampaignCreators
<1> HIDE DEF CascadesOnly, Cascades, OfUsers, OfChannels, OfVideos, OfItems,
         Db!Ref, Db!Tbl, Db!NoRefs
<1>10. u \in Trails \cup
          {"tenants", "oauthAccounts", "sessions", "youtubeChannels",
           "youtubeVideos", "youtubeDailyAnalytics", "youtubeMlScores",
           "youtubeVideoComments", "youtubeAudienceDemographics",
           "userProfiles", "contentItems", "contentMetrics",
           "contentConversions", "smeScoutedCreators", "smeCampaigns",
           "smeCampaignCreators"}
  BY DEF Db!Schema, Trails
<1>11. CascadesOnly(u)
  BY <1>1, <1>2, <1>3, <1>4, <1>5, <1>6, <1>7, <1>8, <1>9, <1>10
<1> QED BY <1>11 DEF CascadesOnly

\* What cascades from a row belongs to everyone the row belongs to.
LEMMA ReferringBelongs ==
    ASSUME NEW db, NEW u, NEW r, NEW v, NEW x \in db[v], NEW c,
           Cascades(u, c, v), r[c] = x.id
    PROVE  Db!Owners(db, v, x) \subseteq Db!Owners(db, u, r)
<1>1. CASE v = "users" /\ <<u, c>> \in OfUsers
  <2>1. Db!Owners(db, v, x) = {x.id}
    BY <1>1 DEF Db!Owners
  <2>2. x.id \in Db!Owners(db, u, r)
    BY <1>1 DEF Db!Owners, OfUsers
  <2> QED BY <2>1, <2>2
<1>2. CASE v = "youtubeChannels" /\ <<u, c>> \in OfChannels
  <2>1. Db!Owners(db, v, x) = {x.userId}
    BY <1>2 DEF Db!Owners
  <2>2. Db!Owners(db, u, r) = Db!ChannelOwners(db, r.channelId)
        /\ r.channelId = x.id
    BY <1>2 DEF Db!Owners, OfChannels
  <2>3. x.userId \in Db!ChannelOwners(db, x.id)
    BY <1>2 DEF Db!ChannelOwners
  <2> QED BY <2>1, <2>2, <2>3
<1>3. CASE v = "youtubeVideos" /\ <<u, c>> \in OfVideos
  <2>1. Db!Owners(db, v, x) = Db!ChannelOwners(db, x.channelId)
    BY <1>3 DEF Db!Owners
  <2>2. Db!Owners(db, u, r) = Db!VideoOwners(db, r.videoId)
        /\ r.videoId = x.id
    BY <1>3 DEF Db!Owners, OfVideos
  <2>3. Db!ChannelOwners(db, x.channelId) \subseteq Db!VideoOwners(db, x.id)
    BY <1>3 DEF Db!VideoOwners
  <2> QED BY <2>1, <2>2, <2>3
<1>4. CASE v = "contentItems" /\ <<u, c>> \in OfItems
  <2>1. Db!Owners(db, v, x) = {x.userId}
    BY <1>4 DEF Db!Owners
  <2>2. Db!ItemOwners(db, r.contentItemId) \subseteq Db!Owners(db, u, r)
        /\ r.contentItemId = x.id
    BY <1>4 DEF Db!Owners, OfItems
  <2>3. x.userId \in Db!ItemOwners(db, x.id)
    BY <1>4 DEF Db!ItemOwners
  <2> QED BY <2>1, <2>2, <2>3
<1>5. CASE v = "smeCampaigns"
           /\ <<u, c>> = <<"smeCampaignCreators", "campaignId">>
  <2>1. Db!Owners(db, v, x) = {x.smeUserId}
    BY <1>5 DEF Db!Owners
  <2>2. Db!CampaignOwners(db, r.campaignId) \subseteq Db!Owners(db, u, r)
        /\ r.campaignId = x.id
    BY <1>5 DEF Db!Owners
  <2>3. x.smeUserId \in Db!CampaignOwners(db, x.id)
    BY <1>5 DEF Db!CampaignOwners
  <2> QED BY <2>1, <2>2, <2>3
<1> QED BY <1>1, <1>2, <1>3, <1>4, <1>5 DEF Cascades

\* The rows of S are in the database and belong to all of O.
BelongTo(db, S, O) ==
    \A x \in S : /\ x[2] \in db[x[1]]
                  /\ O \subseteq Db!Owners(db, x[1], x[2])

\* So do those that go with them.
LEMMA CascadeBelongs ==
    ASSUME NEW db, Db!IsDatabase(db), NEW S, NEW O, BelongTo(db, S, O)
    PROVE  BelongTo(db, Db!Cascade(db, S), O)
<1>1. ASSUME NEW T, BelongTo(db, T, O)
      PROVE  BelongTo(db, Db!Grown(db, T), O)
  <2> SUFFICES ASSUME NEW y \in Db!Grown(db, T)
               PROVE  /\ y[2] \in db[y[1]]
                      /\ O \subseteq Db!Owners(db, y[1], y[2])
    BY DEF BelongTo
  <2>1. CASE y \in T
    BY <1>1, <2>1 DEF BelongTo
  <2>2. CASE y \notin T
    <3>1. PICK x \in T : Refers(db, y, x, "cascade")
      BY <2>2, GrownRows
    <3>2. y[1] \in DOMAIN Db!Schema /\ y[2] \in db[y[1]]
      BY <3>1, ReferringRows DEF Refers
    <3>3. PICK c \in DOMAIN Db!Schema[y[1]].refs :
             /\ Db!Schema[y[1]].refs[c] = Db!Ref(x[1], "cascade")
             /\ y[2][c] = x[2].id
      BY <3>1 DEF Refers, Db!Referring
    <3>4. Cascades(y[1], c, x[1])
      BY <3>2, <3>3, SchemaCascades
    <3>5. x[2] \in db[x[1]] /\ O \subseteq Db!Owners(db, x[1], x[2])
      BY <1>1 DEF BelongTo
    <3>6. Db!Owners(db, x[1], x[2]) \subseteq Db!Owners(db, y[1], y[2])
      BY <3>3, <3>4, <3>5, ReferringBelongs
    <3> QED BY <3>2, <3>5, <3>6
  <2> QED BY <2>1, <2>2
<1> QED BY <1>1 DEF Db!Cascade

\* A deletion takes nothing that is another's alone.
LEMMA DeletedBelongs ==
    ASSUME NEW db, Db!IsDatabase(db), NEW t \in DOMAIN db, NEW row \in db[t],
           NEW u \in DOMAIN db, NEW r \in db[u]
    PROVE  \/ \E s \in Db!Delete(db, t, row)[u] : s.id = r.id
           \/ Db!Owners(db, t, row) \subseteq Db!Owners(db, u, r)
<1> DEFINE S == {<<t, row>>}
           O == Db!Owners(db, t, row)
           x == <<u, r>>
<1>1. BelongTo(db, S, O)
  BY DEF BelongTo
<1>2. CASE x \notin Db!Cascade(db, S)
  BY <1>2, SparedStays
<1>3. CASE x \in Db!Cascade(db, S)
  <2> HIDE DEF S, O
  <2>1. BelongTo(db, Db!Cascade(db, S), O)
    BY <1>1, CascadeBelongs
  <2>2. O \subseteq Db!Owners(db, x[1], x[2])
    BY <1>3, <2>1 DEF BelongTo
  <2> QED BY <2>2 DEF O
<1> QED BY <1>2, <1>3

(* Whatever is deleted from a database of any size: every reference that   *)
(* is left leads to a row, audit logs, worker jobs and users stay, and     *)
(* whatever goes belongs to everyone the deleted row belongs to (the ON    *)
(* DELETE of every reference in schema.ts).                                *)
THEOREM DeletionsStayClean == Spec => []DeletionsAreClean
<1>1. CaseGiven /\ ResultOfCase => DeletionsAreClean
  <2> SUFFICES ASSUME CaseGiven, ResultOfCase, Evaluated("delete")
               PROVE  DeletionsAreClean
    BY DEF DeletionsAreClean, NoOrphans, TrailSurvives, OthersKeepTheirs
  <2>1. /\ Db!IsDatabase(case.db) /\ case.table \in DOMAIN case.db
        /\ case.row \in case.db[case.table]
    BY CasesAssumption DEF CaseGiven, Evaluated
  <2>2. result = Db!Delete(case.db, case.table, case.row)
    BY DEF ResultOfCase, Makes, Evaluated
  <2>3. NoOrphans
    BY <2>1, <2>2, DeletedIntact DEF NoOrphans
  <2>4. TrailSurvives
    BY <2>1, <2>2, DeletedTrails DEF TrailSurvives, Trails, Stays, IsDeleted
  <2>5. OthersKeepTheirs
    BY <2>1, <2>2, DeletedBelongs DEF OthersKeepTheirs, Stays
  <2> QED
    BY <2>3, <2>4, <2>5 DEF DeletionsAreClean
<1> QED
  BY <1>1, CasesInvariant, PTL

-----------------------------------------------------------------------------
(* Searches: one page and the next, with pg_trgm and without, the figures  *)
(* beside them.                                                            *)

\* Cardinality and finiteness are the same inside of CreatorDiscovery.
LEMMA SameCardinality ==
    ASSUME NEW S PROVE Discovery!Cardinality(S) = Cardinality(S)
  BY Zenon DEF Discovery!Cardinality, Cardinality

\* The instance has the same finite sets.
LEMMA SameFinite ==
    ASSUME NEW S PROVE Discovery!IsFiniteSet(S) = IsFiniteSet(S)
  BY DEF Discovery!IsFiniteSet, IsFiniteSet

\* The orders of a finite set list each of its members once.
LEMMA OrderListsAll ==
    ASSUME NEW S, IsFiniteSet(S), NEW s \in Discovery!SetToSeqs(S)
    PROVE  /\ Cardinality(S) \in Nat
           /\ s \in [1..Cardinality(S) -> S]
           /\ \A i, j \in 1..Cardinality(S) : s[i] = s[j] => i = j
           /\ \A x \in S : \E i \in 1..Cardinality(S) : s[i] = x
           /\ Len(s) = Cardinality(S) /\ s \in Seq(S)
<1> DEFINE n == Cardinality(S)
<1>1. n \in Nat
  BY FS_CardinalityType
<1>2. s \in [1..n -> S] /\ \A i, j \in 1..n : i # j => s[i] # s[j]
  BY Zenon, SameCardinality DEF Discovery!SetToSeqs
<1>3. s \in Injection(1..n, S)
  BY <1>2 DEF Injection, IsInjective
<1>4. Cardinality(1..n) = n
  BY <1>1, FS_Interval
<1>5. s \in Surjection(1..n, S)
  BY <1>3, <1>4, FS_Injection
<1>6. \A x \in S : \E i \in 1..n : s[i] = x
  BY <1>5 DEF Surjection
<1>7. s \in Seq(S) /\ Len(s) = n
  BY <1>1, <1>2
<1> QED BY <1>1, <1>2, <1>6, <1>7

\* s lists every member of S once, and R does not order it otherwise.
IsSorted(s, n, S, R) ==
    /\ IsListing(s, n, S)
    /\ \A i, j \in 1..n : i < j => <<s[j], s[i]>> \notin R

\* A total relation orders a set in one way.
LEMMA OneOrder ==
    ASSUME NEW n \in Nat, NEW S, NEW R,
           \A x, y \in S : x # y => <<x, y>> \in R \/ <<y, x>> \in R,
           NEW s, IsSorted(s, n, S, R), NEW t, IsSorted(t, n, S, R)
    PROVE  s = t
<1> USE DEF IsSorted, IsListing
<1> DEFINE D == {i \in 1..n : s[i] # t[i]}
<1>1. ASSUME D # {} PROVE FALSE
  <2>1. PICK i \in D : \A k \in D : i <= k
    <3>1. D \in SUBSET Nat OBVIOUS
    <3> HIDE DEF D
    <3> QED BY <1>1, <3>1, LeastNatural
  <2>2. i \in 1..n /\ s[i] # t[i] /\ s[i] \in S /\ t[i] \in S
    OBVIOUS
  <2>3. PICK j \in 1..n : t[j] = s[i] BY <2>2
  <2>4. PICK k \in 1..n : s[k] = t[i] BY <2>2
  <2>5. i < j /\ i < k
    <3>1. j < i => s[j] = t[j] BY <2>1
    <3>2. k < i => s[k] = t[k] BY <2>1
    <3>3. j # i /\ k # i BY <2>2, <2>3, <2>4
    <3>4. ~(j < i) /\ ~(k < i) BY <2>2, <2>3, <2>4, <3>1, <3>2, <3>3
    <3> QED BY <2>2, <3>3, <3>4
  <2>6. <<s[i], t[i]>> \notin R /\ <<t[i], s[i]>> \notin R
    BY <2>2, <2>3, <2>4, <2>5
  <2> QED BY <2>2, <2>6
<1>2. \A i \in 1..n : s[i] = t[i]
  BY <1>1
<1> QED BY <1>2

\* The order of a discovery is total: ids are unique.
LEMMA BeforeIsTotal ==
    ASSUME NEW users, Discovery!IsUsers(users),
           NEW u \in Discovery!Creators(users),
           NEW v \in Discovery!Creators(users), u # v, Null \notin Int
    PROVE  Discovery!Before(u, v) \/ Discovery!Before(v, u)
<1>1. /\ u.id \in Int /\ v.id \in Int /\ u.id # v.id
      /\ u.profile.score \in Int \cup {Null}
      /\ v.profile.score \in Int \cup {Null}
      /\ u.profile.audience \in Int \cup {Null}
      /\ v.profile.audience \in Int \cup {Null}
  BY DEF Discovery!IsUsers, Discovery!Creators
<1> QED BY <1>1 DEF Discovery!Before, Discovery!Descends

\* The rows shown of creators in an order.
RowsOf(order, n) == [i \in 1..n |-> Discovery!Item(order[i])]

\* Joined with no platform, each creator gives one row.
LEMMA JoinedOnce ==
    ASSUME NEW S, NEW n \in Nat, NEW order \in [1..n -> S]
    PROVE  Discovery!Joined(order, Null) = RowsOf(order, n)
<1> USE DEF RowsOf
<1> DEFINE item(i) == Discovery!Item(order[i])
           seqs == [i \in 1..n |-> [k \in 1..1 |-> item(i)]]
           Is(f) == f = [i \in 1..Len(seqs) |->
                           IF i = 1 THEN seqs[i] ELSE f[i - 1] \o seqs[i]]
           upto == [i \in 1..n |-> [k \in 1..i |-> item(k)]]
<1>0. Discovery!Joined(order, Null) = Discovery!FlattenSeq(seqs)
  BY DEF Discovery!Joined
<1> HIDE DEF item
<1>1. Len(seqs) = n
  OBVIOUS
<1>3. Discovery!FlattenSeq(seqs) =
        IF Len(seqs) = 0 THEN seqs ELSE (CHOOSE f : Is(f))[Len(seqs)]
  BY Zenon DEF Discovery!FlattenSeq
<1>4. ASSUME NEW i \in 1..n
      PROVE  upto[i] = IF i = 1 THEN seqs[i] ELSE upto[i - 1] \o seqs[i]
  <2>1. seqs[i] = <<item(i)>> OBVIOUS
  <2>2. CASE i = 1 BY <2>1, <2>2
  <2>3. CASE i # 1
    <3>1. upto[i - 1] = [k \in 1..(i - 1) |-> item(k)] BY <2>3
    <3> QED BY <2>1, <2>3, <3>1
  <2> QED BY <2>2, <2>3
<1>5. Is(upto)
  BY <1>1, <1>4
<1>6. PICK f : f = CHOOSE g : Is(g)
  OBVIOUS
<1>7. Is(f)
  BY <1>5, <1>6
<1>8. \A i \in 1..n : f[i] = IF i = 1 THEN seqs[i] ELSE f[i - 1] \o seqs[i]
  BY <1>1, <1>7
<1> DEFINE N == {i \in Nat : i \in 1..n => f[i] = upto[i]}
<1>9. 0 \in N
  OBVIOUS
<1> HIDE DEF seqs, upto, Is, N
<1>10. ASSUME NEW i \in N PROVE i + 1 \in N
  <2>1. i \in Nat BY DEF N
  <2>2. CASE i = 0
    <3>1. 1 \in 1..n => f[1] = upto[1] BY <1>4, <1>8
    <3> QED BY <2>2, <3>1 DEF N
  <2>3. CASE i # 0 /\ i + 1 \in 1..n
    <3>1. i \in 1..n /\ (i + 1) - 1 = i /\ i + 1 # 1 BY <2>1, <2>3
    <3>2. f[i] = upto[i] BY <2>1, <3>1 DEF N
    <3>3. f[i + 1] = f[i] \o seqs[i + 1] BY <1>8, <2>3, <3>1
    <3>4. upto[i + 1] = upto[i] \o seqs[i + 1] BY <1>4, <2>3, <3>1
    <3>5. f[i + 1] = upto[i + 1] BY <3>2, <3>3, <3>4
    <3>6. i + 1 \in Nat BY <2>1
    <3> QED BY <3>5, <3>6 DEF N
  <2>4. CASE i + 1 \notin 1..n BY <2>1, <2>4 DEF N
  <2> QED BY <2>2, <2>3, <2>4
<1>11. N = Nat
  <2>1. N \in SUBSET Nat BY DEF N
  <2> QED BY <1>9, <1>10, <2>1, Induction
<1>12. CASE n = 0
  <2>1. seqs = [i \in 1..n |-> item(i)]
    BY <1>12 DEF seqs
  <2> QED BY <1>0, <1>1, <1>3, <1>12, <2>1 DEF item
<1>13. CASE n # 0
  <2>1. n \in 1..n BY <1>13
  <2>2. f[n] = upto[n] BY <1>11, <2>1 DEF N
  <2>3. upto[n] = [k \in 1..n |-> item(k)] BY <2>1 DEF upto
  <2> QED BY <1>0, <1>1, <1>3, <1>6, <1>13, <2>2, <2>3 DEF item
<1> QED BY <1>12, <1>13


\* What a discovery finds, in the order it shows it.
FoundBy(users, params) ==
    {u \in Discovery!Creators(users) : Discovery!Matches(u, params)}

\* s orders S; s is an order a discovery may show.
IsOrder(s, S) ==
    /\ Cardinality(S) \in Nat
    /\ IsListing(s, Cardinality(S), S)

InOrder(s, users, params) ==
    /\ IsOrder(s, FoundBy(users, params))
    /\ \A i, j \in 1..Cardinality(FoundBy(users, params)) :
          i < j => ~Discovery!Before(s[j], s[i])

\* It finds finitely many,
LEMMA FoundIsFinite ==
    ASSUME NEW users, Discovery!IsUsers(users), NEW params
    PROVE  IsFiniteSet(FoundBy(users, params))
<1>1. IsFiniteSet(users) BY SameFinite DEF Discovery!IsUsers
<1>2. FoundBy(users, params) \in SUBSET users
  BY DEF Discovery!Creators, FoundBy
<1> QED BY <1>1, <1>2, FS_Subset

\* shows them in one order only,
LEMMA OneOrderOfFound ==
    ASSUME Null \notin Int, NEW users, Discovery!IsUsers(users), NEW params,
           NEW s, InOrder(s, users, params), NEW t, InOrder(t, users, params)
    PROVE  s = t
<1> DEFINE found == FoundBy(users, params)
           R == {p \in found \X found : Discovery!Before(p[1], p[2])}
           n == Cardinality(found)
<1>1. \A x, y \in found :
         <<x, y>> \in R <=> Discovery!Before(x, y)
  OBVIOUS
<1>2. found \subseteq Discovery!Creators(users)
  BY DEF FoundBy
<1>3. \A x, y \in found : x # y => <<x, y>> \in R \/ <<y, x>> \in R
  BY <1>1, <1>2, BeforeIsTotal
<1>4. /\ n \in Nat /\ s \in [1..n -> found] /\ t \in [1..n -> found]
      /\ \A i, j \in 1..n : s[i] = s[j] => i = j
      /\ \A i, j \in 1..n : t[i] = t[j] => i = j
      /\ \A x \in found : \E i \in 1..n : s[i] = x
      /\ \A x \in found : \E i \in 1..n : t[i] = x
      /\ \A i, j \in 1..n : i < j => ~Discovery!Before(s[j], s[i])
      /\ \A i, j \in 1..n : i < j => ~Discovery!Before(t[j], t[i])
  BY DEF InOrder, IsOrder, IsListing
<1>5. IsSorted(s, n, found, R) /\ IsSorted(t, n, found, R)
  <2> HIDE DEF found, n, R
  <2> QED BY <1>1, <1>4 DEF IsSorted, IsListing
<1> HIDE DEF found, n, R
<1> QED BY <1>3, <1>4, <1>5, OneOrder

\* and answers with a page of them.
LEMMA SearchAnswer ==
    ASSUME NEW users, Discovery!IsUsers(users), NEW params,
           NEW page \in Discovery!searchCreators(users, params)
    PROVE  \E s : /\ InOrder(s, users, params)
                  /\ page = Discovery!Page(
                        Discovery!Joined(s, params.platform),
                        params.limit, params.offset)
<1> DEFINE found == FoundBy(users, params)
<1>1. PICK s \in Discovery!Orders(found, Discovery!Before) :
         page = Discovery!Page(Discovery!Joined(s, params.platform),
                               params.limit, params.offset)
  BY Zenon DEF Discovery!searchCreators, FoundBy
<1>2. /\ s \in Discovery!SetToSeqs(found)
      /\ \A i, j \in DOMAIN s : i < j => ~Discovery!Before(s[j], s[i])
  BY Zenon DEF Discovery!Orders
<1>3. IsFiniteSet(found)
  BY FoundIsFinite
<1>4. IsOrder(s, found)
  BY <1>2, <1>3, OrderListsAll DEF IsOrder, IsListing
<1>5. DOMAIN s = 1..Cardinality(found)
  BY <1>4 DEF IsOrder, IsListing
<1>6. InOrder(s, users, params)
  BY <1>2, <1>4, <1>5 DEF InOrder
<1> QED BY <1>1, <1>6

\* With no platform the rows are those of the creators found.
LEMMA RowsInOrder ==
    ASSUME NEW users, Discovery!IsUsers(users), NEW params,
           NEW s, InOrder(s, users, params)
    PROVE  /\ Discovery!Joined(s, Null) =
                RowsOf(s, Cardinality(FoundBy(users, params)))
           /\ \A i, j \in 1..Cardinality(FoundBy(users, params)) :
                 s[i].id = s[j].id => i = j
<1> DEFINE n == Cardinality(FoundBy(users, params))
<1>1. /\ n \in Nat /\ s \in [1..n -> FoundBy(users, params)]
      /\ \A i, j \in 1..n : s[i] = s[j] => i = j
  BY DEF InOrder, IsOrder, IsListing
<1>2. Discovery!Joined(s, Null) = RowsOf(s, n)
  <2> HIDE DEF n
  <2> QED BY <1>1, JoinedOnce
<1>3. FoundBy(users, params) \subseteq users
  BY DEF FoundBy, Discovery!Creators
<1>4. \A i, j \in 1..n : s[i].id = s[j].id => i = j
  BY <1>1, <1>3 DEF Discovery!IsUsers
<1> QED BY <1>2, <1>4

\* The rows from an offset on, up to a limit.
IsPage(page, rows, n, S, limit, offset) ==
    /\ page \in Seq(S) /\ Len(page) \in Nat
    /\ Len(page) = IF offset >= n THEN 0
                   ELSE IF offset + limit < n THEN limit
                   ELSE n - offset
    /\ \A i \in 1..Len(page) : page[i] = rows[offset + i]

\* A page is a run of rows.
LEMMA PageOfRows ==
    ASSUME NEW n \in Nat, NEW S, NEW rows \in [1..n -> S],
           NEW limit \in Nat, NEW offset \in Nat
    PROVE  IsPage(Discovery!Page(rows, limit, offset), rows, n, S, limit,
                  offset)
<1> DEFINE page == Discovery!Page(rows, limit, offset)
<1>1. Len(rows) = n /\ rows \in Seq(S)
  OBVIOUS
<1> DEFINE end == Discovery!Least(offset + limit, n)
<1>2. page = SubSeq(rows, offset + 1, end)
  BY <1>1 DEF Discovery!Page
<1> HIDE DEF page
<1>3. /\ end \in Nat /\ end <= n
      /\ end = IF offset + limit < n THEN offset + limit ELSE n
  BY DEF Discovery!Least
<1> HIDE DEF end
<1>4. /\ page \in Seq(S)
      /\ Len(page) = IF offset + 1 <= end THEN end - offset ELSE 0
      /\ \A i \in 1..Len(page) : page[i] = rows[offset + i]
  BY <1>1, <1>2, <1>3
<1>5. IsPage(page, rows, n, S, limit, offset)
  BY <1>3, <1>4 DEF IsPage
<1> QED BY <1>5 DEF page

\* run is a run of rows from an offset on.
IsRun(run, rows, n, offset) ==
    \A i \in DOMAIN run : /\ i \in Int
                          /\ offset + i \in 1..n
                          /\ run[i] = rows[offset + i]

\* Two pages in a row are a longer one.
LEMMA TwoPages ==
    ASSUME NEW n \in Nat, NEW S, NEW rows \in [1..n -> S],
           NEW limit \in Nat, NEW offset \in Nat
    PROVE  IsRun(Discovery!Page(rows, limit, offset)
                   \o Discovery!Page(rows, limit, offset + limit),
                 rows, n, offset)
<1> DEFINE first == Discovery!Page(rows, limit, offset)
           second == Discovery!Page(rows, limit, offset + limit)
<1> DEFINE both == first \o second
<1> HIDE DEF first, second
<1>1. IsPage(first, rows, n, S, limit, offset)
  BY PageOfRows DEF first
<1>2. IsPage(second, rows, n, S, limit, offset + limit)
  <2>1. offset + limit \in Nat OBVIOUS
  <2> QED BY <2>1, PageOfRows DEF second
<1> USE DEF IsPage
<1> SUFFICES ASSUME NEW i \in DOMAIN both
             PROVE  /\ i \in Int /\ offset + i \in 1..n
                    /\ both[i] = rows[offset + i]
  BY DEF IsRun, first, second
<1>3. \A k \in 1..(Len(first) + Len(second)) :
         both[k] = IF k <= Len(first) THEN first[k]
                   ELSE second[k - Len(first)]
  <2>1. first \in Seq(S) /\ second \in Seq(S) BY <1>1, <1>2
  <2> QED BY <2>1, ConcatProperties
<1>4. i \in 1..(Len(first) + Len(second)) /\ i \in Int
  BY <1>1, <1>2, <1>3
<1>5. CASE i <= Len(first)
  <2>1. i \in 1..Len(first) BY <1>1, <1>4, <1>5
  <2>2. both[i] = first[i] BY <1>3, <1>4, <1>5
  <2>3. offset + i \in 1..n BY <1>1, <2>1
  <2> QED BY <1>1, <1>4, <2>1, <2>2, <2>3
<1>6. CASE i > Len(first)
  <2>1. Len(second) > 0 BY <1>1, <1>2, <1>4, <1>6
  <2>2. Len(first) = limit BY <1>1, <1>2, <2>1
  <2>3. i - limit \in 1..Len(second) BY <1>1, <1>2, <1>4, <1>6, <2>2
  <2>4. both[i] = second[i - limit]
    BY <1>1, <1>3, <1>4, <1>6, <2>2
  <2>5. (offset + limit) + (i - limit) = offset + i BY <1>4
  <2>6. offset + i \in 1..n
    BY <1>2, <1>4, <2>1, <2>3
  <2>7. second[i - limit] = rows[offset + i] BY <1>2, <2>3, <2>5
  <2> QED BY <1>4, <2>4, <2>6, <2>7
<1> QED BY <1>1, <1>4, <1>5, <1>6

\* The search for a page that starts elsewhere.
AskAt(p, k) == Discovery!normalizeSearchParams([p EXCEPT !.offset = k])

\* What a request asks for, but for its offset, is what is looked for.
LEMMA AskedFor ==
    ASSUME NEW p, Discovery!IsParams(p), NEW k
    PROVE  LET q == AskAt(p, k)
           IN  /\ q.query = Discovery!normalizeOptionalText(p.query)
               /\ q.bioQuery = Discovery!normalizeOptionalText(p.bioQuery)
               /\ q.platform = p.platform /\ q.min = p.min /\ q.max = p.max
               /\ q.limit = p.limit /\ q.offset = k
<1>1. DOMAIN p = {"query", "bioQuery", "platform", "min", "max", "limit",
                  "offset"}
  BY Zenon DEF Discovery!IsParams
<1> DEFINE r == [p EXCEPT !.offset = k]
<1>2. /\ DOMAIN r = DOMAIN p /\ r.offset = k
      /\ r.query = p.query /\ r.bioQuery = p.bioQuery
      /\ r.platform = p.platform /\ r.min = p.min /\ r.max = p.max
      /\ r.limit = p.limit
  BY <1>1
<1> HIDE DEF r
<1>3. LET q == [r EXCEPT
                   !.query = Discovery!normalizeOptionalText(r.query),
                   !.bioQuery = Discovery!normalizeOptionalText(r.bioQuery)]
      IN  /\ q.query = Discovery!normalizeOptionalText(p.query)
          /\ q.bioQuery = Discovery!normalizeOptionalText(p.bioQuery)
          /\ q.platform = p.platform /\ q.min = p.min /\ q.max = p.max
          /\ q.limit = p.limit /\ q.offset = k
  BY <1>1, <1>2
<1> QED BY <1>3 DEF AskAt, Discovery!normalizeSearchParams, r

\* Two pages in a row, and that they show nobody twice.
ArePages(users, p, first, second) ==
    /\ Discovery!IsUsers(users) /\ Discovery!IsParams(p)
    /\ p.platform = Null /\ p.limit \in Nat /\ p.offset \in Nat
    /\ first \in Discovery!discoverCreators(
                    users, [p EXCEPT !.offset = p.offset])
    /\ second \in Discovery!discoverCreators(
                    users, [p EXCEPT !.offset = p.offset + p.limit])

NobodyTwice(page, next) ==
    LET both == page \o next
    IN  \A i, j \in DOMAIN both : both[i].userId = both[j].userId => i = j

\* With no platform two pages show nobody twice.
LEMMA PagesDiffer ==
    ASSUME Null \notin Int, NEW users, NEW p, NEW first, NEW second,
           ArePages(users, p, first, second)
    PROVE  NobodyTwice(first.creators, second.creators)
<1> USE DEF ArePages
<1> DEFINE q1 == AskAt(p, p.offset)
           q2 == AskAt(p, p.offset + p.limit)
<1>1. /\ q1.query = q2.query /\ q1.bioQuery = q2.bioQuery
      /\ q1.min = q2.min /\ q1.max = q2.max
      /\ q1.platform = Null /\ q2.platform = Null
      /\ q1.limit = p.limit /\ q2.limit = p.limit
      /\ q1.offset = p.offset /\ q2.offset = p.offset + p.limit
  BY AskedFor
<1>2. /\ first.creators \in Discovery!searchCreators(users, q1)
      /\ second.creators \in Discovery!searchCreators(users, q2)
  BY DEF Discovery!discoverCreators, AskAt
<1> HIDE DEF q1, q2
<1>3. FoundBy(users, q1) = FoundBy(users, q2)
  BY <1>1 DEF FoundBy, Discovery!Matches
<1>4. PICK s : /\ InOrder(s, users, q1)
               /\ first.creators = Discovery!Page(
                     Discovery!Joined(s, q1.platform), q1.limit, q1.offset)
  BY <1>2, SearchAnswer
<1>5. PICK t : /\ InOrder(t, users, q2)
               /\ second.creators = Discovery!Page(
                     Discovery!Joined(t, q2.platform), q2.limit, q2.offset)
  BY <1>2, SearchAnswer
<1>6. s = t
  <2>1. InOrder(t, users, q1) BY <1>3, <1>5 DEF InOrder
  <2> QED BY <1>4, <2>1, OneOrderOfFound
<1> DEFINE n == Cardinality(FoundBy(users, q1))
           rows == RowsOf(s, n)
           both == first.creators \o second.creators
<1>7. /\ Discovery!Joined(s, Null) = rows
      /\ \A i, j \in 1..n : s[i].id = s[j].id => i = j
  BY <1>4, RowsInOrder
<1>8. n \in Nat
  BY <1>4 DEF InOrder, IsOrder, IsListing
<1>9. \E S : rows \in [1..n -> S]
  <2> HIDE DEF n
  <2>1. rows \in [1..n -> {rows[i] : i \in 1..n}] BY DEF RowsOf
  <2> QED BY <2>1
<1>10. both = Discovery!Page(rows, p.limit, p.offset)
                \o Discovery!Page(rows, p.limit, p.offset + p.limit)
  <2> HIDE DEF rows, n
  <2> QED BY <1>1, <1>4, <1>5, <1>6, <1>7
<1>11. \A i \in 1..n : rows[i].userId = s[i].id
  <2> HIDE DEF n
  <2> QED BY DEF RowsOf, Discovery!Item
<1> HIDE DEF n, rows, both
<1>12. IsRun(both, rows, n, p.offset)
  BY <1>8, <1>9, <1>10, TwoPages
<1>13. \A i, j \in DOMAIN both :
           both[i].userId = both[j].userId => p.offset + i = p.offset + j
  BY <1>7, <1>11, <1>12 DEF IsRun
<1>14. \A i, j \in DOMAIN both : both[i].userId = both[j].userId => i = j
  BY <1>12, <1>13 DEF IsRun
<1> QED BY <1>14 DEF both, NobodyTwice

\* What SearchService finds, in the order it shows it.
HitsOf(users, query, useTrgm) ==
    {u \in Discovery!Creators(users) :
        Discovery!Found(u.profile, query.text,
                        Discovery!resolveSearchMode(query), useTrgm)}

\* Its answer is a page of them, in some order.
LEMMA SearchHits ==
    ASSUME NEW users, Discovery!IsUsers(users), NEW query, NEW limit \in Int,
           NEW useTrgm,
           NEW answer \in Discovery!SearchCreators(users, query, limit,
                                                   useTrgm)
    PROVE  LET S == HitsOf(users, query, useTrgm)
           IN  \E s : /\ IsOrder(s, S)
                      /\ answer.creators = Discovery!Page(
                            RowsOf(s, Cardinality(S)),
                            Discovery!normalizeLimit(limit), 0)
<1> DEFINE S == HitsOf(users, query, useTrgm)
           before(u, v) == Discovery!RankedBefore(u, v, query.text, useTrgm)
           lim == Discovery!normalizeLimit(limit)
           Answer(s) == [i \in DOMAIN s |-> Discovery!Item(s[i])]
<1>1. PICK s \in Discovery!Orders(S, before) :
         answer = [creators |-> Discovery!Page(Answer(s), lim, 0),
                   limit |-> lim]
  BY Zenon DEF Discovery!SearchCreators, HitsOf
<1>2. s \in Discovery!SetToSeqs(S)
  BY Zenon, <1>1 DEF Discovery!Orders
<1>3. IsFiniteSet(S)
  <2>1. IsFiniteSet(users) BY SameFinite DEF Discovery!IsUsers
  <2>2. S \in SUBSET users BY DEF Discovery!Creators, HitsOf
  <2> QED BY <2>1, <2>2, FS_Subset
<1> HIDE DEF S
<1>4. IsOrder(s, S)
  BY <1>2, <1>3, OrderListsAll DEF IsOrder, IsListing
<1>5. Answer(s) = RowsOf(s, Cardinality(S))
  BY <1>4 DEF IsOrder, IsListing, RowsOf
<1>6. answer.creators = Discovery!Page(RowsOf(s, Cardinality(S)), lim, 0)
  BY <1>1, <1>5
<1> QED BY <1>4, <1>6 DEF S

\* One search without pg_trgm and one with it, with room for all it finds,
\* and that whoever the one shows, the other shows.
AreSearches(users, query, limit, plain, similar) ==
    /\ Discovery!IsUsers(users) /\ limit \in Int
    /\ plain \in Discovery!SearchCreators(users, query, limit, FALSE)
    /\ similar \in Discovery!SearchCreators(users, query, limit, TRUE)
    /\ Len(similar.creators) < Discovery!normalizeLimit(limit)

ShownAmong(rows, others) ==
    \A i \in DOMAIN rows : \E j \in DOMAIN others : rows[i] = others[j]

\* pg_trgm only adds.
LEMMA SimilarFindsMore ==
    ASSUME NEW users, NEW query, NEW limit, NEW plain, NEW similar,
           AreSearches(users, query, limit, plain, similar)
    PROVE  ShownAmong(plain.creators, similar.creators)
<1> USE DEF AreSearches
<1> DEFINE S == HitsOf(users, query, FALSE)
           T == HitsOf(users, query, TRUE)
           lim == Discovery!normalizeLimit(limit)
<1>1. S \subseteq T
  BY DEF HitsOf, Discovery!Found
<1>2. lim \in Nat
  BY DEF Discovery!normalizeLimit, Discovery!Least
<1>3. PICK s : /\ IsOrder(s, S)
               /\ plain.creators =
                    Discovery!Page(RowsOf(s, Cardinality(S)), lim, 0)
  BY SearchHits
<1>4. PICK t : /\ IsOrder(t, T)
               /\ similar.creators =
                    Discovery!Page(RowsOf(t, Cardinality(T)), lim, 0)
  BY SearchHits
<1> HIDE DEF S, T, lim
<1> DEFINE m == Cardinality(S)  n == Cardinality(T)
           A == {Discovery!Item(u) : u \in S}
           B == {Discovery!Item(u) : u \in T}
<1>5. /\ m \in Nat /\ RowsOf(s, m) \in [1..m -> A]
      /\ n \in Nat /\ RowsOf(t, n) \in [1..n -> B]
  BY <1>3, <1>4 DEF IsOrder, IsListing, RowsOf
<1>6. /\ IsPage(plain.creators, RowsOf(s, m), m, A, lim, 0)
      /\ IsPage(similar.creators, RowsOf(t, n), n, B, lim, 0)
  <2> HIDE DEF m, n, A, B
  <2> QED BY <1>2, <1>3, <1>4, <1>5, PageOfRows DEF m, n
<1>7. Len(similar.creators) = n
  <2>1. Len(similar.creators) < lim BY DEF lim
  <2> QED BY <1>2, <1>5, <1>6, <2>1 DEF IsPage
<1> SUFFICES ASSUME NEW i \in DOMAIN plain.creators
             PROVE  \E j \in DOMAIN similar.creators :
                       plain.creators[i] = similar.creators[j]
  BY DEF ShownAmong
<1>8. i \in 1..m /\ plain.creators[i] = Discovery!Item(s[i]) /\ s[i] \in T
  <2>1. i \in 1..Len(plain.creators) BY <1>6 DEF IsPage
  <2>2. i \in 1..m BY <1>2, <1>5, <1>6, <2>1 DEF IsPage
  <2>3. plain.creators[i] = RowsOf(s, m)[i] BY <1>6, <2>1 DEF IsPage
  <2>4. s[i] \in S BY <1>3, <2>2 DEF IsOrder, IsListing
  <2> QED BY <1>1, <2>2, <2>3, <2>4 DEF RowsOf, S, T
<1>9. PICK j \in 1..n : t[j] = s[i]
  BY <1>4, <1>8 DEF IsOrder, IsListing
<1>10. j \in DOMAIN similar.creators
  BY <1>6, <1>7, <1>9 DEF IsPage
<1>11. similar.creators[j] = Discovery!Item(t[j])
  <2>1. j \in 1..Len(similar.creators) BY <1>7, <1>9
  <2>2. similar.creators[j] = RowsOf(t, n)[0 + j] BY <1>6, <2>1 DEF IsPage
  <2>3. 0 + j = j BY <1>5, <1>9
  <2> QED BY <1>9, <2>2, <2>3 DEF RowsOf
<1> QED BY <1>8, <1>9, <1>10, <1>11

\* All creators, if one page has room for them.
LEMMA EverybodyFound ==
    ASSUME Null \notin Int, NEW users, Discovery!IsUsers(users),
           NEW all \in Discovery!searchCreators(
                          users, Discovery!AnyCreator(Null, 100)),
           Len(all) < 100
    PROVE  LET S == Discovery!Creators(users)
           IN  /\ IsFiniteSet(S) /\ Len(all) = Cardinality(S)
               /\ DOMAIN all = 1..Cardinality(S)
               /\ \E s : /\ IsOrder(s, S)
                         /\ \A i \in 1..Cardinality(S) :
                               all[i] = Discovery!Item(s[i])
<1> DEFINE S == Discovery!Creators(users)
           any == Discovery!AnyCreator(Null, 100)
<1>1. /\ any.query = Null /\ any.bioQuery = Null /\ any.platform = Null
      /\ any.min = Null /\ any.max = Null /\ any.limit = 100
      /\ any.offset = 0
  BY DEF Discovery!AnyCreator
<1> HIDE DEF any
<1>2. FoundBy(users, any) = S
  BY <1>1 DEF FoundBy, Discovery!Matches
<1>3. PICK s : /\ InOrder(s, users, any)
               /\ all = Discovery!Page(Discovery!Joined(s, any.platform),
                                       any.limit, any.offset)
  BY SearchAnswer DEF any
<1>4. IsFiniteSet(S)
  BY <1>2, FoundIsFinite
<1>5. Discovery!Joined(s, Null) = RowsOf(s, Cardinality(S))
  BY <1>2, <1>3, RowsInOrder
<1>6. IsOrder(s, S)
  BY <1>2, <1>3 DEF InOrder
<1> HIDE DEF S
<1> DEFINE n == Cardinality(S)
           B == {Discovery!Item(u) : u \in S}
<1>7. n \in Nat /\ RowsOf(s, n) \in [1..n -> B]
  BY <1>6 DEF IsOrder, IsListing, RowsOf
<1>8. IsPage(all, RowsOf(s, n), n, B, 100, 0)
  <2>1. all = Discovery!Page(RowsOf(s, n), 100, 0)
    BY <1>1, <1>3, <1>5
  <2>2. 100 \in Nat /\ 0 \in Nat OBVIOUS
  <2> HIDE DEF n, B
  <2> QED BY <1>7, <2>1, <2>2, PageOfRows
<1>9. Len(all) = n /\ DOMAIN all = 1..n
  <2> HIDE DEF n, B
  <2> QED BY <1>7, <1>8 DEF IsPage
<1>10. ASSUME NEW i \in 1..n PROVE all[i] = Discovery!Item(s[i])
  <2>1. i \in 1..Len(all) BY <1>9
  <2>2. all[i] = RowsOf(s, n)[0 + i] BY <1>8, <2>1 DEF IsPage
  <2>3. 0 + i = i BY <1>7
  <2> QED BY <2>2, <2>3 DEF RowsOf
<1> QED BY <1>4, <1>6, <1>9, <1>10 DEF S

\* What getSmeStatsSummary adds up.
Audience(S) == [u \in S |-> Discovery!OrZero(u.profile.audience)]
Score(S)    == [u \in S |-> u.profile.score]
Scored(S)   == {u \in S : u.profile.score # Null}

\* The figures of getSmeStatsSummary are sums over the creators.
LEMMA SummarySums ==
    ASSUME NEW S, IsFiniteSet(S),
           Audience(S) \in [S -> Int], Score(Scored(S)) \in [Scored(S) -> Int]
    PROVE  /\ \E g : /\ Sums(g, S, Audience(S))
                     /\ Discovery!Summary(S).totalReach = g[S]
           /\ \E g : /\ Sums(g, Scored(S), Score(Scored(S)))
                     /\ Discovery!Summary(S).scores = g[Scored(S)]
           /\ Discovery!Summary(S).scored = Cardinality(Scored(S))
           /\ Discovery!Summary(S).onboarded =
                Cardinality({u \in S : u.profile.onboarded})
<1> DEFINE T == Scored(S)
           reach(h) == h = [Q \in SUBSET S |->
              IF Q = {} THEN 0
              ELSE h[Q \ {CHOOSE x \in Q : TRUE}]
                   + Discovery!OrZero((CHOOSE x \in Q : TRUE).profile.audience)]
           score(h) == h = [Q \in SUBSET T |->
              IF Q = {} THEN 0
              ELSE h[Q \ {CHOOSE x \in Q : TRUE}]
                   + (CHOOSE x \in Q : TRUE).profile.score]
<1>1. Discovery!Summary(S).totalReach = (CHOOSE h : reach(h))[S]
  BY Zenon DEF Discovery!Summary, Discovery!SumOf, Discovery!FoldSet,
     Discovery!MapThenFoldSet
<1>2. Discovery!Summary(S).scores = (CHOOSE h : score(h))[T]
  BY Zenon DEF Discovery!Summary, Discovery!SumOf, Discovery!FoldSet,
     Discovery!MapThenFoldSet, Scored
<1>3. /\ Discovery!Summary(S).scored = Cardinality(T)
      /\ Discovery!Summary(S).onboarded =
           Cardinality({u \in S : u.profile.onboarded})
  BY Zenon, SameCardinality DEF Discovery!Summary, Scored
<1>4. IsFiniteSet(T)
  <2>1. T \in SUBSET S BY DEF Scored
  <2> QED BY <2>1, FS_Subset
<1>5. ASSUME NEW h PROVE reach(h) <=> SumsUp(h, S, Audience(S))
  <2> DEFINE mine(Q) == IF Q = {} THEN 0
                        ELSE h[Q \ {CHOOSE x \in Q : TRUE}]
                             + Discovery!OrZero(
                                  (CHOOSE x \in Q : TRUE).profile.audience)
             theirs(Q) == IF Q = {} THEN 0
                          ELSE h[Q \ {Pick(Q)}] + Audience(S)[Pick(Q)]
  <2>3. ASSUME NEW Q \in SUBSET S PROVE mine(Q) = theirs(Q)
    <3>1. CASE Q = {} BY <3>1
    <3>2. CASE Q # {}
      <4>1. mine(Q) = h[Q \ {Pick(Q)}]
                        + Discovery!OrZero(Pick(Q).profile.audience)
        BY Zenon, <3>2 DEF Pick
      <4>2. theirs(Q) = h[Q \ {Pick(Q)}] + Audience(S)[Pick(Q)]
        BY Zenon, <3>2
      <4>3. Pick(Q) \in S BY <3>2 DEF Pick
      <4>4. Audience(S)[Pick(Q)] = Discovery!OrZero(Pick(Q).profile.audience)
        BY <4>3 DEF Audience
      <4> HIDE DEF mine, theirs
      <4> QED BY <4>1, <4>2, <4>4
    <3> QED BY <3>1, <3>2
  <2>4. /\ reach(h) <=> h = [Q \in SUBSET S |-> mine(Q)]
        /\ SumsUp(h, S, Audience(S)) <=> h = [Q \in SUBSET S |-> theirs(Q)]
    BY DEF SumsUp
  <2> HIDE DEF mine, theirs, reach
  <2> QED BY <2>3, <2>4
<1>6. ASSUME NEW h PROVE score(h) <=> SumsUp(h, T, Score(T))
  <2> DEFINE mine(Q) == IF Q = {} THEN 0
                        ELSE h[Q \ {CHOOSE x \in Q : TRUE}]
                             + (CHOOSE x \in Q : TRUE).profile.score
             theirs(Q) == IF Q = {} THEN 0
                          ELSE h[Q \ {Pick(Q)}] + Score(T)[Pick(Q)]
  <2>3. ASSUME NEW Q \in SUBSET T PROVE mine(Q) = theirs(Q)
    <3>1. CASE Q = {} BY <3>1
    <3>2. CASE Q # {}
      <4>1. mine(Q) = h[Q \ {Pick(Q)}] + Pick(Q).profile.score
        BY Zenon, <3>2 DEF Pick
      <4>2. theirs(Q) = h[Q \ {Pick(Q)}] + Score(T)[Pick(Q)]
        BY Zenon, <3>2
      <4>3. Pick(Q) \in T BY <3>2 DEF Pick
      <4>4. Score(T)[Pick(Q)] = Pick(Q).profile.score
        BY <4>3 DEF Score
      <4> HIDE DEF mine, theirs
      <4> QED BY <4>1, <4>2, <4>4
    <3> QED BY <3>1, <3>2
  <2>4. /\ score(h) <=> h = [Q \in SUBSET T |-> mine(Q)]
        /\ SumsUp(h, T, Score(T)) <=> h = [Q \in SUBSET T |-> theirs(Q)]
    BY DEF SumsUp
  <2> HIDE DEF mine, theirs, score
  <2> QED BY <2>3, <2>4
<1> DEFINE g == CHOOSE h : reach(h)
           k == CHOOSE h : score(h)
<1> HIDE DEF reach, score
<1>7. reach(g)
  BY <1>5, SumExists
<1>8. score(k)
  BY <1>4, <1>6, SumExists
<1> HIDE DEF g, k
<1>9. Sums(g, S, Audience(S)) /\ Sums(k, T, Score(T))
  BY <1>4, <1>5, <1>6, <1>7, <1>8, SumIsOfAll
<1> QED BY <1>1, <1>2, <1>3, <1>9 DEF g, k

\* The figures an SME is shown are of the creators a search shows.
FiguresFit(s, all) ==
    LET sum[n \in 0..Len(all)] ==
            IF n = 0 THEN 0 ELSE sum[n - 1] + all[n].audience
    IN  /\ s.totalReach = sum[Len(all)]
        /\ s.discoveryCoverage \in 0..100
        /\ s.totalCreators >= Len(all)
        /\ (\A i \in DOMAIN all : all[i].score = Null)
             \/ \E i, j \in DOMAIN all :
                  /\ all[i].score # Null /\ all[j].score # Null
                  /\ 10 * all[i].score <= s.avgInfluenceScore
                  /\ s.avgInfluenceScore <= 10 * all[j].score

\* The statistics fit a search that finds everybody.
LEMMA FiguresOfTheFound ==
    ASSUME Null \notin Int, NEW users, Discovery!IsUsers(users),
           NEW all \in Discovery!searchCreators(
                          users, Discovery!AnyCreator(Null, 100)),
           Len(all) < 100
    PROVE  FiguresFit(Discovery!getSmeStats(users), all)
<1> DEFINE S == Discovery!Creators(users)
           T == Scored(S)
           n == Len(all)
           stats == Discovery!getSmeStats(users)
           summary == Discovery!Summary(S)
           every == {u \in users : u.role = "creator"}
           total == Cardinality(every)
           board == {u \in S : u.profile.onboarded}
           IsSum(r) == r = [m \in 0..n |-> IF m = 0 THEN 0
                                           ELSE r[m - 1] + all[m].audience]
           InReach == \A i \in DOMAIN all : all[i].score = Null
           Between(x) == \E i, j \in DOMAIN all :
                            /\ all[i].score # Null /\ all[j].score # Null
                            /\ 10 * all[i].score <= x
                            /\ x <= 10 * all[j].score
<1>1. /\ IsFiniteSet(S) /\ n = Cardinality(S) /\ DOMAIN all = 1..n
      /\ \E s : /\ IsOrder(s, S)
                /\ \A i \in 1..n : all[i] = Discovery!Item(s[i])
  BY EverybodyFound
<1>2. PICK s : /\ IsOrder(s, S)
               /\ \A i \in 1..n : all[i] = Discovery!Item(s[i])
  BY <1>1
<1>3. /\ n \in Nat /\ s \in [1..n -> S]
      /\ \A i, j \in 1..n : s[i] = s[j] => i = j
      /\ \A u \in S : \E i \in 1..n : s[i] = u
      /\ \A i \in 1..n : /\ all[i].score = s[i].profile.score
                         /\ all[i].audience =
                              Discovery!OrZero(s[i].profile.audience)
  BY <1>1, <1>2 DEF IsOrder, IsListing, Discovery!Item
<1>4. /\ stats.totalReach = summary.totalReach
      /\ stats.avgInfluenceScore =
           IF summary.scored = 0 THEN 0
           ELSE Discovery!Rounded(10 * summary.scores, summary.scored)
      /\ stats.totalCreators = total
      /\ stats.discoveryCoverage =
           IF total > 0 THEN Discovery!Rounded(100 * summary.onboarded, total)
           ELSE 0
  BY SameCardinality DEF Discovery!getSmeStats, Discovery!getSmeStatsSummary,
     Discovery!countByRole
<1>5. /\ Audience(S) \in [S -> Int]
      /\ Score(T) \in [T -> Int]
  BY DEF Audience, Score, Scored, Discovery!OrZero, Discovery!IsUsers,
     Discovery!Creators
<1>6. /\ S \subseteq every /\ board \subseteq S /\ board \subseteq every
      /\ IsFiniteSet(every)
  <2>1. IsFiniteSet(users) BY SameFinite DEF Discovery!IsUsers
  <2>2. every \in SUBSET users OBVIOUS
  <2>3. IsFiniteSet(every) BY <2>1, <2>2, FS_Subset
  <2> QED BY <2>3 DEF Discovery!Creators
<1>7. /\ T \subseteq S /\ IsFiniteSet(T)
  <2>1. T \in SUBSET S BY DEF Scored
  <2> QED BY <1>1, <2>1, FS_Subset
<1>8. /\ \E g : Sums(g, S, Audience(S)) /\ summary.totalReach = g[S]
      /\ \E k : Sums(k, T, Score(T)) /\ summary.scores = k[T]
      /\ summary.scored = Cardinality(T)
      /\ summary.onboarded = Cardinality(board)
  BY <1>1, <1>5, SummarySums
<1> HIDE DEF S, T, n, stats, summary, every, total, board
<1>9. stats.totalReach = (CHOOSE r : IsSum(r))[n]
  <2>1. PICK g : Sums(g, S, Audience(S)) /\ summary.totalReach = g[S]
    BY <1>8
  <2> DEFINE a == [i \in 1..n |-> Audience(S)[s[i]]]
             r == CHOOSE q : IsSum(q)
  <2>2. a \in [1..n -> Int]
    BY <1>3, <1>5
  <2>3. \A i \in 1..n : a[i] = all[i].audience
    BY <1>3 DEF Audience
  <2>4. ASSUME NEW q PROVE IsSum(q) <=> AddsUp(q, n, a)
    <3> DEFINE mine(m) == IF m = 0 THEN 0 ELSE q[m - 1] + all[m].audience
               theirs(m) == IF m = 0 THEN 0 ELSE q[m - 1] + a[m]
    <3>1. \A m \in 0..n : m # 0 => m \in 1..n BY <1>3
    <3> HIDE DEF a
    <3>2. \A m \in 0..n : mine(m) = theirs(m) BY <2>3, <3>1
    <3>3. /\ IsSum(q) <=> q = [m \in 0..n |-> mine(m)]
          /\ AddsUp(q, n, a) <=> q = [m \in 0..n |-> theirs(m)]
      BY DEF AddsUp
    <3> HIDE DEF mine, theirs, IsSum
    <3> QED BY <3>2, <3>3
  <2> HIDE DEF a, IsSum
  <2>5. IsSum(r) BY <1>3, <2>2, <2>4, PrefixSumsExist
  <2>6. AddsUp(r, n, a) BY <2>4, <2>5
  <2> HIDE DEF r
  <2>7. RunningSums(r, n, a)
    BY <1>3, <2>2, <2>6, PrefixSums
  <2>8. RunsAlong(r, n, Audience(S), s)
    BY <2>7 DEF a, RunningSums, RunsAlong
  <2>9. IsListing(s, n, S)
    BY <1>3 DEF IsListing
  <2>10. r[n] = g[S]
    BY <1>1, <1>3, <1>5, <2>1, <2>8, <2>9, SumAlong
  <2> QED BY <1>4, <2>1, <2>10 DEF r
<1>10. stats.totalCreators >= n
  <2>1. Cardinality(S) <= Cardinality(every) BY <1>6, FS_Subset
  <2>2. Cardinality(every) \in Nat BY <1>6, FS_CardinalityType
  <2> QED BY <1>1, <1>3, <1>4, <2>1, <2>2 DEF total
<1>11. stats.discoveryCoverage \in 0..100
  <2>1. /\ Cardinality(board) <= total /\ Cardinality(board) \in Nat
        /\ total \in Nat
    <3>1. IsFiniteSet(board) BY <1>6, FS_Subset
    <3> QED BY <1>6, <3>1, FS_Subset, FS_CardinalityType DEF total
  <2>2. CASE total > 0
    <3> DEFINE c == 100 * Cardinality(board)
    <3>1. c \in Int /\ total * 0 <= c /\ c <= total * 100
      BY <2>1
    <3>2. total \in Nat \ {0} BY <2>1, <2>2
    <3> HIDE DEF c
    <3>3. /\ 0 <= (2 * c + total) \div (2 * total)
          /\ (2 * c + total) \div (2 * total) <= 100
      BY <3>1, <3>2, Rounds
    <3>4. (2 * c + total) \div (2 * total) \in Int
      BY <3>1, <3>2, Quotient
    <3>5. stats.discoveryCoverage = (2 * c + total) \div (2 * total)
      BY <1>4, <1>8, <2>2 DEF c, Discovery!Rounded
    <3> DEFINE v == (2 * c + total) \div (2 * total)
    <3>6. v \in Int /\ 0 <= v /\ v <= 100 BY <3>3, <3>4
    <3>7. stats.discoveryCoverage = v BY <3>5
    <3> HIDE DEF v
    <3> QED BY <3>6, <3>7
  <2>3. CASE ~(total > 0)
    BY <1>4, <2>3
  <2> QED BY <2>2, <2>3
<1>12. InReach \/ Between(stats.avgInfluenceScore)
  <2>1. CASE T = {}
    <3>1. \A u \in S : u.profile.score = Null
      BY <2>1 DEF T, Scored
    <3> QED BY <1>1, <1>3, <3>1
  <2>2. CASE T # {}
    <3> DEFINE m == Cardinality(T)  f == Score(T)
    <3>1. m \in Nat \ {0}
      BY <1>7, <2>2, FS_CardinalityType, FS_EmptySet
    <3>2. PICK x \in T : \A y \in T : f[x] <= f[y]
      BY <1>5, <1>7, <2>2, Extremes
    <3>3. PICK z \in T : \A y \in T : f[y] <= f[z]
      BY <1>5, <1>7, <2>2, Extremes
    <3>4. PICK k : Sums(k, T, f) /\ summary.scores = k[T]
      BY <1>8
    <3> HIDE DEF m, f
    <3>5. f[x] \in Int /\ f[z] \in Int /\ f \in [T -> Int]
      BY <1>5 DEF f
    <3>6. m * f[x] <= k[T] /\ k[T] <= m * f[z]
      BY <1>7, <3>2, <3>3, <3>4, <3>5, SumBounds DEF m
    <3>7. k[T] \in Int BY <3>4 DEF Sums
    <3> DEFINE a == f[x]  b == f[z]  t == k[T]
    <3> HIDE DEF a, b, t
    <3>8. /\ a \in Int /\ b \in Int /\ t \in Int
          /\ m * a <= t /\ t <= m * b
      BY <3>5, <3>6, <3>7 DEF a, b, t
    <3>9. m * (10 * a) <= 10 * t /\ 10 * t <= m * (10 * b)
      <4> DEFINE ma == m * a  mb == m * b
      <4>1. ma \in Int /\ mb \in Int BY <3>1, <3>8
      <4>2. m * (10 * a) = 10 * ma /\ m * (10 * b) = 10 * mb
        BY <3>1, <3>8
      <4>3. ma <= t /\ t <= mb BY <3>8
      <4> HIDE DEF ma, mb
      <4>4. 10 * ma <= 10 * t /\ 10 * t <= 10 * mb BY <3>8, <4>1, <4>3
      <4> QED BY <4>2, <4>4
    <3> DEFINE tt == 10 * t  aa == 10 * a  bb == 10 * b
    <3>10. tt \in Int /\ aa \in Int /\ bb \in Int BY <3>8
    <3>11. m * aa <= tt /\ tt <= m * bb BY <3>9
    <3> HIDE DEF tt, aa, bb
    <3>12. /\ aa <= (2 * tt + m) \div (2 * m)
           /\ (2 * tt + m) \div (2 * m) <= bb
      BY <3>1, <3>10, <3>11, Rounds
    <3>13. stats.avgInfluenceScore = (2 * tt + m) \div (2 * m)
      <4>1. summary.scored = m BY <1>8 DEF m
      <4>2. summary.scores = t BY <3>4 DEF t
      <4> QED BY <1>4, <3>1, <4>1, <4>2 DEF tt, Discovery!Rounded
    <3>14. PICK i \in 1..n : s[i] = x BY <1>3, <1>7
    <3>15. PICK j \in 1..n : s[j] = z BY <1>3, <1>7
    <3>16. /\ all[i].score = a /\ all[j].score = b
           /\ all[i].score # Null /\ all[j].score # Null
      <4>1. f[x] = x.profile.score /\ f[z] = z.profile.score
        BY DEF f, Score
      <4>2. x.profile.score # Null /\ z.profile.score # Null
        BY DEF T, Scored
      <4> QED BY <1>3, <3>14, <3>15, <4>1, <4>2 DEF a, b
    <3>17. /\ 10 * all[i].score <= stats.avgInfluenceScore
           /\ stats.avgInfluenceScore <= 10 * all[j].score
      BY <3>12, <3>13, <3>16 DEF aa, bb
    <3> HIDE DEF a, b, t
    <3> QED BY <1>1, <3>14, <3>15, <3>16, <3>17
  <2> QED BY <2>1, <2>2
<1> QED BY <1>9, <1>10, <1>11, <1>12 DEF n, stats, FiguresFit

(* Searches over any number of users: two pages in a row show nobody       *)
(* twice, pg_trgm only adds to what is found, and the figures shown beside *)
(* a search that has room for all creators are those of its creators       *)
(* (searchCreators of both repositories, getSmeStats).                     *)
THEOREM SearchesAlwaysAgree == Spec => []SearchesAgree
<1>1. CaseGiven /\ ResultOfCase => PagesDoNotOverlap
  <2> SUFFICES ASSUME CaseGiven, ResultOfCase, Evaluated("pages"),
                      case.params.platform = Null
               PROVE  LET both == result.first \o result.second
                      IN  \A i, j \in DOMAIN both :
                             both[i].userId = both[j].userId => i = j
    BY DEF PagesDoNotOverlap, Distinct
  <2>1. /\ Discovery!IsUsers(case.users) /\ Discovery!IsParams(case.params)
        /\ case.params.limit \in Nat /\ case.params.offset \in Nat
        /\ Null \notin Int
    BY CasesAssumption DEF CaseGiven, Evaluated
  <2>2. PICK first \in PageAt(case, case.params.offset),
             second \in PageAt(case, case.params.offset + case.params.limit) :
               result = [first |-> first.creators,
                         second |-> second.creators]
    BY DEF ResultOfCase, Makes, Evaluated
  <2>3. result.first = first.creators /\ result.second = second.creators
    BY <2>2
  <2>4. ArePages(case.users, case.params, first, second)
    BY <2>1 DEF PageAt, ArePages
  <2>5. NobodyTwice(first.creators, second.creators)
    BY <2>1, <2>4, PagesDiffer
  <2> QED
    BY <2>3, <2>5 DEF NobodyTwice
<1>2. CaseGiven /\ ResultOfCase => SimilarityOnlyAdds
  <2> SUFFICES ASSUME CaseGiven, ResultOfCase, Evaluated("search"),
                      Len(result.similar)
                        < Discovery!normalizeLimit(case.limit)
               PROVE  \A i \in DOMAIN result.plain :
                        \E j \in DOMAIN result.similar :
                           result.plain[i] = result.similar[j]
    BY DEF SimilarityOnlyAdds
  <2>1. Discovery!IsUsers(case.users) /\ case.limit \in Int
    BY CasesAssumption DEF CaseGiven, Evaluated
  <2>2. PICK plain \in Discovery!SearchCreators(case.users, case.query,
                                                case.limit, FALSE),
             similar \in Discovery!SearchCreators(case.users, case.query,
                                                  case.limit, TRUE) :
               result = [plain |-> plain.creators,
                         similar |-> similar.creators]
    BY DEF ResultOfCase, Makes, Evaluated
  <2>3. result.plain = plain.creators /\ result.similar = similar.creators
    BY <2>2
  <2>4. AreSearches(case.users, case.query, case.limit, plain, similar)
    BY <2>1, <2>3 DEF AreSearches
  <2>5. ShownAmong(plain.creators, similar.creators)
    BY <2>4, SimilarFindsMore
  <2> QED
    BY <2>3, <2>5 DEF ShownAmong
<1>3. CaseGiven /\ ResultOfCase => StatsAreOfTheFound
  <2> SUFFICES ASSUME CaseGiven, ResultOfCase, Evaluated("stats"),
                      Len(result.all) < 100
               PROVE  StatsAreOfTheFound
    BY DEF StatsAreOfTheFound
  <2>1. Discovery!IsUsers(case.users) /\ Null \notin Int
    BY CasesAssumption DEF CaseGiven, Evaluated
  <2>2. PICK all \in Discovery!searchCreators(
                        case.users, Discovery!AnyCreator(Null, 100)) :
               result = [stats |-> Discovery!getSmeStats(case.users),
                         all |-> all]
    BY DEF ResultOfCase, Makes, Evaluated
  <2>3. result.all = all /\ result.stats = Discovery!getSmeStats(case.users)
    BY <2>2
  <2>4. Len(all) < 100 BY <2>3
  <2>5. FiguresFit(Discovery!getSmeStats(case.users), all)
    BY <2>1, <2>4, FiguresOfTheFound
  <2> QED
    BY <2>3, <2>5, Zenon DEF StatsAreOfTheFound, FiguresFit
<1> QED
  BY <1>1, <1>2, <1>3, CasesInvariant, PTL DEF SearchesAgree

-----------------------------------------------------------------------------
(* Insights.                                                               *)

\* What is known of a response to a request.
LEMMA ResponsesAreGiven ==
    ASSUME CaseGiven, ResultOfCase, Evaluated("insights")
    PROVE  /\ AreChannels(case.channels) /\ case.limit \in Nat
           /\ case.later \in Int /\ Null \notin Int /\ Day \in Nat \ {0}
           /\ result.audience = AudienceOf(case)
           /\ result.content = ContentOf(case)
           /\ result.performance = PerformanceOf(case)
           /\ result.sme = SmeOf(case)
<1>1. case.kind = "insights" /\ case \in InsightCases
  BY DEF CaseGiven, Evaluated
<1>2. /\ AreChannels(case.channels)
      /\ case.limit \in Nat /\ case.later \in Int
      /\ Null \notin Int /\ Day \in Nat \ {0}
  BY <1>1, CasesAssumption
<1>3. Makes(case, result)
  BY DEF ResultOfCase, Evaluated
<1>4. result = [audience |-> AudienceOf(case), content |-> ContentOf(case),
                performance |-> PerformanceOf(case), sme |-> SmeOf(case)]
  BY <1>1, <1>3 DEF Makes
<1> QED BY <1>2, <1>4

(* Insights over any channels, windows and moments, whichever of the       *)
(* channels created at one moment and of the videos published at one       *)
(* moment the queries return: the month adds up to the time series, the    *)
(* week to its last days, six or seven of them, content and top content    *)
(* list the same videos, and an SME sees of a creator what the creator     *)
(* sees (getPerformanceInsights, getAudienceInsights, getContentInsights,  *)
(* getCreatorProfileForSme).                                               *)
THEOREM FiguresAlwaysAgree == Spec => []FiguresAgree
<1>1. CaseGiven /\ ResultOfCase => InsightsAddUp
  <2> SUFFICES ASSUME CaseGiven, ResultOfCase, Evaluated("insights"),
                      NEW p \in result.performance, NEW a \in result.audience,
                      a.channel = p.given.channel
               PROVE  FiguresAdd(p.response, a.response.audience, case.later)
    BY DEF InsightsAddUp
  <2>1. PICK q \in Insights!Queried(case.channels, case.limit) :
           p = [given |-> q,
                response |-> Insights!getPerformanceInsights(
                    q.channel, q.videos, case.days, case.now, case.later)]
    BY ResponsesAreGiven DEF PerformanceOf
  <2>2. PICK channel \in Insights!getLatestChannelForUser(case.channels) :
           a = [channel |-> channel,
                response |-> Insights!getAudienceInsights(
                    case.profile, channel, case.days, case.now)]
    BY ResponsesAreGiven DEF AudienceOf
  <2>3. channel = q.channel
    BY <2>1, <2>2
  <2>4. /\ p.response = Insights!getPerformanceInsights(
             channel, q.videos, case.days, case.now, case.later)
        /\ a.response = Insights!getAudienceInsights(
             case.profile, channel, case.days, case.now)
    BY <2>1, <2>2, <2>3
  <2>5. CASE channel = Null
    BY <2>4, <2>5, FiguresOfNobody
  <2>6. CASE channel # Null
    <3>1. Insights!IsChannel(channel)
      BY <2>6, ResponsesAreGiven, LatestIsOne
    <3> QED BY <2>4, <2>6, <3>1, ResponsesAreGiven, FiguresOfChannel
  <2> QED BY <2>5, <2>6
<1>2. CaseGiven /\ ResultOfCase => ContentIsTop
  <2> SUFFICES ASSUME CaseGiven, ResultOfCase, Evaluated("insights"),
                      NEW p \in result.performance, NEW c \in result.content,
                      c.given = p.given
               PROVE  SameVideos(c.response.items, p.response.topContent)
    BY DEF ContentIsTop
  <2>1. PICK q \in Insights!Queried(case.channels, case.limit) :
           p = [given |-> q,
                response |-> Insights!getPerformanceInsights(
                    q.channel, q.videos, case.days, case.now, case.later)]
    BY ResponsesAreGiven DEF PerformanceOf
  <2>2. PICK o \in Insights!Queried(case.channels, case.limit) :
           c = [given |-> o,
                response |-> Insights!getContentInsights(
                                 o.channel, o.videos, case.limit)]
    BY ResponsesAreGiven DEF ContentOf
  <2>3. o = q
    BY <2>1, <2>2
  <2>4. /\ p.response = Insights!getPerformanceInsights(
             q.channel, q.videos, case.days, case.now, case.later)
        /\ c.response = Insights!getContentInsights(
                           q.channel, q.videos, case.limit)
    BY <2>1, <2>2, <2>3
  <2>5. CASE q.channel = Null
    <3>1. c.response.items = <<>>
      BY <2>4, <2>5 DEF Insights!getContentInsights
    <3>2. p.response.topContent = <<>>
      BY <2>4, <2>5 DEF Insights!getPerformanceInsights,
         Insights!buildEmptyPerformance
    <3> QED BY <3>1, <3>2 DEF SameVideos
  <2>6. CASE q.channel # Null
    <3>1. Insights!IsChannel(q.channel)
      BY <2>6, ResponsesAreGiven, QueriedIsShown, LatestIsOne
    <3>2. q.videos \in Insights!getRecentVideosWithScores(q.channel,
                                                          case.limit)
      BY <2>6, QueriedIsShown
    <3>3. p.response.topContent = Insights!buildTopContent(q.videos)
      BY <2>4, <2>6 DEF Insights!getPerformanceInsights
    <3>4. SameVideos(c.response.items, Insights!buildTopContent(q.videos))
      BY <2>4, <2>6, <3>1, <3>2, ResponsesAreGiven, ContentIsTopContent
    <3> QED BY <3>3, <3>4
  <2> QED BY <2>5, <2>6
<1>3. CaseGiven /\ ResultOfCase => SmeSeesTheSame
  <2> SUFFICES ASSUME CaseGiven, ResultOfCase, Evaluated("insights"),
                      NEW s \in result.sme, NEW p \in result.performance,
                      s.given.channel = p.given.channel
               PROVE  LET shown == s.response.contentPerformance
                      IN  IF s.given.channel = Null THEN shown = Null
                          ELSE /\ SameGrowth(shown, p.response)
                               /\ s.given = p.given => shown = p.response
    BY DEF SmeSeesTheSame
  <2>1. PICK q \in Insights!Queried(case.channels, case.limit) :
           p = [given |-> q,
                response |-> Insights!getPerformanceInsights(
                    q.channel, q.videos, case.days, case.now, case.later)]
    BY ResponsesAreGiven DEF PerformanceOf
  <2>2. PICK o \in Insights!Queried(case.channels, case.limit) :
           s = [given |-> o,
                response |-> Insights!getCreatorProfileForSme(
                    case.profile, o.channel, o.videos, case.days, case.now,
                    case.later)]
    BY ResponsesAreGiven DEF SmeOf
  <2> DEFINE channel == q.channel
             sme == Insights!getCreatorProfileForSme(
                        case.profile, channel, o.videos, case.days, case.now,
                        case.later)
             shown(videos) == Insights!getPerformanceInsights(
                        channel, videos, case.days, case.now, case.later)
  <2>3. s.given.channel = channel /\ o.channel = channel
    BY <2>1, <2>2
  <2>4. s.response = sme /\ s.given = o
    BY <2>2, <2>3
  <2>5. p.response = shown(q.videos) /\ p.given = q
    BY <2>1
  <2>6. CASE channel = Null
    <3>1. sme.contentPerformance = Null
      BY <2>6 DEF Insights!getCreatorProfileForSme
    <3> HIDE DEF channel, sme
    <3> QED BY <2>3, <2>4, <2>6, <3>1
  <2>7. CASE channel # Null
    <3>1. Insights!IsChannel(channel)
      BY <2>7, ResponsesAreGiven, QueriedIsShown, LatestIsOne
    <3>2. o.videos \in Insights!getRecentVideosWithScores(channel, case.limit)
      BY <2>3, <2>7, QueriedIsShown
    <3>3. sme.contentPerformance = shown(o.videos)
      BY <2>7, <3>1, <3>2, ResponsesAreGiven, SmeIsShownTheSame
    <3>4. SameGrowth(shown(o.videos), shown(q.videos))
      BY <2>7, GrowthIsOfChannel
    <3> HIDE DEF channel, sme, shown
    <3>5. o = q => shown(o.videos) = shown(q.videos)
      OBVIOUS
    <3> QED BY <2>3, <2>4, <2>5, <2>7, <3>3, <3>4, <3>5
  <2> HIDE DEF channel
  <2> QED BY <2>6, <2>7
<1> QED
  BY <1>1, <1>2, <1>3, CasesInvariant, PTL DEF FiguresAgree

-----------------------------------------------------------------------------
(* The rows.                                                               *)

(* Whatever Google answers, if a video, a comment and a value of a report  *)
(* have each an id of their own: the API and the worker make the same rows *)
(* of it but for the durations and the upload playlist, no batch holds a   *)
(* conflict key twice, no comment of a stored video is lost, and the       *)
(* scoring job is given the rates the insights show (persistNormalizedData *)
(* of youtube.service.ts, syncUser of youtube-sync.service.ts).            *)
THEOREM RowsAlwaysAgree == Spec => []RowsAgree
<1>1. CaseGiven /\ ResultOfCase => RowsAgree
  <2> SUFFICES ASSUME CaseGiven, ResultOfCase, Evaluated("rows")
               PROVE  RowsAgree
    BY DEF RowsAgree, SameRows, NoKeyTwice, CommentsComplete,
       OneEngagementRate
  <2> DEFINE a == Api!ApiRows(case.user, case.google)
             w == Worker!WorkerRows(case.user, case.google)
             j == Api!EnqueueIngestionJobs(case.google, 10, a.videos)
  <2>1. IsAnswer(case.user, case.google) /\ Null \notin Int
    BY CasesAssumption DEF CaseGiven, Evaluated
  <2>2. result = [api |-> a, worker |-> w, job |-> j]
    BY Zenon DEF ResultOfCase, Makes, Evaluated
  <2>3. /\ Comparable(a) = Comparable(w) /\ KeysDiffer(a) /\ KeysDiffer(w)
        /\ HasEveryComment(a, case.google.threads)
        /\ HasEveryComment(w, case.google.threads)
        /\ SameRates(a.videos, j)
    BY Zenon, <2>1, AnswersAgree
  <2> HIDE DEF a, w, j
  <2>4. result.api = a /\ result.worker = w /\ result.job = j
    BY <2>2
  <2> QED
    BY <2>3, <2>4
    DEF RowsAgree, SameRows, NoKeyTwice, CommentsComplete, OneEngagementRate
<1> QED
  BY <1>1, CasesInvariant, PTL
=============================================================================
