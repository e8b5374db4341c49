------------------------------ MODULE Tenants ------------------------------
(***************************************************************************)
(* Who gets into which tenant and whom they may look up: signup,           *)
(* adminSignup, the logins and updatePassword of auth.service.ts, and the  *)
(* tenant-aware reads of users.service.ts.  A tenant is found or created   *)
(* by its slug, which the code makes of a display name and a role; no      *)
(* transaction spans the statements of a signup, so several of them        *)
(* interleave and each may fail on the way.                                *)
(*                                                                         *)
(* A user is named by the e-mail address, which is unique, a tenant by its *)
(* slug, which is too.  A slug is the pair of what precedes and what       *)
(* follows its last hyphen.  Which Google account leads to which user is   *)
(* in GoogleAccounts: here a sign-in with Google goes by the address.      *)
(***************************************************************************)
CONSTANTS
    People,     \* e-mail addresses
    Slugify,    \* what slugify makes of each display name
    Forms,      \* what signups are sent: [email, name, role, google]
    Handlers,   \* signups under way
    None

VARIABLES
    tenants,    \* the slugs of the rows of tenants
    accounts,   \* the row of users with each address, None without one
    tokens,     \* the users who have been given tokens
    at,         \* the next await of each signup
    form        \* what it was sent

accountVars == <<tenants, accounts, tokens, at, form>>

\* The roles the public forms allow; the one of adminSignup is "admin".
PublicRoles == {"sme", "creator"}
Roles       == PublicRoles \cup {"admin"}

AccountsInit ==
    /\ tenants = {}
    /\ accounts = [p \in People |-> None]
    /\ tokens = {}
    /\ at = [h \in Handlers |-> "idle"]
    /\ form = [h \in Handlers |-> None]

Goes(h, label) == at' = [at EXCEPT ![h] = label] /\ UNCHANGED form
Done(h) == /\ at' = [at EXCEPT ![h] = "idle"]
           /\ form' = [form EXCEPT ![h] = None]

(* Faulty: the role is no part of the slug.                                *)
PreferredSlug_NoRole(name, role) == <<Slugify[name], "workspace">>
PreferredSlug(name, role) == <<Slugify[name], role>>

Slug(f) == IF f.role = "admin" THEN <<"platform", "admin">>
           ELSE PreferredSlug(f.name, f.role)

Account == [role : Roles, tenant : {Slug(f) : f \in Forms},
            hasPassword : BOOLEAN]

-----------------------------------------------------------------------------
Receive(h, f) ==
    /\ at[h] = "idle"
    /\ at' = [at EXCEPT ![h] = "findUser"]
    /\ form' = [form EXCEPT ![h] = f]
    /\ UNCHANGED <<tenants, accounts, tokens>>

\* A signup for an address that is taken is refused, a sign-in with Google
\* goes on as that user.
FindByEmail(h) ==
    /\ at[h] = "findUser"
    /\ \/ accounts[form[h].email] = None /\ Goes(h, "findTenant")
       \/ accounts[form[h].email] # None
            /\ IF form[h].google THEN Goes(h, "issue") ELSE Done(h)
    /\ UNCHANGED <<tenants, accounts, tokens>>

FindTenantBySlug(h) ==
    /\ at[h] = "findTenant"
    /\ Goes(h, IF Slug(form[h]) \in tenants THEN "createUser"
               ELSE "createTenant")
    /\ UNCHANGED <<tenants, accounts, tokens>>

CreateTenant(h) ==
    /\ at[h] = "createTenant"
    /\ Slug(form[h]) \notin tenants
    /\ tenants' = tenants \cup {Slug(form[h])}
    /\ Goes(h, "createUser")
    /\ UNCHANGED <<accounts, tokens>>

CreateUser(h) ==
    /\ at[h] = "createUser"
    /\ LET f == form[h]
       IN  /\ accounts[f.email] = None
           /\ accounts' = [accounts EXCEPT ![f.email] =
                  [role |-> f.role, tenant |-> Slug(f),
                   hasPassword |-> ~f.google]]
    /\ Goes(h, "createProfile")
    /\ UNCHANGED <<tenants, tokens>>

\* The row of user_profiles, which nothing here depends on.
CreateProfile(h) ==
    /\ at[h] = "createProfile"
    /\ Goes(h, "issue")
    /\ UNCHANGED <<tenants, accounts, tokens>>

IssueTokens(h) ==
    /\ at[h] = "issue"
    /\ tokens' = tokens \cup {form[h].email}
    /\ Done(h)
    /\ UNCHANGED <<tenants, accounts>>

\* Any await may throw: a statement fails, or a unique index refuses the
\* tenant or the user another request has created meanwhile.
Abort(h) ==
    /\ at[h] # "idle"
    /\ Done(h)
    /\ UNCHANGED <<tenants, accounts, tokens>>

\* login and adminLogin: what they read of a user but the password never
\* changes, so it is as good as read when the tokens are issued.
Login(p, roles) ==
    /\ accounts[p] # None /\ accounts[p].hasPassword
    /\ accounts[p].role \in roles
    /\ tokens' = tokens \cup {p}
    /\ UNCHANGED <<tenants, accounts, at, form>>

login(p)      == Login(p, PublicRoles)
adminLogin(p) == Login(p, {"admin"})

\* A user without a password may set one.
updatePassword(p) ==
    /\ p \in tokens
    /\ accounts' = [accounts EXCEPT ![p].hasPassword = TRUE]
    /\ UNCHANGED <<tenants, tokens, at, form>>

AccountsNext ==
    \/ \E h \in Handlers :
         \/ \E f \in Forms : Receive(h, f)
         \/ FindByEmail(h) \/ FindTenantBySlug(h) \/ CreateTenant(h)
         \/ CreateUser(h) \/ CreateProfile(h) \/ IssueTokens(h) \/ Abort(h)
    \/ \E p \in People : login(p) \/ adminLogin(p) \/ updatePassword(p)

AccountsSpec == AccountsInit /\ [][AccountsNext]_accountVars

-----------------------------------------------------------------------------
(* The users a holder of tokens can look up: by id, or in the list of the  *)
(* tenant, which is for SMEs.                                              *)
getAccessibleUser(actor, p) ==
    /\ \/ accounts[actor].role = "admin"
       \/ accounts[p].tenant = accounts[actor].tenant
    /\ accounts[actor].role = "creator" => p = actor

getTenantUsers(actor) ==
    {p \in People : /\ accounts[actor].role = "sme" /\ accounts[p] # None
                    /\ accounts[p].tenant = accounts[actor].tenant}

(* Whatever names people choose and however their signups interleave, fail *)
(* and are repeated: nobody but an administrator can look up users of      *)
(* another role, or an administrator (resolveTenantForSignup and           *)
(* resolveAdminTenantId against getAccessibleUserOrThrow and               *)
(* getTenantUsers, which compare tenants only).                            *)
TenantsApart ==
    \A actor \in tokens, p \in People :
        /\ accounts[actor] # None
        /\ accounts[p] # None /\ accounts[actor].role # "admin"
             /\ (getAccessibleUser(actor, p) \/ p \in getTenantUsers(actor))
             => accounts[p].role = accounts[actor].role
=============================================================================
