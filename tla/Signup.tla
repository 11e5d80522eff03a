------------------------------- MODULE Signup -------------------------------
(***************************************************************************)
(* How an account and its organization come to be, and what unlocks the    *)
(* organization's free credit: instant signup, emailed codes and links,    *)
(* OAuth, invites, the proof of an inbox or a saved card, the rotation of  *)
(* credentials at the first unlock, and the removal of accounts that were  *)
(* never provisioned.                                                      *)
(*                                                                         *)
(* The routes call GoTrue and the database one call at a time and overlap; *)
(* triggers and database functions are one step. Team management and key   *)
(* minting, which OrgAccess models in detail, are single steps here.       *)
(***************************************************************************)
EXTENDS Integers, FiniteSetsExt

CONSTANTS
    Users,             \* the accounts GoTrue may ever create
    OAuthUsers,        \* those it creates for a sign-in with a provider
    Address,           \* the email address of each
    Handlers,          \* requests in flight
    MaxKeys,           \* bound: rows of api_keys
    MaxRequests,       \* bound: requests, not counting mail opened, keys, removals
    Null

Orgs == Users          \* an organization is named after the user who founds it
Keys == 1 .. MaxKeys

ASSUME SignupConstants ==
    /\ OAuthUsers \subseteq Users
    /\ DOMAIN Address = Users
    /\ {MaxKeys, MaxRequests} \subseteq Nat
    /\ Null \notin Users

VARIABLES
    requests,          \* how many requests were started
    settings,          \* app_settings: signups_enabled, spend_unlock_requirement
    account,           \* auth.users; fresh within FRESH_SIGNUP_WINDOW_MS
    joined,            \* organization_members.created_at, 0 for no membership
    role,              \* organization_members.role
    invite,            \* the newest org_invitations row of each organization
    unlocked,          \* organizations.spend_unlocked_at
    key,               \* api_keys
    mailed,            \* users with an unused link or code in their inbox
    proven,            \* history: users who proved their inbox
    carded,            \* organizations with a saved card
    keeper,            \* history: who was left in an organization by its unlock
    handler            \* what each request in flight is doing

membership == <<joined, role>>
vars == <<requests, settings, account, membership, invite, unlocked, key, mailed,
          proven, carded, keeper, handler>>
-----------------------------------------------------------------------------
(* early and orphan are history: the key is from before the unlock, and    *)
(* the unlock found its creator no member, or no admin at all.             *)
KeyRow ==
    [org : Orgs \cup {Null}, by : Users \cup {Null}, revoked : BOOLEAN,
     early : BOOLEAN, orphan : BOOLEAN]

NoKey == [org |-> Null, by |-> Null, revoked |-> FALSE, early |-> FALSE, orphan |-> FALSE]

(* fresh is history: nobody else added the user to an organization since   *)
(* the request looked.                                                     *)
Request ==
    [phase : {"idle", "create", "membership", "key", "otp", "classify", "count",
              "recount", "purge", "requirement", "unlock", "card", "unlockOrg"},
     user : Users \cup {Null}, org : Orgs \cup {Null}, allow : BOOLEAN, fresh : BOOLEAN]

Idle == [phase |-> "idle", user |-> Null, org |-> Null, allow |-> FALSE, fresh |-> TRUE]

Roles == {"user", "admin"}

TypeOK ==
    /\ requests \in 0 .. MaxRequests
    /\ settings \in [signups : BOOLEAN, requirement : {"email", "card"}]
    /\ account \in [Users -> {"none", "fresh", "old", "deleted"}]
    /\ joined \in [Orgs -> [Users -> Nat]]
    /\ role \in [Orgs -> [Users -> {"none"} \cup Roles]]
    /\ \A o \in Orgs, u \in Users :
          /\ (joined[o][u] = 0) = (role[o][u] = "none")
          /\ joined[o][u] # 0 => account[u] \in {"fresh", "old"}
    /\ invite \in [Orgs -> {"none", "accepted"} \cup Roles]
    /\ unlocked \subseteq Orgs
    /\ key \in [Keys -> KeyRow]
    /\ mailed \subseteq Users
    /\ proven \subseteq Users
    /\ carded \subseteq Orgs
    /\ keeper \in [Orgs -> Users \cup {Null}]
    /\ handler \in [Handlers -> Request]

Init ==
    /\ requests = 0
    /\ settings \in [signups : BOOLEAN, requirement : {"email", "card"}]
    /\ account = [u \in Users |-> "none"]
    /\ joined = [o \in Orgs |-> [u \in Users |-> 0]]
    /\ role = [o \in Orgs |-> [u \in Users |-> "none"]]
    /\ invite = [o \in Orgs |-> "none"]
    /\ unlocked = {}
    /\ key = [k \in Keys |-> NoKey]
    /\ mailed = {}
    /\ proven = {}
    /\ carded = {}
    /\ keeper = [o \in Orgs |-> Null]
    /\ handler = [h \in Handlers |-> Idle]
-----------------------------------------------------------------------------
Exists(u) == account[u] \in {"fresh", "old"}

Memberships(u) == {o \in Orgs : joined[o][u] # 0}

Members(o) == {u \in Users : joined[o][u] # 0}

Counted == requests < MaxRequests /\ requests' = requests + 1

Starts(h, request) ==
    /\ handler[h].phase = "idle"
    /\ handler' = [handler EXCEPT ![h] = request]

Begins(h, request) == Counted /\ Starts(h, request)

Goes(h, phase) == handler' = [handler EXCEPT ![h].phase = phase]

Ends(h) == handler' = [handler EXCEPT ![h] = Idle]

Joins(o, u, r) ==
    /\ joined' = [joined EXCEPT ![o][u] = 1 + Max({joined[o][v] : v \in Users})]
    /\ role' = [role EXCEPT ![o][u] = r]

(* provision_signup_org, the trigger on auth.users: a pending invite the   *)
(* account came with, else an organization of its own if signups are open. *)
Provision(u, token) ==
    IF token # Null /\ invite[token] \in Roles
    THEN Joins(token, u, invite[token]) /\ invite' = [invite EXCEPT ![token] = "accepted"]
    ELSE /\ IF settings.signups THEN Joins(u, u, "admin") ELSE UNCHANGED membership
         /\ UNCHANGED invite

Creates(u, token) ==
    /\ account[u] = "none"
    /\ account' = [account EXCEPT ![u] = "fresh"]
    /\ Provision(u, token)

(* Deleting an account takes its memberships along and leaves its keys.    *)
Deletes(u) ==
    /\ account' = [account EXCEPT ![u] = IF Exists(u) THEN "deleted" ELSE @]
    /\ joined' = [o \in Orgs |-> [joined[o] EXCEPT ![u] = 0]]
    /\ role' = [o \in Orgs |-> [role[o] EXCEPT ![u] = "none"]]
    /\ key' = [k \in Keys |-> [key[k] EXCEPT !.by = IF @ = u THEN Null ELSE @]]
-----------------------------------------------------------------------------
(* POST /api/signup/instant: an account for any address, and its first     *)
(* key, before the inbox is proven.                                        *)

StartInstant(h) ==
    /\ settings.signups
    /\ \E u \in Users \ OAuthUsers :
          Begins(h, [Idle EXCEPT !.phase = "create", !.user = u])
    /\ UNCHANGED <<settings, account, membership, invite, unlocked, key, mailed,
                   proven, carded, keeper>>

CreateUser(h) ==
    LET u == handler[h].user
    IN  /\ handler[h].phase = "create"
        /\ \/ Creates(u, Null) /\ Goes(h, "membership")
           \/ /\ account[u] # "none"
              /\ Ends(h)
              /\ UNCHANGED <<account, membership, invite>>
        /\ UNCHANGED <<requests, settings, unlocked, key, mailed, proven, carded, keeper>>

(* Exactly one admin membership, or the account is removed again.          *)
CheckMembership(h) ==
    LET led == {o \in Orgs : role[o][handler[h].user] = "admin"}
    IN  /\ handler[h].phase = "membership"
        /\ IF Cardinality(led) = 1
           THEN handler' = [handler EXCEPT ![h].phase = "key",
                                           ![h].org = CHOOSE o \in led : TRUE]
           ELSE Goes(h, "purge")
        /\ UNCHANGED <<requests, settings, account, membership, invite, unlocked, key,
                       mailed, proven, carded, keeper>>

NewKey(o, u) ==
    [org |-> o, by |-> u, revoked |-> FALSE, early |-> o \notin unlocked, orphan |-> FALSE]

InsertKey(o, u) ==
    \E k \in Keys : key[k] = NoKey /\ key' = [key EXCEPT ![k] = NewKey(o, u)]

(* The verification mail follows the key.                                  *)
MintInstantKey(h) ==
    /\ handler[h].phase = "key"
    /\ InsertKey(handler[h].org, handler[h].user)
    /\ mailed' = mailed \cup {handler[h].user}
    /\ Ends(h)
    /\ UNCHANGED <<requests, settings, account, membership, invite, unlocked, proven,
                   carded, keeper>>
-----------------------------------------------------------------------------
(* POST /auth/otp: the signup gate decides whether GoTrue may create the   *)
(* account the code is for.                                                *)

IsSignupAllowed(token) ==
    settings.signups \/ (token # Null /\ invite[token] \in Roles)

StartOtp(h) ==
    /\ \E u \in Users \ OAuthUsers, token \in Orgs \cup {Null} :
          /\ token # Null => invite[token] # "none"
          /\ Begins(h, [Idle EXCEPT !.phase = "otp", !.user = u, !.org = token,
                                    !.allow = IsSignupAllowed(token)])
    /\ UNCHANGED <<settings, account, membership, invite, unlocked, key, mailed,
                   proven, carded, keeper>>

SignInWithOtp(h) ==
    LET u == handler[h].user
    IN  /\ handler[h].phase = "otp"
        /\ \/ handler[h].allow /\ Creates(u, handler[h].org)
           \/ Exists(u) /\ UNCHANGED <<account, membership, invite>>
        /\ mailed' = mailed \cup {u}
        /\ Ends(h)
        /\ UNCHANGED <<requests, settings, unlocked, key, proven, carded, keeper>>

(* POST /auth/otp/verify, or GET /auth/callback with a token hash.         *)
OpenInbox(h) ==
    /\ \E u \in mailed, phase \in {"requirement", "count"} :
          /\ Exists(u)
          /\ mailed' = mailed \ {u}
          /\ proven' = proven \cup {u}
          /\ Starts(h, [Idle EXCEPT !.phase = phase, !.user = u])
    /\ UNCHANGED <<requests, settings, account, membership, invite, unlocked, key, carded, keeper>>

(* GET /auth/callback with a provider's code. GoTrue created the account   *)
(* if it could not link the identity to one.                               *)
ReturnFromProvider(h) ==
    /\ \E u \in OAuthUsers :
          /\ \/ Creates(u, Null)
             \/ Exists(u) /\ UNCHANGED <<account, membership, invite>>
          /\ proven' = proven \cup {u}
          /\ Begins(h, [Idle EXCEPT !.phase = "classify", !.user = u])
    /\ UNCHANGED <<settings, unlocked, key, mailed, carded, keeper>>

Duplicate(u) ==
    /\ account[u] = "fresh"
    /\ \E v \in Users \ {u} : Exists(v) /\ Address[v] = Address[u]

ClassifyOAuthUser(h) ==
    /\ handler[h].phase = "classify"
    /\ Goes(h, IF Duplicate(handler[h].user) THEN "recount" ELSE "count")
    /\ UNCHANGED <<requests, settings, account, membership, invite, unlocked, key,
                   mailed, proven, carded, keeper>>

Unprovisioned(u) == account[u] = "fresh" /\ Memberships(u) = {}

CountMemberships(h) ==
    /\ handler[h].phase = "count"
    /\ Goes(h, IF Unprovisioned(handler[h].user) THEN "recount" ELSE "requirement")
    /\ UNCHANGED <<requests, settings, account, membership, invite, unlocked, key,
                   mailed, proven, carded, keeper>>

(* deleteUnprovisionedUser looks again, then deletes.                      *)
RemovableFault(u) == TRUE

Removable(u) == Memberships(u) = {}

Recount(h) ==
    /\ handler[h].phase = "recount"
    /\ IF Removable(handler[h].user)
       THEN handler' = [handler EXCEPT ![h].phase = "purge", ![h].fresh = TRUE]
       ELSE Ends(h)
    /\ UNCHANGED <<requests, settings, account, membership, invite, unlocked, key,
                   mailed, proven, carded, keeper>>

DeleteUser(h) ==
    /\ handler[h].phase = "purge"
    /\ Deletes(handler[h].user)
    /\ Ends(h)
    /\ UNCHANGED <<requests, settings, invite, unlocked, mailed, proven, carded, keeper>>
-----------------------------------------------------------------------------
(* The first unlock of an organization keeps its founding admin and tears  *)
(* down everybody else who is in it.                                       *)

FoundingAdmin(o) ==
    CHOOSE u \in Users :
       /\ role[o][u] = "admin"
       /\ \A v \in Users : role[o][v] = "admin" => joined[o][u] <= joined[o][v]

Led(o) == \E u \in Users : role[o][u] = "admin"

EvictedFault(o) == {}

Evicted(o) == IF Led(o) THEN Members(o) \ {FoundingAdmin(o)} ELSE {}

(* rotate_credentials_on_spend_unlock, the trigger on organizations.       *)
Unlock(opened) ==
    LET out(o, u) == o \in opened /\ u \in Evicted(o)
        lost(k) == key[k].org \in opened /\ (key[k].by \notin Members(key[k].org)
                                              \/ ~Led(key[k].org))
    IN  /\ unlocked' = unlocked \cup opened
        /\ key' = [k \in Keys |->
              [key[k] EXCEPT !.revoked = @ \/ out(key[k].org, key[k].by),
                             !.orphan = @ \/ lost(k)]]
        /\ joined' = [o \in Orgs |-> [u \in Users |-> IF out(o, u) THEN 0 ELSE joined[o][u]]]
        /\ role' = [o \in Orgs |-> [u \in Users |-> IF out(o, u) THEN "none" ELSE role[o][u]]]
        /\ keeper' = [o \in Orgs |->
              IF o \in opened /\ Led(o) THEN FoundingAdmin(o) ELSE keeper[o]]

(* An unreadable requirement counts as email.                              *)
UnlockSpendOnInboxProof(h) ==
    /\ handler[h].phase = "requirement"
    /\ \/ Goes(h, "unlock")
       \/ settings.requirement = "card" /\ Ends(h)
    /\ UNCHANGED <<requests, settings, account, membership, invite, unlocked, key,
                   mailed, proven, carded, keeper>>

FoundedFault(u) == {o \in Orgs \ unlocked : role[o][u] = "admin"}

Founded(u) == {o \in Orgs \ unlocked : role[o][u] = "admin" /\ FoundingAdmin(o) = u}

UnlockFounderSpend(h) ==
    /\ handler[h].phase = "unlock"
    /\ Unlock(Founded(handler[h].user))
    /\ Ends(h)
    /\ UNCHANGED <<requests, settings, account, invite, mailed, proven, carded>>

(* The Stripe webhook saves an organization's card.                        *)
SaveCard(h) ==
    /\ \E o \in Orgs :
          /\ Led(o)
          /\ carded' = carded \cup {o}
          /\ Begins(h, [Idle EXCEPT !.phase = "card", !.org = o])
    /\ UNCHANGED <<settings, account, membership, invite, unlocked, key, mailed,
                   proven, keeper>>

UnlockSpendOnCardSaved(h) ==
    /\ handler[h].phase = "card"
    /\ \/ settings.requirement = "card" /\ Goes(h, "unlockOrg")
       \/ Ends(h)
    /\ UNCHANGED <<requests, settings, account, membership, invite, unlocked, key,
                   mailed, proven, carded, keeper>>

UnlockOrgSpend(h) ==
    /\ handler[h].phase = "unlockOrg"
    /\ Unlock({handler[h].org} \ unlocked)
    /\ Ends(h)
    /\ UNCHANGED <<requests, settings, account, invite, mailed, proven, carded>>
-----------------------------------------------------------------------------
(* What members and operators do meanwhile.                                *)

InviteMember ==
    /\ \E o \in Orgs, r \in Roles :
          Led(o) /\ invite[o] \notin Roles /\ invite' = [invite EXCEPT ![o] = r]
    /\ Counted
    /\ UNCHANGED <<settings, account, membership, unlocked, key, mailed, proven, carded,
                   keeper, handler>>

AddMember ==
    /\ \E o \in Orgs, u \in Users, r \in Roles :
          /\ Led(o)
          /\ Exists(u)
          /\ joined[o][u] = 0
          /\ Joins(o, u, r)
          /\ handler' = [h \in Handlers |->
                [handler[h] EXCEPT !.fresh = @ /\ handler[h].user # u]]
    /\ Counted
    /\ UNCHANGED <<settings, account, invite, unlocked, key, mailed, proven, carded, keeper>>

RemoveMember ==
    /\ \E o \in Orgs : \E u \in Members(o) :
          /\ \E v \in Users \ {u} : role[o][v] = "admin"
          /\ joined' = [joined EXCEPT ![o][u] = 0]
          /\ role' = [role EXCEPT ![o][u] = "none"]
    /\ UNCHANGED <<requests, settings, account, invite, unlocked, key, mailed, proven, carded,
                   keeper, handler>>

MintKey ==
    /\ \E o \in Orgs : \E u \in Members(o) : InsertKey(o, u)
    /\ UNCHANGED <<requests, settings, account, membership, invite, unlocked, mailed, proven, carded,
                   keeper, handler>>

ChangeSettings ==
    /\ \/ settings' = [settings EXCEPT !.signups = ~@]
       \/ \E r \in {"email", "card"} \ {settings.requirement} :
             settings' = [settings EXCEPT !.requirement = r]
    /\ Counted
    /\ UNCHANGED <<account, membership, invite, unlocked, key, mailed, proven, carded,
                   keeper, handler>>

GrowOld ==
    /\ \E u \in Users : account[u] = "fresh" /\ account' = [account EXCEPT ![u] = "old"]
    /\ UNCHANGED <<requests, settings, membership, invite, unlocked, key, mailed, proven,
                   carded, keeper, handler>>

Dies(h) ==
    /\ handler[h].phase # "idle"
    /\ Ends(h)
    /\ UNCHANGED <<requests, settings, account, membership, invite, unlocked, key,
                   mailed, proven, carded, keeper>>
-----------------------------------------------------------------------------
Handle(h) ==
    \/ StartInstant(h) \/ CreateUser(h) \/ CheckMembership(h) \/ MintInstantKey(h)
    \/ StartOtp(h) \/ SignInWithOtp(h) \/ OpenInbox(h)
    \/ ReturnFromProvider(h) \/ ClassifyOAuthUser(h) \/ CountMemberships(h)
    \/ Recount(h) \/ DeleteUser(h)
    \/ UnlockSpendOnInboxProof(h) \/ UnlockFounderSpend(h)
    \/ SaveCard(h) \/ UnlockSpendOnCardSaved(h) \/ UnlockOrgSpend(h)
    \/ Dies(h)

Next ==
    \/ \E h \in Handlers : Handle(h)
    \/ InviteMember \/ AddMember \/ RemoveMember \/ MintKey \/ ChangeSettings \/ GrowOld

Spec == Init /\ [][Next]_vars
-----------------------------------------------------------------------------
(* Free credit becomes spendable only when the admin who has been in the   *)
(* organization longest has proved an inbox, or a card was saved for it;   *)
(* an admin who joined later, or a request that never reached an inbox,    *)
(* does not unlock it.                                                     *)
UnlockIsProven ==
    [][\A o \in unlocked' \ unlocked : o \in carded \/ FoundingAdmin(o) \in proven]_vars

(* Of the keys from before the unlock only those of the admin the unlock   *)
(* left in the organization still work; the keys of people who had already *)
(* left, or whose organization had no admin left, when the unlock came are *)
(* the exception: the rotation does not see them. The key of a deleted     *)
(* account belongs to nobody.                                              *)
EarlyKeysEnd ==
    \A k \in Keys :
       /\ key[k].early
       /\ ~key[k].revoked
       /\ key[k].org \in unlocked
       => key[k].orphan \/ key[k].by \in {keeper[key[k].org], Null}

(* Cleaning up after a refused sign-in or a failed signup never deletes an *)
(* account that is a member somewhere, unless somebody added it to an      *)
(* organization after the request had looked.                              *)
ProvisionedStay ==
    [][\A u \in Users :
         Memberships(u) # {} /\ account'[u] = "deleted" =>
            \E h \in Handlers : handler[h].user = u /\ ~handler[h].fresh]_vars
=============================================================================
