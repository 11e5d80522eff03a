----------------------------- MODULE OrgAccess -----------------------------
(***************************************************************************)
(* Who may act in an organization: members, invites, API keys and bans.    *)
(*                                                                         *)
(* The web routes reach the database in several calls, so a handler reads, *)
(* checks and writes in separate steps that overlap with other handlers,   *)
(* and it can die between them. Bans are one database function each. The   *)
(* platform operators are fixed here; SiteAdmins is about them.            *)
(***************************************************************************)
EXTENDS Integers, FiniteSets

CONSTANTS
    Orgs,
    Users,
    Operators,         \* rows of platform_admins
    Founder,           \* the user who starts as the admin of every org
    Handlers,          \* requests in flight
    MaxKeys,           \* bound: rows of api_keys
    MaxInvites,        \* bound: rows of org_invitations
    MaxRequests,       \* bound: requests and operator actions in a run
    Null

Keys == 1 .. MaxKeys
Invites == 1 .. MaxInvites

ASSUME AccessConstants ==
    /\ Operators \subseteq Users
    /\ Founder \in Users
    /\ {MaxKeys, MaxInvites, MaxRequests} \subseteq Nat
    /\ Null \notin Orgs \cup Users \cup Nat
    /\ {"self", "none"} \cap Orgs = {}

VARIABLES
    requests,          \* how many requests were started
    accounts,          \* the users that have an account
    role,              \* organization_members
    invite,            \* org_invitations
    key,               \* api_keys
    bannedOrgs,        \* organizations.banned_at
    ban,               \* user_bans: who is banned, and through which org
    handler            \* what each request in flight is doing

vars == <<requests, accounts, role, invite, key, bannedOrgs, ban, handler>>
-----------------------------------------------------------------------------
Roles == {"user", "admin"}

(* pending also stands for a row past its expires_at until it is deleted.  *)
InviteRow ==
    [state : {"none", "pending", "expired", "accepted", "revoked"},
     org : Orgs \cup {Null}, email : Users \cup {Null}, role : Roles \cup {Null},
     late : BOOLEAN]

NoInvite == [state |-> "none", org |-> Null, email |-> Null, role |-> Null,
             late |-> FALSE]

(* expiry: whether expires_at is unset, ahead or behind. late and          *)
(* replaces are history: a handler that a ban of the org overtook wrote    *)
(* the row, and the key a rotation wrote the row for.                      *)
KeyRow ==
    [org : Orgs \cup {Null}, by : Users \cup {Null}, revoked : BOOLEAN,
     expiry : {"never", "ahead", "past"}, late : BOOLEAN,
     replaces : Keys \cup {Null}]

NoKey == [org |-> Null, by |-> Null, revoked |-> FALSE, expiry |-> "never",
          late |-> FALSE, replaces |-> Null]

Live(k) == key[k].org # Null /\ ~key[k].revoked /\ key[k].expiry # "past"

(* What a request in flight remembers; by, when it will sign a key. fresh  *)
(* is history: what it read of the members is still so. late, too: the org *)
(* was banned since its check.                                             *)
Request ==
    [phase : {"idle", "member", "cleanup", "load", "insertInvite", "reload", "setRole",
              "demote", "remove", "leave", "mint", "playground", "stream",
              "replace", "expireOld", "compensate", "revoke"},
     by : Users \cup {Null}, org : Orgs \cup {Null}, user : Users \cup {Null},
     role : Roles \cup {Null}, row : Keys \cup Invites \cup {Null},
     made : Keys \cup {Null}, fresh : BOOLEAN, late : BOOLEAN]

Idle == [phase |-> "idle", by |-> Null, org |-> Null, user |-> Null, role |-> Null,
         row |-> Null, made |-> Null, fresh |-> TRUE, late |-> FALSE]

TypeOK ==
    /\ requests \in 0 .. MaxRequests
    /\ accounts \subseteq Users
    /\ role \in [Orgs -> [Users -> {"none"} \cup Roles]]
    /\ invite \in [Invites -> InviteRow]
    /\ key \in [Keys -> KeyRow]
    /\ bannedOrgs \subseteq Orgs
    /\ ban \in [Users -> {"none", "self"} \cup Orgs]
    /\ handler \in [Handlers -> Request]

Init ==
    /\ requests = 0
    /\ \E newcomer \in Users \ (Operators \cup {Founder}) : accounts = Users \ {newcomer}
    /\ role \in {[o \in Orgs |-> [u \in Users |->
                    IF u = Founder THEN "admin" ELSE IF u \in accounts THEN r ELSE "none"]] :
                 r \in Roles}
    /\ invite = [i \in Invites |-> NoInvite]
    /\ key = [k \in Keys |-> NoKey]
    /\ bannedOrgs = {}
    /\ ban = [u \in Users |-> "none"]
    /\ handler = [h \in Handlers |-> Idle]
-----------------------------------------------------------------------------
(* Sessions are signed tokens that outlive a ban, so a banned account can  *)
(* still be the actor of a request.                                        *)
CanManage(u, o) == u \in accounts /\ (u \in Operators \/ role[o][u] = "admin")

Admins(o) == {u \in Users : role[o][u] = "admin"}

Counted == requests < MaxRequests /\ requests' = requests + 1

(* A request that passed its gate and its first checks.                    *)
Begins(h, request) ==
    /\ Counted
    /\ handler[h].phase = "idle"
    /\ handler' = [handler EXCEPT ![h] = request]

Phase(h, phase) == handler[h].phase = phase

Goes(h, phase) == handler' = [handler EXCEPT ![h].phase = phase]

Ends(h) == handler' = [handler EXCEPT ![h] = Idle]

(* What a request that checked roles relied on: the admins of its org, or, *)
(* for an account that is about to be deleted, all members of all orgs.    *)
ReliesOn(request, roles) ==
    IF request.phase = "leave" THEN roles
    ELSE {u \in Users : request.org # Null /\ roles[request.org][u] = "admin"}

(* Writing roles makes what other requests relied on stale.                *)
WriteRole(newRole, handlers) ==
    /\ role' = newRole
    /\ handler' = [h \in Handlers |->
          [handlers[h] EXCEPT !.fresh = @ /\ ReliesOn(handlers[h], role)
                                                = ReliesOn(handlers[h], newRole)]]
-----------------------------------------------------------------------------
(* addOrInviteMember: an account joins at once, anybody else is invited.   *)

StartAdd(h) ==
    /\ \E by \in Users, o \in Orgs, u \in Users, r \in Roles :
          /\ CanManage(by, o)
          /\ o \notin bannedOrgs
          /\ Begins(h, [Idle EXCEPT !.phase = IF u \in accounts THEN "member" ELSE "cleanup",
                                    !.org = o, !.user = u, !.role = r])
    /\ UNCHANGED <<accounts, role, invite, key, bannedOrgs, ban>>

(* The primary key refuses a second membership; nothing refuses one of an  *)
(* account that was deleted meanwhile.                                     *)
InsertMember(h) ==
    LET o == handler[h].org
        u == handler[h].user
        done == [handler EXCEPT ![h] = Idle]
    IN
    /\ Phase(h, "member")
    /\ IF role[o][u] = "none"
       THEN WriteRole([role EXCEPT ![o][u] = handler[h].role], done)
       ELSE handler' = done /\ UNCHANGED role
    /\ UNCHANGED <<requests, accounts, invite, key, bannedOrgs, ban>>

Slot(h) == {i \in Invites : invite[i].org = handler[h].org /\ invite[i].email = handler[h].user}

(* Expired rows are deleted first: they hold the unique pending slot.      *)
CleanupInvites(h) ==
    /\ Phase(h, "cleanup")
    /\ invite' = [i \in Invites |->
          IF i \in Slot(h) /\ invite[i].state = "expired" THEN NoInvite ELSE invite[i]]
    /\ Goes(h, "load")
    /\ UNCHANGED <<requests, accounts, role, key, bannedOrgs, ban>>

(* loadPendingInvite. A found row is only updated when its role differs;   *)
(* the second load, after a lost insert, gives up when it finds nothing.   *)
LoadPendingInvite(h) ==
    LET found == {i \in Slot(h) : invite[i].state = "pending"} IN
    /\ Phase(h, "load") \/ Phase(h, "reload")
    /\ \/ /\ found = {}
          /\ IF Phase(h, "load") THEN Goes(h, "insertInvite") ELSE Ends(h)
       \/ \E i \in found :
             handler' = [handler EXCEPT ![h] =
                IF invite[i].role = @.role THEN Idle
                ELSE [@ EXCEPT !.phase = "setRole", !.row = i]]
    /\ UNCHANGED <<requests, accounts, role, invite, key, bannedOrgs, ban>>

(* The unique index counts every row neither accepted nor revoked.         *)
InsertInvite(h) ==
    /\ Phase(h, "insertInvite")
    /\ \/ /\ \A i \in Slot(h) : invite[i].state \notin {"pending", "expired"}
          /\ \E i \in Invites :
                /\ invite[i].state = "none"
                /\ invite' = [invite EXCEPT ![i] =
                      [state |-> "pending", org |-> handler[h].org,
                       email |-> handler[h].user, role |-> handler[h].role,
                       late |-> handler[h].late]]
          /\ Ends(h)
       \/ /\ \E i \in Slot(h) : invite[i].state \in {"pending", "expired"}
          /\ Goes(h, "reload")
          /\ UNCHANGED invite
    /\ UNCHANGED <<requests, accounts, role, key, bannedOrgs, ban>>

(* By row id, whatever has become of the row.                              *)
UpdateInviteRole(h) ==
    LET i == handler[h].row IN
    /\ Phase(h, "setRole")
    /\ invite' = [invite EXCEPT ![i].role = IF invite[i].state = "none" THEN @
                                            ELSE handler[h].role]
    /\ Ends(h)
    /\ UNCHANGED <<requests, accounts, role, key, bannedOrgs, ban>>

RevokeInvite ==
    /\ Counted
    /\ \E by \in Users, i \in Invites :
          /\ invite[i].state \in {"pending", "expired"}
          /\ CanManage(by, invite[i].org)
          /\ invite' = [invite EXCEPT ![i].state = "revoked"]
    /\ UNCHANGED <<accounts, role, key, bannedOrgs, ban, handler>>

InviteExpires ==
    /\ Counted
    /\ \E i \in Invites : /\ invite[i].state = "pending"
                          /\ invite' = [invite EXCEPT ![i].state = "expired"]
    /\ UNCHANGED <<accounts, role, key, bannedOrgs, ban, handler>>

(* provision_signup_org: the bearer of a token becomes a member, whoever   *)
(* it was mailed to. A new account inherits no row of a deleted one.       *)
SignUp(u) ==
    /\ u \notin accounts
    /\ \A o \in Orgs : role[o][u] = "none"
    /\ accounts' = accounts \cup {u}
    /\ \/ \E i \in Invites :
             /\ invite[i].state = "pending"
             /\ invite' = [invite EXCEPT ![i].state = "accepted"]
             /\ WriteRole([role EXCEPT ![invite[i].org][u] = invite[i].role], handler)
       \/ UNCHANGED <<invite, role, handler>>
    /\ UNCHANGED <<requests, key, bannedOrgs, ban>>
-----------------------------------------------------------------------------
(* PATCH and DELETE of a member, and the operator's versions of both.      *)

(* A guard that also lets the last of several admins of the list go.       *)
IsLastOrgAdminFault(o, u) == u \notin Admins(o)

IsLastOrgAdmin(o, u) == Admins(o) = {u}

StartMemberChange(h) ==
    /\ \E by \in Users, o \in Orgs, u \in Users, r \in Roles, p \in {"demote", "remove"} :
          /\ CanManage(by, o)
          /\ (p = "remove" \/ r # "admin") => ~IsLastOrgAdmin(o, u)
          /\ p = "remove" => r = "user"
          /\ Begins(h, [Idle EXCEPT !.phase = p, !.org = o, !.user = u, !.role = r])
    /\ UNCHANGED <<accounts, role, invite, key, bannedOrgs, ban>>

(* The write names org and user only; a missing row is answered with 404.  *)
WriteMemberChange(h) ==
    LET o == handler[h].org
        u == handler[h].user
        new == IF Phase(h, "demote") THEN handler[h].role ELSE "none"
        done == [handler EXCEPT ![h] = Idle]
    IN
    /\ Phase(h, "demote") \/ Phase(h, "remove")
    /\ IF role[o][u] = "none" THEN handler' = done /\ UNCHANGED role
       ELSE WriteRole([role EXCEPT ![o][u] = new], done)
    /\ UNCHANGED <<requests, accounts, invite, key, bannedOrgs, ban>>

(* The operator's routes write through row security in one statement and   *)
(* look at neither the last admin nor a ban of the target org.             *)
OperatorMemberChange ==
    /\ Counted
    /\ Operators \cap accounts # {}
    /\ \E o \in Orgs, u \in Users :
          /\ role[o][u] # "none"
          /\ \/ \E r \in Roles \cup {"none"} : WriteRole([role EXCEPT ![o][u] = r], handler)
             \/ \E t \in Orgs \ {o}, r \in Roles :
                   /\ role[t][u] = "none"
                   /\ WriteRole([role EXCEPT ![o][u] = "none", ![t][u] = r], handler)
    /\ UNCHANGED <<accounts, invite, key, bannedOrgs, ban>>

(* DELETE of one's own account. The guard looks at every org in turn;      *)
(* reading them one by one or at once makes no difference to the last.     *)
StrandsOrg(u) ==
    \E o \in Orgs : Admins(o) = {u} /\ \E v \in Users \ {u} : role[o][v] # "none"

StartLeave(h) ==
    /\ \E u \in accounts :
          /\ ~StrandsOrg(u)
          /\ Operators \cap accounts # {u}
          /\ Begins(h, [Idle EXCEPT !.phase = "leave", !.user = u])
    /\ UNCHANGED <<accounts, role, invite, key, bannedOrgs, ban>>

(* deleteUser and cleanup_deleted_auth_user: keys stay with the org.       *)
DeleteAccount(h) ==
    LET u == handler[h].user IN
    /\ Phase(h, "leave")
    /\ accounts' = accounts \ {u}
    /\ ban' = [ban EXCEPT ![u] = "none"]
    /\ invite' = [i \in Invites |-> IF invite[i].email = u THEN NoInvite ELSE invite[i]]
    /\ key' = [k \in Keys |-> IF key[k].by = u THEN [key[k] EXCEPT !.by = Null] ELSE key[k]]
    /\ WriteRole([o \in Orgs |-> [role[o] EXCEPT ![u] = "none"]],
                 [handler EXCEPT ![h] = Idle])
    /\ UNCHANGED <<requests, bannedOrgs>>
-----------------------------------------------------------------------------
(* API keys.                                                               *)

(* POST of a key: the org's ban is read, the row is inserted later. The    *)
(* playground takes any member of the org, and mints for one exchange.     *)
StartMint(h) ==
    /\ \E by \in accounts, o \in Orgs, p \in {"mint", "playground"} :
          /\ CanManage(by, o) \/ (p = "playground" /\ role[o][by] # "none")
          /\ o \notin bannedOrgs
          /\ Begins(h, [Idle EXCEPT !.phase = p, !.by = by, !.org = o])
    /\ UNCHANGED <<accounts, role, invite, key, bannedOrgs, ban>>

FreeKey(k) == key[k].org = Null /\ \A j \in Keys : key[j].org = Null => k <= j

NewKey(request, replaced) ==
    [NoKey EXCEPT !.org = request.org, !.by = request.by, !.replaces = replaced,
        !.late = request.late \/ (replaced # Null /\ key[replaced].late)]

(* A key may be minted with a lifetime; a playground key never is.         *)
InsertKey(h) ==
    /\ Phase(h, "mint") \/ Phase(h, "playground")
    /\ \E k \in Keys, expiry \in {"never", "ahead"} :
          /\ FreeKey(k)
          /\ expiry = "ahead" => Phase(h, "mint")
          /\ key' = [key EXCEPT ![k] = [NewKey(handler[h], Null) EXCEPT !.expiry = expiry]]
          /\ handler' = [handler EXCEPT ![h] =
                IF @.phase = "mint" THEN Idle
                ELSE [@ EXCEPT !.phase = "stream", !.made = k]]
    /\ UNCHANGED <<requests, accounts, role, invite, bannedOrgs, ban>>

(* revoke() at the end of the exchange: an error is not looked at.         *)
EndStream(h) ==
    /\ Phase(h, "stream")
    /\ \/ key' = [key EXCEPT ![handler[h].made].revoked = TRUE]
       \/ UNCHANGED key
    /\ Ends(h)
    /\ UNCHANGED <<requests, accounts, role, invite, bannedOrgs, ban>>

(* DELETE and rotation both read the key and refuse one that is revoked;   *)
(* neither looks at the expiry, nor the rotation at the org's ban.         *)
StartKeyChange(h) ==
    /\ \E by \in Users, k \in Keys, p \in {"revoke", "replace"} :
          /\ key[k].org # Null /\ ~key[k].revoked
          /\ CanManage(by, key[k].org)
          /\ Begins(h, [Idle EXCEPT !.phase = p, !.org = key[k].org, !.row = k,
                                    !.by = IF p = "replace" THEN by ELSE Null])
    /\ UNCHANGED <<accounts, role, invite, key, bannedOrgs, ban>>

RevokeKey(h) ==
    /\ Phase(h, "revoke")
    /\ key' = [key EXCEPT ![handler[h].row].revoked = TRUE]
    /\ Ends(h)
    /\ UNCHANGED <<requests, accounts, role, invite, bannedOrgs, ban>>

InsertReplacement(h) ==
    /\ Phase(h, "replace")
    /\ \E k \in Keys :
          /\ FreeKey(k)
          /\ key' = [key EXCEPT ![k] = NewKey(handler[h], handler[h].row)]
          /\ handler' = [handler EXCEPT ![h].phase = "expireOld", ![h].made = k]
    /\ UNCHANGED <<requests, accounts, role, invite, bannedOrgs, ban>>

(* The old key's expires_at is set by id, over whatever it was.            *)
ExpireOld(h) ==
    /\ Phase(h, "expireOld")
    /\ \/ /\ key' = [key EXCEPT ![handler[h].row].expiry = "ahead"]
          /\ Ends(h)
       \/ /\ Goes(h, "compensate")
          /\ UNCHANGED key
    /\ UNCHANGED <<requests, accounts, role, invite, bannedOrgs, ban>>

(* Compensation that takes the old key away instead of the new one.        *)
CompensatedFault(h) == handler[h].row

Compensated(h) == handler[h].made

(* A compensation that fails is only logged: it is a request that died.    *)
Compensate(h) ==
    /\ Phase(h, "compensate")
    /\ key' = [key EXCEPT ![Compensated(h)].revoked = TRUE]
    /\ Ends(h)
    /\ UNCHANGED <<requests, accounts, role, invite, bannedOrgs, ban>>

KeyExpires ==
    /\ Counted
    /\ \E k \in Keys : /\ key[k].expiry = "ahead"
                       /\ key' = [key EXCEPT ![k].expiry = "past"]
    /\ UNCHANGED <<accounts, role, invite, bannedOrgs, ban, handler>>

(* The process is lost, or a database call of the handler fails for good.  *)
HandlerDies(h) ==
    /\ handler[h].phase # "idle"
    /\ Ends(h)
    /\ UNCHANGED <<requests, accounts, role, invite, key, bannedOrgs, ban>>
-----------------------------------------------------------------------------
(* Bans: one database function each, called by an operator.                *)

(* A sweep that only takes the keys its members minted.                    *)
KeysOfBanFault(o, swept) == {k \in Keys : key[k].by \in swept}

(* Every key of the org and, through record_user_ban, every key a swept    *)
(* member minted anywhere.                                                 *)
KeysOfBan(o, swept) == {k \in Keys : key[k].org = o \/ key[k].by \in swept}

(* record_org_ban. Operators and those already banned are not swept.       *)
BanOrg(o) ==
    LET swept == {u \in Users : role[o][u] # "none" /\ u \notin Operators /\ ban[u] = "none"}
    IN
    /\ Counted
    /\ bannedOrgs' = bannedOrgs \cup {o}
    /\ key' = [k \in Keys |-> IF key[k].org # Null /\ k \in KeysOfBan(o, swept)
                             THEN [key[k] EXCEPT !.revoked = TRUE] ELSE key[k]]
    /\ invite' = [i \in Invites |->
          IF invite[i].org = o /\ invite[i].state \in {"pending", "expired"}
          THEN [invite[i] EXCEPT !.state = "revoked"] ELSE invite[i]]
    /\ ban' = [u \in Users |-> IF u \in swept THEN o ELSE ban[u]]
    /\ handler' = [h \in Handlers |-> [handler[h] EXCEPT !.late = @ \/ handler[h].org = o]]
    /\ UNCHANGED <<accounts, role>>

(* An adoption that still sees the org that is being unbanned.             *)
AdoptersFault(o, u) == {t \in bannedOrgs : role[t][u] # "none"}

(* banned_at is cleared before the lookup, so the org cannot adopt.        *)
Adopters(o, u) == {t \in bannedOrgs \ {o} : role[t][u] # "none"}

(* clear_org_ban: a swept member of another banned org is handed to it.    *)
UnbanOrg(o) ==
    /\ Counted
    /\ bannedOrgs' = bannedOrgs \ {o}
    /\ ban' \in {b \in [Users -> {"none", "self"} \cup Orgs] :
                  \A u \in Users :
                     b[u] \in IF ban[u] # o THEN {ban[u]}
                             ELSE IF Adopters(o, u) = {} THEN {"none"} ELSE Adopters(o, u)}
    /\ UNCHANGED <<accounts, role, invite, key, handler>>

(* record_user_ban keeps banned_via_org_id of a row that is there already. *)
BanUser(u) ==
    /\ Counted
    /\ u \in accounts
    /\ Operators \ {u} # {}
    /\ ban' = [ban EXCEPT ![u] = IF @ = "none" THEN "self" ELSE @]
    /\ key' = [k \in Keys |-> IF key[k].by = u THEN [key[k] EXCEPT !.revoked = TRUE]
                             ELSE key[k]]
    /\ UNCHANGED <<accounts, role, invite, bannedOrgs, handler>>

UnbanUser(u) ==
    /\ Counted
    /\ u \in accounts
    /\ ban' = [ban EXCEPT ![u] = "none"]
    /\ UNCHANGED <<accounts, role, invite, key, bannedOrgs, handler>>

Members(h) ==
    \/ StartAdd(h) \/ InsertMember(h) \/ CleanupInvites(h) \/ LoadPendingInvite(h)
    \/ InsertInvite(h) \/ UpdateInviteRole(h)
    \/ StartMemberChange(h) \/ WriteMemberChange(h) \/ StartLeave(h) \/ DeleteAccount(h)

ApiKeys(h) ==
    \/ StartMint(h) \/ InsertKey(h) \/ EndStream(h)
    \/ StartKeyChange(h) \/ RevokeKey(h)
    \/ InsertReplacement(h) \/ ExpireOld(h) \/ Compensate(h)

Next ==
    \/ \E h \in Handlers : Members(h) \/ ApiKeys(h) \/ HandlerDies(h)
    \/ RevokeInvite \/ InviteExpires \/ KeyExpires \/ OperatorMemberChange
    \/ \E o \in Orgs : BanOrg(o) \/ UnbanOrg(o)
    \/ \E u \in Users : BanUser(u) \/ UnbanUser(u) \/ SignUp(u)

Spec == Init /\ [][Next]_vars
-----------------------------------------------------------------------------
(* Properties.                                                             *)

(* A sweep is undone with the ban that made it: nobody is locked out on    *)
(* behalf of an organization that is no longer banned, whatever bans,      *)
(* unbans and moves between organizations happened in between.             *)
BanProvenance == \A u \in Users : ban[u] \in Orgs => ban[u] \in bannedOrgs

(* A banned organization holds no live key and no pending invite but those *)
(* a request wrote that had passed its check before the ban, and the       *)
(* replacements of such a key.                                             *)
BanCutsOff ==
    /\ \A k \in Keys : Live(k) /\ key[k].org \in bannedOrgs => key[k].late
    /\ \A i \in Invites :
          invite[i].state = "pending" /\ invite[i].org \in bannedOrgs => invite[i].late

(* The org-scoped routes take the last admin away only when the members    *)
(* changed between the check and the write; an account is deleted with its *)
(* last organization only when nobody else is left in it.                  *)
LastAdminStays ==
    [][\A o \in Orgs : Admins(o) # {} /\ Admins(o)' = {} =>
          \/ OperatorMemberChange
          \/ \E h \in Handlers : ~handler[h].fresh /\ handler'[h].phase = "idle"
          \/ \A u \in Users : role'[o][u] = "none"]_vars

(* A rotation that no process death cut short leaves the replacement alone *)
(* or the old key with an end: never two secrets without a rotation.       *)
RotationSettles ==
    [][\A h \in Handlers :
          handler[h].phase \in {"expireOld", "compensate"} /\ handler'[h].phase = "idle"
          /\ ~HandlerDies(h)
            => LET old == handler[h].row
                   new == handler[h].made
               IN key'[new].revoked \/ key'[old].expiry # "never"]_vars

(* A serving credential never outlives the ban of the whole tenant.        *)
BannedOrgStaysDead == \A k \in Keys : Live(k) => key[k].org \notin bannedOrgs
=============================================================================
