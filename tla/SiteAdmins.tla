----------------------------- MODULE SiteAdmins -----------------------------
(***************************************************************************)
(* The platform operators (platform_admins), their machine keys            *)
(* (platform_admin_keys), bans of their accounts and account deletion.     *)
(*                                                                         *)
(* Granting and revoking operator status are several database calls each;  *)
(* requests overlap and can die between two calls. A ban is one database   *)
(* function.                                                               *)
(***************************************************************************)
EXTENDS Integers, Sequences, FiniteSets

CONSTANTS
    Users,
    FirstOperator,     \* the operator a deployment starts with
    Handlers,          \* requests in flight
    MaxKeys,           \* bound: rows of platform_admin_keys
    MaxRequests,       \* bound: requests in a run
    Null

Keys == 1 .. MaxKeys

ASSUME SiteConstants ==
    /\ FirstOperator \in Users
    /\ {MaxKeys, MaxRequests} \subseteq Nat
    /\ Null \notin Users

VARIABLES
    requests,          \* how many requests were started
    accounts,          \* auth.users
    operators,         \* platform_admins
    banned,            \* user_bans
    key,               \* platform_admin_keys
    changes,           \* history: how often a user's keys or grant were written
    handler            \* what each request in flight is doing

vars == <<requests, accounts, operators, banned, key, changes, handler>>
-----------------------------------------------------------------------------
(* under and late are history: the changes of the owner when the grant     *)
(* that minted the key was written, and whether another request overtook   *)
(* that grant or removed it without seeing the key.                        *)
SuperadminKeyRow ==
    [state : {"none", "live", "revoked"}, user_id : Users \cup {Null},
     under : Nat, late : BOOLEAN]

NoKey == [state |-> "none", user_id |-> Null, under |-> 0, late |-> FALSE]

(* seen and clear are history: the changes of the user at the last write,  *)
(* and whether the user stayed unbanned since the check.                   *)
Request ==
    [phase : {"idle", "grant", "mint", "keys", "row", "leave"},
     by : Users \cup {Null}, user : Users \cup {Null},
     seen : Nat, clear : BOOLEAN]

Idle == [phase |-> "idle", by |-> Null, user |-> Null, seen |-> 0, clear |-> TRUE]

TypeOK ==
    /\ requests \in 0 .. MaxRequests
    /\ operators \cup banned \cup accounts \subseteq Users
    /\ key \in [Keys -> SuperadminKeyRow]
    /\ \A k \in Keys : (key[k].state = "none") = (key[k].user_id = Null)
    /\ changes \in [Users -> Nat]
    /\ handler \in [Handlers -> Request]

Init ==
    /\ requests = 0
    /\ accounts = Users
    /\ operators = {FirstOperator}
    /\ banned = {}
    /\ key = [k \in Keys |-> NoKey]
    /\ changes = [u \in Users |-> 0]
    /\ handler = [h \in Handlers |-> Idle]

(* What the API asks on every request that presents a superadmin key.      *)
Authenticates(k) ==
    /\ key[k].state = "live"
    /\ key[k].user_id \in operators \ banned
-----------------------------------------------------------------------------
Counted == requests < MaxRequests /\ requests' = requests + 1

Begins(h, phase, by, u) ==
    /\ Counted
    /\ handler[h].phase = "idle"
    /\ handler' = [handler EXCEPT ![h] =
          [phase |-> phase, by |-> by, user |-> u, seen |-> changes[u], clear |-> TRUE]]

Ends(h) == handler' = [handler EXCEPT ![h] = Idle]

Revoked(rows, u) ==
    [k \in Keys |-> IF rows[k].user_id = u /\ rows[k].state = "live"
                    THEN [rows[k] EXCEPT !.state = "revoked"] ELSE rows[k]]

(* Marks the keys of u when a request acts on what it no longer sees.      *)
Overtaken(u, stale) ==
    [k \in Keys |-> [key[k] EXCEPT !.late = @ \/ (key[k].user_id = u /\ stale)]]

Changed(u) == changes' = [changes EXCEPT ![u] = @ + 1]
-----------------------------------------------------------------------------
(* PUT site-admin: the gate, then no grant for a banned account.           *)

MayBeGrantedFault(u) == u \in accounts

MayBeGranted(u) == u \in accounts \ banned

StartGrant(h) ==
    /\ \E by \in operators, u \in Users :
          MayBeGranted(u) /\ Begins(h, "grant", by, u)
    /\ UNCHANGED <<accounts, operators, banned, key, changes>>

(* On conflict do nothing: only a grant that wrote its row mints.          *)
WriteGrant(h) ==
    LET u == handler[h].user
    IN  /\ handler[h].phase = "grant"
        /\ IF u \notin operators
           THEN /\ operators' = operators \cup {u}
                /\ Changed(u)
                /\ handler' = [handler EXCEPT ![h].phase = "mint", ![h].seen = changes[u] + 1]
                /\ key' = Overtaken(u, u \notin accounts)
           ELSE Ends(h) /\ UNCHANGED <<operators, changes, key>>
        /\ UNCHANGED <<requests, accounts, banned>>

Minted(r) ==
    [state |-> "live", user_id |-> r.user, under |-> r.seen,
     late |-> ~r.clear \/ r.seen # changes[r.user]]

MintSuperadminKey(h) ==
    /\ handler[h].phase = "mint"
    /\ \E k \in Keys :
          key[k].state = "none" /\ key' = [key EXCEPT ![k] = Minted(handler[h])]
    /\ Ends(h)
    /\ UNCHANGED <<requests, accounts, operators, banned, changes>>
-----------------------------------------------------------------------------
(* DELETE site-admin: never the operator's own; the keys, then the row.    *)

RevokeStepsFault == <<"row", "keys", "idle">>

RevokeSteps == <<"keys", "row", "idle">>

After(phase) == RevokeSteps[1 + CHOOSE i \in {1, 2} : RevokeSteps[i] = phase]

StepsOn(h, seen) ==
    LET next == After(handler[h].phase)
    IN  handler' = [handler EXCEPT ![h] =
           IF next = "idle" THEN Idle ELSE [@ EXCEPT !.phase = next, !.seen = seen]]

MayRevokeFault(by, u) == by \in operators

MayRevoke(by, u) == by \in operators /\ by # u

StartRevoke(h) ==
    /\ \E by, u \in operators : MayRevoke(by, u) /\ Begins(h, RevokeSteps[1], by, u)
    /\ UNCHANGED <<accounts, operators, banned, key, changes>>

RevokeSuperadminKeysForUser(h) ==
    LET u == handler[h].user
    IN  /\ handler[h].phase = "keys"
        /\ key' = Revoked(key, u)
        /\ Changed(u)
        /\ StepsOn(h, changes[u] + 1)
        /\ UNCHANGED <<requests, accounts, operators, banned>>

(* A removal that was itself overtaken may leave keys it did not see.      *)
DeleteOperator(h) ==
    LET u == handler[h].user
    IN  /\ handler[h].phase = "row"
        /\ operators' = operators \ {u}
        /\ key' = Overtaken(u, handler[h].seen # changes[u])
        /\ Changed(u)
        /\ StepsOn(h, changes[u] + 1)
        /\ UNCHANGED <<requests, accounts, banned>>

RevokeSuperadminKey ==
    /\ operators # {}
    /\ \E k \in Keys : key[k].state = "live" /\ key' = [key EXCEPT ![k].state = "revoked"]
    /\ Counted
    /\ UNCHANGED <<accounts, operators, banned, changes, handler>>
-----------------------------------------------------------------------------
(* record_user_ban takes the keys with it; clear_user_ban gives none back. *)

BanTakesKeys(rows, u) == Revoked(rows, u)

BanUser ==
    /\ \E by \in operators, u \in accounts :
          /\ by # u
          /\ banned' = banned \cup {u}
          /\ key' = BanTakesKeys(key, u)
          /\ Changed(u)
          /\ handler' = [h \in Handlers |->
                [handler[h] EXCEPT !.clear = @ /\ handler[h].user # u]]
    /\ Counted
    /\ UNCHANGED <<accounts, operators>>

UnbanUser ==
    /\ operators # {}
    /\ \E u \in banned : banned' = banned \ {u}
    /\ Counted
    /\ UNCHANGED <<accounts, operators, key, changes, handler>>
-----------------------------------------------------------------------------
(* Deleting one's own account asks for another operator, deleting someone  *)
(* else's for being one. The trigger on auth.users removes the grant and   *)
(* the ban; the key row keeps its owner. No row refers to the account, so  *)
(* a grant that was under way can still be written for it.                 *)

StartLeave(h) ==
    /\ \E u \in accounts : operators # {u} /\ Begins(h, "leave", u, u)
    /\ UNCHANGED <<accounts, operators, banned, key, changes>>

StartRemoveUser(h) ==
    /\ \E by \in operators, u \in accounts : by # u /\ Begins(h, "leave", by, u)
    /\ UNCHANGED <<accounts, operators, banned, key, changes>>

DeleteUser(h) ==
    LET u == handler[h].user
    IN  /\ handler[h].phase = "leave"
        /\ accounts' = accounts \ {u}
        /\ operators' = operators \ {u}
        /\ banned' = banned \ {u}
        /\ Ends(h)
        /\ UNCHANGED <<requests, key, changes>>

(* A call fails or the process dies: the request stops where it is.        *)
Dies(h) ==
    /\ handler[h].phase # "idle"
    /\ Ends(h)
    /\ UNCHANGED <<requests, accounts, operators, banned, key, changes>>
-----------------------------------------------------------------------------
Handle(h) ==
    \/ StartGrant(h) \/ WriteGrant(h) \/ MintSuperadminKey(h)
    \/ StartRevoke(h) \/ RevokeSuperadminKeysForUser(h) \/ DeleteOperator(h)
    \/ StartLeave(h) \/ StartRemoveUser(h) \/ DeleteUser(h)
    \/ Dies(h)

Next ==
    \/ \E h \in Handlers : Handle(h)
    \/ RevokeSuperadminKey \/ BanUser \/ UnbanUser

Spec == Init /\ [][Next]_vars
-----------------------------------------------------------------------------
(* A superadmin key works only under the grant it was minted for: neither  *)
(* a new grant nor an unban after the operator's authority was taken away  *)
(* brings an old key back, even when the revoking request died half way.   *)
(* The keys a request overtook, or was overtaken by, are the exception.    *)
NoRevival ==
    \A k \in Keys :
       Authenticates(k) => key[k].late \/ key[k].under = changes[key[k].user_id]

(* No key of a banned account is left live in its row, unless the grant    *)
(* that minted it had looked for a ban before it was placed.               *)
BannedHoldNoKey ==
    \A k \in Keys :
       key[k].state = "live" /\ key[k].user_id \in banned => key[k].late

(* Whether what a request checked before its write no longer holds.        *)
Lapsed(h) ==
    IF handler[h].phase = "leave" /\ handler[h].by = handler[h].user
    THEN operators = {handler[h].by}
    ELSE handler[h].by \notin operators

(* The last operator of the deployment disappears only through a request   *)
(* whose own check has lapsed: two operators removing each other at once.  *)
OperatorRemains ==
    [][operators # {} /\ operators' = {} =>
         \E h \in Handlers : handler'[h] # handler[h] /\ Lapsed(h)]_vars
=============================================================================
