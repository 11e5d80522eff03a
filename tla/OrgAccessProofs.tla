--------------------------- MODULE OrgAccessProofs ---------------------------
(***************************************************************************)
(* Proofs about OrgAccess for any organizations, users, operators,         *)
(* requests in flight and bounds.                                          *)
(***************************************************************************)
EXTENDS OrgAccess, TLAPS

(* The inductive invariant: what holds of the tables, and what holds of    *)
(* every request in flight.                                                *)

\* A row that was written names its org, its address and a role.
InvitesNamed ==
    \A i \in Invites : invite[i].state # "none" =>
       invite[i].org \in Orgs /\ invite[i].email \in Users /\ invite[i].role \in Roles

\* A key of a banned org is revoked, even one that has expired, because a
\* rotation would replace it.
KeysCutOff == \A k \in Keys : key[k].org \in bannedOrgs /\ ~key[k].revoked => key[k].late

InvitesCutOff ==
    \A i \in Invites : invite[i].state = "pending" /\ invite[i].org \in bannedOrgs => invite[i].late

Tables ==
    /\ requests \in 0 .. MaxRequests
    /\ accounts \subseteq Users
    /\ role \in [Orgs -> [Users -> {"none"} \cup Roles]]
    /\ invite \in [Invites -> InviteRow]
    /\ key \in [Keys -> KeyRow]
    /\ bannedOrgs \subseteq Orgs
    /\ ban \in [Users -> {"none", "self"} \cup Orgs]
    /\ InvitesNamed /\ KeysCutOff /\ InvitesCutOff /\ BanProvenance

\* A request carries what its next call needs.
Named(r) ==
    /\ r.phase \in {"member", "cleanup", "load", "insertInvite", "reload", "setRole",
                    "demote", "remove"} =>
          r.org \in Orgs /\ r.user \in Users /\ r.role \in Roles
    /\ r.phase = "setRole" => r.row \in Invites
    /\ r.phase = "leave" => r.user \in Users
    /\ r.phase \in {"mint", "playground"} => r.org \in Orgs
    /\ r.phase \in {"replace", "expireOld", "compensate", "revoke"} =>
          r.row \in Keys /\ r.org \in Orgs /\ key[r.row].org = r.org
    /\ r.phase \in {"stream", "expireOld", "compensate"} => r.made \in Keys

\* A request that writes for a banned org knows that it is late, or replaces
\* a key that was.
Checked(r) ==
    /\ r.phase \in {"cleanup", "load", "insertInvite", "reload", "mint", "playground"}
          /\ r.org \in bannedOrgs => r.late
    /\ r.phase = "replace" /\ r.org \in bannedOrgs => r.late \/ key[r.row].late

\* What a request found out about the admins is so while it is fresh.
Relied(r) ==
    r.fresh =>
       /\ r.phase = "remove" \/ (r.phase = "demote" /\ r.role # "admin") =>
             ~IsLastOrgAdmin(r.org, r.user)
       /\ r.phase = "leave" => ~StrandsOrg(r.user)

Served(r) == Named(r) /\ Checked(r) /\ Relied(r)

InFlight == handler \in [Handlers -> Request] /\ \A h \in Handlers : Served(handler[h])

AccessInv == Tables /\ InFlight
-----------------------------------------------------------------------------
(* Requests in flight.                                                     *)

MemberRoles == {"none"} \cup Roles
RoleTables == [Orgs -> [Users -> MemberRoles]]

\* Written keys stay with their org, and one that is late stays late.
KeysKept ==
    \A k \in Keys : key[k].org # Null => /\ key'[k].org = key[k].org
                                         /\ key[k].late => key'[k].late

\* Between requests nothing is remembered.
LEMMA IdleServed == Idle \in Request /\ Served(Idle) /\ Served(Idle)'
<1>1. Idle \in Request /\ Idle.phase = "idle"
  BY DEF Idle, Request
<1> HIDE DEF Idle
<1> QED
  BY <1>1 DEF Served, Named, Checked, Relied

\* A request is served as before by a step that leaves the members, keeps the
\* keys and bans no org.
LEMMA StillServed ==
  ASSUME NEW r \in Request, Served(r), KeysKept, UNCHANGED role, bannedOrgs' \subseteq bannedOrgs
  PROVE  Served(r)'
<1>1. Named(r)'
  <2>1. r.org \in Orgs => r.org # Null
    BY AccessConstants
  <2> QED
    BY <2>1 DEF Served, Named, KeysKept
<1>2. Checked(r)'
  <2>1. CASE r.phase = "replace"
    <3>1. r.row \in Keys /\ key[r.row].org # Null
      BY <2>1, AccessConstants DEF Served, Named
    <3> QED
      BY <2>1, <3>1 DEF Served, Checked, KeysKept
  <2>2. CASE r.phase # "replace"
    BY <2>2 DEF Served, Checked
  <2> QED
    BY <2>1, <2>2
<1>3. Relied(r)'
  BY DEF Served, Relied, IsLastOrgAdmin, StrandsOrg, Admins
<1> QED
  BY <1>1, <1>2, <1>3 DEF Served

\* One request goes on.
LEMMA OneGoesOn ==
  ASSUME InFlight, NEW h \in Handlers, NEW r \in Request, Served(r)',
         handler' = [handler EXCEPT ![h] = r],
         KeysKept, UNCHANGED role, bannedOrgs' \subseteq bannedOrgs
  PROVE  InFlight'
<1>1. /\ handler' \in [Handlers -> Request] /\ handler'[h] = r
      /\ \A g \in Handlers \ {h} : handler'[g] = handler[g] /\ handler[g] \in Request
  BY DEF InFlight
<1>2. ASSUME NEW g \in Handlers PROVE Served(handler[g])'
  <2>1. PICK q \in Request : q = handler'[g]
    BY <1>1
  <2>2. Served(q)'
    <3>1. CASE g = h
      BY <1>1, <2>1, <3>1
    <3>2. CASE g # h
      BY <1>1, <2>1, <3>2, StillServed DEF InFlight
    <3> QED
      BY <3>1, <3>2
  <2> QED
    BY <2>1, <2>2 DEF Served, Named, Checked, Relied
<1> QED
  BY <1>1, <1>2 DEF InFlight

\* No request goes on.
LEMMA NobodyGoesOn ==
  ASSUME InFlight, UNCHANGED handler, KeysKept, UNCHANGED role, bannedOrgs' \subseteq bannedOrgs
  PROVE  InFlight'
<1>1. ASSUME NEW g \in Handlers PROVE Served(handler[g])'
  <2>1. PICK r \in Request : r = handler[g] /\ Served(r)
    BY DEF InFlight
  <2>2. Served(r)'
    BY <2>1, StillServed
  <2> QED
    BY <2>1, <2>2 DEF Served, Named, Checked, Relied
<1> QED
  BY <1>1 DEF InFlight

\* The members change: whoever relied on them is no longer fresh.
LEMMA MembersChange ==
  ASSUME role \in RoleTables, NEW newRole \in RoleTables, NEW handlers \in [Handlers -> Request],
         \A g \in Handlers : Served(handlers[g]),
         WriteRole(newRole, handlers), KeysKept, UNCHANGED bannedOrgs
  PROVE  InFlight' /\ role' \in RoleTables
<1>1. ASSUME NEW g \in Handlers
      PROVE  handler'[g] \in Request /\ Served(handler[g])'
  <2>1. PICK q \in Request : q = handlers[g]
    OBVIOUS
  <2>2. PICK same \in BOOLEAN : same <=> ReliesOn(q, role) = ReliesOn(q, newRole)
    OBVIOUS
  <2>3. handler'[g] = [q EXCEPT !.fresh = @ /\ same]
    BY <2>1, <2>2 DEF WriteRole
  <2>4. PICK r : r = handler'[g]
    OBVIOUS
  <2>5. /\ r \in Request
        /\ r.phase = q.phase /\ r.by = q.by /\ r.org = q.org /\ r.user = q.user
        /\ r.role = q.role /\ r.row = q.row /\ r.made = q.made
        /\ q.late => r.late
        /\ r.fresh => q.fresh /\ same
    BY <2>1, <2>3, <2>4 DEF Request
  <2>6. Served(q)
    BY <2>1
  <2>7. Named(r)' /\ Checked(r)'
    <3>1. q.org \in Orgs => q.org # Null
      BY AccessConstants
    <3> QED
      BY <2>5, <2>6, <3>1 DEF Served, Named, Checked, KeysKept
  <2>8. Relied(r)'
    <3> SUFFICES ASSUME r.fresh
                 PROVE  /\ r.phase = "remove" \/ (r.phase = "demote" /\ r.role # "admin") =>
                              ~IsLastOrgAdmin(r.org, r.user)'
                        /\ r.phase = "leave" => ~StrandsOrg(r.user)'
      BY DEF Relied
    <3>1. q.fresh /\ ReliesOn(q, role) = ReliesOn(q, newRole) /\ role' = newRole
      BY <2>2, <2>5 DEF WriteRole
    <3>2. CASE r.phase = "leave"
      <4>1. role' = role
        BY <2>5, <3>1, <3>2 DEF ReliesOn
      <4> QED
        BY <2>5, <2>6, <3>1, <3>2, <4>1 DEF Served, Relied, StrandsOrg, Admins
    <3>3. CASE r.phase \in {"remove", "demote"}
      <4>1. q.org \in Orgs /\ q.org # Null
        BY <2>5, <2>6, <3>3, AccessConstants DEF Served, Named
      <4>2. Admins(q.org)' = Admins(q.org)
        BY <2>5, <3>1, <3>3, <4>1 DEF ReliesOn, Admins
      <4> QED
        BY <2>5, <2>6, <3>1, <3>3, <4>2 DEF Served, Relied, IsLastOrgAdmin
    <3> QED
      BY <3>2, <3>3
  <2> QED
    BY <2>4, <2>5, <2>7, <2>8 DEF Served, Named, Checked, Relied
<1>2. handler' \in [Handlers -> Request]
  <2>1. handler' = [g \in Handlers |-> handler'[g]]
    BY DEF WriteRole
  <2> QED
    BY <1>1, <2>1
<1> QED
  BY <1>1, <1>2 DEF InFlight, WriteRole
-----------------------------------------------------------------------------
(* The tables.                                                             *)

\* Nothing but the requests and their count changed.
TablesSame ==
    /\ requests' \in 0 .. MaxRequests
    /\ UNCHANGED <<accounts, role, invite, key, bannedOrgs, ban>>

\* The count of the requests stays within its bound.
LEMMA CountedType ==
  ASSUME Tables, Counted \/ UNCHANGED requests PROVE requests' \in 0 .. MaxRequests
  BY AccessConstants DEF Tables, Counted

\* A step that writes no row keeps the tables and the keys.
LEMMA TablesStay == ASSUME Tables, TablesSame PROVE Tables' /\ KeysKept
<1>1. KeysKept
  BY DEF TablesSame, KeysKept
<1> QED
  BY <1>1 DEF Tables, TablesSame, InvitesNamed, KeysCutOff, InvitesCutOff, BanProvenance

\* Rows of api_keys that are only written over: a revoked one stays revoked.
KeysOver ==
    /\ key' \in [Keys -> KeyRow]
    /\ \A k \in Keys : /\ key'[k].org = key[k].org
                       /\ key[k].late => key'[k].late
                       /\ key[k].revoked => key'[k].revoked

\* Such a write keeps the keys and leaves a banned org cut off.
LEMMA KeysOverKept ==
  ASSUME Tables, KeysOver, bannedOrgs' \subseteq bannedOrgs PROVE KeysKept /\ KeysCutOff'
  BY DEF KeysOver, KeysKept, Tables, KeysCutOff

\* A new row goes where none was.
LEMMA KeyInserted ==
  ASSUME Tables, NEW k \in Keys, FreeKey(k), NEW row \in KeyRow, row.org \in Orgs,
         row.org \in bannedOrgs => row.late,
         key' = [key EXCEPT ![k] = row], UNCHANGED bannedOrgs
  PROVE  KeysKept /\ key' \in [Keys -> KeyRow] /\ KeysCutOff' /\ key'[k] = row
<1>1. key' \in [Keys -> KeyRow] /\ key'[k] = row /\ \A j \in Keys \ {k} : key'[j] = key[j]
  BY DEF Tables
<1>2. key[k].org = Null
  BY DEF FreeKey
<1> QED
  BY <1>1, <1>2 DEF KeysKept, Tables, KeysCutOff

\* The row a request writes for its org; late if the request is, or the key
\* that it replaces.
LEMMA NewKeyRow ==
  ASSUME Tables, NEW r \in Request, NEW replaced \in Keys \cup {Null}
  PROVE  /\ NewKey(r, replaced) \in KeyRow
         /\ NewKey(r, replaced).org = r.org
         /\ r.late => NewKey(r, replaced).late
         /\ replaced \in Keys /\ key[replaced].late => NewKey(r, replaced).late
<1>1. NoKey \in KeyRow
  BY DEF NoKey, KeyRow
<1>2. PICK late \in BOOLEAN : late <=> r.late \/ (replaced # Null /\ key[replaced].late)
  OBVIOUS
<1>3. NewKey(r, replaced) =
        [NoKey EXCEPT !.org = r.org, !.by = r.by, !.replaces = replaced, !.late = late]
  <2>1. (r.late \/ (replaced # Null /\ key[replaced].late)) = late
    <3>1. (r.late \/ (replaced # Null /\ key[replaced].late)) \in BOOLEAN
      OBVIOUS
    <3> QED
      BY <1>2, <3>1
  <2> QED
    BY <2>1 DEF NewKey
<1>4. replaced \in Keys => replaced # Null
  BY AccessConstants DEF Keys
<1> HIDE DEF NoKey
<1> QED
  BY <1>1, <1>2, <1>3, <1>4 DEF KeyRow, Request
-----------------------------------------------------------------------------
(* The steps.                                                              *)

\* The initial state.
LEMMA AccessInit == Init => AccessInv
<1> SUFFICES ASSUME Init PROVE AccessInv
  OBVIOUS
<1>1. InFlight
  BY IdleServed DEF Init, InFlight
<1>2. \A i \in Invites : invite[i] = NoInvite /\ NoInvite \in InviteRow
  BY DEF Init, NoInvite, InviteRow
<1>3. \A k \in Keys : key[k] = NoKey /\ NoKey \in KeyRow
  BY DEF Init, NoKey, KeyRow
<1>4. role \in RoleTables
  <2>1. PICK r \in Roles :
           role = [o \in Orgs |-> [u \in Users |->
                     IF u = Founder THEN "admin" ELSE IF u \in accounts THEN r ELSE "none"]]
    BY DEF Init
  <2> QED
    BY <2>1 DEF RoleTables, MemberRoles, Roles
<1>5. InvitesNamed /\ InvitesCutOff
  BY <1>2 DEF InvitesNamed, InvitesCutOff, NoInvite
<1>6. KeysCutOff /\ BanProvenance
  BY AccessConstants DEF Init, KeysCutOff, BanProvenance
<1>7. requests \in 0 .. MaxRequests
  BY AccessConstants DEF Init
<1> HIDE DEF NoKey, NoInvite
<1>8. Tables
  BY <1>2, <1>3, <1>4, <1>5, <1>6, <1>7 DEF Init, Tables, RoleTables, MemberRoles
<1> QED
  BY <1>1, <1>8 DEF AccessInv

\* A request that passed its checks.
LEMMA BeginsStep ==
  ASSUME AccessInv, NEW h \in Handlers, NEW r \in Request, Served(r), Begins(h, r),
         UNCHANGED <<accounts, role, invite, key, bannedOrgs, ban>>
  PROVE  AccessInv'
<1>1. TablesSame
  BY CountedType DEF AccessInv, TablesSame, Begins
<1>2. Tables' /\ KeysKept
  BY <1>1, TablesStay DEF AccessInv
<1>3. Served(r)'
  BY <1>2, StillServed
<1> QED
  BY <1>2, <1>3, OneGoesOn DEF AccessInv, Begins

\* The five ways a request starts.
LEMMA StartsStep ==
  ASSUME AccessInv, NEW h \in Handlers,
         StartAdd(h) \/ StartMemberChange(h) \/ StartLeave(h) \/ StartMint(h) \/ StartKeyChange(h)
  PROVE  AccessInv'
<1>0. accounts \subseteq Users /\ bannedOrgs \subseteq Orgs /\ key \in [Keys -> KeyRow]
  BY DEF AccessInv, Tables
<1>1. UNCHANGED <<accounts, role, invite, key, bannedOrgs, ban>>
  BY DEF StartAdd, StartMemberChange, StartLeave, StartMint, StartKeyChange
<1>2. CASE StartAdd(h)
  <2>1. PICK o \in Orgs, u \in Users, r \in Roles, phase \in {"member", "cleanup"}, q \in Request :
           /\ o \notin bannedOrgs
           /\ q = [Idle EXCEPT !.phase = phase, !.org = o, !.user = u, !.role = r]
           /\ Begins(h, q)
    BY ZenonT(60), <1>2 DEF StartAdd, Idle, Request
  <2>2. q \in Request /\ q.phase = phase /\ q.org = o /\ q.user = u /\ q.role = r
    BY <2>1 DEF Idle, Request
  <2>3. Served(q)
    BY <2>1, <2>2 DEF Served, Named, Checked, Relied
  <2> QED
    BY <1>1, <2>1, <2>2, <2>3, BeginsStep
<1>3. CASE StartMemberChange(h)
  <2>0. PICK o \in Orgs, u \in Users, r \in Roles, phase \in {"demote", "remove"} :
           /\ (phase = "remove" \/ r # "admin") => ~IsLastOrgAdmin(o, u)
           /\ Begins(h, [Idle EXCEPT !.phase = phase, !.org = o, !.user = u, !.role = r])
    BY <1>3 DEF StartMemberChange
  <2>1. PICK q : /\ q = [Idle EXCEPT !.phase = phase, !.org = o, !.user = u, !.role = r]
                 /\ Begins(h, q)
    BY <2>0
  <2>2. q \in Request /\ q.phase = phase /\ q.org = o /\ q.user = u /\ q.role = r
    BY <2>1 DEF Idle, Request
  <2>3. Served(q)
    BY <2>0, <2>2 DEF Served, Named, Checked, Relied
  <2> QED
    BY <1>1, <2>1, <2>2, <2>3, BeginsStep
<1>4. CASE StartLeave(h)
  <2>1. PICK u \in Users, q \in Request : /\ ~StrandsOrg(u)
                              /\ q = [Idle EXCEPT !.phase = "leave", !.user = u]
                              /\ Begins(h, q)
    BY <1>0, <1>4 DEF StartLeave, Idle, Request
  <2>2. q \in Request /\ q.phase = "leave" /\ q.user = u
    BY <2>1 DEF Idle, Request
  <2>3. Served(q)
    BY <2>1, <2>2 DEF Served, Named, Checked, Relied
  <2> QED
    BY <1>1, <2>1, <2>2, <2>3, BeginsStep
<1>5. CASE StartMint(h)
  <2>1. PICK by \in Users, o \in Orgs, phase \in {"mint", "playground"}, q \in Request :
           /\ o \notin bannedOrgs
           /\ q = [Idle EXCEPT !.phase = phase, !.by = by, !.org = o]
           /\ Begins(h, q)
    BY ZenonT(60), <1>0, <1>5 DEF StartMint, Idle, Request
  <2>2. q \in Request /\ q.phase = phase /\ q.org = o
    BY <2>1 DEF Idle, Request
  <2>3. Served(q)
    BY <2>1, <2>2 DEF Served, Named, Checked, Relied
  <2> QED
    BY <1>1, <2>1, <2>2, <2>3, BeginsStep
<1>6. CASE StartKeyChange(h)
  <2>1. PICK by \in Users \cup {Null}, k \in Keys, phase \in {"revoke", "replace"}, q \in Request :
           /\ key[k].org # Null /\ ~key[k].revoked
           /\ q = [Idle EXCEPT !.phase = phase, !.org = key[k].org, !.row = k, !.by = by]
           /\ Begins(h, q)
    BY ZenonT(60), <1>0, <1>6 DEF StartKeyChange, Idle, Request, KeyRow
  <2>2. key[k].org \in Orgs
    BY <1>0, <2>1 DEF KeyRow
  <2>3. q \in Request /\ q.phase = phase /\ q.org = key[k].org /\ q.row = k
    BY <2>1, <2>2 DEF Idle, Request
  <2>4. q.org \in bannedOrgs => key[q.row].late
    BY <2>1, <2>3 DEF AccessInv, Tables, KeysCutOff
  <2>5. Served(q)
    BY <2>2, <2>3, <2>4 DEF Served, Named, Checked, Relied
  <2> QED
    BY <1>1, <2>1, <2>3, <2>5, BeginsStep
<1> QED
  BY <1>2, <1>3, <1>4, <1>5, <1>6

\* A request that ends without a write, or goes on to another call for the
\* same address.
LEMMA GoesOnStep ==
  ASSUME AccessInv, NEW h \in Handlers, LoadPendingInvite(h) \/ HandlerDies(h)
  PROVE  AccessInv'
<1>0. Tables /\ InFlight /\ handler[h] \in Request /\ Served(handler[h])
  BY DEF AccessInv, InFlight
<1>1. TablesSame
  BY <1>0, CountedType DEF TablesSame, LoadPendingInvite, HandlerDies
<1>2. Tables' /\ KeysKept
  BY <1>0, <1>1, TablesStay
<1>3. CASE Ends(h)
  BY <1>0, <1>1, <1>2, <1>3, IdleServed, OneGoesOn DEF Ends, TablesSame, AccessInv
<1>4. CASE Phase(h, "load") /\ Goes(h, "insertInvite")
  <2>1. PICK r : r = [handler[h] EXCEPT !.phase = "insertInvite"]
    OBVIOUS
  <2>2. handler' = [handler EXCEPT ![h] = r]
    BY <1>4, <2>1 DEF Goes
  <2>3. /\ r \in Request /\ r.phase = "insertInvite" /\ r.org = handler[h].org
        /\ r.user = handler[h].user /\ r.role = handler[h].role /\ r.late = handler[h].late
    BY <1>0, <2>1 DEF Request
  <2>4. Served(r)
    BY <1>0, <1>4, <2>3 DEF Served, Named, Checked, Relied, Phase
  <2> QED
    BY <1>0, <1>1, <1>2, <2>2, <2>3, <2>4, StillServed, OneGoesOn DEF TablesSame, AccessInv
<1>5. ASSUME NEW i \in Invites, Phase(h, "load") \/ Phase(h, "reload"),
             handler' = [handler EXCEPT ![h] = [@ EXCEPT !.phase = "setRole", !.row = i]]
      PROVE  AccessInv'
  <2>1. PICK r : r = [handler[h] EXCEPT !.phase = "setRole", !.row = i]
    OBVIOUS
  <2>2. handler' = [handler EXCEPT ![h] = r]
    BY <1>5, <2>1
  <2>3. /\ r \in Request /\ r.phase = "setRole" /\ r.org = handler[h].org
        /\ r.user = handler[h].user /\ r.role = handler[h].role /\ r.row = i
    BY <1>0, <2>1 DEF Request
  <2>4. Served(r)
    BY <1>0, <1>5, <2>3 DEF Served, Named, Checked, Relied, Phase
  <2> QED
    BY <1>0, <1>1, <1>2, <2>2, <2>3, <2>4, StillServed, OneGoesOn DEF TablesSame, AccessInv
<1>6. CASE LoadPendingInvite(h)
  <2>1. CASE (Phase(h, "load") /\ Goes(h, "insertInvite")) \/ Ends(h)
    BY <1>3, <1>4, <2>1
  <2>2. CASE \E i \in Slot(h) :
                handler' = [handler EXCEPT ![h] =
                   IF invite[i].role = @.role THEN Idle
                   ELSE [@ EXCEPT !.phase = "setRole", !.row = i]]
    <3>1. PICK i \in Invites :
             handler' = [handler EXCEPT ![h] =
                IF invite[i].role = @.role THEN Idle
                ELSE [@ EXCEPT !.phase = "setRole", !.row = i]]
      BY <2>2 DEF Slot
    <3>2. CASE invite[i].role = handler[h].role
      BY <1>3, <3>1, <3>2 DEF Ends
    <3>3. CASE invite[i].role # handler[h].role
      BY <1>5, <1>6, <3>1, <3>3 DEF LoadPendingInvite
    <3> QED
      BY <3>2, <3>3
  <2> QED
    BY <1>6, <2>1, <2>2 DEF LoadPendingInvite
<1> QED
  BY <1>3, <1>6 DEF HandlerDies

\* Rows of org_invitations that are written over or deleted.
InvitesOver ==
    /\ invite' \in [Invites -> InviteRow]
    /\ \A i \in Invites :
          \/ invite'[i].state = "none"
          \/ /\ invite[i].state # "none"
             /\ invite'[i].org = invite[i].org /\ invite'[i].email = invite[i].email
             /\ invite'[i].role \in Roles
             /\ invite'[i].state = "pending" => invite[i].state = "pending"
             /\ invite[i].late => invite'[i].late

\* Such a write leaves no row without a name, and a banned org cut off.
LEMMA InvitesOverKept ==
  ASSUME Tables, InvitesOver, bannedOrgs' \subseteq bannedOrgs PROVE InvitesNamed' /\ InvitesCutOff'
  BY DEF InvitesOver, Tables, InvitesNamed, InvitesCutOff

\* The steps that write invites only.
LEMMA InviteSteps ==
  ASSUME AccessInv,
         \/ RevokeInvite \/ InviteExpires
         \/ \E h \in Handlers : CleanupInvites(h) \/ InsertInvite(h) \/ UpdateInviteRole(h)
  PROVE  AccessInv'
<1>0. Tables /\ InFlight /\ invite \in [Invites -> InviteRow]
      /\ \A h \in Handlers : handler[h] \in Request /\ Served(handler[h])
  BY DEF AccessInv, InFlight, Tables
<1>1. /\ UNCHANGED <<accounts, role, key, bannedOrgs, ban>>
      /\ requests' \in 0 .. MaxRequests
  BY <1>0, CountedType DEF RevokeInvite, InviteExpires, CleanupInvites, InsertInvite, UpdateInviteRole
<1>2. KeysKept
  BY <1>1 DEF KeysKept
<1>3. ASSUME invite' \in [Invites -> InviteRow], InvitesNamed', InvitesCutOff', InFlight'
      PROVE  AccessInv'
  BY <1>0, <1>1, <1>3 DEF AccessInv, Tables, KeysCutOff, BanProvenance
<1>4. ASSUME InvitesOver PROVE invite' \in [Invites -> InviteRow] /\ InvitesNamed' /\ InvitesCutOff'
  BY <1>0, <1>1, <1>4, InvitesOverKept DEF InvitesOver
<1>5. ASSUME NEW h \in Handlers, Ends(h) PROVE InFlight'
  BY <1>0, <1>1, <1>2, <1>5, IdleServed, OneGoesOn DEF Ends
<1>6. ASSUME NEW h \in Handlers, NEW phase \in {"load", "reload"}, Goes(h, phase),
             handler[h].phase \in {"cleanup", "insertInvite"}
      PROVE  InFlight'
  <2>1. PICK r : r = [handler[h] EXCEPT !.phase = phase]
    OBVIOUS
  <2>2. handler' = [handler EXCEPT ![h] = r]
    BY <1>6, <2>1 DEF Goes
  <2>3. /\ r \in Request /\ r.phase = phase /\ r.org = handler[h].org
        /\ r.user = handler[h].user /\ r.role = handler[h].role /\ r.late = handler[h].late
    BY <1>0, <2>1 DEF Request
  <2>4. Served(handler[h])
    BY <1>0
  <2>5. Served(r)
    BY <1>6, <2>3, <2>4 DEF Served, Named, Checked, Relied
  <2> QED
    BY <1>0, <1>1, <1>2, <2>2, <2>3, <2>5, StillServed, OneGoesOn
<1>7. ASSUME NEW h \in Handlers, CleanupInvites(h) PROVE AccessInv'
  <2>1. NoInvite \in InviteRow /\ NoInvite.state = "none"
    BY DEF NoInvite, InviteRow
  <2>2. invite' = [i \in Invites |->
           IF i \in Slot(h) /\ invite[i].state = "expired" THEN NoInvite ELSE invite[i]]
    BY <1>7 DEF CleanupInvites
  <2>3. InvitesOver
    <3> HIDE DEF NoInvite
    <3> QED
      BY <1>0, <2>1, <2>2 DEF InvitesOver, Tables, InvitesNamed
  <2>4. InFlight'
    BY <1>6, <1>7 DEF CleanupInvites, Phase
  <2> QED
    BY <1>3, <1>4, <2>3, <2>4
<1>8. ASSUME NEW h \in Handlers, InsertInvite(h) PROVE AccessInv'
  <2>1. CASE Goes(h, "reload") /\ UNCHANGED invite
    <3>1. InFlight'
      BY <1>6, <1>8, <2>1 DEF InsertInvite, Phase
    <3>2. TablesSame
      BY <1>1, <2>1 DEF TablesSame
    <3> QED
      BY <1>0, <3>1, <3>2, TablesStay DEF AccessInv
  <2>2. ASSUME NEW i \in Invites, invite[i].state = "none", Ends(h),
               invite' = [invite EXCEPT ![i] =
                      [state |-> "pending", org |-> handler[h].org,
                       email |-> handler[h].user, role |-> handler[h].role,
                       late |-> handler[h].late]]
        PROVE  AccessInv'
    <3>1. PICK row : row = [state |-> "pending", org |-> handler[h].org,
                            email |-> handler[h].user, role |-> handler[h].role,
                            late |-> handler[h].late]
      OBVIOUS
    <3>2. /\ handler[h].phase = "insertInvite" /\ handler[h] \in Request /\ Served(handler[h])
      BY <1>0, <1>8 DEF InsertInvite, Phase
    <3>3. /\ row \in InviteRow /\ row.org \in Orgs /\ row.email \in Users /\ row.role \in Roles
          /\ row.org \in bannedOrgs => row.late
      BY <3>1, <3>2 DEF Served, Named, Checked, Request, InviteRow
    <3>4. invite' = [invite EXCEPT ![i] = row]
      BY <2>2, <3>1
    <3>5. invite' \in [Invites -> InviteRow] /\ InvitesNamed' /\ InvitesCutOff'
      BY <1>0, <1>1, <3>3, <3>4 DEF Tables, InvitesNamed, InvitesCutOff
    <3> QED
      BY <1>3, <1>5, <2>2, <3>5
  <2> QED
    BY <1>8, <2>1, <2>2 DEF InsertInvite
<1>9. ASSUME NEW h \in Handlers, UpdateInviteRole(h) PROVE AccessInv'
  <2>1. PICK i \in Invites : i = handler[h].row
    BY <1>0, <1>9 DEF UpdateInviteRole, Phase, Served, Named
  <2>2. handler[h].role \in Roles
    BY <1>0, <1>9 DEF UpdateInviteRole, Phase, Served, Named
  <2>3. PICK new : new = IF invite[i].state = "none" THEN invite[i].role ELSE handler[h].role
    OBVIOUS
  <2>4. invite' = [invite EXCEPT ![i].role = new]
    BY <1>0, <1>9, <2>1, <2>3 DEF UpdateInviteRole
  <2>5. new \in Roles \cup {Null} /\ (invite[i].state # "none" => new \in Roles)
    BY <1>0, <2>2, <2>3 DEF InviteRow
  <2>6. /\ invite' \in [Invites -> InviteRow]
        /\ \A j \in Invites \ {i} : invite'[j] = invite[j]
        /\ invite'[i].state = invite[i].state /\ invite'[i].org = invite[i].org
        /\ invite'[i].email = invite[i].email /\ invite'[i].role = new
        /\ invite'[i].late = invite[i].late
    BY <1>0, <2>4, <2>5 DEF InviteRow
  <2>7. InvitesOver
    BY <1>0, <2>5, <2>6 DEF InvitesOver, Tables, InvitesNamed
  <2>8. InFlight'
    BY <1>5, <1>9 DEF UpdateInviteRole
  <2> QED
    BY <1>3, <1>4, <2>7, <2>8
<1>10. CASE RevokeInvite \/ InviteExpires
  <2>1. PICK i \in Invites, state \in {"revoked", "expired"} :
           invite[i].state # "none" /\ invite' = [invite EXCEPT ![i].state = state]
    BY <1>10 DEF RevokeInvite, InviteExpires
  <2>2. /\ invite' \in [Invites -> InviteRow]
        /\ \A j \in Invites \ {i} : invite'[j] = invite[j]
        /\ invite'[i].state = state /\ invite'[i].org = invite[i].org
        /\ invite'[i].email = invite[i].email /\ invite'[i].role = invite[i].role
        /\ invite'[i].late = invite[i].late
    BY <1>0, <2>1 DEF InviteRow
  <2>3. InvitesOver
    BY <1>0, <2>1, <2>2 DEF InvitesOver, Tables, InvitesNamed
  <2>4. InFlight'
    <3>1. UNCHANGED handler
      BY <1>10 DEF RevokeInvite, InviteExpires
    <3> QED
      BY <1>0, <1>1, <1>2, <3>1, NobodyGoesOn
  <2> QED
    BY <1>3, <1>4, <2>3, <2>4
<1> QED
  BY <1>7, <1>8, <1>9, <1>10

\* One field of one row is written over.
LEMMA KeyWritten ==
  ASSUME Tables, NEW k \in Keys,
         \/ key' = [key EXCEPT ![k].revoked = TRUE]
         \/ \E expiry \in {"ahead", "past"} : key' = [key EXCEPT ![k].expiry = expiry]
  PROVE  KeysOver
<1>0. key \in [Keys -> KeyRow]
  BY DEF Tables
<1>1. CASE key' = [key EXCEPT ![k].revoked = TRUE]
  <2>1. /\ key' \in [Keys -> KeyRow] /\ \A j \in Keys \ {k} : key'[j] = key[j]
        /\ key'[k].org = key[k].org /\ key'[k].late = key[k].late /\ key'[k].revoked
    BY <1>0, <1>1 DEF KeyRow
  <2> QED
    BY <2>1 DEF KeysOver
<1>2. ASSUME NEW expiry \in {"ahead", "past"}, key' = [key EXCEPT ![k].expiry = expiry]
      PROVE  KeysOver
  <2>1. /\ key' \in [Keys -> KeyRow] /\ \A j \in Keys \ {k} : key'[j] = key[j]
        /\ key'[k].org = key[k].org /\ key'[k].late = key[k].late
        /\ key'[k].revoked = key[k].revoked
    BY <1>0, <1>2 DEF KeyRow
  <2> QED
    BY <2>1 DEF KeysOver
<1> QED
  BY <1>1, <1>2

\* The steps that write keys only.
LEMMA KeySteps ==
  ASSUME AccessInv,
         \/ KeyExpires
         \/ \E h \in Handlers : \/ InsertKey(h) \/ EndStream(h) \/ RevokeKey(h)
                                \/ InsertReplacement(h) \/ ExpireOld(h) \/ Compensate(h)
  PROVE  AccessInv'
<1>0. Tables /\ InFlight /\ key \in [Keys -> KeyRow]
      /\ \A h \in Handlers : handler[h] \in Request /\ Served(handler[h])
  BY DEF AccessInv, InFlight, Tables
<1>1. /\ UNCHANGED <<accounts, role, invite, bannedOrgs, ban>>
      /\ requests' \in 0 .. MaxRequests
  BY <1>0, CountedType DEF KeyExpires, InsertKey, EndStream, RevokeKey, InsertReplacement,
                           ExpireOld, Compensate
<1>2. ASSUME key' \in [Keys -> KeyRow], KeysCutOff', InFlight' PROVE AccessInv'
  BY <1>0, <1>1, <1>2 DEF AccessInv, Tables, InvitesNamed, InvitesCutOff, BanProvenance
<1>3. ASSUME KeysOver \/ UNCHANGED key
      PROVE  key' \in [Keys -> KeyRow] /\ KeysCutOff' /\ KeysKept
  <2>1. CASE KeysOver
    BY <1>0, <1>1, <2>1, KeysOverKept DEF KeysOver
  <2>2. CASE UNCHANGED key
    BY <1>0, <1>1, <2>2 DEF Tables, KeysCutOff, KeysKept
  <2> QED
    BY <1>3, <2>1, <2>2
<1>4. ASSUME NEW h \in Handlers, Ends(h), KeysOver \/ UNCHANGED key PROVE AccessInv'
  BY <1>0, <1>1, <1>2, <1>3, <1>4, IdleServed, OneGoesOn DEF Ends
<1>5. CASE KeyExpires
  <2>1. KeysOver /\ UNCHANGED handler
    BY <1>0, <1>5, KeyWritten DEF KeyExpires
  <2> QED
    BY <1>0, <1>1, <1>2, <1>3, <2>1, NobodyGoesOn
<1>6. ASSUME NEW h \in Handlers, EndStream(h) \/ RevokeKey(h) \/ Compensate(h) PROVE AccessInv'
  <2>1. Served(handler[h])
    BY <1>0
  <2>2. Ends(h) /\ (KeysOver \/ UNCHANGED key)
    BY <1>0, <1>6, <2>1, KeyWritten
       DEF EndStream, RevokeKey, Compensate, Compensated, Phase, Served, Named
  <2> QED
    BY <1>4, <2>2
<1>7. ASSUME NEW h \in Handlers, ExpireOld(h) PROVE AccessInv'
  <2>1. Served(handler[h]) /\ handler[h].phase = "expireOld" /\ handler[h].row \in Keys
    BY <1>0, <1>7 DEF ExpireOld, Phase, Served, Named
  <2>2. CASE Ends(h) /\ key' = [key EXCEPT ![handler[h].row].expiry = "ahead"]
    <3>1. KeysOver
      BY <1>0, <2>1, <2>2, KeyWritten
    <3> QED
      BY <1>4, <2>2, <3>1
  <2>3. CASE Goes(h, "compensate") /\ UNCHANGED key
    <3>1. PICK r : r = [handler[h] EXCEPT !.phase = "compensate"]
      OBVIOUS
    <3>2. handler' = [handler EXCEPT ![h] = r]
      BY <2>3, <3>1 DEF Goes
    <3>3. /\ r \in Request /\ r.phase = "compensate" /\ r.org = handler[h].org
          /\ r.row = handler[h].row /\ r.made = handler[h].made
      BY <1>0, <3>1 DEF Request
    <3>4. Served(r)
      BY <2>1, <3>3 DEF Served, Named, Checked, Relied
    <3>5. key' \in [Keys -> KeyRow] /\ KeysCutOff' /\ KeysKept
      BY <1>3, <2>3
    <3> QED
      BY <1>0, <1>1, <1>2, <3>2, <3>3, <3>4, <3>5, StillServed, OneGoesOn
  <2> QED
    BY <1>7, <2>2, <2>3 DEF ExpireOld
<1>8. ASSUME NEW h \in Handlers, InsertKey(h) PROVE AccessInv'
  <2>1. PICK k \in Keys, expiry \in {"never", "ahead"} :
          /\ FreeKey(k)
          /\ key' = [key EXCEPT ![k] = [NewKey(handler[h], Null) EXCEPT !.expiry = expiry]]
          /\ handler' = [handler EXCEPT ![h] =
                IF @.phase = "mint" THEN Idle
                ELSE [@ EXCEPT !.phase = "stream", !.made = k]]
    BY <1>8 DEF InsertKey
  <2>2. PICK new : new = NewKey(handler[h], Null)
    OBVIOUS
  <2>3. PICK row : row = [new EXCEPT !.expiry = expiry]
    OBVIOUS
  <2>4. /\ Served(handler[h]) /\ handler[h] \in Request
        /\ handler[h].phase \in {"mint", "playground"} /\ handler[h].org \in Orgs
    BY <1>0, <1>8 DEF InsertKey, Phase, Served, Named
  <2>5. new \in KeyRow /\ new.org = handler[h].org /\ (handler[h].late => new.late)
    BY <1>0, <2>2, <2>4, NewKeyRow
  <2>6. row \in KeyRow /\ row.org = new.org /\ row.late = new.late
    BY <2>3, <2>5 DEF KeyRow
  <2>7. row.org \in bannedOrgs => row.late
    BY <2>4, <2>5, <2>6 DEF Served, Checked
  <2>8. key' = [key EXCEPT ![k] = row]
    BY <2>1, <2>2, <2>3
  <2>9. KeysKept /\ key' \in [Keys -> KeyRow] /\ KeysCutOff'
    BY ZenonT(60), <1>0, <1>1, <2>1, <2>4, <2>5, <2>6, <2>7, <2>8, KeyInserted
  <2>10. PICK r : r = IF handler[h].phase = "mint" THEN Idle
                      ELSE [handler[h] EXCEPT !.phase = "stream", !.made = k]
    OBVIOUS
  <2>11. handler' = [handler EXCEPT ![h] = r]
    BY <2>1, <2>10
  <2>12. r \in Request /\ Served(r)
    <3>1. CASE r = Idle
      BY <3>1, IdleServed
    <3>2. CASE r = [handler[h] EXCEPT !.phase = "stream", !.made = k]
      <4>1. r \in Request /\ r.phase = "stream" /\ r.made = k
        BY <2>4, <3>2 DEF Request
      <4> QED
        BY <4>1 DEF Served, Named, Checked, Relied
    <3> QED
      BY <2>10, <3>1, <3>2
  <2> QED
    BY <1>0, <1>1, <1>2, <2>9, <2>11, <2>12, StillServed, OneGoesOn
<1>9. ASSUME NEW h \in Handlers, InsertReplacement(h) PROVE AccessInv'
  <2>1. PICK k \in Keys :
          /\ FreeKey(k)
          /\ key' = [key EXCEPT ![k] = NewKey(handler[h], handler[h].row)]
          /\ handler' = [handler EXCEPT ![h].phase = "expireOld", ![h].made = k]
    BY <1>9 DEF InsertReplacement
  <2>2. PICK row : row = NewKey(handler[h], handler[h].row)
    OBVIOUS
  <2>3. /\ Served(handler[h]) /\ handler[h] \in Request /\ handler[h].phase = "replace"
        /\ handler[h].org \in Orgs /\ handler[h].row \in Keys
        /\ key[handler[h].row].org = handler[h].org
    BY <1>0, <1>9 DEF InsertReplacement, Phase, Served, Named
  <2>4. /\ row \in KeyRow /\ row.org = handler[h].org /\ (handler[h].late => row.late)
        /\ key[handler[h].row].late => row.late
    BY <1>0, <2>2, <2>3, NewKeyRow
  <2>5. row.org \in bannedOrgs => row.late
    BY <2>3, <2>4 DEF Served, Checked
  <2>6. key' = [key EXCEPT ![k] = row]
    BY <2>1, <2>2
  <2>7. KeysKept /\ key' \in [Keys -> KeyRow] /\ KeysCutOff'
    BY <1>0, <1>1, <2>1, <2>3, <2>4, <2>5, <2>6, KeyInserted
  <2>8. PICK r : r = [handler[h] EXCEPT !.phase = "expireOld", !.made = k]
    OBVIOUS
  <2>9. handler' = [handler EXCEPT ![h] = r]
    BY <1>0, <2>1, <2>8 DEF InFlight
  <2>10. /\ r \in Request /\ r.phase = "expireOld" /\ r.made = k
         /\ r.org = handler[h].org /\ r.row = handler[h].row
    BY <2>3, <2>8 DEF Request
  <2>11. Served(r)
    BY <2>3, <2>10 DEF Served, Named, Checked, Relied
  <2> QED
    BY <1>0, <1>1, <1>2, <2>7, <2>9, <2>10, <2>11, StillServed, OneGoesOn
<1> QED
  BY <1>5, <1>6, <1>7, <1>8, <1>9

\* One membership is written.
LEMMA RoleWritten ==
  ASSUME role \in RoleTables, NEW o \in Orgs, NEW u \in Users, NEW r \in MemberRoles
  PROVE  /\ [role EXCEPT ![o][u] = r] \in RoleTables
         /\ \A p \in Orgs, v \in Users :
               [role EXCEPT ![o][u] = r][p][v] = IF p = o /\ v = u THEN r ELSE role[p][v]
<1>1. role[o] \in [Users -> MemberRoles]
  BY DEF RoleTables
<1>2. [role[o] EXCEPT ![u] = r] \in [Users -> MemberRoles]
  BY <1>1
<1> QED
  BY <1>1, <1>2 DEF RoleTables

\* The steps that write memberships, and an account that goes.
LEMMA MemberSteps ==
  ASSUME AccessInv,
         \/ OperatorMemberChange
         \/ \E h \in Handlers : InsertMember(h) \/ WriteMemberChange(h) \/ DeleteAccount(h)
         \/ \E u \in Users : SignUp(u)
  PROVE  AccessInv'
<1>0. Tables /\ InFlight /\ role \in RoleTables /\ accounts \subseteq Users
      /\ handler \in [Handlers -> Request]
      /\ \A h \in Handlers : Served(handler[h])
  BY DEF AccessInv, InFlight, Tables, RoleTables, MemberRoles
<1>1. UNCHANGED bannedOrgs /\ requests' \in 0 .. MaxRequests
  BY <1>0, CountedType DEF OperatorMemberChange, InsertMember, WriteMemberChange, DeleteAccount, SignUp
<1>2. ASSUME accounts' \subseteq Users, role' \in RoleTables, InvitesOver, KeysOver, InFlight',
             \A u \in Users : ban'[u] = "none" \/ ban'[u] = ban[u],
             ban' \in [Users -> {"none", "self"} \cup Orgs]
      PROVE  AccessInv'
  <2>1. BanProvenance'
    BY <1>0, <1>1, <1>2, AccessConstants DEF Tables, BanProvenance
  <2>2. InvitesNamed' /\ InvitesCutOff' /\ KeysCutOff'
    BY <1>0, <1>1, <1>2, InvitesOverKept, KeysOverKept
  <2> QED
    BY <1>1, <1>2, <2>1, <2>2
       DEF AccessInv, Tables, InvitesOver, KeysOver, RoleTables, MemberRoles
<1>3. UNCHANGED key => KeysOver /\ KeysKept
  BY <1>0 DEF KeysOver, KeysKept, Tables
<1>4. UNCHANGED invite => InvitesOver
  BY <1>0 DEF InvitesOver, Tables, InvitesNamed
<1>5. ASSUME NEW h \in Handlers
      PROVE  /\ [handler EXCEPT ![h] = Idle] \in [Handlers -> Request]
             /\ \A g \in Handlers : Served([handler EXCEPT ![h] = Idle][g])
  <2>1. [handler EXCEPT ![h] = Idle] \in [Handlers -> Request]
    BY <1>0, IdleServed
  <2>2. ASSUME NEW g \in Handlers PROVE Served([handler EXCEPT ![h] = Idle][g])
    <3>1. CASE g = h
      <4>1. [handler EXCEPT ![h] = Idle][g] = Idle
        BY <1>0, <3>1
      <4> QED
        BY <4>1, IdleServed
    <3>2. CASE g # h
      <4>1. [handler EXCEPT ![h] = Idle][g] = handler[g]
        BY <1>0, <3>2
      <4> QED
        BY <1>0, <4>1
    <3> QED
      BY <3>1, <3>2
  <2> QED
    BY <2>1, <2>2
<1>6. ASSUME NEW h \in Handlers, NEW o \in Orgs, NEW u \in Users, NEW new \in MemberRoles,
             \/ WriteRole([role EXCEPT ![o][u] = new], [handler EXCEPT ![h] = Idle])
             \/ handler' = [handler EXCEPT ![h] = Idle] /\ UNCHANGED role,
             UNCHANGED <<accounts, invite, key, ban>>
      PROVE  AccessInv'
  <2>1. InFlight' /\ role' \in RoleTables
    <3>1. CASE WriteRole([role EXCEPT ![o][u] = new], [handler EXCEPT ![h] = Idle])
      <4>1. [role EXCEPT ![o][u] = new] \in RoleTables
        BY <1>0, RoleWritten
      <4> QED
        BY <1>0, <1>1, <1>3, <1>5, <1>6, <3>1, <4>1, MembersChange
    <3>2. CASE handler' = [handler EXCEPT ![h] = Idle] /\ UNCHANGED role
      BY <1>0, <1>1, <1>3, <1>6, <3>2, IdleServed, OneGoesOn
    <3> QED
      BY <1>6, <3>1, <3>2
  <2> QED
    BY <1>0, <1>2, <1>3, <1>4, <1>6, <2>1 DEF Tables
<1>7. ASSUME NEW h \in Handlers, InsertMember(h) \/ WriteMemberChange(h) PROVE AccessInv'
  <2>1. /\ handler[h].org \in Orgs /\ handler[h].user \in Users /\ handler[h].role \in MemberRoles
        /\ "none" \in MemberRoles
    BY <1>0, <1>7 DEF InsertMember, WriteMemberChange, Phase, Served, Named, MemberRoles
  <2>2. CASE InsertMember(h)
    BY <1>6, <2>1, <2>2 DEF InsertMember
  <2>3. CASE WriteMemberChange(h)
    <3>1. PICK new \in MemberRoles :
             new = IF Phase(h, "demote") THEN handler[h].role ELSE "none"
      BY <2>1
    <3> QED
      BY <1>6, <2>1, <2>3, <3>1 DEF WriteMemberChange
  <2> QED
    BY <1>7, <2>2, <2>3
<1>8. CASE OperatorMemberChange
  <2>1. PICK o \in Orgs, u \in Users :
          \/ \E r \in Roles \cup {"none"} : WriteRole([role EXCEPT ![o][u] = r], handler)
          \/ \E t \in Orgs \ {o}, r \in Roles :
                WriteRole([role EXCEPT ![o][u] = "none", ![t][u] = r], handler)
    BY <1>8 DEF OperatorMemberChange
  <2>2. PICK newRole \in RoleTables : WriteRole(newRole, handler)
    <3>1. ASSUME NEW r \in Roles \cup {"none"} PROVE [role EXCEPT ![o][u] = r] \in RoleTables
      BY <1>0, RoleWritten DEF MemberRoles
    <3>2. ASSUME NEW t \in Orgs \ {o}, NEW r \in Roles
          PROVE  [role EXCEPT ![o][u] = "none", ![t][u] = r] \in RoleTables
      <4>1. "none" \in MemberRoles /\ r \in MemberRoles
        BY DEF MemberRoles
      <4>2. role[o] \in [Users -> MemberRoles] /\ role[t] \in [Users -> MemberRoles]
        BY <1>0 DEF RoleTables
      <4> QED
        BY <1>0, <4>1, <4>2 DEF RoleTables
    <3> QED
      BY <2>1, <3>1, <3>2
  <2>3. UNCHANGED <<accounts, invite, key, ban>>
    BY <1>8 DEF OperatorMemberChange
  <2>4. InFlight' /\ role' \in RoleTables
    BY <1>0, <1>1, <1>3, <2>2, <2>3, MembersChange
  <2> QED
    BY <1>0, <1>2, <1>3, <1>4, <2>3, <2>4 DEF Tables
<1>9. ASSUME NEW u \in Users, SignUp(u) PROVE AccessInv'
  <2>1. accounts' \subseteq Users /\ UNCHANGED <<key, ban>>
    BY <1>0, <1>9 DEF SignUp
  <2>2. CASE UNCHANGED <<invite, role, handler>>
    <3>1. InFlight'
      BY <1>0, <1>1, <1>3, <2>1, <2>2, NobodyGoesOn
    <3> QED
      BY <1>0, <1>2, <1>3, <1>4, <2>1, <2>2, <3>1 DEF Tables
  <2>3. ASSUME NEW i \in Invites, invite[i].state = "pending",
               invite' = [invite EXCEPT ![i].state = "accepted"],
               WriteRole([role EXCEPT ![invite[i].org][u] = invite[i].role], handler)
        PROVE  AccessInv'
    <3>1. invite[i].org \in Orgs /\ invite[i].role \in Roles /\ invite \in [Invites -> InviteRow]
      BY <1>0, <2>3 DEF Tables, InvitesNamed
    <3>2. [role EXCEPT ![invite[i].org][u] = invite[i].role] \in RoleTables
      BY <1>0, <3>1, RoleWritten DEF MemberRoles
    <3>3. InFlight' /\ role' \in RoleTables
      BY <1>0, <1>1, <1>3, <2>1, <2>3, <3>2, MembersChange
    <3>4. /\ invite' \in [Invites -> InviteRow]
          /\ \A j \in Invites \ {i} : invite'[j] = invite[j]
          /\ invite'[i].state = "accepted" /\ invite'[i].org = invite[i].org
          /\ invite'[i].email = invite[i].email /\ invite'[i].role = invite[i].role
          /\ invite'[i].late = invite[i].late
      BY <2>3, <3>1 DEF InviteRow
    <3>5. InvitesOver
      BY <1>0, <2>3, <3>1, <3>4 DEF InvitesOver, Tables, InvitesNamed
    <3> QED
      BY <1>0, <1>2, <1>3, <2>1, <3>3, <3>5 DEF Tables
  <2> QED
    BY <1>9, <2>2, <2>3 DEF SignUp
<1>10. ASSUME NEW h \in Handlers, DeleteAccount(h) PROVE AccessInv'
  <2>1. PICK u \in Users : u = handler[h].user
    BY <1>0, <1>10 DEF DeleteAccount, Phase, Served, Named
  <2>2. /\ accounts' = accounts \ {u}
        /\ ban' = [ban EXCEPT ![u] = "none"]
        /\ invite' = [i \in Invites |-> IF invite[i].email = u THEN NoInvite ELSE invite[i]]
        /\ key' = [k \in Keys |-> IF key[k].by = u THEN [key[k] EXCEPT !.by = Null] ELSE key[k]]
        /\ WriteRole([o \in Orgs |-> [role[o] EXCEPT ![u] = "none"]],
                     [handler EXCEPT ![h] = Idle])
    BY <1>10, <2>1 DEF DeleteAccount
  <2>3. KeysOver /\ KeysKept
    <3>1. key \in [Keys -> KeyRow]
      BY <1>0 DEF Tables
    <3>2. ASSUME NEW k \in Keys
          PROVE  /\ key'[k] \in KeyRow /\ key'[k].org = key[k].org
                 /\ key'[k].late = key[k].late /\ key'[k].revoked = key[k].revoked
      <4>1. CASE key[k].by = u
        <5>1. key'[k] = [key[k] EXCEPT !.by = Null]
          BY <2>2, <4>1
        <5> QED
          BY <3>1, <5>1 DEF KeyRow
      <4>2. CASE key[k].by # u
        <5>1. key'[k] = key[k]
          BY <2>2, <4>2
        <5> QED
          BY <3>1, <5>1
      <4> QED
        BY <4>1, <4>2
    <3>3. key' = [k \in Keys |-> key'[k]]
      BY <2>2
    <3> QED
      BY <3>2, <3>3 DEF KeysOver, KeysKept
  <2>4. InvitesOver
    <3>1. NoInvite \in InviteRow /\ NoInvite.state = "none"
      BY DEF NoInvite, InviteRow
    <3> HIDE DEF NoInvite
    <3> QED
      BY <1>0, <2>2, <3>1 DEF InvitesOver, Tables, InvitesNamed
  <2>5. [o \in Orgs |-> [role[o] EXCEPT ![u] = "none"]] \in RoleTables
    <3>1. "none" \in MemberRoles
      BY DEF MemberRoles
    <3> QED
      BY <1>0, <3>1 DEF RoleTables
  <2>6. InFlight' /\ role' \in RoleTables
    BY <1>0, <1>1, <1>5, <2>2, <2>3, <2>5, MembersChange
  <2>7. /\ ban' \in [Users -> {"none", "self"} \cup Orgs]
        /\ \A v \in Users : ban'[v] = "none" \/ ban'[v] = ban[v]
    BY <1>0, <2>2 DEF Tables
  <2> QED
    BY <1>0, <1>2, <2>2, <2>3, <2>4, <2>6, <2>7
<1> QED
  BY <1>7, <1>8, <1>9, <1>10

\* A ban marks a request of its organization as overtaken and changes nothing
\* else of it.
LEMMA Overtaken ==
  ASSUME NEW q \in Request, NEW late \in BOOLEAN, NEW r, r = [q EXCEPT !.late = late]
  PROVE  /\ r \in Request
         /\ r.phase = q.phase /\ r.by = q.by /\ r.org = q.org /\ r.user = q.user
         /\ r.role = q.role /\ r.row = q.row /\ r.made = q.made /\ r.fresh = q.fresh
         /\ r.late = late
<1>1. r \in Request
  BY DEF Request
<1>2. r.phase = q.phase /\ r.by = q.by /\ r.org = q.org /\ r.user = q.user
  BY DEF Request
<1>3. r.role = q.role /\ r.row = q.row /\ r.made = q.made /\ r.fresh = q.fresh
  BY DEF Request
<1>4. r.late = late
  BY DEF Request
<1> QED
  BY <1>1, <1>2, <1>3, <1>4

\* The ban of an org: its keys and invites go in the same transaction, and the
\* requests under way for it are late.
LEMMA BanOrgStep == ASSUME AccessInv, NEW o \in Orgs, BanOrg(o) PROVE AccessInv'
<1> DEFINE swept == {u \in Users : role[o][u] # "none" /\ u \notin Operators /\ ban[u] = "none"}
<1>0. Tables /\ InFlight /\ key \in [Keys -> KeyRow] /\ invite \in [Invites -> InviteRow]
  BY DEF AccessInv, Tables
<1>1. /\ bannedOrgs' = bannedOrgs \cup {o} /\ UNCHANGED <<accounts, role>>
      /\ requests' \in 0 .. MaxRequests
  BY <1>0, CountedType DEF BanOrg
<1>2. ASSUME NEW k \in Keys
      PROVE  /\ key'[k] \in KeyRow /\ key'[k].org = key[k].org /\ key'[k].late = key[k].late
             /\ key[k].revoked => key'[k].revoked
             /\ key[k].org = o => key'[k].revoked
  <2>1. key'[k] = IF key[k].org # Null /\ k \in KeysOfBan(o, swept)
                  THEN [key[k] EXCEPT !.revoked = TRUE] ELSE key[k]
    BY DEF BanOrg
  <2>2. key[k].org = o => key[k].org # Null /\ k \in KeysOfBan(o, swept)
    BY AccessConstants DEF KeysOfBan
  <2>3. CASE key[k].org # Null /\ k \in KeysOfBan(o, swept)
    <3>1. key'[k] = [key[k] EXCEPT !.revoked = TRUE]
      BY <2>1, <2>3
    <3> QED
      BY <1>0, <3>1 DEF KeyRow
  <2>4. CASE ~(key[k].org # Null /\ k \in KeysOfBan(o, swept))
    <3>1. key'[k] = key[k] /\ key[k].org # o
      BY <2>1, <2>2, <2>4
    <3> QED
      BY <1>0, <3>1
  <2> QED
    BY <2>3, <2>4
<1>3. key' \in [Keys -> KeyRow] /\ KeysCutOff' /\ KeysKept
  <2>1. key' = [k \in Keys |-> key'[k]]
    BY DEF BanOrg
  <2>2. key' \in [Keys -> KeyRow] /\ KeysKept
    BY <1>2, <2>1 DEF KeysKept
  <2>3. KeysCutOff'
    BY <1>0, <1>1, <1>2 DEF Tables, KeysCutOff
  <2> QED
    BY <2>2, <2>3
<1>4. invite' \in [Invites -> InviteRow] /\ InvitesNamed' /\ InvitesCutOff'
  <2>1. ASSUME NEW i \in Invites
        PROVE  /\ invite'[i] \in InviteRow /\ invite'[i].org = invite[i].org
               /\ invite'[i].email = invite[i].email /\ invite'[i].role = invite[i].role
               /\ invite'[i].late = invite[i].late
               /\ invite'[i].state # "none" => invite[i].state # "none"
               /\ invite'[i].state = "pending" => invite[i].state = "pending" /\ invite[i].org # o
    <3>1. invite'[i] = IF invite[i].org = o /\ invite[i].state \in {"pending", "expired"}
                       THEN [invite[i] EXCEPT !.state = "revoked"] ELSE invite[i]
      BY DEF BanOrg
    <3>2. CASE invite[i].org = o /\ invite[i].state \in {"pending", "expired"}
      <4>1. invite'[i] = [invite[i] EXCEPT !.state = "revoked"]
        BY <3>1, <3>2
      <4> QED
        BY <1>0, <3>2, <4>1 DEF InviteRow
    <3>3. CASE ~(invite[i].org = o /\ invite[i].state \in {"pending", "expired"})
      <4>1. invite'[i] = invite[i]
        BY <3>1, <3>3
      <4> QED
        BY <1>0, <3>3, <4>1
    <3> QED
      BY <3>2, <3>3
  <2>2. invite' = [i \in Invites |-> invite'[i]]
    BY DEF BanOrg
  <2> QED
    BY <1>0, <1>1, <2>1, <2>2 DEF Tables, InvitesNamed, InvitesCutOff
<1>5. ban' \in [Users -> {"none", "self"} \cup Orgs] /\ BanProvenance'
  <2>1. ban' = [u \in Users |-> IF u \in swept THEN o ELSE ban[u]]
    BY DEF BanOrg
  <2> HIDE DEF swept
  <2> QED
    BY <1>0, <1>1, <2>1 DEF Tables, BanProvenance
<1>6. Tables'
  BY <1>0, <1>1, <1>3, <1>4, <1>5 DEF Tables
<1>7. ASSUME NEW h \in Handlers PROVE handler'[h] \in Request /\ Served(handler[h])'
  <2>1. PICK q \in Request : q = handler[h] /\ Served(q)
    BY <1>0 DEF InFlight
  <2>2. PICK r : r = handler'[h]
    OBVIOUS
  <2>3. PICK late \in BOOLEAN : late = (q.late \/ q.org = o)
                                /\ r = [q EXCEPT !.late = late]
    <3>1. PICK late \in BOOLEAN : late = (q.late \/ q.org = o)
      OBVIOUS
    <3> QED
      BY <2>1, <2>2, <3>1 DEF BanOrg
  <2>4. /\ r \in Request
        /\ r.phase = q.phase /\ r.by = q.by /\ r.org = q.org /\ r.user = q.user
        /\ r.role = q.role /\ r.row = q.row /\ r.made = q.made /\ r.fresh = q.fresh
        /\ q.late => r.late
        /\ q.org = o => r.late
    <3>0. q \in Request /\ late \in BOOLEAN /\ r = [q EXCEPT !.late = late]
      BY <2>1, <2>3
    <3>1. r.late = late
      BY <3>0, Overtaken
    <3>2. r \in Request
      BY <3>0, Overtaken
    <3>3. r.phase = q.phase /\ r.by = q.by /\ r.org = q.org /\ r.user = q.user
      BY <3>0, Overtaken
    <3>4. r.role = q.role /\ r.row = q.row /\ r.made = q.made /\ r.fresh = q.fresh
      BY <3>0, Overtaken
    <3>5. (q.late => r.late) /\ (q.org = o => r.late)
      BY <2>3, <3>1
    <3> QED
      BY <3>2, <3>3, <3>4, <3>5
  <2>5. Named(r)'
    <3>1. q.org \in Orgs => q.org # Null
      BY AccessConstants
    <3> QED
      BY <2>1, <2>4, <3>1, <1>3 DEF Served, Named, KeysKept
  <2>6. Checked(r)'
    <3>1. q.phase = "replace" => q.row \in Keys /\ key[q.row].org # Null
      BY <2>1, AccessConstants DEF Served, Named
    <3> QED
      BY <1>1, <1>3, <2>1, <2>4, <3>1 DEF Served, Checked, KeysKept
  <2>7. Relied(r)'
    BY <1>1, <2>1, <2>4 DEF Served, Relied, IsLastOrgAdmin, StrandsOrg, Admins
  <2> QED
    BY <2>2, <2>4, <2>5, <2>6, <2>7 DEF Served, Named, Checked, Relied
<1>8. InFlight'
  <2>1. handler' = [h \in Handlers |-> handler'[h]]
    BY DEF BanOrg
  <2> QED
    BY <1>7, <2>1 DEF InFlight
<1> QED
  BY <1>6, <1>8 DEF AccessInv

\* The other operator functions: lifting a ban, and bans of accounts.
LEMMA OtherBanSteps ==
  ASSUME AccessInv,
         (\E o \in Orgs : UnbanOrg(o)) \/ \E u \in Users : BanUser(u) \/ UnbanUser(u)
  PROVE  AccessInv'
<1>0. Tables /\ InFlight
  BY DEF AccessInv
<1>1. /\ UNCHANGED <<accounts, role, invite, handler>> /\ bannedOrgs' \subseteq bannedOrgs
      /\ requests' \in 0 .. MaxRequests
  BY <1>0, CountedType DEF UnbanOrg, BanUser, UnbanUser
<1>2. KeysOver
  <2>1. CASE UNCHANGED key
    BY <1>0, <2>1 DEF KeysOver, Tables
  <2>2. ASSUME NEW u \in Users, BanUser(u) PROVE KeysOver
    <3>1. key \in [Keys -> KeyRow]
      BY <1>0 DEF Tables
    <3>2. ASSUME NEW k \in Keys
          PROVE  /\ key'[k] \in KeyRow /\ key'[k].org = key[k].org
                 /\ key'[k].late = key[k].late /\ (key[k].revoked => key'[k].revoked)
      <4>1. CASE key[k].by = u
        <5>1. key'[k] = [key[k] EXCEPT !.revoked = TRUE]
          BY <2>2, <4>1 DEF BanUser
        <5> QED
          BY <3>1, <5>1 DEF KeyRow
      <4>2. CASE key[k].by # u
        <5>1. key'[k] = key[k]
          BY <2>2, <4>2 DEF BanUser
        <5> QED
          BY <3>1, <5>1
      <4> QED
        BY <4>1, <4>2
    <3>3. key' = [k \in Keys |-> key'[k]]
      BY <2>2 DEF BanUser
    <3> QED
      BY <3>2, <3>3 DEF KeysOver
  <2> QED
    BY <2>1, <2>2 DEF UnbanOrg, UnbanUser
<1>3. InFlight' /\ KeysCutOff'
  BY <1>0, <1>1, <1>2, KeysOverKept, NobodyGoesOn
<1>4. InvitesNamed' /\ InvitesCutOff'
  BY <1>0, <1>1 DEF Tables, InvitesNamed, InvitesCutOff
<1>5. ban' \in [Users -> {"none", "self"} \cup Orgs] /\ BanProvenance'
  <2>1. ASSUME NEW u \in Users, BanUser(u) \/ UnbanUser(u)
        PROVE  ban' \in [Users -> {"none", "self"} \cup Orgs] /\ BanProvenance'
    <3>1. bannedOrgs' = bannedOrgs
      BY <2>1 DEF BanUser, UnbanUser
    <3>2. PICK new \in {"none", "self", ban[u]} : ban' = [ban EXCEPT ![u] = new]
      BY <1>0, <2>1 DEF BanUser, UnbanUser, Tables
    <3> QED
      BY <1>0, <3>1, <3>2, AccessConstants DEF Tables, BanProvenance
  <2>2. ASSUME NEW o \in Orgs, UnbanOrg(o)
        PROVE  ban' \in [Users -> {"none", "self"} \cup Orgs] /\ BanProvenance'
    <3>1. /\ bannedOrgs' = bannedOrgs \ {o} /\ ban' \in [Users -> {"none", "self"} \cup Orgs]
          /\ \A u \in Users :
                ban'[u] \in IF ban[u] # o THEN {ban[u]}
                            ELSE IF Adopters(o, u) = {} THEN {"none"} ELSE Adopters(o, u)
      BY <2>2 DEF UnbanOrg
    <3>2. \A u \in Users : Adopters(o, u) \subseteq bannedOrgs \ {o}
      BY DEF Adopters
    <3>3. \A u \in Users : \/ ban'[u] = ban[u] /\ ban[u] # o
                           \/ ban'[u] = "none" \/ ban'[u] \in bannedOrgs \ {o}
      BY <3>1, <3>2
    <3> QED
      BY <1>0, <3>1, <3>3, AccessConstants DEF Tables, BanProvenance
  <2> QED
    BY <2>1, <2>2
<1> QED
  BY <1>0, <1>1, <1>2, <1>3, <1>4, <1>5 DEF AccessInv, Tables, KeysOver

\* The invariant is inductive.
LEMMA AccessStep == AccessInv /\ [Next]_vars => AccessInv'
<1> SUFFICES ASSUME AccessInv, [Next]_vars PROVE AccessInv'
  OBVIOUS
<1>1. ASSUME NEW h \in Handlers, Members(h) \/ ApiKeys(h) \/ HandlerDies(h) PROVE AccessInv'
  BY <1>1, StartsStep, GoesOnStep, InviteSteps, KeySteps, MemberSteps DEF Members, ApiKeys
<1>2. CASE UNCHANGED vars
  <2>1. TablesSame /\ UNCHANGED handler
    BY <1>2 DEF vars, TablesSame, AccessInv, Tables
  <2> QED
    BY <2>1, TablesStay, NobodyGoesOn DEF AccessInv, TablesSame
<1> QED
  BY <1>1, <1>2, InviteSteps, KeySteps, MemberSteps, BanOrgStep, OtherBanSteps DEF Next

\* It holds in every behaviour.
LEMMA AccessHeld == Spec => []AccessInv
  BY AccessInit, AccessStep, PTL DEF Spec
-----------------------------------------------------------------------------
(* The results.                                                            *)

\* The tables and the requests keep their types.
THEOREM AccessTypeCorrect == Spec => []TypeOK
<1>1. AccessInv => TypeOK
  BY DEF AccessInv, Tables, InFlight, TypeOK
<1> QED
  BY <1>1, AccessHeld, PTL

\* Nobody is locked out on behalf of an organization that is not banned,
\* whatever bans, unbans and moves happened in between.
THEOREM SweepsUndone == Spec => []BanProvenance
<1>1. AccessInv => BanProvenance
  BY DEF AccessInv, Tables
<1> QED
  BY <1>1, AccessHeld, PTL

\* A banned organization holds no live key and no pending invite but those of a
\* request that the ban overtook, and the replacements of such a key.
THEOREM BansCutOff == Spec => []BanCutsOff
<1>1. AccessInv => BanCutsOff
  BY DEF AccessInv, Tables, KeysCutOff, InvitesCutOff, BanCutsOff, Live
<1> QED
  BY <1>1, AccessHeld, PTL

\* A rotation that no process death cut short revokes the replacement or gives
\* the old key an end.
THEOREM RotationsSettle == Spec => RotationSettles
<1> DEFINE Settles(h) ==
             handler[h].phase \in {"expireOld", "compensate"} /\ handler'[h].phase = "idle"
             /\ ~HandlerDies(h)
               => LET old == handler[h].row
                      new == handler[h].made
                  IN key'[new].revoked \/ key'[old].expiry # "never"
<1>1. AccessInv /\ [Next]_vars => [\A h \in Handlers : Settles(h)]_vars
  <2> SUFFICES ASSUME AccessInv, Next, NEW h \in Handlers,
                      handler[h].phase \in {"expireOld", "compensate"},
                      handler'[h].phase = "idle", ~HandlerDies(h)
               PROVE  key'[handler[h].made].revoked \/ key'[handler[h].row].expiry # "never"
    OBVIOUS
  <2>0. /\ key \in [Keys -> KeyRow] /\ handler \in [Handlers -> Request]
        /\ handler[h].row \in Keys /\ handler[h].made \in Keys
    BY DEF AccessInv, Tables, InFlight, Served, Named
  <2>1. ExpireOld(h) \/ Compensate(h)
    <3>1. ASSUME NEW newRole, NEW handlers, WriteRole(newRole, handlers),
                 handlers[h] \in Request, handlers[h].phase # "idle"
          PROVE  FALSE
      <4>1. PICK b \in BOOLEAN : handler'[h] = [handlers[h] EXCEPT !.fresh = b]
        <5>1. PICK b \in BOOLEAN : b = (handlers[h].fresh /\ ReliesOn(handlers[h], role)
                                          = ReliesOn(handlers[h], newRole))
          OBVIOUS
        <5> QED
          BY <3>1, <5>1 DEF WriteRole
      <4> QED
        BY <3>1, <4>1 DEF Request
    <3>2. ASSUME NEW g \in Handlers, g # h, NEW r, handler' = [handler EXCEPT ![g] = r]
          PROVE  FALSE
      BY <2>0, <3>2
    <3>3. UNCHANGED handler => FALSE
      BY SMTT(30)
    <3>4. ASSUME NEW g \in Handlers, Members(g) PROVE FALSE
      <4>1. g # h
        BY ZenonT(60), <3>4 DEF Members, StartAdd, InsertMember, CleanupInvites, LoadPendingInvite,
           InsertInvite, UpdateInviteRole, StartMemberChange, WriteMemberChange, StartLeave,
           DeleteAccount, Begins, Phase
      <4>2. [handler EXCEPT ![g] = Idle][h] = handler[h]
        BY <2>0, <4>1
      <4> HIDE DEF Idle
      <4> QED
        BY ZenonT(60), <2>0, <3>1, <3>2, <3>4, <4>1, <4>2
           DEF Members, StartAdd, InsertMember, CleanupInvites, LoadPendingInvite,
           InsertInvite, UpdateInviteRole, StartMemberChange, WriteMemberChange, StartLeave,
           DeleteAccount, Begins, Goes, Ends
    <3>5. ASSUME NEW g \in Handlers, g # h, ApiKeys(g) \/ HandlerDies(g) PROVE FALSE
      <4>1. handler'[h] = handler[h]
        BY ZenonT(60), <2>0, <3>5 DEF ApiKeys, HandlerDies, StartMint, InsertKey, EndStream,
           StartKeyChange, RevokeKey,
           InsertReplacement, ExpireOld, Compensate, Begins, Goes, Ends
      <4> QED
        BY <4>1
    <3>6. ApiKeys(h) => ExpireOld(h) \/ Compensate(h)
      BY DEF ApiKeys, StartMint, InsertKey, EndStream, StartKeyChange, RevokeKey,
             InsertReplacement, Begins, Phase
    <3>7. OperatorMemberChange => FALSE
      BY <2>0, <3>1 DEF OperatorMemberChange
    <3>8. ASSUME NEW u \in Users, SignUp(u) PROVE FALSE
      BY <2>0, <3>1, <3>3, <3>8 DEF SignUp
    <3>9. ASSUME NEW o \in Orgs, BanOrg(o) PROVE FALSE
      <4>1. PICK b \in BOOLEAN : handler'[h] = [handler[h] EXCEPT !.late = b]
        <5>1. PICK b \in BOOLEAN : b = (handler[h].late \/ handler[h].org = o)
          OBVIOUS
        <5> QED
          BY <3>9, <5>1 DEF BanOrg
      <4> QED
        BY <2>0, <4>1 DEF Request
    <3> QED
      BY <3>3, <3>4, <3>5, <3>6, <3>7, <3>8, <3>9
         DEF Next, RevokeInvite, InviteExpires, KeyExpires, UnbanOrg, BanUser, UnbanUser
  <2>2. CASE ExpireOld(h)
    <3>1. ~Goes(h, "compensate")
      BY <2>0 DEF Goes, Request
    <3>2. key' = [key EXCEPT ![handler[h].row].expiry = "ahead"]
      BY <2>2, <3>1 DEF ExpireOld
    <3> QED
      BY <2>0, <3>2 DEF KeyRow
  <2>3. CASE Compensate(h)
    BY <2>0, <2>3 DEF Compensate, Compensated, KeyRow
  <2> QED
    BY <2>1, <2>2, <2>3
<1> QED
  BY <1>1, AccessHeld, PTL DEF Spec, RotationSettles

\* The org-scoped routes take the last admin away only when the members changed
\* between the check and the write, or when nobody is left in the org.
THEOREM LastAdminKept == Spec => LastAdminStays
<1> DEFINE Stays(o) ==
             Admins(o) # {} /\ Admins(o)' = {} =>
               \/ OperatorMemberChange
               \/ \E h \in Handlers : ~handler[h].fresh /\ handler'[h].phase = "idle"
               \/ \A u \in Users : role'[o][u] = "none"
<1>1. AccessInv /\ [Next]_vars => [\A o \in Orgs : Stays(o)]_vars
  <2> SUFFICES ASSUME AccessInv, Next, NEW o \in Orgs, Admins(o) # {}, Admins(o)' = {},
                      ~OperatorMemberChange,
                      \A h \in Handlers : handler[h].fresh \/ handler'[h].phase # "idle"
               PROVE  \A u \in Users : role'[o][u] = "none"
    OBVIOUS
  <2>0. /\ role \in RoleTables /\ handler \in [Handlers -> Request]
        /\ \A h \in Handlers : Served(handler[h])
    BY DEF AccessInv, Tables, InFlight, RoleTables, MemberRoles
  <2>1. PICK a \in Users : role[o][a] = "admin"
    BY DEF Admins
  <2>2. \A u \in Users : role'[o][u] # "admin"
    BY DEF Admins
  <2>3. ASSUME NEW p \in Orgs, NEW u \in Users, NEW r \in MemberRoles,
               role' = [role EXCEPT ![p][u] = r]
        PROVE  p = o /\ r # "admin" /\ Admins(o) = {u}
    <3>1. \A q \in Orgs, v \in Users : role'[q][v] = IF q = p /\ v = u THEN r ELSE role[q][v]
      BY <2>0, <2>3, RoleWritten
    <3>2. p = o /\ a = u /\ r # "admin"
      BY <2>1, <2>2, <3>1
    <3>3. \A v \in Users : role[o][v] = "admin" => v = u
      BY <2>2, <3>1
    <3> QED
      BY <2>1, <3>2, <3>3 DEF Admins
  <2>4. UNCHANGED role => FALSE
    BY SMTT(30), <2>1, <2>2
  <2>5. PICK h \in Handlers : WriteMemberChange(h) \/ DeleteAccount(h)
    <3>1. ASSUME NEW h \in Handlers, InsertMember(h) PROVE FALSE
      <4>1. /\ handler[h].org \in Orgs /\ handler[h].user \in Users
            /\ handler[h].role \in MemberRoles
        BY <2>0, <3>1 DEF InsertMember, Phase, Served, Named, MemberRoles
      <4>2. /\ role' = [role EXCEPT ![handler[h].org][handler[h].user] = handler[h].role]
            /\ role[handler[h].org][handler[h].user] = "none"
        BY <2>4, <3>1 DEF InsertMember, WriteRole
      <4>3. handler[h].org = o /\ Admins(o) = {handler[h].user}
        BY <2>3, <4>1, <4>2
      <4> QED
        BY <4>1, <4>2, <4>3 DEF Admins
    <3>2. ASSUME NEW u \in Users, SignUp(u) PROVE FALSE
      <4>1. \A q \in Orgs : role[q][u] = "none"
        BY <3>2 DEF SignUp
      <4>2. PICK i \in Invites :
               /\ invite[i].state = "pending"
               /\ role' = [role EXCEPT ![invite[i].org][u] = invite[i].role]
        BY <2>4, <3>2 DEF SignUp, WriteRole
      <4>3. invite[i].org \in Orgs /\ invite[i].role \in MemberRoles
        BY <4>2 DEF AccessInv, Tables, InvitesNamed, MemberRoles
      <4>4. Admins(o) = {u}
        BY <2>3, <4>2, <4>3
      <4> QED
        BY <4>1, <4>4 DEF Admins
    <3> QED
      BY ZenonT(60), <2>4, <3>1, <3>2
         DEF Next, Members, ApiKeys, StartAdd, CleanupInvites, LoadPendingInvite, InsertInvite,
             UpdateInviteRole, StartMemberChange, StartLeave, StartMint, InsertKey, EndStream,
             StartKeyChange, RevokeKey, InsertReplacement, ExpireOld, Compensate, HandlerDies,
             RevokeInvite, InviteExpires, KeyExpires, BanOrg, UnbanOrg, BanUser, UnbanUser
  <2>6. handler'[h].phase = "idle" /\ handler[h].fresh /\ handler[h] \in Request
    <3>1. ASSUME NEW newRole, WriteRole(newRole, [handler EXCEPT ![h] = Idle])
          PROVE  handler'[h].phase = "idle"
      <4>1. [handler EXCEPT ![h] = Idle][h] = Idle
        BY <2>0
      <4>2. PICK b : handler'[h] = [Idle EXCEPT !.fresh = b]
        BY <3>1, <4>1 DEF WriteRole
      <4> QED
        BY <4>2 DEF Idle
    <3>2. handler' = [handler EXCEPT ![h] = Idle] => handler'[h].phase = "idle"
      BY <2>0 DEF Idle
    <3>3. handler'[h].phase = "idle"
      BY <2>5, <3>1, <3>2 DEF WriteMemberChange, DeleteAccount
    <3> QED
      BY <2>0, <3>3
  <2>7. Served(handler[h])
    BY <2>0
  <2>8. CASE WriteMemberChange(h)
    <3>1. /\ handler[h].phase \in {"demote", "remove"}
          /\ handler[h].org \in Orgs /\ handler[h].user \in Users
          /\ handler[h].role \in MemberRoles /\ "none" \in MemberRoles
      BY <2>7, <2>8 DEF WriteMemberChange, Phase, Served, Named, MemberRoles
    <3>2. PICK new \in MemberRoles :
             /\ new = IF handler[h].phase = "demote" THEN handler[h].role ELSE "none"
             /\ role' = [role EXCEPT ![handler[h].org][handler[h].user] = new]
      BY <2>4, <2>8, <3>1 DEF WriteMemberChange, WriteRole, Phase
    <3>3. handler[h].org = o /\ new # "admin" /\ Admins(o) = {handler[h].user}
      BY <2>3, <3>1, <3>2
    <3>4. handler[h].phase = "remove" \/ (handler[h].phase = "demote" /\ handler[h].role # "admin")
      BY <3>1, <3>2, <3>3
    <3> QED
      BY <2>6, <2>7, <3>3, <3>4 DEF Served, Relied, IsLastOrgAdmin
  <2>9. CASE DeleteAccount(h)
    <3>1. PICK u \in Users : u = handler[h].user
      BY <2>7, <2>9 DEF DeleteAccount, Phase, Served, Named
    <3>2. role' = [q \in Orgs |-> [role[q] EXCEPT ![u] = "none"]]
      BY <2>9, <3>1 DEF DeleteAccount, WriteRole
    <3>3. \A v \in Users : role'[o][v] = IF v = u THEN "none" ELSE role[o][v]
      BY <2>0, <3>2 DEF RoleTables
    <3>4. Admins(o) = {u}
      BY <2>1, <2>2, <3>3 DEF Admins
    <3>5. ~StrandsOrg(u)
      BY <2>6, <2>7, <2>9, <3>1 DEF DeleteAccount, Phase, Served, Relied
    <3> QED
      BY <3>3, <3>4, <3>5 DEF StrandsOrg
  <2> QED
    BY <2>5, <2>8, <2>9
<1> QED
  BY <1>1, AccessHeld, PTL DEF Spec, LastAdminStays
=============================================================================
