---------------------------- MODULE SignupProofs ----------------------------
(***************************************************************************)
(* Proofs about Signup for any accounts, addresses, requests in flight and *)
(* bounds.                                                                 *)
(***************************************************************************)
EXTENDS Signup, FiniteSetTheorems, WellFoundedInduction, TLAPS

-----------------------------------------------------------------------------
(* The inductive invariant: what holds of the tables, and what holds of    *)
(* every request in flight.                                                *)

\* The order of joining has not run away: it has a last number.
JoinsBounded == \E n \in Nat : \A o \in Orgs, u \in Users : joined[o][u] <= n

\* Accounts and memberships.
People ==
    /\ account \in [Users -> {"none", "fresh", "old", "deleted"}]
    /\ joined \in [Orgs -> [Users -> Nat]]
    /\ role \in [Orgs -> [Users -> {"none"} \cup Roles]]
    /\ \A o \in Orgs, u \in Users :
          /\ (joined[o][u] = 0) = (role[o][u] = "none")
          /\ joined[o][u] # 0 => account[u] \in {"fresh", "old"}
    /\ JoinsBounded

\* Keys and the unlocks they depend on.
Credentials ==
    /\ unlocked \subseteq Orgs
    /\ key \in [Keys -> KeyRow]
    /\ keeper \in [Orgs -> Users \cup {Null}]
    /\ EarlyKeysEnd

Rest ==
    /\ requests \in 0 .. MaxRequests
    /\ settings \in [signups : BOOLEAN, requirement : {"email", "card"}]
    /\ invite \in [Orgs -> {"none", "accepted"} \cup Roles]
    /\ mailed \subseteq Users
    /\ proven \subseteq Users
    /\ carded \subseteq Orgs

\* A request carries what its next call needs.
Named(x) ==
    /\ x.phase \notin {"idle", "card", "unlockOrg"} => x.user \in Users
    /\ x.phase \in {"key", "card", "unlockOrg"} => x.org \in Orgs

\* Past its creation or its sign-in the account is known to GoTrue.
Known(x) ==
    x.phase \notin {"idle", "create", "otp", "card", "unlockOrg"} => account[x.user] # "none"

\* A request on the way to an unlock follows a proof.
Proved(x) ==
    /\ x.phase \in {"classify", "count", "requirement", "unlock"} => x.user \in proven
    /\ x.phase \in {"card", "unlockOrg"} => x.org \in carded

\* Unless somebody added the account to an organization meanwhile, a new one is
\* at most the admin of its own, and one about to be removed is in none.
Alone(x) ==
    /\ x.phase = "membership" /\ x.fresh =>
          \A o \in Orgs : joined[o][x.user] # 0 => o = x.user /\ role[o][x.user] = "admin"
    /\ x.phase = "purge" /\ x.fresh => \A o \in Orgs : joined[o][x.user] = 0

Ready(x) == Named(x) /\ Known(x) /\ Proved(x) /\ Alone(x)

InFlight == handler \in [Handlers -> Request] /\ \A h \in Handlers : Ready(handler[h])

SignupInv == People /\ Credentials /\ Rest /\ InFlight
-----------------------------------------------------------------------------
(* Requests in flight.                                                     *)

\* What a step of anybody may do to the request of somebody else: accounts and
\* proofs stay known, and only an account that did not exist gains memberships.
Undisturbed ==
    /\ \A u \in Users : account[u] # "none" => account'[u] # "none"
    /\ proven \subseteq proven' /\ carded \subseteq carded'
    /\ \A o \in Orgs, u \in Users :
          joined'[o][u] # 0 /\ account[u] # "none" =>
             joined[o][u] # 0 /\ role'[o][u] = role[o][u]

\* Between requests nothing is remembered.
LEMMA IdleReady == Idle \in Request /\ Ready(Idle) /\ Ready(Idle)'
<1>1. Idle \in Request /\ Idle.phase = "idle"
  BY DEF Idle, Request
<1> HIDE DEF Idle
<1> QED
  BY <1>1 DEF Ready, Named, Known, Proved, Alone

\* A request that does not move stays ready.
LEMMA StillReady ==
  ASSUME NEW x \in Request, Ready(x), Undisturbed PROVE Ready(x)'
<1>1. Named(x)'
  BY DEF Ready, Named
<1>2. Known(x)'
  BY DEF Ready, Named, Known, Undisturbed
<1>3. Proved(x)'
  BY DEF Ready, Proved, Undisturbed
<1>4. Alone(x)'
  <2>1. x.phase \in {"membership", "purge"} => x.user \in Users /\ account[x.user] # "none"
    BY DEF Ready, Named, Known
  <2> QED
    BY <2>1 DEF Ready, Alone, Undisturbed
<1> QED
  BY <1>1, <1>2, <1>3, <1>4 DEF Ready

\* One request goes on.
LEMMA OneGoesOn ==
  ASSUME InFlight, Undisturbed, NEW h \in Handlers, NEW x \in Request, Ready(x)',
         handler' = [handler EXCEPT ![h] = x]
  PROVE  InFlight'
<1>1. /\ handler' \in [Handlers -> Request] /\ handler'[h] = x
      /\ \A g \in Handlers \ {h} : handler'[g] = handler[g] /\ handler[g] \in Request
  BY DEF InFlight
<1>2. ASSUME NEW g \in Handlers PROVE Ready(handler[g])'
  <2>1. PICK y \in Request : y = handler'[g]
    BY <1>1
  <2>2. Ready(y)'
    <3>1. CASE g = h
      BY <1>1, <2>1, <3>1
    <3>2. CASE g # h
      BY <1>1, <2>1, <3>2, StillReady DEF InFlight
    <3> QED
      BY <3>1, <3>2
  <2> QED
    BY <2>1, <2>2 DEF Ready, Named, Known, Proved, Alone
<1> QED
  BY <1>1, <1>2 DEF InFlight

\* No request goes on.
LEMMA NobodyGoesOn ==
  ASSUME InFlight, Undisturbed, UNCHANGED handler PROVE InFlight'
<1>1. ASSUME NEW g \in Handlers PROVE Ready(handler[g])'
  <2>1. PICK x \in Request : x = handler[g] /\ Ready(x)
    BY DEF InFlight
  <2>2. Ready(x)'
    BY <2>1, StillReady
  <2> QED
    BY <2>1, <2>2 DEF Ready, Named, Known, Proved, Alone
<1> QED
  BY <1>1 DEF InFlight

\* A request that ends remembers nothing.
LEMMA OneEnds ==
  ASSUME InFlight, Undisturbed, NEW h \in Handlers, Ends(h) PROVE InFlight'
  BY IdleReady, OneGoesOn DEF Ends

\* The calls a request goes through.
Phases == {"idle", "create", "membership", "key", "otp", "classify", "count",
           "recount", "purge", "requirement", "unlock", "card", "unlockOrg"}

\* A request that only moves to its next call.
LEMMA Advanced ==
  ASSUME NEW x \in Request, NEW p \in Phases, NEW y, y = [x EXCEPT !.phase = p]
  PROVE  /\ y \in Request /\ y.phase = p
         /\ y.user = x.user /\ y.org = x.org /\ y.fresh = x.fresh
<1>1. y \in Request
  BY DEF Phases, Request
<1>2. y.phase = p /\ y.user = x.user /\ y.org = x.org
  BY DEF Phases, Request
<1>3. y.fresh = x.fresh
  BY DEF Phases, Request
<1> QED
  BY <1>1, <1>2, <1>3

\* What a handler that goes on to phase p leaves as its request.
LEMMA GoesTo ==
  ASSUME InFlight, NEW h \in Handlers, NEW p, Goes(h, p)
  PROVE  handler' = [handler EXCEPT ![h] = [handler[h] EXCEPT !.phase = p]]
  BY DEF Goes, InFlight
-----------------------------------------------------------------------------
(* Accounts and memberships.                                               *)

\* Every nonempty set of natural numbers has a least element.
LEMMA FirstNat ==
  ASSUME NEW T \in SUBSET Nat, T # {}
  PROVE  \E x \in T : \A y \in T : x <= y
<1> DEFINE R == {ss \in Nat \X Nat : ss[1] < ss[2]}
<1>1. IsWellFoundedOn(R, Nat)
  BY NatLessThanWellFounded DEF OpToRel
<1>2. \E x \in T : \A y \in T : ~ (<<y, x>> \in R)
  <2> HIDE DEF R
  <2> QED
    BY <1>1, WFMin
<1>3. \A x, y \in Nat : ~ (<<y, x>> \in R) => x <= y
  OBVIOUS
<1> QED
  BY <1>2, <1>3

\* A nonempty bounded set of natural numbers has a greatest element: the least
\* of its bounds.
LEMMA LastNat ==
  ASSUME NEW T \in SUBSET Nat, T # {}, NEW n \in Nat, \A y \in T : y <= n
  PROVE  Max(T) \in T /\ \A y \in T : y <= Max(T)
<1> DEFINE B == {b \in Nat : \A y \in T : y <= b}
<1>1. PICK b \in B : \A c \in B : b <= c
  <2>1. B \in SUBSET Nat /\ n \in B
    OBVIOUS
  <2> HIDE DEF B
  <2> QED
    BY <2>1, FirstNat
<1>2. b \in T
  <2>1. SUFFICES ASSUME b \notin T PROVE FALSE
    OBVIOUS
  <2>2. \A y \in T : y <= b - 1
    BY <2>1
  <2>3. b - 1 \in Nat
    <3>1. PICK y \in T : y \in Nat /\ y <= b - 1
      BY <2>2
    <3> QED
      BY <1>1, <3>1
  <2>4. b - 1 \in B
    BY <2>2, <2>3
  <2> QED
    BY <1>1, <2>4
<1>3. \E x \in T : \A y \in T : x >= y
  BY <1>1, <1>2
<1>4. Max(T) \in T /\ \A y \in T : Max(T) >= y
  BY <1>3 DEF Max
<1> QED
  BY <1>4

\* A new member is numbered after every earlier one.
LEMMA NextNumber ==
  ASSUME People, NEW o \in Orgs
  PROVE  LET m == Max({joined[o][v] : v \in Users})
         IN  Users # {} => m \in Nat /\ \A v \in Users : joined[o][v] <= m
<1> DEFINE T == {joined[o][v] : v \in Users}
<1> SUFFICES ASSUME Users # {}
             PROVE  Max(T) \in Nat /\ \A v \in Users : joined[o][v] <= Max(T)
  OBVIOUS
<1>1. PICK n \in Nat : \A p \in Orgs, u \in Users : joined[p][u] <= n
  BY DEF People, JoinsBounded
<1>2. T \in SUBSET Nat /\ T # {} /\ \A y \in T : y <= n
  BY <1>1 DEF People
<1>3. \A v \in Users : joined[o][v] \in T
  OBVIOUS
<1> HIDE DEF T
<1> QED
  BY <1>2, <1>3, LastNat

\* What a new membership is: one more row, after the others.
LEMMA JoinsEffect ==
  ASSUME People, NEW o \in Orgs, NEW u \in Users, NEW r \in Roles, Joins(o, u, r)
  PROVE  /\ joined' \in [Orgs -> [Users -> Nat]] /\ JoinsBounded'
         /\ role' \in [Orgs -> [Users -> {"none"} \cup Roles]]
         /\ joined'[o][u] # 0 /\ role'[o][u] = r
         /\ \A p \in Orgs, v \in Users : p # o \/ v # u =>
               joined'[p][v] = joined[p][v] /\ role'[p][v] = role[p][v]
<1>1. PICK m \in Nat : m = Max({joined[o][v] : v \in Users})
  BY NextNumber
<1>2. joined' = [joined EXCEPT ![o][u] = 1 + m] /\ role' = [role EXCEPT ![o][u] = r]
  BY <1>1 DEF Joins
<1>3. joined' \in [Orgs -> [Users -> Nat]] /\ joined'[o][u] = 1 + m
  BY <1>2 DEF People
<1>4. role' \in [Orgs -> [Users -> {"none"} \cup Roles]] /\ role'[o][u] = r
  BY <1>2 DEF People
<1>5. \A p \in Orgs, v \in Users : p # o \/ v # u =>
         joined'[p][v] = joined[p][v] /\ role'[p][v] = role[p][v]
  BY <1>2 DEF People
<1>6. JoinsBounded'
  <2>1. PICK n \in Nat : \A p \in Orgs, v \in Users : joined[p][v] <= n
    BY DEF People, JoinsBounded
  <2>2. \A p \in Orgs, v \in Users : joined[p][v] \in Nat /\ joined'[p][v] \in Nat
    BY <1>3 DEF People
  <2>3. \A p \in Orgs, v \in Users : joined'[p][v] <= n + 1 + m
    BY <1>3, <1>5, <2>1, <2>2
  <2>4. n + 1 + m \in Nat
    OBVIOUS
  <2> QED
    BY <2>3, <2>4 DEF JoinsBounded
<1> QED
  BY <1>3, <1>4, <1>5, <1>6

\* A membership of an account that exists, or comes to exist in the same step.
LEMMA JoinsPeople ==
  ASSUME People, NEW o \in Orgs, NEW u \in Users, NEW r \in Roles, Joins(o, u, r),
         account' \in [Users -> {"none", "fresh", "old", "deleted"}],
         account'[u] \in {"fresh", "old"},
         \A v \in Users \ {u} : account'[v] = account[v]
  PROVE  People'
<1>1. r # "none"
  BY DEF Roles
<1>2. ASSUME NEW p \in Orgs, NEW v \in Users
      PROVE  /\ (joined'[p][v] = 0) = (role'[p][v] = "none")
             /\ joined'[p][v] # 0 => account'[v] \in {"fresh", "old"}
  <2>1. CASE p = o /\ v = u
    BY <1>1, <2>1, JoinsEffect
  <2>2. CASE (p # o \/ v # u) /\ v = u
    BY <2>2, JoinsEffect DEF People
  <2>3. CASE v # u
    BY <2>3, JoinsEffect DEF People
  <2> QED
    BY <2>1, <2>2, <2>3
<1> QED
  BY <1>2, JoinsEffect DEF People

\* Memberships only go, and accounts keep what their memberships need.
LEMMA LeavesPeople ==
  ASSUME People, joined' \in [Orgs -> [Users -> Nat]],
         role' \in [Orgs -> [Users -> {"none"} \cup Roles]],
         account' \in [Users -> {"none", "fresh", "old", "deleted"}],
         \A o \in Orgs, u \in Users :
            \/ joined'[o][u] = 0 /\ role'[o][u] = "none"
            \/ /\ joined'[o][u] = joined[o][u] /\ role'[o][u] = role[o][u]
               /\ account[u] \in {"fresh", "old"} => account'[u] \in {"fresh", "old"}
  PROVE  People'
<1>1. JoinsBounded'
  <2>1. PICK n \in Nat : \A p \in Orgs, v \in Users : joined[p][v] <= n
    BY DEF People, JoinsBounded
  <2>2. \A p \in Orgs, v \in Users : joined'[p][v] <= n
    BY <2>1
  <2> QED
    BY <2>2 DEF JoinsBounded
<1>2. \A o \in Orgs, u \in Users :
         /\ (joined'[o][u] = 0) = (role'[o][u] = "none")
         /\ joined'[o][u] # 0 => account'[u] \in {"fresh", "old"}
  BY DEF People
<1> QED
  BY <1>1, <1>2 DEF People
-----------------------------------------------------------------------------
(* What the larger steps do.                                               *)

\* GoTrue creates an account and the trigger provisions it.
LEMMA CreatesEffect ==
  ASSUME People, Rest, NEW u \in Users, NEW token \in Orgs \cup {Null}, Creates(u, token),
         proven \subseteq proven', carded' = carded
  PROVE  /\ People' /\ Undisturbed /\ invite' \in [Orgs -> {"none", "accepted"} \cup Roles]
         /\ account'[u] = "fresh"
         /\ token = Null =>
               \A o \in Orgs : joined'[o][u] # 0 => o = u /\ role'[o][u] = "admin"
<1>1. /\ account[u] = "none" /\ account' = [account EXCEPT ![u] = "fresh"]
      /\ Provision(u, token)
  BY DEF Creates
<1>2. /\ account' \in [Users -> {"none", "fresh", "old", "deleted"}] /\ account'[u] = "fresh"
      /\ \A v \in Users \ {u} : account'[v] = account[v]
  BY <1>1 DEF People
<1>3. \A o \in Orgs : joined[o][u] = 0
  BY <1>1 DEF People
<1>4. \A v \in Users : account[v] # "none" => account'[v] # "none"
  BY <1>1, <1>2
<1>5. ASSUME NEW o \in Orgs, NEW r \in Roles, Joins(o, u, r)
      PROVE  People' /\ Undisturbed
  <2>1. People'
    BY <1>2, <1>5, JoinsPeople
  <2>2. \A p \in Orgs, v \in Users :
           joined'[p][v] # 0 /\ account[v] # "none" =>
              joined[p][v] # 0 /\ role'[p][v] = role[p][v]
    BY <1>1, <1>5, JoinsEffect
  <2> QED
    BY <1>4, <2>1, <2>2 DEF Undisturbed
<1>6. CASE token # Null /\ invite[token] \in Roles
  <2>1. /\ token \in Orgs /\ Joins(token, u, invite[token])
        /\ invite' = [invite EXCEPT ![token] = "accepted"]
    BY <1>1, <1>6 DEF Provision
  <2>2. People' /\ Undisturbed
    BY <1>5, <1>6, <2>1
  <2>3. invite' \in [Orgs -> {"none", "accepted"} \cup Roles]
    BY <2>1 DEF Rest
  <2> QED
    BY <1>2, <1>6, <2>2, <2>3
<1>7. CASE ~(token # Null /\ invite[token] \in Roles) /\ settings.signups
  <2>1. Joins(u, u, "admin") /\ UNCHANGED invite /\ "admin" \in Roles /\ u \in Orgs
    BY <1>1, <1>7 DEF Provision, Roles, Orgs
  <2>2. People' /\ Undisturbed
    BY <1>5, <2>1
  <2>3. \A o \in Orgs : joined'[o][u] # 0 => o = u /\ role'[o][u] = "admin"
    BY <1>3, <2>1, JoinsEffect
  <2> QED
    BY <1>2, <2>1, <2>2, <2>3 DEF Rest
<1>8. CASE ~(token # Null /\ invite[token] \in Roles) /\ ~settings.signups
  <2>1. UNCHANGED <<joined, role, invite>>
    BY <1>1, <1>8 DEF Provision, membership
  <2>2. People'
    BY <1>2, <1>3, <2>1, LeavesPeople DEF People
  <2>3. Undisturbed
    BY <1>4, <2>1 DEF Undisturbed
  <2> QED
    BY <1>2, <1>3, <2>1, <2>2, <2>3 DEF Rest
<1> QED
  BY <1>6, <1>7, <1>8

\* A step that leaves accounts and memberships alone.
LEMMA QuietEffect ==
  ASSUME People, UNCHANGED <<account, joined, role>>, proven \subseteq proven', carded \subseteq carded'
  PROVE  People' /\ Undisturbed
<1>1. People'
  BY DEF People, JoinsBounded
<1> QED
  BY <1>1 DEF Undisturbed

\* An account goes with its memberships; its keys stay and belong to nobody.
LEMMA DeletesEffect ==
  ASSUME People, Credentials, NEW u \in Users, Deletes(u),
         UNCHANGED <<unlocked, keeper, proven, carded>>
  PROVE  People' /\ Undisturbed /\ Credentials'
<1>1. /\ account' = [account EXCEPT ![u] = IF Exists(u) THEN "deleted" ELSE @]
      /\ joined' = [o \in Orgs |-> [joined[o] EXCEPT ![u] = 0]]
      /\ role' = [o \in Orgs |-> [role[o] EXCEPT ![u] = "none"]]
      /\ key' = [k \in Keys |-> [key[k] EXCEPT !.by = IF @ = u THEN Null ELSE @]]
  BY DEF Deletes
<1>2. /\ account' \in [Users -> {"none", "fresh", "old", "deleted"}]
      /\ \A v \in Users \ {u} : account'[v] = account[v]
      /\ account[u] # "none" => account'[u] # "none"
  BY <1>1 DEF People, Exists
<1>3. /\ joined' \in [Orgs -> [Users -> Nat]]
      /\ role' \in [Orgs -> [Users -> {"none"} \cup Roles]]
      /\ \A o \in Orgs : joined'[o][u] = 0 /\ role'[o][u] = "none"
      /\ \A o \in Orgs, v \in Users \ {u} :
            joined'[o][v] = joined[o][v] /\ role'[o][v] = role[o][v]
  BY <1>1 DEF People
<1>4. People'
  BY <1>2, <1>3, LeavesPeople
<1>5. Undisturbed
  BY <1>2, <1>3 DEF Undisturbed
<1>6. ASSUME NEW k \in Keys
      PROVE  /\ key'[k] \in KeyRow
             /\ key'[k].org = key[k].org /\ key'[k].early = key[k].early
             /\ key'[k].revoked = key[k].revoked /\ key'[k].orphan = key[k].orphan
             /\ key'[k].by \in {key[k].by, Null}
  <2>1. PICK x \in KeyRow : x = key[k]
    BY DEF Credentials
  <2>2. PICK b \in {x.by, Null} : b = IF x.by = u THEN Null ELSE x.by
    OBVIOUS
  <2>3. key'[k] = [x EXCEPT !.by = b]
    BY <1>1, <2>1, <2>2
  <2> QED
    BY <2>1, <2>2, <2>3 DEF KeyRow
<1>7. key' \in [Keys -> KeyRow]
  <2>1. key' = [k \in Keys |-> key'[k]]
    BY <1>1
  <2> QED
    BY <1>6, <2>1
<1>8. EarlyKeysEnd'
  BY <1>6 DEF Credentials, EarlyKeysEnd
<1> QED
  BY <1>4, <1>5, <1>7, <1>8 DEF Credentials

\* An organization with an admin has a founding one.
LEMMA FoundingAdminIs ==
  ASSUME People, NEW o \in Orgs, Led(o)
  PROVE  FoundingAdmin(o) \in Users /\ role[o][FoundingAdmin(o)] = "admin"
<1> DEFINE T == {joined[o][u] : u \in {v \in Users : role[o][v] = "admin"}}
           first(u) == /\ role[o][u] = "admin"
                       /\ \A v \in Users : role[o][v] = "admin" => joined[o][u] <= joined[o][v]
<1>1. T \in SUBSET Nat /\ T # {}
  BY DEF Led, People
<1>2. PICK n \in T : \A m \in T : n <= m
  <2> HIDE DEF T
  <2> QED
    BY <1>1, FirstNat
<1>3. \E u \in Users : first(u)
  BY <1>2
<1>4. FoundingAdmin(o) = CHOOSE u \in Users : first(u)
  BY DEF FoundingAdmin
<1>5. FoundingAdmin(o) \in Users /\ first(FoundingAdmin(o))
  <2> HIDE DEF first
  <2> QED
    BY <1>3, <1>4
<1> QED
  BY <1>5

\* The first unlock of some organizations and the rotation that comes with it.
LEMMA UnlockEffect ==
  ASSUME People, Credentials, NEW opened \in SUBSET (Orgs \ unlocked), Unlock(opened),
         UNCHANGED <<account, proven, carded>>
  PROVE  People' /\ Undisturbed /\ Credentials'
<1> DEFINE out(o, u) == o \in opened /\ u \in Evicted(o)
           lost(k) == key[k].org \in opened /\ (key[k].by \notin Members(key[k].org)
                                                \/ ~Led(key[k].org))
<1>1. /\ unlocked' = unlocked \cup opened
      /\ key' = [k \in Keys |->
            [key[k] EXCEPT !.revoked = @ \/ out(key[k].org, key[k].by),
                           !.orphan = @ \/ lost(k)]]
      /\ joined' = [o \in Orgs |-> [u \in Users |-> IF out(o, u) THEN 0 ELSE joined[o][u]]]
      /\ role' = [o \in Orgs |-> [u \in Users |-> IF out(o, u) THEN "none" ELSE role[o][u]]]
      /\ keeper' = [o \in Orgs |->
            IF o \in opened /\ Led(o) THEN FoundingAdmin(o) ELSE keeper[o]]
  BY DEF Unlock
<1>2. /\ joined' \in [Orgs -> [Users -> Nat]]
      /\ role' \in [Orgs -> [Users -> {"none"} \cup Roles]]
      /\ \A o \in Orgs, u \in Users :
            \/ joined'[o][u] = 0 /\ role'[o][u] = "none"
            \/ joined'[o][u] = joined[o][u] /\ role'[o][u] = role[o][u]
  <2> HIDE DEF out
  <2> QED
    BY <1>1 DEF People
<1>3. People'
  BY <1>2, LeavesPeople DEF People
<1>4. Undisturbed
  BY <1>2 DEF Undisturbed
<1>5. keeper' \in [Orgs -> Users \cup {Null}]
  BY <1>1, FoundingAdminIs DEF Credentials
<1>6. ASSUME NEW k \in Keys
      PROVE  /\ key'[k] \in KeyRow
             /\ key'[k].org = key[k].org /\ key'[k].by = key[k].by
             /\ key'[k].early = key[k].early
             /\ ~key'[k].revoked => ~key[k].revoked /\ ~out(key[k].org, key[k].by)
             /\ ~key'[k].orphan => ~key[k].orphan /\ ~lost(k)
  <2>1. PICK x \in KeyRow : x = key[k]
    BY DEF Credentials
  <2>2. PICK r \in BOOLEAN : r <=> x.revoked \/ out(x.org, x.by)
    OBVIOUS
  <2>3. PICK q \in BOOLEAN : q <=> x.orphan \/ lost(k)
    OBVIOUS
  <2>4. key'[k] = [x EXCEPT !.revoked = r, !.orphan = q]
    <3>1. x.revoked \in BOOLEAN /\ x.orphan \in BOOLEAN
      BY DEF KeyRow
    <3>2. (x.revoked \/ out(x.org, x.by)) = r /\ (x.orphan \/ lost(k)) = q
      BY <2>2, <2>3, <3>1
    <3> HIDE DEF out, lost
    <3> QED
      BY <1>1, <2>1, <3>2
  <2>5. /\ key'[k] \in KeyRow /\ key'[k].org = x.org /\ key'[k].by = x.by
        /\ key'[k].early = x.early
    BY <2>4 DEF KeyRow
  <2>6. key'[k].revoked = r /\ key'[k].orphan = q
    BY <2>4 DEF KeyRow
  <2> HIDE DEF out, lost
  <2> QED
    BY <2>1, <2>2, <2>3, <2>5, <2>6
<1>7. key' \in [Keys -> KeyRow]
  <2>1. key' = [k \in Keys |-> key'[k]]
    BY <1>1
  <2> QED
    BY <1>6, <2>1
<1>8. ASSUME NEW k \in Keys, key'[k].early, ~key'[k].revoked, key'[k].org \in unlocked',
             ~key'[k].orphan
      PROVE  key'[k].by \in {keeper'[key'[k].org], Null}
  <2>1. PICK x \in KeyRow : x = key[k]
    BY DEF Credentials
  <2>2. /\ key'[k].org = x.org /\ key'[k].by = x.by /\ x.early
        /\ ~x.revoked /\ ~out(x.org, x.by) /\ ~x.orphan /\ ~lost(k)
    BY <1>6, <1>8, <2>1
  <2>3. x.org \in unlocked \cup opened /\ x.org \in Orgs
    <3>1. x.org \in unlocked'
      BY Zenon, <1>8, <2>2
    <3>2. unlocked \subseteq Orgs
      BY DEF Credentials
    <3> QED
      BY <1>1, <3>1, <3>2
  <2>4. CASE x.org \in opened
    <3>1. x.by \in Members(x.org) /\ Led(x.org)
      BY <2>1, <2>2, <2>4
    <3>2. x.by = FoundingAdmin(x.org)
      BY <2>2, <2>4, <3>1 DEF Evicted
    <3>3. keeper'[x.org] = FoundingAdmin(x.org)
      BY <1>1, <2>3, <2>4, <3>1
    <3> QED
      BY <2>2, <3>2, <3>3
  <2>5. CASE x.org \notin opened
    <3>1. keeper'[x.org] = keeper[x.org]
      BY <1>1, <2>3, <2>5
    <3>2. x.by \in {keeper[x.org], Null}
      BY <2>1, <2>2, <2>3, <2>5 DEF Credentials, EarlyKeysEnd
    <3> QED
      BY <2>2, <3>1, <3>2
  <2> QED
    BY <2>4, <2>5
<1>9. EarlyKeysEnd'
  BY <1>8 DEF EarlyKeysEnd
<1> QED
  BY <1>1, <1>3, <1>4, <1>5, <1>7, <1>9 DEF Credentials

\* A key that is minted is early only where the unlock is still to come.
LEMMA KeyInserted ==
  ASSUME Credentials, NEW o \in Orgs, NEW u \in Users, InsertKey(o, u),
         UNCHANGED <<unlocked, keeper>>
  PROVE  Credentials'
<1>1. PICK k \in Keys : key' = [key EXCEPT ![k] = NewKey(o, u)]
  BY DEF InsertKey
<1>2. /\ NewKey(o, u) \in KeyRow /\ NewKey(o, u).org = o
      /\ NewKey(o, u).early => o \notin unlocked
  BY DEF NewKey, KeyRow
<1>3. key' \in [Keys -> KeyRow]
  BY <1>1, <1>2 DEF Credentials
<1>4. \A j \in Keys : key'[j] = IF j = k THEN NewKey(o, u) ELSE key[j]
  BY <1>1 DEF Credentials
<1>5. EarlyKeysEnd'
  BY <1>2, <1>4 DEF Credentials, EarlyKeysEnd
<1> QED
  BY <1>3, <1>5 DEF Credentials
-----------------------------------------------------------------------------
(* Every step keeps the invariant.                                         *)

\* Counting a request keeps the count in its bound.
LEMMA CountedType ==
  ASSUME requests \in 0 .. MaxRequests, Counted PROVE requests' \in 0 .. MaxRequests
  BY SignupConstants DEF Counted

\* Tables that nobody writes.
TablesSame == UNCHANGED <<account, joined, role, unlocked, key, keeper>>

\* A request starts and has what its first call needs.
LEMMA OneStarts ==
  ASSUME InFlight, Undisturbed, NEW h \in Handlers, NEW x \in Request,
         handler' = [handler EXCEPT ![h] = x],
         x.phase \notin {"membership", "purge"}, Named(x), Known(x)', Proved(x)'
  PROVE  InFlight'
<1>1. Ready(x)'
  BY DEF Ready, Named, Alone
<1> QED
  BY <1>1, OneGoesOn

\* A request goes on to its next call, for the same user and organization.
LEMMA OneMoves ==
  ASSUME InFlight, Undisturbed, NEW h \in Handlers, NEW p \in Phases, Goes(h, p),
         NEW x \in Request, x = handler[h],
         p \notin {"key", "membership", "purge"},
         p \notin {"idle", "card", "unlockOrg"} => x.user \in Users,
         p \in {"card", "unlockOrg"} => x.org \in Orgs,
         p \notin {"idle", "create", "otp", "card", "unlockOrg"} => account'[x.user] # "none",
         p \in {"classify", "count", "requirement", "unlock"} => x.user \in proven',
         p \in {"card", "unlockOrg"} => x.org \in carded'
  PROVE  InFlight'
<1>1. PICK y : y = [x EXCEPT !.phase = p]
  OBVIOUS
<1>2. y \in Request /\ y.phase = p /\ y.user = x.user /\ y.org = x.org
  BY <1>1, Advanced
<1>3. handler' = [handler EXCEPT ![h] = y]
  BY <1>1, GoesTo
<1>4. Ready(y)'
  BY <1>2 DEF Ready, Named, Known, Proved, Alone
<1> QED
  BY <1>2, <1>3, <1>4, OneGoesOn

\* The steps that start a request, or move one on without writing a table.
LEMMA StartSteps ==
  ASSUME SignupInv, NEW h \in Handlers,
         \/ StartInstant(h) \/ StartOtp(h) \/ OpenInbox(h) \/ SaveCard(h)
  PROVE  SignupInv'
<1>0. People /\ Credentials /\ Rest /\ InFlight
  BY Zenon DEF SignupInv
<1>1. /\ TablesSame /\ proven \subseteq proven' /\ carded \subseteq carded'
      /\ proven' \subseteq Users /\ carded' \subseteq Orgs /\ mailed' \subseteq Users
      /\ requests' \in 0 .. MaxRequests /\ UNCHANGED <<settings, invite>>
  BY <1>0, CountedType
     DEF StartInstant, StartOtp, OpenInbox, SaveCard, Begins, Rest, TablesSame, membership, Orgs
<1>2. People' /\ Undisturbed
  BY <1>0, <1>1, QuietEffect DEF TablesSame
<1>3. Credentials'
  BY <1>0, <1>1 DEF Credentials, EarlyKeysEnd, TablesSame
<1>4. Rest'
  BY <1>0, <1>1 DEF Rest
<1>5. CASE StartInstant(h)
  <2>0. PICK u \in Users : Begins(h, [Idle EXCEPT !.phase = "create", !.user = u])
    BY <1>5 DEF StartInstant
  <2>1. PICK x :
           /\ x = [Idle EXCEPT !.phase = "create", !.user = u]
           /\ handler' = [handler EXCEPT ![h] = x]
    BY <2>0 DEF Begins, Starts
  <2>2. x \in Request /\ x.phase = "create" /\ x.user = u
    BY <2>1, IdleReady DEF Request
  <2>9. Named(x) /\ Known(x)' /\ Proved(x)'
    BY <2>1, <2>2 DEF Named, Known, Proved
  <2>10. InFlight'
    BY <1>0, <1>2, <2>1, <2>2, <2>9, OneStarts
  <2> QED
    BY <1>2, <1>3, <1>4, <2>10 DEF SignupInv
<1>6. CASE StartOtp(h)
  <2>0. PICK u \in Users, token \in Orgs \cup {Null} :
           Begins(h, [Idle EXCEPT !.phase = "otp", !.user = u, !.org = token,
                                  !.allow = IsSignupAllowed(token)])
    BY <1>6 DEF StartOtp
  <2>1. PICK x :
           /\ x = [Idle EXCEPT !.phase = "otp", !.user = u, !.org = token,
                               !.allow = IsSignupAllowed(token)]
           /\ handler' = [handler EXCEPT ![h] = x]
    BY <2>0 DEF Begins, Starts
  <2>2. IsSignupAllowed(token) \in BOOLEAN
    BY DEF IsSignupAllowed
  <2>3. x \in Request /\ x.phase = "otp" /\ x.user = u
    BY <2>1, <2>2, IdleReady DEF Request
  <2>9. Named(x) /\ Known(x)' /\ Proved(x)'
    BY <2>1, <2>3 DEF Named, Known, Proved
  <2>10. InFlight'
    BY <1>0, <1>2, <2>1, <2>3, <2>9, OneStarts
  <2> QED
    BY <1>2, <1>3, <1>4, <2>10 DEF SignupInv
<1>7. CASE OpenInbox(h)
  <2>0. PICK u \in mailed, p \in {"requirement", "count"} :
           /\ Exists(u) /\ proven' = proven \cup {u}
           /\ Starts(h, [Idle EXCEPT !.phase = p, !.user = u])
    BY <1>7 DEF OpenInbox
  <2>1. PICK x :
           /\ x = [Idle EXCEPT !.phase = p, !.user = u]
           /\ handler' = [handler EXCEPT ![h] = x]
    BY <2>0 DEF Starts
  <2>2. u \in Users /\ account'[u] # "none" /\ p \in Phases
    BY <1>0, <1>1, <2>0 DEF Rest, Exists, TablesSame, Phases
  <2>3. x \in Request /\ x.phase = p /\ x.user = u
    BY <2>1, <2>2, IdleReady DEF Request
  <2>9. Named(x) /\ Known(x)' /\ Proved(x)'
    BY <2>0, <2>1, <2>2, <2>3 DEF Named, Known, Proved
  <2>10. InFlight'
    BY <1>0, <1>2, <2>0, <2>1, <2>2, <2>3, <2>9, OneStarts
  <2> QED
    BY <1>2, <1>3, <1>4, <2>10 DEF SignupInv
<1>8. CASE SaveCard(h)
  <2>0. PICK o \in Orgs : /\ carded' = carded \cup {o}
                          /\ Begins(h, [Idle EXCEPT !.phase = "card", !.org = o])
    BY <1>8 DEF SaveCard
  <2>1. PICK x : /\ x = [Idle EXCEPT !.phase = "card", !.org = o]
                 /\ handler' = [handler EXCEPT ![h] = x]
    BY <2>0 DEF Begins, Starts
  <2>2. x \in Request /\ x.phase = "card" /\ x.org = o
    BY <2>1, IdleReady DEF Request
  <2>9. Named(x) /\ Known(x)' /\ Proved(x)'
    BY <2>0, <2>1, <2>2 DEF Named, Known, Proved
  <2>10. InFlight'
    BY <1>0, <1>2, <2>0, <2>1, <2>2, <2>9, OneStarts
  <2> QED
    BY <1>2, <1>3, <1>4, <2>10 DEF SignupInv
<1> QED
  BY <1>5, <1>6, <1>7, <1>8

\* The request that a handler serves.
LEMMA Serving ==
  ASSUME InFlight, NEW h \in Handlers PROVE handler[h] \in Request /\ Ready(handler[h])
  BY DEF InFlight

\* The steps that look something up and write no table.
LEMMA LookSteps ==
  ASSUME SignupInv, NEW h \in Handlers,
         \/ ClassifyOAuthUser(h) \/ CountMemberships(h) \/ CheckMembership(h) \/ Recount(h)
         \/ UnlockSpendOnInboxProof(h) \/ UnlockSpendOnCardSaved(h) \/ Dies(h)
  PROVE  SignupInv'
<1>0. People /\ Credentials /\ Rest /\ InFlight
  BY DEF SignupInv
<1>1. TablesSame /\ UNCHANGED <<requests, settings, invite, mailed, proven, carded>>
  BY DEF ClassifyOAuthUser, CountMemberships, CheckMembership, Recount, UnlockSpendOnInboxProof,
         UnlockSpendOnCardSaved, Dies, TablesSame, membership
<1>2. People' /\ Undisturbed
  BY <1>0, <1>1, QuietEffect DEF TablesSame
<1>3. Credentials'
  BY <1>0, <1>1 DEF Credentials, EarlyKeysEnd, TablesSame
<1>4. Rest'
  BY <1>0, <1>1 DEF Rest
<1>5. PICK x \in Request : x = handler[h] /\ Ready(x)
  BY <1>0, Serving
<1>6. SUFFICES InFlight'
  BY <1>2, <1>3, <1>4 DEF SignupInv
<1>7. CASE Ends(h)
  BY <1>0, <1>2, <1>7, OneEnds
<1>8. CASE ClassifyOAuthUser(h)
  <2>1. PICK p \in {"recount", "count"} : Goes(h, p) /\ x.phase = "classify"
    BY <1>5, <1>8 DEF ClassifyOAuthUser
  <2>2. p \in Phases
    BY DEF Phases
  <2>3. x.user \in Users /\ account'[x.user] # "none" /\ x.user \in proven'
    BY <1>1, <1>5, <2>1 DEF Ready, Named, Known, Proved, TablesSame
  <2> QED
    BY <1>0, <1>2, <1>5, <2>1, <2>2, <2>3, OneMoves
<1>9. CASE CountMemberships(h)
  <2>1. PICK p \in {"recount", "requirement"} : Goes(h, p) /\ x.phase = "count"
    BY <1>5, <1>9 DEF CountMemberships
  <2>2. p \in Phases
    BY DEF Phases
  <2>3. x.user \in Users /\ account'[x.user] # "none" /\ x.user \in proven'
    BY <1>1, <1>5, <2>1 DEF Ready, Named, Known, Proved, TablesSame
  <2> QED
    BY <1>0, <1>2, <1>5, <2>1, <2>2, <2>3, OneMoves
<1>10. CASE UnlockSpendOnInboxProof(h) /\ ~Ends(h)
  <2>1. Goes(h, "unlock") /\ x.phase = "requirement" /\ "unlock" \in Phases
    BY <1>5, <1>10 DEF UnlockSpendOnInboxProof, Phases
  <2>2. x.user \in Users /\ account'[x.user] # "none" /\ x.user \in proven'
    BY <1>1, <1>5, <2>1 DEF Ready, Named, Known, Proved, TablesSame
  <2> QED
    BY <1>0, <1>2, <1>5, <2>1, <2>2, OneMoves
<1>11. CASE UnlockSpendOnCardSaved(h) /\ ~Ends(h)
  <2>1. Goes(h, "unlockOrg") /\ x.phase = "card" /\ "unlockOrg" \in Phases
    BY <1>5, <1>11 DEF UnlockSpendOnCardSaved, Phases
  <2>2. x.org \in Orgs /\ x.org \in carded'
    BY <1>1, <1>5, <2>1 DEF Ready, Named, Proved
  <2> QED
    BY <1>0, <1>2, <1>5, <2>1, <2>2, OneMoves
<1>12. CASE Recount(h) /\ ~Ends(h)
  <2>1. /\ x.phase = "recount" /\ Removable(x.user)
        /\ handler' = [handler EXCEPT ![h].phase = "purge", ![h].fresh = TRUE]
    BY <1>5, <1>12 DEF Recount
  <2>2. PICK y : y = [x EXCEPT !.phase = "purge", !.fresh = TRUE]
    OBVIOUS
  <2>3. y \in Request /\ y.phase = "purge" /\ y.user = x.user
    BY <2>2 DEF Request
  <2>4. handler' = [handler EXCEPT ![h] = y]
    BY <1>0, <1>5, <2>1, <2>2 DEF InFlight
  <2>5. x.user \in Users /\ account'[x.user] # "none" /\ \A o \in Orgs : joined'[o][x.user] = 0
    BY <1>1, <1>5, <2>1 DEF Ready, Named, Known, TablesSame, Removable, Memberships
  <2>6. Ready(y)'
    BY <2>3, <2>5 DEF Ready, Named, Known, Proved, Alone
  <2> QED
    BY <1>0, <1>2, <2>3, <2>4, <2>6, OneGoesOn
<1>13. CASE CheckMembership(h)
  <2> DEFINE led == {o \in Orgs : role[o][x.user] = "admin"}
  <2>1. /\ x.phase = "membership"
        /\ IF Cardinality(led) = 1
           THEN handler' = [handler EXCEPT ![h].phase = "key",
                                           ![h].org = CHOOSE o \in led : TRUE]
           ELSE Goes(h, "purge")
    BY <1>5, <1>13 DEF CheckMembership
  <2>2. x.user \in Users /\ account'[x.user] # "none" /\ led \subseteq Orgs
    BY <1>1, <1>5, <2>1 DEF Ready, Named, Known, TablesSame
  <2>3. CASE Cardinality(led) = 1
    <3>1. led # {}
      <4>1. Cardinality({}) = 0
        BY FS_EmptySet
      <4> QED
        BY <2>3, <4>1
    <3>2. PICK o \in Orgs : o = CHOOSE q \in led : TRUE
      BY <2>2, <3>1
    <3>3. PICK y : y = [x EXCEPT !.phase = "key", !.org = o]
      OBVIOUS
    <3>4. y \in Request /\ y.phase = "key" /\ y.user = x.user /\ y.org = o
      BY <3>3 DEF Request
    <3>5. handler' = [handler EXCEPT ![h] = y]
      BY <1>0, <1>5, <2>1, <2>3, <3>2, <3>3 DEF InFlight
    <3>6. Ready(y)'
      BY <2>2, <3>4 DEF Ready, Named, Known, Proved, Alone
    <3> QED
      BY <1>0, <1>2, <3>4, <3>5, <3>6, OneGoesOn
  <2>4. CASE Cardinality(led) # 1
    <3>1. PICK y : y = [x EXCEPT !.phase = "purge"]
      OBVIOUS
    <3>2. y \in Request /\ y.phase = "purge" /\ y.user = x.user /\ y.fresh = x.fresh
      BY <3>1, Advanced DEF Phases
    <3>3. handler' = [handler EXCEPT ![h] = y]
      BY <1>0, <1>5, <2>1, <2>4, <3>1, GoesTo
    <3>4. ASSUME x.fresh, NEW o \in Orgs PROVE joined'[o][x.user] = 0
      <4>1. SUFFICES ASSUME joined[o][x.user] # 0 PROVE FALSE
        BY <1>1 DEF TablesSame
      <4>2. \A p \in Orgs : joined[p][x.user] # 0 => p = x.user /\ role[p][x.user] = "admin"
        BY <1>5, <2>1, <3>4 DEF Ready, Alone
      <4>3. \A p \in Orgs : role[p][x.user] = "admin" => joined[p][x.user] # 0
        BY <1>0, <2>2 DEF People
      <4>4. led = {x.user}
        BY <4>1, <4>2, <4>3
      <4>5. Cardinality({x.user}) = 1
        BY FS_Singleton
      <4> QED
        BY <2>4, <4>4, <4>5
    <3>5. Ready(y)'
      BY <2>2, <3>2, <3>4 DEF Ready, Named, Known, Proved, Alone
    <3> QED
      BY <1>0, <1>2, <3>2, <3>3, <3>5, OneGoesOn
  <2> QED
    BY <2>3, <2>4
<1> QED
  BY <1>7, <1>8, <1>9, <1>10, <1>11, <1>12, <1>13 DEF Dies

\* The steps that may create the account.
LEMMA CreateSteps ==
  ASSUME SignupInv, NEW h \in Handlers,
         CreateUser(h) \/ SignInWithOtp(h) \/ ReturnFromProvider(h)
  PROVE  SignupInv'
<1>0. People /\ Credentials /\ Rest /\ InFlight
  BY DEF SignupInv
<1>1. /\ UNCHANGED <<settings, unlocked, key, carded, keeper>>
      /\ requests' \in 0 .. MaxRequests /\ proven \subseteq proven'
  BY <1>0, CountedType DEF CreateUser, SignInWithOtp, ReturnFromProvider, Begins, Rest
<1>2. Credentials'
  BY <1>0, <1>1 DEF Credentials, EarlyKeysEnd
<1>3. PICK x \in Request : x = handler[h] /\ Ready(x)
  BY <1>0, Serving
<1>4. ASSUME UNCHANGED <<account, membership>> PROVE People' /\ Undisturbed
  BY <1>0, <1>1, <1>4, QuietEffect DEF membership
<1>5. CASE CreateUser(h)
  <2>1. x.phase = "create" /\ UNCHANGED <<mailed, proven>>
    BY <1>3, <1>5 DEF CreateUser
  <2>2. x.user \in Users
    BY <1>3, <2>1 DEF Ready, Named
  <2>3. CASE Creates(x.user, Null) /\ Goes(h, "membership")
    <3>1. /\ People' /\ Undisturbed /\ invite' \in [Orgs -> {"none", "accepted"} \cup Roles]
          /\ account'[x.user] = "fresh"
          /\ \A o \in Orgs : joined'[o][x.user] # 0 => o = x.user /\ role'[o][x.user] = "admin"
      BY <1>0, <1>1, <2>2, <2>3, CreatesEffect
    <3>2. PICK y : y = [x EXCEPT !.phase = "membership"]
      OBVIOUS
    <3>3. y \in Request /\ y.phase = "membership" /\ y.user = x.user
      BY <3>2, Advanced DEF Phases
    <3>4. handler' = [handler EXCEPT ![h] = y]
      BY <1>0, <1>3, <2>3, <3>2, GoesTo
    <3>5. Ready(y)'
      BY <2>2, <3>1, <3>3 DEF Ready, Named, Known, Proved, Alone
    <3>6. InFlight'
      BY <1>0, <3>1, <3>3, <3>4, <3>5, OneGoesOn
    <3> QED
      BY <1>0, <1>1, <1>2, <2>1, <3>1, <3>6 DEF SignupInv, Rest
  <2>4. CASE Ends(h) /\ UNCHANGED <<account, membership, invite>>
    <3>1. InFlight'
      BY <1>0, <1>4, <2>4, OneEnds
    <3> QED
      BY <1>0, <1>1, <1>2, <1>4, <2>1, <2>4, <3>1 DEF SignupInv, Rest
  <2> QED
    BY <1>3, <1>5, <2>3, <2>4 DEF CreateUser
<1>6. CASE SignInWithOtp(h)
  <2>1. /\ x.phase = "otp" /\ mailed' = mailed \cup {x.user} /\ Ends(h)
        /\ UNCHANGED proven
    BY <1>3, <1>6 DEF SignInWithOtp
  <2>2. x.user \in Users /\ x.org \in Orgs \cup {Null}
    BY <1>3, <2>1 DEF Ready, Named, Request
  <2>3. People' /\ Undisturbed /\ invite' \in [Orgs -> {"none", "accepted"} \cup Roles]
    <3>1. CASE Creates(x.user, x.org)
      BY <1>0, <1>1, <2>2, <3>1, CreatesEffect
    <3>2. CASE UNCHANGED <<account, membership, invite>>
      BY <1>0, <1>4, <3>2 DEF Rest
    <3> QED
      BY <1>3, <1>6, <3>1, <3>2 DEF SignInWithOtp
  <2>4. InFlight'
    BY <1>0, <2>1, <2>3, OneEnds
  <2> QED
    BY <1>0, <1>1, <1>2, <2>1, <2>2, <2>3, <2>4 DEF SignupInv, Rest
<1>7. CASE ReturnFromProvider(h)
  <2>1. PICK u \in OAuthUsers :
           /\ \/ Creates(u, Null)
              \/ Exists(u) /\ UNCHANGED <<account, membership, invite>>
           /\ proven' = proven \cup {u}
           /\ Begins(h, [Idle EXCEPT !.phase = "classify", !.user = u])
    BY <1>7 DEF ReturnFromProvider
  <2>2. u \in Users /\ UNCHANGED mailed
    BY <1>7, SignupConstants DEF ReturnFromProvider
  <2>3. /\ People' /\ Undisturbed /\ invite' \in [Orgs -> {"none", "accepted"} \cup Roles]
        /\ account'[u] # "none"
    <3>1. CASE Creates(u, Null)
      BY <1>0, <1>1, <2>2, <3>1, CreatesEffect
    <3>2. CASE Exists(u) /\ UNCHANGED <<account, membership, invite>>
      BY <1>0, <1>4, <3>2 DEF Rest, Exists
    <3> QED
      BY <2>1, <3>1, <3>2
  <2>4. PICK y : /\ y = [Idle EXCEPT !.phase = "classify", !.user = u]
                 /\ handler' = [handler EXCEPT ![h] = y]
    BY <2>1 DEF Begins, Starts
  <2>5. y \in Request /\ y.phase = "classify" /\ y.user = u
    BY <2>2, <2>4, IdleReady DEF Request
  <2>6. Named(y) /\ Known(y)' /\ Proved(y)'
    BY <2>1, <2>2, <2>3, <2>5 DEF Named, Known, Proved
  <2>7. InFlight'
    BY <1>0, <2>3, <2>4, <2>5, <2>6, OneStarts
  <2> QED
    BY <1>0, <1>1, <1>2, <2>1, <2>2, <2>3, <2>7 DEF SignupInv, Rest
<1> QED
  BY <1>5, <1>6, <1>7

\* The steps that end a request by writing keys, accounts or unlocks.
LEMMA LastSteps ==
  ASSUME SignupInv, NEW h \in Handlers,
         MintInstantKey(h) \/ DeleteUser(h) \/ UnlockFounderSpend(h) \/ UnlockOrgSpend(h)
  PROVE  SignupInv'
<1>0. People /\ Credentials /\ Rest /\ InFlight
  BY DEF SignupInv
<1>1. PICK x \in Request : x = handler[h] /\ Ready(x)
  BY <1>0, Serving
<1>2. Ends(h) /\ UNCHANGED <<requests, settings, invite, proven, carded>>
  BY DEF MintInstantKey, DeleteUser, UnlockFounderSpend, UnlockOrgSpend
<1>3. People' /\ Undisturbed /\ Credentials' /\ mailed' \subseteq Users
  <2>1. CASE MintInstantKey(h)
    <3>1. /\ x.phase = "key" /\ InsertKey(x.org, x.user) /\ mailed' = mailed \cup {x.user}
          /\ UNCHANGED <<account, joined, role, unlocked, keeper>>
      BY <1>1, <2>1 DEF MintInstantKey, membership
    <3>2. x.user \in Users /\ x.org \in Orgs
      BY <1>1, <3>1 DEF Ready, Named
    <3>3. Credentials'
      BY <1>0, <3>1, <3>2, KeyInserted
    <3>4. People' /\ Undisturbed
      BY <1>0, <1>2, <3>1, QuietEffect
    <3> QED
      BY <1>0, <3>1, <3>2, <3>3, <3>4 DEF Rest
  <2>2. CASE DeleteUser(h)
    <3>1. x.phase = "purge" /\ Deletes(x.user) /\ UNCHANGED <<unlocked, keeper, mailed>>
      BY <1>1, <2>2 DEF DeleteUser
    <3>2. x.user \in Users
      BY <1>1, <3>1 DEF Ready, Named
    <3>3. People' /\ Undisturbed /\ Credentials'
      BY <1>0, <1>2, <3>1, <3>2, DeletesEffect
    <3> QED
      BY <1>0, <3>1, <3>3 DEF Rest
  <2>3. CASE UnlockFounderSpend(h)
    <3>1. Unlock(Founded(x.user)) /\ UNCHANGED <<account, mailed>>
      BY <1>1, <2>3 DEF UnlockFounderSpend
    <3>2. Founded(x.user) \in SUBSET (Orgs \ unlocked)
      BY DEF Founded
    <3>3. People' /\ Undisturbed /\ Credentials'
      BY <1>0, <1>2, <3>1, <3>2, UnlockEffect
    <3> QED
      BY <1>0, <3>1, <3>3 DEF Rest
  <2>4. CASE UnlockOrgSpend(h)
    <3>1. /\ x.phase = "unlockOrg" /\ Unlock({x.org} \ unlocked)
          /\ UNCHANGED <<account, mailed>>
      BY <1>1, <2>4 DEF UnlockOrgSpend
    <3>2. {x.org} \ unlocked \in SUBSET (Orgs \ unlocked)
      BY <1>1, <3>1 DEF Ready, Named
    <3>3. People' /\ Undisturbed /\ Credentials'
      BY <1>0, <1>2, <3>1, <3>2, UnlockEffect
    <3> QED
      BY <1>0, <3>1, <3>3 DEF Rest
  <2> QED
    BY <2>1, <2>2, <2>3, <2>4
<1>4. InFlight'
  BY <1>0, <1>2, <1>3, OneEnds
<1> QED
  BY <1>0, <1>2, <1>3, <1>4 DEF SignupInv, Rest

\* What members and operators do without a request in flight taking note.
LEMMA OtherSteps ==
  ASSUME SignupInv, InviteMember \/ MintKey \/ ChangeSettings \/ GrowOld \/ RemoveMember
  PROVE  SignupInv'
<1>0. People /\ Credentials /\ Rest /\ InFlight
  BY DEF SignupInv
<1>1. UNCHANGED <<mailed, proven, carded, handler, unlocked, keeper>>
  BY DEF InviteMember, MintKey, ChangeSettings, GrowOld, RemoveMember
<1>2. CASE InviteMember \/ MintKey \/ ChangeSettings
  <2>1. UNCHANGED <<account, joined, role>>
    BY <1>2 DEF InviteMember, MintKey, ChangeSettings, membership
  <2>2. People' /\ Undisturbed
    BY <1>0, <1>1, <2>1, QuietEffect
  <2>3. InFlight'
    BY <1>0, <1>1, <2>2, NobodyGoesOn
  <2>4. CASE InviteMember
    <3>1. Credentials'
      BY <1>0, <1>1, <2>4 DEF InviteMember, Credentials, EarlyKeysEnd
    <3>2. /\ invite' \in [Orgs -> {"none", "accepted"} \cup Roles]
          /\ requests' \in 0 .. MaxRequests /\ UNCHANGED settings
      BY <1>0, <2>4, CountedType DEF InviteMember, Rest
    <3> QED
      BY <1>0, <1>1, <2>2, <2>3, <3>1, <3>2 DEF SignupInv, Rest
  <2>5. CASE MintKey
    <3>1. PICK o \in Orgs : \E u \in Members(o) : InsertKey(o, u)
      BY <2>5 DEF MintKey
    <3>2. PICK u \in Users : InsertKey(o, u)
      BY <3>1 DEF Members
    <3>3. Credentials'
      BY <1>0, <1>1, <3>2, KeyInserted
    <3> QED
      BY <1>0, <1>1, <2>2, <2>3, <2>5, <3>3 DEF MintKey, SignupInv, Rest
  <2>6. CASE ChangeSettings
    <3>1. Credentials'
      BY <1>0, <1>1, <2>6 DEF ChangeSettings, Credentials, EarlyKeysEnd
    <3>2. /\ settings' \in [signups : BOOLEAN, requirement : {"email", "card"}]
          /\ requests' \in 0 .. MaxRequests /\ UNCHANGED invite
      BY <1>0, <2>6, CountedType DEF ChangeSettings, Rest
    <3> QED
      BY <1>0, <1>1, <2>2, <2>3, <3>1, <3>2 DEF SignupInv, Rest
  <2> QED
    BY <1>2, <2>4, <2>5, <2>6
<1>3. CASE GrowOld
  <2>1. PICK u \in Users : account[u] = "fresh" /\ account' = [account EXCEPT ![u] = "old"]
    BY <1>3 DEF GrowOld
  <2>2. UNCHANGED <<joined, role, key, requests, settings, invite>>
    BY <1>3 DEF GrowOld, membership
  <2>3. /\ account' \in [Users -> {"none", "fresh", "old", "deleted"}] /\ account'[u] = "old"
        /\ \A v \in Users \ {u} : account'[v] = account[v]
    BY <1>0, <2>1 DEF People
  <2>4. People'
    BY <1>0, <2>2, <2>3, LeavesPeople DEF People
  <2>5. Undisturbed
    BY <1>1, <2>2, <2>3 DEF Undisturbed
  <2>6. InFlight'
    BY <1>0, <1>1, <2>5, NobodyGoesOn
  <2> QED
    BY <1>0, <1>1, <2>2, <2>4, <2>6 DEF SignupInv, Rest, Credentials, EarlyKeysEnd
<1>4. CASE RemoveMember
  <2>1. PICK o \in Orgs : \E u \in Members(o) :
           /\ joined' = [joined EXCEPT ![o][u] = 0]
           /\ role' = [role EXCEPT ![o][u] = "none"]
    BY <1>4 DEF RemoveMember
  <2>2. PICK u \in Users : /\ joined' = [joined EXCEPT ![o][u] = 0]
                           /\ role' = [role EXCEPT ![o][u] = "none"]
    BY <2>1 DEF Members
  <2>3. UNCHANGED <<account, key, requests, settings, invite>>
    BY <1>4 DEF RemoveMember
  <2>4. /\ joined' \in [Orgs -> [Users -> Nat]]
        /\ role' \in [Orgs -> [Users -> {"none"} \cup Roles]]
        /\ joined'[o][u] = 0 /\ role'[o][u] = "none"
        /\ \A p \in Orgs, v \in Users : p # o \/ v # u =>
              joined'[p][v] = joined[p][v] /\ role'[p][v] = role[p][v]
    BY <1>0, <2>2 DEF People
  <2>5. People'
    BY <1>0, <2>3, <2>4, LeavesPeople DEF People
  <2>6. Undisturbed
    BY <1>1, <2>3, <2>4 DEF Undisturbed
  <2>7. InFlight'
    BY <1>0, <1>1, <2>6, NobodyGoesOn
  <2> QED
    BY <1>0, <1>1, <2>3, <2>5, <2>7 DEF SignupInv, Rest, Credentials, EarlyKeysEnd
<1> QED
  BY <1>2, <1>3, <1>4

\* Somebody is added to an organization: requests for that account are no
\* longer fresh.
LEMMA AddStep == ASSUME SignupInv, AddMember PROVE SignupInv'
<1>0. People /\ Credentials /\ Rest /\ InFlight
  BY DEF SignupInv
<1>1. PICK o \in Orgs, u \in Users, r \in Roles :
         /\ Exists(u) /\ Joins(o, u, r)
         /\ handler' = [h \in Handlers |->
               [handler[h] EXCEPT !.fresh = @ /\ handler[h].user # u]]
  BY DEF AddMember
<1>2. /\ UNCHANGED <<settings, account, invite, unlocked, key, mailed, proven, carded, keeper>>
      /\ requests' \in 0 .. MaxRequests
  BY <1>0, CountedType DEF AddMember, Rest
<1>3. People'
  BY <1>0, <1>1, <1>2, JoinsPeople DEF People, Exists
<1>4. Credentials' /\ Rest'
  BY <1>0, <1>2 DEF Credentials, EarlyKeysEnd, Rest
<1>5. ASSUME NEW h \in Handlers PROVE handler'[h] \in Request /\ Ready(handler[h])'
  <2>1. PICK x \in Request : x = handler[h] /\ Ready(x)
    BY <1>0, Serving
  <2>2. PICK f \in BOOLEAN : f <=> x.fresh /\ x.user # u
    OBVIOUS
  <2>3. PICK y : y = handler'[h]
    OBVIOUS
  <2>4. y = [x EXCEPT !.fresh = f]
    <3>1. x.fresh \in BOOLEAN
      BY DEF Request
    <3>2. (x.fresh /\ x.user # u) = f
      BY <2>2, <3>1
    <3> QED
      BY <1>1, <2>1, <2>3, <3>2
  <2>5. /\ y \in Request /\ y.phase = x.phase /\ y.user = x.user /\ y.org = x.org
    BY <2>4 DEF Request
  <2>6. y.fresh => x.fresh /\ x.user # u
    <3>1. y.fresh = f
      BY <2>4 DEF Request
    <3> QED
      BY <2>2, <3>1
  <2>7. Named(y) /\ Known(y)' /\ Proved(y)'
    BY <1>2, <2>1, <2>5 DEF Ready, Named, Known, Proved
  <2>8. Alone(y)'
    <3>1. y.phase \in {"membership", "purge"} => x.user \in Users
      BY <2>1, <2>5 DEF Ready, Named
    <3>2. \A p \in Orgs, v \in Users : p # o \/ v # u =>
             joined'[p][v] = joined[p][v] /\ role'[p][v] = role[p][v]
      BY <1>0, <1>1, JoinsEffect
    <3> QED
      BY <2>1, <2>5, <2>6, <3>1, <3>2 DEF Ready, Alone
  <2> QED
    BY <2>3, <2>5, <2>7, <2>8 DEF Ready, Named, Known, Proved, Alone
<1>6. InFlight'
  <2>1. handler' = [h \in Handlers |-> handler'[h]]
    BY <1>1
  <2> QED
    BY <1>5, <2>1 DEF InFlight
<1> QED
  BY <1>3, <1>4, <1>6 DEF SignupInv

\* Before the first request.
LEMMA SignupInit == Init => SignupInv
<1> SUFFICES ASSUME Init PROVE SignupInv
  OBVIOUS
<1>1. People
  <2>1. /\ account \in [Users -> {"none", "fresh", "old", "deleted"}]
        /\ joined \in [Orgs -> [Users -> Nat]]
        /\ role \in [Orgs -> [Users -> {"none"} \cup Roles]]
        /\ \A o \in Orgs, u \in Users : joined[o][u] = 0 /\ role[o][u] = "none"
    BY DEF Init
  <2>2. 0 \in Nat /\ \A o \in Orgs, u \in Users : joined[o][u] <= 0
    BY <2>1
  <2> QED
    BY <2>1, <2>2 DEF People, JoinsBounded
<1>2. Credentials
  <2>1. NoKey \in KeyRow /\ ~NoKey.early
    BY DEF NoKey, KeyRow
  <2> HIDE DEF NoKey
  <2> QED
    BY <2>1 DEF Init, Credentials, EarlyKeysEnd
<1>3. Rest
  BY SignupConstants DEF Init, Rest
<1>4. InFlight
  <2>1. /\ handler = [h \in Handlers |-> Idle] /\ Idle \in Request /\ Ready(Idle)
    BY IdleReady DEF Init
  <2> HIDE DEF Idle
  <2> QED
    BY <2>1 DEF InFlight
<1> QED
  BY <1>1, <1>2, <1>3, <1>4 DEF SignupInv

\* Every step keeps the invariant.
LEMMA SignupStep == SignupInv /\ [Next]_vars => SignupInv'
<1> SUFFICES ASSUME SignupInv, [Next]_vars PROVE SignupInv'
  OBVIOUS
<1>1. ASSUME NEW h \in Handlers, Handle(h) PROVE SignupInv'
  BY <1>1, StartSteps, LookSteps, CreateSteps, LastSteps DEF Handle
<1>2. CASE UNCHANGED vars
  <2>1. UNCHANGED <<requests, settings, account, joined, role, invite, unlocked, key, mailed,
                    proven, carded, keeper, handler>>
    BY <1>2 DEF vars, membership
  <2>2. People' /\ Undisturbed
    BY <2>1, QuietEffect DEF SignupInv
  <2>3. InFlight'
    BY <2>1, <2>2, NobodyGoesOn DEF SignupInv
  <2> QED
    BY <2>1, <2>2, <2>3 DEF SignupInv, Credentials, EarlyKeysEnd, Rest
<1> QED
  BY <1>1, <1>2, OtherSteps, AddStep DEF Next

\* The invariant holds in every reachable state.
LEMMA SignupHeld == Spec => []SignupInv
  BY SignupInit, SignupStep, PTL DEF Spec
-----------------------------------------------------------------------------
(* The guarantees.                                                         *)

\* The tables of the signup and every request in flight keep their types, a
\* membership and its role go together, and only accounts that exist have one.
THEOREM SignupTypeCorrect == Spec => []TypeOK
<1>1. SignupInv => TypeOK
  BY DEF SignupInv, People, Credentials, Rest, InFlight, TypeOK
<1> QED
  BY <1>1, SignupHeld, PTL

\* Of the keys from before an unlock only those of the admin it left in the
\* organization still work, but for the keys the rotation does not see.
THEOREM EarlyKeysRotated == Spec => []EarlyKeysEnd
<1>1. SignupInv => EarlyKeysEnd
  BY DEF SignupInv, Credentials
<1> QED
  BY <1>1, SignupHeld, PTL

\* Free credit is unlocked only after the founding admin proved an inbox or a
\* card was saved for the organization, whatever the requests interleave with.
THEOREM UnlocksProven == Spec => UnlockIsProven
<1> DEFINE A == \A o \in unlocked' \ unlocked : o \in carded \/ FoundingAdmin(o) \in proven
<1>1. SignupInv /\ [Next]_vars => [A]_vars
  <2> SUFFICES ASSUME SignupInv, Next PROVE A
    OBVIOUS
  <2>0. InFlight
    BY DEF SignupInv
  <2>1. ASSUME NEW h \in Handlers, UnlockFounderSpend(h) PROVE A
    <3>1. PICK x \in Request : x = handler[h] /\ Ready(x)
      BY <2>0, Serving
    <3>2. x.phase = "unlock" /\ unlocked' = unlocked \cup Founded(x.user)
      BY <2>1, <3>1 DEF UnlockFounderSpend, Unlock
    <3>3. x.user \in proven
      BY <3>1, <3>2 DEF Ready, Proved
    <3>4. \A o \in Founded(x.user) : FoundingAdmin(o) = x.user
      BY DEF Founded
    <3> QED
      BY <3>2, <3>3, <3>4
  <2>2. ASSUME NEW h \in Handlers, UnlockOrgSpend(h) PROVE A
    <3>1. PICK x \in Request : x = handler[h] /\ Ready(x)
      BY <2>0, Serving
    <3>2. x.phase = "unlockOrg" /\ unlocked' = unlocked \cup ({x.org} \ unlocked)
      BY <2>2, <3>1 DEF UnlockOrgSpend, Unlock
    <3>3. x.org \in carded
      BY <3>1, <3>2 DEF Ready, Proved
    <3> QED
      BY <3>2, <3>3
  <2>3. ASSUME UNCHANGED unlocked PROVE A
    BY <2>3, SMTT(30)
  <2>4. ASSUME NEW h \in Handlers, Handle(h) PROVE A
    BY <2>1, <2>2, <2>3, <2>4
       DEF Handle, StartInstant, CreateUser, CheckMembership, MintInstantKey, StartOtp,
           SignInWithOtp, OpenInbox, ReturnFromProvider, ClassifyOAuthUser, CountMemberships,
           Recount, DeleteUser, UnlockSpendOnInboxProof, SaveCard, UnlockSpendOnCardSaved, Dies
  <2> QED
    BY <2>3, <2>4 DEF Next, InviteMember, AddMember, RemoveMember, MintKey, ChangeSettings, GrowOld
<1> QED
  BY <1>1, SignupHeld, PTL DEF Spec, UnlockIsProven

\* A clean-up deletes no account that is a member somewhere, unless somebody
\* added it after the request had looked.
THEOREM MembersKept == Spec => ProvisionedStay
<1> DEFINE A == \A u \in Users :
                   Memberships(u) # {} /\ account'[u] = "deleted" =>
                      \E h \in Handlers : handler[h].user = u /\ ~handler[h].fresh
<1>1. SignupInv /\ [Next]_vars => [A]_vars
  <2> SUFFICES ASSUME SignupInv, Next, NEW u \in Users, Memberships(u) # {},
                      account'[u] = "deleted"
               PROVE  \E h \in Handlers : handler[h].user = u /\ ~handler[h].fresh
    OBVIOUS
  <2>0. InFlight /\ People
    BY DEF SignupInv
  <2>1. account[u] \in {"fresh", "old"}
    BY <2>0 DEF People, Memberships
  <2>2. \A v \in Users : \A token : Creates(v, token) => account'[u] # "deleted"
    BY <2>0, <2>1 DEF Creates, People
  <2>3. ASSUME UNCHANGED account PROVE FALSE
    BY <2>1, <2>3
  <2>4. ASSUME NEW h \in Handlers, DeleteUser(h)
        PROVE  handler[h].user = u /\ ~handler[h].fresh
    <3>1. PICK x \in Request : x = handler[h] /\ Ready(x)
      BY <2>0, Serving
    <3>2. x.phase = "purge" /\ Deletes(x.user)
      BY <2>4, <3>1 DEF DeleteUser
    <3>3. x.user = u
      BY <2>0, <2>1, <3>2 DEF Deletes, People
    <3>4. ~x.fresh
      BY <3>1, <3>2, <3>3 DEF Ready, Alone, Memberships
    <3> QED
      BY <3>1, <3>3, <3>4
  <2>5. ASSUME NEW h \in Handlers, CreateUser(h) \/ SignInWithOtp(h) \/ ReturnFromProvider(h)
        PROVE  FALSE
    <3>1. PICK x \in Request : x = handler[h] /\ Ready(x)
      BY <2>0, Serving
    <3>2. CASE CreateUser(h)
      <4>1. x.phase = "create" /\ (Creates(x.user, Null) \/ UNCHANGED account)
        BY <3>1, <3>2 DEF CreateUser
      <4> QED
        BY <2>2, <2>3, <3>1, <4>1 DEF Ready, Named
    <3>3. CASE SignInWithOtp(h)
      <4>1. x.phase = "otp" /\ (Creates(x.user, x.org) \/ UNCHANGED account)
        BY <3>1, <3>3 DEF SignInWithOtp
      <4> QED
        BY <2>2, <2>3, <3>1, <4>1 DEF Ready, Named
    <3>4. CASE ReturnFromProvider(h)
      <4>1. \E v \in Users : Creates(v, Null) \/ UNCHANGED account
        BY <3>4, SignupConstants, SMTT(30) DEF ReturnFromProvider
      <4> QED
        BY <2>2, <2>3, <4>1
    <3> QED
      BY <2>5, <3>2, <3>3, <3>4
  <2>6. ASSUME NEW h \in Handlers, Handle(h) PROVE DeleteUser(h)
    BY <2>3, <2>5, <2>6
       DEF Handle, StartInstant, CheckMembership, MintInstantKey, StartOtp,
           OpenInbox, ClassifyOAuthUser, CountMemberships, Recount, UnlockSpendOnInboxProof,
           UnlockFounderSpend, SaveCard, UnlockSpendOnCardSaved, UnlockOrgSpend, Dies
  <2>7. GrowOld => FALSE
    BY <2>0, <2>1 DEF GrowOld, People
  <2>8. InviteMember \/ AddMember \/ RemoveMember \/ MintKey \/ ChangeSettings => FALSE
    BY <2>3 DEF InviteMember, AddMember, RemoveMember, MintKey, ChangeSettings
  <2> QED
    BY <2>4, <2>6, <2>7, <2>8 DEF Next
<1> QED
  BY <1>1, SignupHeld, PTL DEF Spec, ProvisionedStay
=============================================================================
