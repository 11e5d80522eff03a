-------------------------- MODULE SiteAdminsProofs --------------------------
(***************************************************************************)
(* Proofs about SiteAdmins for any users, requests in flight and bounds.   *)
(***************************************************************************)
EXTENDS SiteAdmins, TLAPS

(* The inductive invariant, in parts. A key of u is sound when it is live  *)
(* and no request overtook its grant.                                      *)
Sound(k, u) == key[k].state = "live" /\ key[k].user_id = u /\ ~key[k].late

\* A request at work names two users, and never revokes the operator's own
\* status; what it saw is not ahead of the history.
RequestsNamed ==
    \A h \in Handlers : handler[h].phase # "idle" =>
       /\ handler[h].by \in Users /\ handler[h].user \in Users
       /\ handler[h].seen <= changes[handler[h].user]
       /\ handler[h].phase \in {"keys", "row"} => handler[h].by # handler[h].user

\* A sound key was minted under the last change of its owner.
SoundKeysCurrent ==
    \A k \in Keys, u \in Users : Sound(k, u) => key[k].under = changes[u]

\* Nobody has a sound key who is not an operator, unless the account is gone;
\* and a grant that is about to mint one still stands.
SoundKeysGranted ==
    \A u \in accounts \ operators :
       /\ \A k \in Keys : ~Sound(k, u)
       /\ \A h \in Handlers : handler[h].phase = "mint" /\ handler[h].user = u =>
             handler[h].seen # changes[u]

\* A revocation that was not overtaken has left no sound key, and none is on
\* its way.
RevocationsClear ==
    \A h \in Handlers :
       LET u == handler[h].user
       IN handler[h].phase = "row" /\ handler[h].seen = changes[u] =>
             /\ \A k \in Keys : ~Sound(k, u)
             /\ \A g \in Handlers : handler[g].phase = "mint" /\ handler[g].user = u =>
                   handler[g].seen # changes[u]

\* A grant whose check still holds is for an account that is not banned.
ClearGrants ==
    \A h \in Handlers : handler[h].phase \in {"grant", "mint"} /\ handler[h].clear =>
       handler[h].user \notin banned

SiteInv ==
    /\ TypeOK /\ RequestsNamed
    /\ SoundKeysCurrent /\ SoundKeysGranted /\ RevocationsClear
    /\ ClearGrants /\ BannedHoldNoKey
-----------------------------------------------------------------------------
(* What the helpers do.                                                    *)

\* The order of a revocation: the keys, then the row.
LEMMA RevokeOrder ==
  RevokeSteps[1] = "keys" /\ After("keys") = "row" /\ After("row") = "idle"
<1>1. RevokeSteps[1] = "keys" /\ RevokeSteps[2] = "row" /\ RevokeSteps[3] = "idle"
  BY DEF RevokeSteps
<1>2. (CHOOSE i \in {1, 2} : RevokeSteps[i] = "keys") = 1
  BY <1>1
<1>3. (CHOOSE i \in {1, 2} : RevokeSteps[i] = "row") = 2
  BY <1>1
<1> QED
  BY <1>1, <1>2, <1>3 DEF After

\* A request that ends leaves the others as they are.
LEMMA EndsEffect ==
  ASSUME TypeOK, NEW h \in Handlers, Ends(h)
  PROVE  /\ handler' \in [Handlers -> Request] /\ handler'[h].phase = "idle"
         /\ \A g \in Handlers \ {h} : handler'[g] = handler[g]
<1>1. Idle \in Request /\ Idle.phase = "idle"
  BY DEF Idle, Request
<1> HIDE DEF Idle
<1> QED
  BY <1>1 DEF TypeOK, Ends

\* So does one that starts.
LEMMA BeginsEffect ==
  ASSUME TypeOK, NEW h \in Handlers, NEW by \in Users, NEW u \in Users,
         NEW phase \in {"grant", "keys", "leave"}, Begins(h, phase, by, u)
  PROVE  /\ requests' \in 0 .. MaxRequests
         /\ handler' \in [Handlers -> Request]
         /\ handler'[h] = [phase |-> phase, by |-> by, user |-> u, seen |-> changes[u],
                           clear |-> TRUE]
         /\ \A g \in Handlers \ {h} : handler'[g] = handler[g]
<1> DEFINE r == [phase |-> phase, by |-> by, user |-> u, seen |-> changes[u], clear |-> TRUE]
<1>1. r \in Request
  BY DEF Request, TypeOK
<1> HIDE DEF r
<1>2. handler' = [handler EXCEPT ![h] = r]
  BY DEF Begins, r
<1>3. handler'[h] = r /\ handler' \in [Handlers -> Request]
      /\ \A g \in Handlers \ {h} : handler'[g] = handler[g]
  BY <1>1, <1>2 DEF TypeOK
<1>4. requests' \in 0 .. MaxRequests
  BY SiteConstants DEF Begins, Counted, TypeOK
<1> QED
  BY <1>3, <1>4 DEF r

\* A revoking request goes from the keys to the row, and ends there.
LEMMA StepsEffect ==
  ASSUME TypeOK, NEW h \in Handlers, NEW seen \in Nat, StepsOn(h, seen),
         handler[h].phase \in {"keys", "row"}
  PROVE  /\ handler' \in [Handlers -> Request]
         /\ handler[h].phase = "row" => handler'[h].phase = "idle"
         /\ handler[h].phase = "keys" =>
               /\ handler'[h].phase = "row" /\ handler'[h].seen = seen
               /\ handler'[h].by = handler[h].by /\ handler'[h].user = handler[h].user
         /\ \A g \in Handlers \ {h} : handler'[g] = handler[g]
<1> DEFINE on == [handler[h] EXCEPT !.phase = "row", !.seen = seen]
<1>1. handler[h] \in Request /\ handler \in [Handlers -> Request]
  BY DEF TypeOK
<1>2. CASE handler[h].phase = "row"
  <2>1. Ends(h)
    BY <1>2, RevokeOrder DEF StepsOn, Ends
  <2> QED
    BY <1>2, <2>1, EndsEffect
<1>3. CASE handler[h].phase = "keys"
  <2>1. handler' = [handler EXCEPT ![h] = on]
    BY <1>3, RevokeOrder DEF StepsOn
  <2>2. on \in Request /\ on.phase = "row" /\ on.seen = seen
        /\ on.by = handler[h].by /\ on.user = handler[h].user
    BY <1>1 DEF Request
  <2> HIDE DEF on
  <2> QED
    BY <1>1, <1>3, <2>1, <2>2
<1> QED
  BY <1>2, <1>3

\* The rows of the keys after a write that mints none: owners and grants stay,
\* and a key that is sound was sound before.
KeysOnlyLost ==
    /\ key' \in [Keys -> SuperadminKeyRow]
    /\ \A k \in Keys :
          /\ key'[k].user_id = key[k].user_id /\ key'[k].under = key[k].under
          /\ key'[k].state = key[k].state \/ (key[k].state = "live" /\ key'[k].state = "revoked")
          /\ key[k].late => key'[k].late

\* Revoking the keys of a user leaves that user no live key.
LEMMA RevokedEffect ==
  ASSUME TypeOK, NEW u \in Users, key' = Revoked(key, u)
  PROVE  /\ KeysOnlyLost
         /\ \A k \in Keys : key[k].user_id = u => key'[k].state # "live"
<1>1. ASSUME NEW k \in Keys
      PROVE  /\ key'[k] \in SuperadminKeyRow
             /\ key'[k].user_id = key[k].user_id /\ key'[k].under = key[k].under
             /\ key'[k].state = key[k].state \/ (key[k].state = "live" /\ key'[k].state = "revoked")
             /\ key'[k].late = key[k].late
             /\ key[k].user_id = u => key'[k].state # "live"
  <2>1. key[k] \in SuperadminKeyRow
    BY DEF TypeOK
  <2>2. key'[k] = IF key[k].user_id = u /\ key[k].state = "live"
                  THEN [key[k] EXCEPT !.state = "revoked"] ELSE key[k]
    BY DEF Revoked
  <2>3. CASE key[k].user_id = u /\ key[k].state = "live"
    <3>1. key'[k] = [key[k] EXCEPT !.state = "revoked"]
      BY <2>2, <2>3
    <3> QED
      BY <2>1, <2>3, <3>1 DEF SuperadminKeyRow
  <2>4. CASE ~(key[k].user_id = u /\ key[k].state = "live")
    <3>1. key'[k] = key[k]
      BY <2>2, <2>4
    <3> QED
      BY <2>1, <2>4, <3>1 DEF SuperadminKeyRow
  <2> QED
    BY <2>3, <2>4
<1>2. key' \in [Keys -> SuperadminKeyRow]
  <2>1. key' = [k \in Keys |-> key'[k]]
    BY DEF Revoked
  <2> QED
    BY <1>1, <2>1
<1> QED
  BY <1>1, <1>2 DEF KeysOnlyLost

\* Marking the keys of a user leaves that user no sound key.
LEMMA OvertakenEffect ==
  ASSUME TypeOK, NEW u \in Users, NEW stale \in BOOLEAN, key' = Overtaken(u, stale)
  PROVE  /\ KeysOnlyLost
         /\ \A k \in Keys : key'[k].state = key[k].state
         /\ stale => \A k \in Keys : key[k].user_id = u => key'[k].late
<1>1. ASSUME NEW k \in Keys
      PROVE  /\ key'[k] \in SuperadminKeyRow
             /\ key'[k].user_id = key[k].user_id /\ key'[k].under = key[k].under
             /\ key'[k].state = key[k].state
             /\ key[k].late => key'[k].late
             /\ key[k].user_id = u /\ stale => key'[k].late
  <2>1. key[k] \in SuperadminKeyRow
    BY DEF TypeOK
  <2>2. key'[k] = [key[k] EXCEPT !.late = @ \/ (key[k].user_id = u /\ stale)]
    BY DEF Overtaken
  <2> QED
    BY <2>1, <2>2 DEF SuperadminKeyRow
<1>2. key' \in [Keys -> SuperadminKeyRow]
  <2>1. key' = [k \in Keys |-> key'[k]]
    BY DEF Overtaken
  <2> QED
    BY <1>1, <2>1
<1> QED
  BY <1>1, <1>2 DEF KeysOnlyLost

\* What is left of the keys after such a write.
LEMMA LostKeys ==
  ASSUME TypeOK, KeysOnlyLost
  PROVE  /\ \A k \in Keys : (key'[k].state = "none") = (key'[k].user_id = Null)
         /\ \A k \in Keys, u \in Users : Sound(k, u)' => Sound(k, u)
         /\ \A k \in Keys : key'[k].state = "live" => key[k].state = "live"
<1>1. \A k \in Keys : key'[k].state = "none" <=> key[k].state = "none"
  BY DEF KeysOnlyLost
<1>2. \A k \in Keys : key'[k].user_id = key[k].user_id
  BY DEF KeysOnlyLost
<1>3. \A k \in Keys : (key'[k].state = "none") = (key'[k].user_id = Null)
  BY <1>1, <1>2 DEF TypeOK
<1>4. \A k \in Keys, u \in Users : Sound(k, u)' => Sound(k, u)
  BY DEF KeysOnlyLost, Sound
<1>5. \A k \in Keys : key'[k].state = "live" => key[k].state = "live"
  BY DEF KeysOnlyLost
<1> QED
  BY <1>3, <1>4, <1>5
-----------------------------------------------------------------------------
(* The steps.                                                              *)

\* The initial state.
LEMMA SiteInit == Init => SiteInv
<1> SUFFICES ASSUME Init PROVE SiteInv
  OBVIOUS
<1>1. \A k \in Keys : key[k] = NoKey
  BY DEF Init
<1>2. \A h \in Handlers : handler[h].phase = "idle"
  BY DEF Init, Idle
<1>3. TypeOK
  <2>1. NoKey \in SuperadminKeyRow /\ NoKey.state = "none" /\ NoKey.user_id = Null
    BY DEF NoKey, SuperadminKeyRow
  <2>2. Idle \in Request
    BY DEF Idle, Request
  <2>3. \A k \in Keys : (key[k].state = "none") = (key[k].user_id = Null)
    BY <1>1, <2>1
  <2>4. requests \in 0 .. MaxRequests
    BY SiteConstants DEF Init
  <2> HIDE DEF NoKey, Idle
  <2> QED
    BY <2>1, <2>2, <2>3, <2>4, SiteConstants DEF Init, TypeOK
<1>4. \A k \in Keys : key[k].state # "live"
  BY <1>1 DEF NoKey
<1> QED
  BY <1>2, <1>3, <1>4 DEF SiteInv, RequestsNamed, SoundKeysCurrent, SoundKeysGranted,
     RevocationsClear, ClearGrants, BannedHoldNoKey, Sound

\* What a request has seen is what it had seen before.
AsBefore(g) ==
    /\ handler'[g].phase = handler[g].phase
    /\ handler'[g].user = handler[g].user
    /\ handler'[g].seen = handler[g].seen

\* A step after which no request is in a new phase or has seen more, no key is
\* sound that was not, and no account lost its grant, keeps what is known of
\* the sound keys.
LEMMA NothingNew ==
  ASSUME SiteInv, TypeOK', KeysOnlyLost, UNCHANGED changes,
         \A g \in Handlers : handler'[g].phase \in {"row", "mint"} => AsBefore(g),
         accounts' \ operators' \subseteq accounts \ operators
  PROVE  SoundKeysCurrent' /\ SoundKeysGranted' /\ RevocationsClear'
<1>1. \A k \in Keys, u \in Users : Sound(k, u)' => Sound(k, u)
  BY LostKeys DEF SiteInv
<1>2. \A k \in Keys : key'[k].under = key[k].under
  BY DEF KeysOnlyLost
<1>3. SoundKeysCurrent'
  BY <1>1, <1>2 DEF SoundKeysCurrent, SiteInv
<1>4. SoundKeysGranted'
  <2>1. accounts \subseteq Users
    BY DEF SiteInv, TypeOK
  <2> QED
    BY <1>1, <2>1 DEF SoundKeysGranted, SiteInv, AsBefore
<1>5. RevocationsClear'
  <2>1. \A g \in Handlers : handler[g].phase = "row" => handler[g].user \in Users
    BY DEF SiteInv, RequestsNamed
  <2> QED
    BY <1>1, <2>1 DEF RevocationsClear, SiteInv, AsBefore
<1> QED
  BY <1>3, <1>4, <1>5

\* Requests that start or end, and an account that goes.
LEMMA StartsAndEnds ==
  ASSUME SiteInv, NEW h \in Handlers,
         StartGrant(h) \/ StartRevoke(h) \/ StartLeave(h) \/ StartRemoveUser(h)
            \/ DeleteUser(h) \/ Dies(h)
  PROVE  SiteInv'
<1>0. TypeOK /\ operators \subseteq Users /\ accounts \subseteq Users /\ RequestsNamed
  BY DEF SiteInv, TypeOK
<1>1. UNCHANGED <<key, changes>>
  BY DEF StartGrant, StartRevoke, StartLeave, StartRemoveUser, DeleteUser, Dies
<1>2. KeysOnlyLost
  BY <1>0, <1>1 DEF KeysOnlyLost, TypeOK
<1>3. CASE DeleteUser(h) \/ Dies(h)
  <2>1. Ends(h) /\ UNCHANGED requests
    BY <1>3 DEF DeleteUser, Dies
  <2>2. /\ handler' \in [Handlers -> Request] /\ handler'[h].phase = "idle"
        /\ \A g \in Handlers \ {h} : handler'[g] = handler[g]
    BY <1>0, <2>1, EndsEffect
  <2>3. /\ accounts' \subseteq accounts /\ operators' \subseteq operators /\ banned' \subseteq banned
        /\ accounts' \ operators' \subseteq accounts \ operators
    BY <1>3 DEF DeleteUser, Dies
  <2>4. TypeOK'
    BY <1>0, <1>1, <2>1, <2>2, <2>3 DEF TypeOK
  <2>5. RequestsNamed' /\ ClearGrants' /\ BannedHoldNoKey'
    BY <1>0, <1>1, <2>2, <2>3 DEF SiteInv, RequestsNamed, ClearGrants, BannedHoldNoKey
  <2>6. \A g \in Handlers : handler'[g].phase \in {"row", "mint"} => AsBefore(g)
    BY <2>2 DEF AsBefore
  <2> QED
    BY <1>1, <1>2, <2>3, <2>4, <2>5, <2>6, NothingNew DEF SiteInv
<1>4. CASE StartGrant(h) \/ StartRevoke(h) \/ StartLeave(h) \/ StartRemoveUser(h)
  <2>1. PICK by \in Users, u \in Users, phase \in {"grant", "keys", "leave"} :
           /\ Begins(h, phase, by, u)
           /\ phase = "grant" => u \notin banned
           /\ phase = "keys" => by # u
    BY <1>0, <1>4, RevokeOrder
       DEF StartGrant, StartRevoke, StartLeave, StartRemoveUser, MayBeGranted, MayRevoke
  <2>2. UNCHANGED <<accounts, operators, banned>>
    BY <1>4 DEF StartGrant, StartRevoke, StartLeave, StartRemoveUser
  <2>3. /\ requests' \in 0 .. MaxRequests
        /\ handler' \in [Handlers -> Request]
        /\ handler'[h].phase = phase /\ handler'[h].by = by /\ handler'[h].user = u
        /\ handler'[h].seen = changes[u]
        /\ \A g \in Handlers \ {h} : handler'[g] = handler[g]
    <3>1. /\ requests' \in 0 .. MaxRequests
          /\ handler' \in [Handlers -> Request]
          /\ handler'[h] = [phase |-> phase, by |-> by, user |-> u, seen |-> changes[u],
                            clear |-> TRUE]
          /\ \A g \in Handlers \ {h} : handler'[g] = handler[g]
      BY ZenonT(60), <1>0, <2>1, BeginsEffect
    <3> QED
      BY <3>1
  <2>4. TypeOK'
    BY <1>0, <1>1, <2>2, <2>3 DEF TypeOK
  <2>5. changes[u] \in Nat
    BY <1>0 DEF TypeOK
  <2>6. RequestsNamed'
    BY <1>0, <1>1, <2>1, <2>3, <2>5 DEF RequestsNamed
  <2>7. ClearGrants' /\ BannedHoldNoKey'
    BY <1>0, <1>1, <2>1, <2>2, <2>3 DEF SiteInv, ClearGrants, BannedHoldNoKey
  <2>8. \A g \in Handlers : handler'[g].phase \in {"row", "mint"} => AsBefore(g)
    BY <2>3 DEF AsBefore
  <2> QED
    BY <1>1, <1>2, <2>2, <2>4, <2>6, <2>7, <2>8, NothingNew DEF SiteInv
<1> QED
  BY <1>3, <1>4

\* A change of u's grant or keys that leaves u no sound key: whoever looked at
\* u before is behind, and only the request that made the change is not.
LEMMA BehindTheChange ==
  ASSUME SiteInv, TypeOK', KeysOnlyLost, NEW u \in Users, Changed(u), NEW h,
         \A k \in Keys : ~Sound(k, u)',
         accounts' \ operators' \subseteq (accounts \ operators) \cup {u},
         \A g \in Handlers : handler'[g].phase \in {"row", "mint"} /\ g # h => AsBefore(g),
         h \in Handlers /\ handler'[h].phase = "row" => handler'[h].user = u,
         h \in Handlers /\ handler'[h].phase = "mint" => handler'[h].user = u /\ u \in operators'
  PROVE  SoundKeysCurrent' /\ SoundKeysGranted' /\ RevocationsClear'
<1>1. /\ changes'[u] = changes[u] + 1 /\ changes[u] \in Nat
      /\ \A v \in Users \ {u} : changes'[v] = changes[v]
  BY DEF Changed, SiteInv, TypeOK
<1>2. \A k \in Keys, v \in Users : Sound(k, v)' => Sound(k, v)
  BY LostKeys DEF SiteInv
<1>3. \A k \in Keys : key'[k].under = key[k].under
  BY DEF KeysOnlyLost
<1>4. \A g \in Handlers : handler'[g].phase \in {"row", "mint"} /\ g # h /\ handler'[g].user = u =>
         handler'[g].seen # changes'[u]
  <2> SUFFICES ASSUME NEW g \in Handlers, handler'[g].phase \in {"row", "mint"}, g # h,
                      handler'[g].user = u
               PROVE  handler'[g].seen # changes'[u]
    OBVIOUS
  <2>1. AsBefore(g)
    OBVIOUS
  <2>2. handler[g].seen <= changes[u] /\ handler[g].seen \in Nat
    BY <2>1 DEF AsBefore, SiteInv, RequestsNamed, TypeOK, Request
  <2> QED
    BY <1>1, <2>1, <2>2 DEF AsBefore
<1>5. accounts \subseteq Users
  BY DEF SiteInv, TypeOK
<1>6. SoundKeysCurrent'
  BY <1>1, <1>2, <1>3 DEF SoundKeysCurrent, SiteInv
<1>7. SoundKeysGranted'
  <2> SUFFICES ASSUME NEW v \in accounts' \ operators'
               PROVE  /\ \A k \in Keys : ~Sound(k, v)'
                      /\ \A g \in Handlers : handler'[g].phase = "mint" /\ handler'[g].user = v =>
                            handler'[g].seen # changes'[v]
    BY DEF SoundKeysGranted
  <2>1. CASE v = u
    BY <1>4, <2>1
  <2>2. CASE v # u
    <3>1. v \in accounts \ operators /\ changes'[v] = changes[v]
      BY <1>1, <1>5, <2>2
    <3> QED
      BY <1>2, <1>5, <2>2, <3>1 DEF SoundKeysGranted, SiteInv, AsBefore
  <2> QED
    BY <2>1, <2>2
<1>8. RevocationsClear'
  <2> SUFFICES ASSUME NEW r \in Handlers, handler'[r].phase = "row",
                      handler'[r].seen = changes'[handler'[r].user]
               PROVE  /\ \A k \in Keys : ~Sound(k, handler[r].user)'
                      /\ \A g \in Handlers :
                            handler'[g].phase = "mint" /\ handler'[g].user = handler'[r].user =>
                               handler'[g].seen # changes'[handler'[r].user]
    BY DEF RevocationsClear
  <2>1. CASE handler'[r].user = u
    <3>1. r = h
      BY <1>4, <2>1
    <3> QED
      BY <1>4, <2>1, <3>1
  <2>2. CASE handler'[r].user # u
    <3>1. AsBefore(r)
      BY <2>2
    <3>2. handler[r].user \in Users /\ handler[r].phase = "row"
      BY <3>1 DEF AsBefore, SiteInv, RequestsNamed
    <3>3. changes'[handler[r].user] = changes[handler[r].user]
      BY <1>1, <2>2, <3>1, <3>2 DEF AsBefore
    <3> QED
      BY <1>2, <2>2, <3>1, <3>2, <3>3 DEF AsBefore, SiteInv, RevocationsClear
  <2> QED
    BY <2>1, <2>2
<1> QED
  BY <1>6, <1>7, <1>8

\* The history of a user moves on by one.
LEMMA ChangedEffect ==
  ASSUME TypeOK, NEW u \in Users, Changed(u)
  PROVE  /\ changes' \in [Users -> Nat] /\ changes'[u] = changes[u] + 1
         /\ \A v \in Users : changes[v] \in Nat /\ changes[v] <= changes'[v]
  BY DEF TypeOK, Changed

\* The row of a grant: new for the account, or behind its removal.
LEMMA GrantStep ==
  ASSUME SiteInv, NEW h \in Handlers, WriteGrant(h) PROVE SiteInv'
<1>0. /\ TypeOK /\ RequestsNamed /\ handler[h].phase = "grant"
      /\ handler[h].user \in Users /\ handler \in [Handlers -> Request]
  BY DEF SiteInv, RequestsNamed, WriteGrant, TypeOK
<1>u. PICK u \in Users : u = handler[h].user
  BY <1>0
<1>1. UNCHANGED <<requests, accounts, banned>>
  BY DEF WriteGrant
<1>2. CASE u \in operators
  <2>1. Ends(h) /\ UNCHANGED <<operators, changes, key>>
    BY <1>2, <1>u DEF WriteGrant
  <2>2. SiteInv'
    <3>1. /\ handler' \in [Handlers -> Request] /\ handler'[h].phase = "idle"
          /\ \A g \in Handlers \ {h} : handler'[g] = handler[g]
      BY <1>0, <2>1, EndsEffect
    <3>2. TypeOK' /\ KeysOnlyLost
      BY <1>0, <1>1, <2>1, <3>1 DEF TypeOK, KeysOnlyLost
    <3>3. RequestsNamed' /\ ClearGrants' /\ BannedHoldNoKey'
      BY <1>0, <1>1, <2>1, <3>1 DEF SiteInv, RequestsNamed, ClearGrants, BannedHoldNoKey
    <3>4. \A g \in Handlers : handler'[g].phase \in {"row", "mint"} => AsBefore(g)
      BY <3>1 DEF AsBefore
    <3> QED
      BY <1>1, <2>1, <3>2, <3>3, <3>4, NothingNew DEF SiteInv
  <2> QED
    BY <2>2
<1>3. CASE u \notin operators
  <2>1. /\ operators' = operators \cup {u} /\ Changed(u)
        /\ handler' = [handler EXCEPT ![h].phase = "mint", ![h].seen = changes[u] + 1]
        /\ key' = Overtaken(u, u \notin accounts)
    BY <1>3, <1>u DEF WriteGrant
  <2>2. /\ changes' \in [Users -> Nat] /\ changes'[u] = changes[u] + 1
        /\ \A v \in Users : changes[v] \in Nat /\ changes[v] <= changes'[v]
    BY <1>0, <2>1, ChangedEffect
  <2>3. /\ handler' \in [Handlers -> Request]
        /\ handler'[h].phase = "mint" /\ handler'[h].seen = changes[u] + 1
        /\ handler'[h].user = u /\ handler'[h].by = handler[h].by
        /\ handler'[h].clear = handler[h].clear
        /\ \A g \in Handlers \ {h} : handler'[g] = handler[g]
    BY ZenonT(60), <1>0, <1>u, <2>1, <2>2 DEF Request
  <2>4. (u \notin accounts) \in BOOLEAN
    OBVIOUS
  <2>5. /\ KeysOnlyLost
        /\ \A k \in Keys : key'[k].state = key[k].state
        /\ u \notin accounts => \A k \in Keys : key[k].user_id = u => key'[k].late
    BY <1>0, <2>1, <2>4, OvertakenEffect
  <2>6. TypeOK'
    <3>1. \A k \in Keys : (key'[k].state = "none") = (key'[k].user_id = Null)
      BY <1>0, <2>5, LostKeys
    <3> QED
      BY <1>0, <1>1, <2>1, <2>2, <2>3, <2>5, <3>1 DEF TypeOK, KeysOnlyLost
  <2>7. RequestsNamed'
    <3>1. \A g \in Handlers : handler[g].phase # "idle" => handler[g].seen \in Nat
      BY <1>0 DEF Request
    <3>2. handler[h].by \in Users
      BY <1>0 DEF RequestsNamed
    <3> QED
      BY <1>0, <1>u, <2>2, <2>3, <3>1, <3>2 DEF RequestsNamed
  <2>8. \A k \in Keys : ~Sound(k, u)'
    <3>1. CASE u \in accounts
      <4>1. \A k \in Keys : ~Sound(k, u)
        BY <1>3, <3>1 DEF SiteInv, SoundKeysGranted
      <4> QED
        BY <1>0, <2>5, <4>1, LostKeys
    <3>2. CASE u \notin accounts
      BY <2>5, <3>2 DEF Sound, KeysOnlyLost
    <3> QED
      BY <3>1, <3>2
  <2>9. SoundKeysCurrent' /\ SoundKeysGranted' /\ RevocationsClear'
    <3>1. accounts' \ operators' \subseteq (accounts \ operators) \cup {u}
      BY <1>1, <2>1
    <3>2. \A g \in Handlers : handler'[g].phase \in {"row", "mint"} /\ g # h => AsBefore(g)
      BY <2>3 DEF AsBefore
    <3>3. u \in operators'
      BY <2>1
    <3> QED
      BY <1>0, <2>1, <2>3, <2>5, <2>6, <2>8, <3>1, <3>2, <3>3, BehindTheChange
  <2>10. ClearGrants'
    BY <1>0, <1>1, <1>u, <2>3 DEF SiteInv, ClearGrants
  <2>11. BannedHoldNoKey'
    BY <1>1, <2>5 DEF SiteInv, BannedHoldNoKey, KeysOnlyLost
  <2> QED
    BY <2>6, <2>7, <2>9, <2>10, <2>11 DEF SiteInv
<1> QED
  BY <1>2, <1>3

\* A key is minted sound only under the grant that stands, for an account that
\* was not banned since the check.
LEMMA MintStep ==
  ASSUME SiteInv, NEW h \in Handlers, MintSuperadminKey(h) PROVE SiteInv'
<1>0. /\ TypeOK /\ RequestsNamed /\ handler[h].phase = "mint"
      /\ handler[h].user \in Users /\ handler[h] \in Request
  BY DEF SiteInv, RequestsNamed, MintSuperadminKey, TypeOK
<1>u. PICK u \in Users : u = handler[h].user
  BY <1>0
<1>1. PICK new \in Keys : key[new].state = "none" /\ key' = [key EXCEPT ![new] = Minted(handler[h])]
  BY DEF MintSuperadminKey
<1>2. Ends(h) /\ UNCHANGED <<requests, accounts, operators, banned, changes>>
  BY DEF MintSuperadminKey
<1>3. /\ handler' \in [Handlers -> Request] /\ handler'[h].phase = "idle"
      /\ \A g \in Handlers \ {h} : handler'[g] = handler[g]
  BY <1>0, <1>2, EndsEffect
<1>4. /\ Minted(handler[h]) \in SuperadminKeyRow
      /\ Minted(handler[h]).state = "live" /\ Minted(handler[h]).user_id = u
      /\ Minted(handler[h]).under = handler[h].seen
      /\ ~Minted(handler[h]).late => handler[h].clear /\ handler[h].seen = changes[u]
  BY <1>0, <1>u DEF Minted, Request, SuperadminKeyRow
<1>5. /\ key' \in [Keys -> SuperadminKeyRow]
      /\ key'[new] = Minted(handler[h]) /\ \A k \in Keys \ {new} : key'[k] = key[k]
  BY <1>0, <1>1, <1>4 DEF TypeOK
<1>6. TypeOK'
  <2>1. key'[new].state # "none" /\ key'[new].user_id # Null
    BY <1>4, <1>5, SiteConstants
  <2>2. ASSUME NEW k \in Keys PROVE (key'[k].state = "none") = (key'[k].user_id = Null)
    BY <1>0, <1>5, <2>1 DEF TypeOK
  <2> QED
    BY <1>0, <1>2, <1>3, <1>5, <2>2 DEF TypeOK
<1>7. RequestsNamed' /\ ClearGrants'
  BY <1>0, <1>2, <1>3 DEF SiteInv, RequestsNamed, ClearGrants
<1>8. \A k \in Keys, v \in Users : Sound(k, v)' =>
         \/ Sound(k, v) /\ k # new
         \/ k = new /\ v = u /\ handler[h].clear /\ handler[h].seen = changes[u]
  BY <1>4, <1>5 DEF Sound
<1>9. SoundKeysCurrent'
  <2> SUFFICES ASSUME NEW k \in Keys, NEW v \in Users, Sound(k, v)'
               PROVE  key'[k].under = changes'[v]
    BY DEF SoundKeysCurrent
  <2> QED
    BY <1>2, <1>4, <1>5, <1>8 DEF SiteInv, SoundKeysCurrent
<1>10. SoundKeysGranted'
  <2>1. accounts \subseteq Users
    BY <1>0 DEF TypeOK
  <2> QED
    BY <1>0, <1>u, <1>2, <1>3, <1>8, <2>1 DEF SiteInv, SoundKeysGranted
<1>11. RevocationsClear'
  <2> SUFFICES ASSUME NEW r \in Handlers, handler'[r].phase = "row",
                      handler'[r].seen = changes'[handler'[r].user]
               PROVE  /\ \A k \in Keys : ~Sound(k, handler[r].user)'
                      /\ \A g \in Handlers :
                            handler'[g].phase = "mint" /\ handler'[g].user = handler'[r].user =>
                               handler'[g].seen # changes'[handler'[r].user]
    BY DEF RevocationsClear
  <2>1. handler'[r] = handler[r] /\ r # h
    BY <1>3
  <2>2. handler[r].user \in Users
    BY <1>0, <2>1 DEF RequestsNamed
  <2>3. /\ \A k \in Keys : ~Sound(k, handler[r].user)
        /\ \A g \in Handlers : handler[g].phase = "mint" /\ handler[g].user = handler[r].user =>
              handler[g].seen # changes[handler[r].user]
    BY <1>2, <2>1 DEF SiteInv, RevocationsClear
  <2>4. ASSUME NEW k \in Keys PROVE ~Sound(k, handler[r].user)'
    <3>1. Sound(k, handler[r].user)' <=> \E v \in Users : v = handler[r].user /\ Sound(k, v)'
      BY <2>1, <2>2 DEF Sound
    <3> QED
      BY <1>0, <1>u, <1>8, <2>3, <3>1
  <2> QED
    BY <1>2, <1>3, <2>1, <2>3, <2>4
<1>12. BannedHoldNoKey'
  <2>1. handler[h].clear => u \notin banned
    BY <1>0, <1>u DEF SiteInv, ClearGrants
  <2> QED
    BY <1>2, <1>4, <1>5, <2>1 DEF SiteInv, BannedHoldNoKey
<1> QED
  BY <1>6, <1>7, <1>9, <1>10, <1>11, <1>12 DEF SiteInv

\* The two writes of a revocation. The first leaves no live key, the second
\* marks what the first did not see.
LEMMA RevokeStep ==
  ASSUME SiteInv, NEW h \in Handlers, RevokeSuperadminKeysForUser(h) \/ DeleteOperator(h)
  PROVE  SiteInv'
<1>0. /\ TypeOK /\ RequestsNamed /\ handler[h].phase \in {"keys", "row"}
      /\ handler[h].user \in Users /\ handler[h] \in Request
  BY DEF SiteInv, RequestsNamed, RevokeSuperadminKeysForUser, DeleteOperator, TypeOK
<1>u. PICK u \in Users : u = handler[h].user
  BY <1>0
<1>1. /\ Changed(u) /\ StepsOn(h, changes[u] + 1)
      /\ UNCHANGED <<requests, accounts, banned>>
      /\ operators' = operators \/ operators' = operators \ {u}
  BY <1>u DEF RevokeSuperadminKeysForUser, DeleteOperator
<1>2. /\ changes' \in [Users -> Nat] /\ changes'[u] = changes[u] + 1
      /\ \A v \in Users : changes[v] \in Nat /\ changes[v] <= changes'[v]
  BY <1>0, <1>1, ChangedEffect
<1>3. /\ handler' \in [Handlers -> Request]
      /\ handler'[h].phase \in {"row", "idle"}
      /\ handler'[h].phase = "row" =>
            /\ handler'[h].seen = changes'[u] /\ handler'[h].user = u
            /\ handler'[h].by = handler[h].by
      /\ \A g \in Handlers \ {h} : handler'[g] = handler[g]
  <2>1. changes[u] + 1 \in Nat
    BY <1>2
  <2> QED
    BY <1>0, <1>u, <1>1, <1>2, <2>1, StepsEffect
<1>4. KeysOnlyLost /\ \A k \in Keys : ~Sound(k, u)'
  <2>1. CASE RevokeSuperadminKeysForUser(h)
    <3>1. key' = Revoked(key, u)
      BY <1>u, <2>1 DEF RevokeSuperadminKeysForUser
    <3>2. KeysOnlyLost /\ \A k \in Keys : key[k].user_id = u => key'[k].state # "live"
      BY <1>0, <3>1, RevokedEffect
    <3> QED
      BY <3>2 DEF Sound, KeysOnlyLost
  <2>2. CASE DeleteOperator(h)
    <3>1. key' = Overtaken(u, handler[h].seen # changes[u]) /\ handler[h].phase = "row"
      BY <1>u, <2>2 DEF DeleteOperator
    <3>2. PICK stale \in BOOLEAN : stale <=> handler[h].seen # changes[u]
      OBVIOUS
    <3>3. key' = Overtaken(u, stale)
      BY <3>1, <3>2 DEF Overtaken
    <3>4. KeysOnlyLost /\ (stale => \A k \in Keys : key[k].user_id = u => key'[k].late)
      BY <1>0, <3>3, OvertakenEffect
    <3>5. CASE stale
      BY <3>4, <3>5 DEF Sound, KeysOnlyLost
    <3>6. CASE ~stale
      <4>1. \A k \in Keys : ~Sound(k, u)
        BY <1>u, <3>1, <3>2, <3>6 DEF SiteInv, RevocationsClear
      <4> QED
        BY <1>0, <3>4, <4>1, LostKeys
    <3> QED
      BY <3>5, <3>6
  <2> QED
    BY <2>1, <2>2
<1>5. TypeOK'
  <2>1. \A k \in Keys : (key'[k].state = "none") = (key'[k].user_id = Null)
    BY <1>0, <1>4, LostKeys
  <2> QED
    BY <1>0, <1>1, <1>2, <1>3, <1>4, <2>1 DEF TypeOK, KeysOnlyLost
<1>6. RequestsNamed'
  <2>1. \A g \in Handlers : handler[g].seen \in Nat
    BY <1>0 DEF TypeOK, Request
  <2>2. handler[h].by \in Users /\ handler[h].by # u
    BY <1>0, <1>u DEF RequestsNamed
  <2> QED
    BY <1>0, <1>2, <1>3, <2>1, <2>2 DEF RequestsNamed
<1>7. SoundKeysCurrent' /\ SoundKeysGranted' /\ RevocationsClear'
  <2>1. accounts' \ operators' \subseteq (accounts \ operators) \cup {u}
    BY <1>1
  <2>2. \A g \in Handlers : handler'[g].phase \in {"row", "mint"} /\ g # h => AsBefore(g)
    BY <1>3 DEF AsBefore
  <2> QED
    BY <1>1, <1>3, <1>4, <1>5, <2>1, <2>2, BehindTheChange
<1>8. ClearGrants'
  BY <1>0, <1>1, <1>3 DEF SiteInv, ClearGrants
<1>9. BannedHoldNoKey'
  BY <1>0, <1>1, <1>4, LostKeys DEF SiteInv, BannedHoldNoKey, KeysOnlyLost
<1> QED
  BY <1>5, <1>6, <1>7, <1>8, <1>9 DEF SiteInv

\* A ban takes the keys in the same transaction.
LEMMA BanStep == ASSUME SiteInv, BanUser PROVE SiteInv'
<1>0. TypeOK /\ RequestsNamed /\ accounts \subseteq Users
  BY DEF SiteInv, TypeOK
<1>1. PICK u \in Users : /\ banned' = banned \cup {u}
                         /\ key' = Revoked(key, u) /\ Changed(u)
                         /\ handler' = [h \in Handlers |->
                               [handler[h] EXCEPT !.clear = @ /\ handler[h].user # u]]
  BY <1>0 DEF BanUser, BanTakesKeys
<1>2. UNCHANGED <<accounts, operators>> /\ requests' \in 0 .. MaxRequests
  BY <1>0, SiteConstants DEF BanUser, Counted, TypeOK
<1>3. /\ changes' \in [Users -> Nat]
      /\ \A v \in Users : changes[v] \in Nat /\ changes[v] <= changes'[v]
  BY <1>0, <1>1, ChangedEffect
<1>4. KeysOnlyLost /\ \A k \in Keys : key[k].user_id = u => key'[k].state # "live"
  BY <1>0, <1>1, RevokedEffect
<1>5. ASSUME NEW h \in Handlers
      PROVE  /\ handler'[h] \in Request /\ AsBefore(h) /\ handler'[h].by = handler[h].by
             /\ handler'[h].clear => handler[h].clear /\ handler[h].user # u
  <2>1. handler[h] \in Request
    BY <1>0 DEF TypeOK
  <2>2. handler'[h] = [handler[h] EXCEPT !.clear = @ /\ handler[h].user # u]
    BY <1>1
  <2> QED
    BY <2>1, <2>2 DEF Request, AsBefore
<1>6. TypeOK'
  <2>1. \A k \in Keys : (key'[k].state = "none") = (key'[k].user_id = Null)
    BY <1>0, <1>4, LostKeys
  <2>2. handler' \in [Handlers -> Request]
    BY <1>1, <1>5
  <2> QED
    BY <1>0, <1>1, <1>2, <1>3, <1>4, <2>1, <2>2 DEF TypeOK, KeysOnlyLost
<1>7. RequestsNamed'
  <2>1. \A g \in Handlers : handler[g].seen \in Nat
    BY <1>0 DEF TypeOK, Request
  <2> QED
    BY <1>0, <1>3, <1>5, <2>1 DEF RequestsNamed, AsBefore
<1>8. SoundKeysCurrent' /\ SoundKeysGranted' /\ RevocationsClear'
  <2>1. accounts' \ operators' \subseteq (accounts \ operators) \cup {u}
    BY <1>2
  <2>2. \A k \in Keys : ~Sound(k, u)'
    BY <1>4 DEF Sound, KeysOnlyLost
  <2>3. PICK h : h \notin Handlers
    BY NoSetContainsEverything
  <2> QED
    BY <1>1, <1>4, <1>5, <1>6, <2>1, <2>2, <2>3, BehindTheChange
<1>9. ClearGrants'
  BY <1>1, <1>5 DEF SiteInv, ClearGrants, AsBefore
<1>10. BannedHoldNoKey'
  BY <1>0, <1>1, <1>4, LostKeys DEF SiteInv, BannedHoldNoKey, KeysOnlyLost
<1> QED
  BY <1>6, <1>7, <1>8, <1>9, <1>10 DEF SiteInv

\* Revoking one key, and lifting a ban.
LEMMA OtherSteps ==
  ASSUME SiteInv, RevokeSuperadminKey \/ UnbanUser \/ UNCHANGED vars PROVE SiteInv'
<1>0. TypeOK /\ RequestsNamed
  BY DEF SiteInv
<1>1. /\ UNCHANGED <<accounts, operators, changes, handler>> /\ banned' \subseteq banned
      /\ requests' \in 0 .. MaxRequests
  BY <1>0, SiteConstants DEF RevokeSuperadminKey, UnbanUser, vars, Counted, TypeOK
<1>2. KeysOnlyLost
  <2>1. CASE UNCHANGED key
    BY <1>0, <2>1 DEF KeysOnlyLost, TypeOK
  <2>2. CASE RevokeSuperadminKey
    <3>1. PICK k \in Keys : key[k].state = "live" /\ key' = [key EXCEPT ![k].state = "revoked"]
      BY <2>2 DEF RevokeSuperadminKey
    <3>2. key \in [Keys -> SuperadminKeyRow]
      BY <1>0 DEF TypeOK
    <3>3. /\ key' \in [Keys -> SuperadminKeyRow]
          /\ \A j \in Keys \ {k} : key'[j] = key[j]
          /\ key'[k].state = "revoked" /\ key'[k].user_id = key[k].user_id
          /\ key'[k].under = key[k].under /\ key'[k].late = key[k].late
      BY <3>1, <3>2 DEF SuperadminKeyRow
    <3> QED
      BY <3>1, <3>3 DEF KeysOnlyLost
  <2> QED
    BY <2>1, <2>2 DEF UnbanUser, vars
<1>3. TypeOK'
  <2>1. \A k \in Keys : (key'[k].state = "none") = (key'[k].user_id = Null)
    BY <1>0, <1>2, LostKeys
  <2> QED
    BY <1>0, <1>1, <1>2, <2>1 DEF TypeOK, KeysOnlyLost
<1>4. RequestsNamed' /\ ClearGrants'
  BY <1>0, <1>1 DEF SiteInv, RequestsNamed, ClearGrants
<1>5. SoundKeysCurrent' /\ SoundKeysGranted' /\ RevocationsClear'
  <2>1. \A g \in Handlers : AsBefore(g)
    BY <1>1 DEF AsBefore
  <2> QED
    BY <1>1, <1>2, <1>3, <2>1, NothingNew
<1>6. BannedHoldNoKey'
  BY <1>0, <1>1, <1>2, LostKeys DEF SiteInv, BannedHoldNoKey, KeysOnlyLost
<1> QED
  BY <1>3, <1>4, <1>5, <1>6 DEF SiteInv

\* The invariant is inductive.
LEMMA SiteHeld == Spec => []SiteInv
<1>1. SiteInv /\ [Next]_vars => SiteInv'
  BY StartsAndEnds, GrantStep, MintStep, RevokeStep, BanStep, OtherSteps DEF Next, Handle
<1> QED
  BY <1>1, SiteInit, PTL DEF Spec
-----------------------------------------------------------------------------
(* The results.                                                            *)

\* The tables and requests keep their types.
THEOREM SiteTypeCorrect == Spec => []TypeOK
  BY SiteHeld, PTL DEF SiteInv

\* A superadmin key works only under the grant it was minted for: no order of
\* grants, revocations, bans and deaths of requests revives an old key.
THEOREM KeysNeverRevive == Spec => []NoRevival
<1>1. SiteInv => NoRevival
  <2> SUFFICES ASSUME SiteInv, NEW k \in Keys, Authenticates(k)
               PROVE  key[k].late \/ key[k].under = changes[key[k].user_id]
    BY DEF NoRevival
  <2>1. key[k].user_id \in Users /\ key[k].state = "live"
    BY DEF Authenticates, SiteInv, TypeOK
  <2> QED
    BY <2>1 DEF SiteInv, SoundKeysCurrent, Sound
<1> QED
  BY <1>1, SiteHeld, PTL

\* A banned account is left no live key but one whose grant had looked first.
THEOREM BansTakeKeys == Spec => []BannedHoldNoKey
  BY SiteHeld, PTL DEF SiteInv

\* The last operator goes only through a request whose own check has lapsed.
THEOREM LastOperatorStays == Spec => OperatorRemains
<1> DEFINE Kept == operators # {} /\ operators' = {} =>
                      \E h \in Handlers : handler'[h] # handler[h] /\ Lapsed(h)
<1>1. SiteInv /\ [Next]_vars => [Kept]_vars
  <2> SUFFICES ASSUME SiteInv, Next, operators # {}, operators' = {}
               PROVE  \E h \in Handlers : handler'[h] # handler[h] /\ Lapsed(h)
    OBVIOUS
  <2>1. PICK h \in Handlers : DeleteOperator(h) \/ DeleteUser(h)
    BY DEF Next, Handle, StartGrant, WriteGrant, MintSuperadminKey, StartRevoke,
           RevokeSuperadminKeysForUser, StartLeave, StartRemoveUser, Dies,
           RevokeSuperadminKey, BanUser, UnbanUser
  <2>2. operators = {handler[h].user}
    BY <2>1 DEF DeleteOperator, DeleteUser
  <2>3. CASE DeleteUser(h)
    <3>1. handler[h].phase = "leave" /\ handler'[h].phase = "idle"
      BY <2>3, EndsEffect DEF SiteInv, DeleteUser
    <3> QED
      BY <2>2, <3>1 DEF Lapsed
  <2>4. CASE DeleteOperator(h)
    <3>1. handler[h].phase = "row" /\ StepsOn(h, changes[handler[h].user] + 1)
      BY <2>4 DEF DeleteOperator
    <3>2. handler[h].by # handler[h].user /\ handler[h].user \in Users
      BY <3>1 DEF SiteInv, RequestsNamed
    <3>3. changes[handler[h].user] + 1 \in Nat
      BY <3>2 DEF SiteInv, TypeOK
    <3>4. handler'[h].phase = "idle"
      BY <3>1, <3>3, StepsEffect DEF SiteInv
    <3> QED
      BY <2>2, <3>1, <3>2, <3>4 DEF Lapsed
  <2> QED
    BY <2>1, <2>3, <2>4
<1> QED
  BY <1>1, SiteHeld, PTL DEF Spec, OperatorRemains
=============================================================================
