-------------------------- MODULE ProviderKeysProofs --------------------------
(***************************************************************************)
(* A provider connection's verdict belongs to the key it stores, and the   *)
(* key hub never goes back to an older read, for any keys, any number of   *)
(* overlapping requests and any length of run.                             *)
(***************************************************************************)
EXTENDS ProviderKeys, TLAPS

-----------------------------------------------------------------------------
(* The inductive invariant.                                                *)

\* What a request knows of row r, n rows ever inserted and the keys in gone
\* rotated out: the record it read is of a row inserted before, and while that
\* row exists its key is the one read, or the one read was rotated out.
ReadsOwnRow(x, r, n, gone) ==
    /\ x.found.id <= n
    /\ x.phase \in {"map", "release", "record", "fact"} => x.found # NoRow
    /\ x.phase \in {"upsert", "write"} => x.secret \in Secrets
    /\ x.phase \in {"record", "fact"} => x.probed \in Secrets
    /\ x.found # NoRow /\ x.found.id = r.id =>
          r.secret = x.found.secret \/ x.found.secret \in gone

\* A check about to record asked the provider with the key it read, unless that
\* key was rotated out in between.
ProbesOwnKey(x, gone) ==
    x.phase = "record" => x.probed = x.found.secret \/ x.found.secret \in gone

\* The entry is loading while it has a load, has one at a time, and shows nothing
\* newer than that one brings.
OneLoad(c) ==
    /\ c \in Entry /\ c.loading = (c.loads # {})
    /\ \A x, y \in c.loads : x = y
    /\ c.data = "now" => "before" \notin c.loads

KeysInv ==
    /\ TypeOK /\ VerdictOfStoredKey /\ OneLoad(cache)
    /\ \A h \in Handlers : /\ ReadsOwnRow(handler[h], row, rows, replaced)
                           /\ ProbesOwnKey(handler[h], replaced)

-----------------------------------------------------------------------------
(* The cache.                                                              *)

\* A refresh starts a load only when none is in flight, and shows what it showed.
LEMMA RefreshKeepsOneLoad ==
  ASSUME NEW c, OneLoad(c)
  PROVE  OneLoad(RefreshEntry(c)) /\ RefreshEntry(c).data = c.data
BY DEF OneLoad, RefreshEntry, Entry

\* A load that ended leaves none behind.
LEMMA SettledKeepsOneLoad ==
  ASSUME NEW c, OneLoad(c), NEW got \in c.loads
  PROVE  /\ Settled(c, got) \in Entry /\ Settled(c, got).data = c.data
         /\ Settled(c, got).loads = {} /\ ~ Settled(c, got).loading
<1>1. c.loads = {got}
  BY DEF OneLoad
<1> QED
  BY <1>1 DEF OneLoad, Settled, Entry

\* A change of the row outdates what is shown together with what is on its way.
LEMMA OutdatedKeepsOneLoad ==
  ASSUME NEW c, OneLoad(c) PROVE OneLoad(Outdated(c))
<1>1. /\ Outdated(c).loads = {Past(seen) : seen \in c.loads}
      /\ Outdated(c).data = Past(c.data) /\ Outdated(c).loading = c.loading
      /\ Outdated(c).error = c.error
      /\ Outdated(c) = [c EXCEPT !.data = Past(c.data),
                                 !.loads = {Past(seen) : seen \in c.loads}]
  BY DEF OneLoad, Outdated, Entry
<1>2. /\ Past(c.data) \in {"none", "before"}
      /\ {Past(seen) : seen \in c.loads} \subseteq {"sent", "before"}
  BY DEF OneLoad, Past, Entry
<1>3. Outdated(c) \in Entry
  BY <1>1, <1>2 DEF OneLoad, Entry
<1>4. \A x, y \in {Past(seen) : seen \in c.loads} : x = y
  BY DEF OneLoad
<1>5. (c.loads # {}) = ({Past(seen) : seen \in c.loads} # {})
  OBVIOUS
<1> QED
  BY <1>1, <1>2, <1>3, <1>4, <1>5 DEF OneLoad

\* A step of the page or of a load keeps the entry's discipline and, with it,
\* what the entry shows.
LEMMA PageStep ==
  ASSUME KeysInv, Subscribe \/ Loads
  PROVE  OneLoad(cache') /\ (cache.data = "now" => cache'.data = "now")
<1>0. OneLoad(cache)
  BY DEF KeysInv
<1>1. CASE Subscribe
  BY <1>0, <1>1, RefreshKeepsOneLoad DEF Subscribe
<1>2. CASE ListProviderConnections
  <2>1. cache.loads = {"sent"}
    BY <1>0, <1>2 DEF ListProviderConnections, OneLoad
  <2>2. /\ cache' = [cache EXCEPT !.loads = {"now"}]
    BY <1>0, <1>2, <2>1 DEF ListProviderConnections, OneLoad, Entry
  <2> QED
    BY <1>0, <2>1, <2>2 DEF OneLoad, Entry
<1>3. ASSUME NEW got \in cache.loads, LoadArrives(got) \/ LoadFails(got)
      PROVE  OneLoad(cache') /\ (cache.data = "now" => cache'.data = "now")
  <2>1. /\ Settled(cache, got) \in Entry /\ Settled(cache, got).data = cache.data
        /\ Settled(cache, got).loads = {} /\ ~ Settled(cache, got).loading
    BY <1>0, <1>3, SettledKeepsOneLoad
  <2>2. CASE LoadArrives(got)
    <3>1. /\ cache' = [Settled(cache, got) EXCEPT !.data = got, !.error = FALSE]
          /\ got \in {"before", "now"}
      BY <1>0, <1>3, <2>2 DEF LoadArrives, OneLoad, Entry
    <3> QED
      BY <1>0, <1>3, <2>1, <3>1 DEF OneLoad, Entry
  <2>3. CASE LoadFails(got)
    <3>1. cache' = [Settled(cache, got) EXCEPT !.error = TRUE]
      BY <2>3 DEF LoadFails
    <3> QED
      BY <2>1, <3>1 DEF OneLoad, Entry
  <2> QED
    BY <1>3, <2>2, <2>3
<1> QED
  BY <1>1, <1>2, <1>3 DEF Loads

-----------------------------------------------------------------------------
(* The requests.                                                           *)

\* A row that exists has an id of its own.
LEMMA RowIds ==
  /\ \A r \in ConnectionRow \cup {NoRow} :
        /\ r.id \in Nat /\ (r # NoRow <=> r.id # 0)
        /\ r # NoRow => r \in ConnectionRow /\ r.secret \in Secrets
<1>1. \A r \in ConnectionRow : r.id \in Nat /\ r.id # 0 /\ r.secret \in Secrets
  BY DEF ConnectionRow
<1>2. NoRow.id = 0
  BY DEF NoRow
<1> QED
  BY <1>1, <1>2

\* A request that goes on without a change of the row keeps the invariant if it
\* keeps what it knows.
LEMMA GoesStep ==
  ASSUME KeysInv, NEW h \in Handlers, NEW x \in Handler, Goes(h, x),
         ReadsOwnRow(x, row, rows, replaced), ProbesOwnKey(x, replaced)
  PROVE  KeysInv'
<1>1. /\ handler' = [handler EXCEPT ![h] = x]
      /\ UNCHANGED <<row, rows, replaced, requests, cache, mounted, others>>
  BY DEF Goes, server
<1>2. TypeOK' /\ VerdictOfStoredKey' /\ OneLoad(cache')
  BY <1>1 DEF KeysInv, TypeOK, VerdictOfStoredKey
<1>3. ASSUME NEW g \in Handlers
      PROVE  /\ ReadsOwnRow(handler'[g], row', rows', replaced')
             /\ ProbesOwnKey(handler'[g], replaced')
  <2>1. handler'[g] = IF g = h THEN x ELSE handler[g]
    BY <1>1 DEF KeysInv, TypeOK
  <2> QED
    BY <1>1, <2>1 DEF KeysInv
<1> QED
  BY <1>2, <1>3 DEF KeysInv

\* A rotation is remembered and a new row has a new id, so a commit keeps what
\* every other request knows.
LEMMA CommitsStep ==
  ASSUME KeysInv, NEW h \in Handlers, NEW x \in Handler,
         NEW r \in ConnectionRow \cup {NoRow}, Commits(h, x, r),
         rows' \in Nat, rows <= rows', r.id <= rows',
         r.id \in {0, row.id} \/ rows < r.id,
         r.of # Null /\ r.secret \notin replaced' => r.of = r.secret,
         ReadsOwnRow(x, r, rows', replaced'), ProbesOwnKey(x, replaced')
  PROVE  KeysInv'
<1>1. /\ row' = r /\ handler' = [handler EXCEPT ![h] = x]
      /\ cache' = Outdated(cache) /\ others' \in BOOLEAN
      /\ UNCHANGED <<requests, mounted>>
  BY DEF Commits
<1>2. /\ TypeOK /\ row \in ConnectionRow \cup {NoRow} /\ rows \in Nat
      /\ replaced \subseteq Secrets
      /\ \A g \in Handlers : /\ handler[g] \in Handler
                             /\ handler[g].found \in ConnectionRow \cup {NoRow}
  BY DEF KeysInv, TypeOK, Handler
<1>3. /\ replaced \subseteq replaced' /\ replaced' \subseteq Secrets
      /\ r # NoRow /\ r.id = row.id /\ r.secret # row.secret => row.secret \in replaced'
  <2>1. r # NoRow /\ r.id = row.id => row.secret \in Secrets
    BY <1>2, RowIds
  <2> QED
    BY <1>2, <2>1 DEF Commits
<1>4. OneLoad(cache')
  BY <1>1, OutdatedKeepsOneLoad DEF KeysInv
<1>5. TypeOK'
  <2>1. handler' \in [Handlers -> Handler]
    BY <1>1, <1>2 DEF TypeOK
  <2>2. {mounted', others'} \subseteq BOOLEAN /\ requests' \in 0 .. MaxRequests
    BY <1>1, <1>2 DEF TypeOK
  <2>3. cache' \in Entry /\ cache'.loading = (cache'.loads # {})
    BY <1>4 DEF OneLoad
  <2> QED
    BY <1>1, <1>3, <2>1, <2>2, <2>3 DEF TypeOK
<1>6. VerdictOfStoredKey'
  BY <1>1 DEF VerdictOfStoredKey
<1>7. ASSUME NEW g \in Handlers, g # h
      PROVE  /\ ReadsOwnRow(handler[g], r, rows', replaced')
             /\ ProbesOwnKey(handler[g], replaced')
  <2>1. ReadsOwnRow(handler[g], row, rows, replaced) /\ ProbesOwnKey(handler[g], replaced)
    BY DEF KeysInv
  <2>2. /\ handler[g].found.id \in Nat
        /\ handler[g].found # NoRow => handler[g].found.id # 0
    BY <1>2, RowIds
  <2>3. handler[g].found.id <= rows'
    BY <1>2, <2>1, <2>2 DEF ReadsOwnRow
  <2>4. ASSUME handler[g].found # NoRow, handler[g].found.id = r.id
        PROVE  r.secret = handler[g].found.secret \/ handler[g].found.secret \in replaced'
    <3>1. r.id # 0 /\ ~ (rows < r.id)
      BY <1>2, <2>1, <2>2, <2>4 DEF ReadsOwnRow
    <3>2. r.id = row.id /\ r # NoRow
      BY <3>1, RowIds
    <3> QED
      BY <1>3, <2>1, <2>4, <3>2 DEF ReadsOwnRow
  <2> QED
    BY <1>3, <2>1, <2>3, <2>4 DEF ReadsOwnRow, ProbesOwnKey
<1>8. ASSUME NEW g \in Handlers
      PROVE  /\ ReadsOwnRow(handler'[g], row', rows', replaced')
             /\ ProbesOwnKey(handler'[g], replaced')
  <2>1. handler'[g] = IF g = h THEN x ELSE handler[g]
    BY <1>1, <1>2 DEF TypeOK
  <2> QED
    BY <1>1, <1>7, <2>1
<1> QED
  BY <1>4, <1>5, <1>6, <1>8 DEF KeysInv

\* An answered or idle request knows nothing.
LEMMA NothingKnown ==
  ASSUME NEW x \in Handler, x.found = NoRow, x.phase \in {"idle", "answer", "delete", "declare", "find"},
         NEW r, NEW n \in Nat, NEW gone
  PROVE  ReadsOwnRow(x, r, n, gone) /\ ProbesOwnKey(x, gone)
BY DEF ReadsOwnRow, ProbesOwnKey, NoRow

\* The answers are requests.
LEMMA AnsweredType ==
  ASSUME NEW x \in Handler, NEW ok \in BOOLEAN
  PROVE  /\ Answered(x, ok) \in Handler /\ Idle \in Handler
         /\ Answered(x, ok).found = NoRow /\ Answered(x, ok).phase = "answer"
         /\ Idle.found = NoRow /\ Idle.phase = "idle"
         /\ Answered(x, ok).mine = x.mine
BY DEF Answered, Idle, Handler, Phases

\* A request that gives up keeps the invariant.
LEMMA GivesUpStep ==
  ASSUME KeysInv, NEW h \in Handlers, NEW ok \in BOOLEAN, Goes(h, Answered(handler[h], ok))
  PROVE  KeysInv'
<1>1. handler[h] \in Handler /\ rows \in Nat
  BY DEF KeysInv, TypeOK
<1> QED
  BY <1>1, AnsweredType, NothingKnown, GoesStep

\* A request started knows nothing but the key it carries.
LEMMA StartStep ==
  ASSUME KeysInv, NEW h \in Handlers, NEW secret \in Secrets \cup {Null}, NEW mine \in BOOLEAN,
         NEW op \in {"connect", "check", "deploy", "refresh", "declare", "disconnect"},
         NEW first \in {"upsert", "find", "declare", "delete"},
         first = "upsert" => secret \in Secrets, Start(h, op, first, secret, mine)
  PROVE  KeysInv'
<1> DEFINE x == [Idle EXCEPT !.phase = first, !.op = op, !.secret = secret, !.mine = mine]
<1>1. /\ x \in Handler /\ x.found = NoRow /\ x.phase = first /\ x.secret = secret
  BY ZenonT(60) DEF Idle, Handler, Phases
<1>2. /\ handler' = [handler EXCEPT ![h] = x]
      /\ requests < MaxRequests /\ requests' = requests + 1
      /\ UNCHANGED <<row, rows, replaced, cache, mounted, others>>
  BY DEF Start, server
<1> HIDE DEF x
<1>3. TypeOK' /\ VerdictOfStoredKey' /\ OneLoad(cache')
  BY <1>1, <1>2, ProviderConstants DEF KeysInv, TypeOK, VerdictOfStoredKey
<1>4. ReadsOwnRow(x, row, rows, replaced) /\ ProbesOwnKey(x, replaced)
  BY <1>1 DEF ReadsOwnRow, ProbesOwnKey, NoRow, KeysInv, TypeOK
<1>5. ASSUME NEW g \in Handlers
      PROVE  /\ ReadsOwnRow(handler'[g], row', rows', replaced')
             /\ ProbesOwnKey(handler'[g], replaced')
  <2>1. handler'[g] = IF g = h THEN x ELSE handler[g]
    BY <1>2 DEF KeysInv, TypeOK
  <2> QED
    BY <1>2, <1>4, <2>1 DEF KeysInv
<1> QED
  BY <1>3, <1>5 DEF KeysInv

\* The phases of a save: the key it stores is its own, and the reset of the
\* verdict makes the rotated row's verdict nobody's.
LEMMA UpsertStep ==
  ASSUME KeysInv, NEW h \in Handlers,
         \/ UpsertReads(h) \/ UpsertRotates(h) \/ UpsertMisses(h) \/ UpsertInserts(h)
  PROVE  KeysInv'
<1>0. /\ TypeOK /\ handler[h] \in Handler /\ rows \in Nat /\ row.id <= rows
      /\ row \in ConnectionRow \cup {NoRow} /\ handler[h].found \in ConnectionRow \cup {NoRow}
      /\ ReadsOwnRow(handler[h], row, rows, replaced)
      /\ ProbesOwnKey(handler[h], replaced)
  BY DEF KeysInv, TypeOK, Handler
<1> DEFINE y == [handler[h] EXCEPT !.phase = "spend"]
<1>1. /\ y \in Handler /\ y.found = handler[h].found /\ y.phase = "spend"
      /\ y.mine = handler[h].mine
  BY <1>0 DEF Handler, Phases
<1> HIDE DEF y
<1>2. CASE UpsertReads(h)
  <2> DEFINE x == [handler[h] EXCEPT !.phase = "write", !.found = row]
  <2>1. Goes(h, x) /\ handler[h].phase = "upsert"
    BY <1>2 DEF UpsertReads
  <2>2. /\ x \in Handler /\ x.found = row /\ x.phase = "write"
        /\ x.secret = handler[h].secret
    BY <1>0 DEF Handler, Phases
  <2> HIDE DEF x
  <2>3. ReadsOwnRow(x, row, rows, replaced) /\ ProbesOwnKey(x, replaced)
    BY <1>0, <2>1, <2>2 DEF ReadsOwnRow, ProbesOwnKey
  <2> QED
    BY <2>1, <2>2, <2>3, GoesStep
<1>3. CASE UpsertRotates(h)
  <2>1. PICK r : r = Rotated(row, handler[h].secret)
    OBVIOUS
  <2>2. /\ handler[h].phase = "write" /\ handler[h].found # NoRow
        /\ row.id = handler[h].found.id /\ Commits(h, y, r) /\ rows' = rows
    BY <1>3, <2>1 DEF UpsertRotates, y
  <2>3. row \in ConnectionRow /\ row # NoRow /\ handler[h].secret \in Secrets
    BY <1>0, <2>2, RowIds DEF ReadsOwnRow
  <2>4. /\ r \in ConnectionRow /\ r.id = row.id /\ r.of = Null
        /\ r.secret = handler[h].secret
    BY <2>1, <2>3 DEF Rotated, ConnectionRow
  <2>5. /\ replaced \subseteq replaced'
        /\ r.secret # row.secret => row.secret \in replaced'
    <3>1. r # NoRow
      BY <2>2, <2>3, <2>4, <1>0, RowIds
    <3> QED
      BY <2>2, <2>4, <3>1 DEF Commits
  <2>6. ReadsOwnRow(y, r, rows', replaced') /\ ProbesOwnKey(y, replaced')
    BY <1>0, <1>1, <2>2, <2>4, <2>5 DEF ReadsOwnRow, ProbesOwnKey
  <2>7. /\ rows' \in Nat /\ rows <= rows' /\ r.id <= rows' /\ r.id \in {0, row.id}
        /\ r \in ConnectionRow \cup {NoRow}
    BY <1>0, <2>2, <2>4
  <2> QED
    BY <1>1, <2>2, <2>4, <2>6, <2>7, CommitsStep
<1>4. CASE UpsertMisses(h)
  <2>1. Goes(h, y)
    BY <1>4 DEF UpsertMisses, y
  <2>2. ReadsOwnRow(y, row, rows, replaced) /\ ProbesOwnKey(y, replaced)
    BY <1>0, <1>1 DEF ReadsOwnRow, ProbesOwnKey
  <2> QED
    BY <1>1, <2>1, <2>2, GoesStep
<1>5. CASE UpsertInserts(h)
  <2>1. CASE row # NoRow
    BY <1>5, <2>1, GivesUpStep DEF UpsertInserts
  <2>2. CASE row = NoRow
    <3>1. PICK r : r = [NoRow EXCEPT !.id = rows + 1, !.secret = handler[h].secret,
                                     !.settings = handler[h].secret]
      OBVIOUS
    <3>2. /\ handler[h].phase = "write" /\ handler[h].found = NoRow
          /\ rows' = rows + 1 /\ Commits(h, y, r)
      BY <1>5, <2>2, <3>1 DEF UpsertInserts, y
    <3>3. handler[h].secret \in Secrets
      BY <1>0, <3>2 DEF ReadsOwnRow
    <3>4. r \in ConnectionRow /\ r.id = rows + 1 /\ r.of = Null
      <4>1. r = [id |-> rows + 1, secret |-> handler[h].secret,
                 settings |-> handler[h].secret, of |-> Null, words |-> {}]
        BY <3>1 DEF NoRow
      <4>2. rows + 1 \in Nat \ {0} /\ {} \in SUBSET Secrets
        BY <1>0
      <4> QED
        BY <3>3, <4>1, <4>2 DEF ConnectionRow
    <3>5. ReadsOwnRow(y, r, rows', replaced') /\ ProbesOwnKey(y, replaced')
      BY <1>0, <1>1, <3>2 DEF ReadsOwnRow, ProbesOwnKey, NoRow
    <3>6. /\ rows' \in Nat /\ rows <= rows' /\ r.id <= rows' /\ rows < r.id
          /\ r \in ConnectionRow \cup {NoRow}
      BY <1>0, <3>2, <3>4
    <3> QED
      BY <1>1, <3>2, <3>4, <3>5, <3>6, CommitsStep
  <2> QED
    BY <2>1, <2>2
<1> QED
  BY <1>2, <1>3, <1>4, <1>5

\* A commit that leaves the row's id, key and verdict alone.
LEMMA TouchStep ==
  ASSUME KeysInv, NEW h \in Handlers, NEW x \in Handler, NEW r \in ConnectionRow,
         Commits(h, x, r), rows' = rows,
         r.id = row.id, r.secret = row.secret, r.of = row.of,
         ReadsOwnRow(x, r, rows, replaced), ProbesOwnKey(x, replaced)
  PROVE  KeysInv'
<1>1. /\ replaced' = replaced /\ rows \in Nat /\ row.id <= rows
      /\ r \in ConnectionRow \cup {NoRow}
      /\ (row.of # Null /\ row.secret \notin replaced => row.of = row.secret)
  BY DEF KeysInv, TypeOK, Commits, VerdictOfStoredKey
<1>2. /\ rows' \in Nat /\ rows <= rows' /\ r.id <= rows' /\ r.id \in {0, row.id}
  BY <1>1
<1> QED
  BY <1>1, <1>2, CommitsStep

\* The phases of a check, a deployment check and a spend read: the secret is
\* released from the row the request found, and a verdict is recorded only while
\* the row still ends in the key found.
LEMMA CheckStep ==
  ASSUME KeysInv, NEW h \in Handlers,
         \/ Find(h) \/ MapDeployment(h) \/ ReleaseCredential(h) \/ RecordStatus(h)
         \/ RecordModelFact(h)
  PROVE  KeysInv'
<1>0. /\ handler[h] \in Handler /\ rows \in Nat /\ row.id <= rows
      /\ row \in ConnectionRow \cup {NoRow} /\ handler[h].found \in ConnectionRow \cup {NoRow}
      /\ ReadsOwnRow(handler[h], row, rows, replaced)
      /\ ProbesOwnKey(handler[h], replaced)
      /\ row # NoRow => row \in ConnectionRow /\ row.secret \in Secrets
  BY RowIds DEF KeysInv, TypeOK, Handler
<1>1. CASE GivesUp(h)
  <2>1. (handler[h].op = "connect") \in BOOLEAN
    OBVIOUS
  <2> QED
    BY <1>1, <2>1, GivesUpStep DEF GivesUp
<1>a. /\ Answered(handler[h], TRUE) \in Handler
      /\ \A r : /\ ReadsOwnRow(Answered(handler[h], TRUE), r, rows, replaced)
                /\ ProbesOwnKey(Answered(handler[h], TRUE), replaced)
  BY <1>0, AnsweredType, NothingKnown
<1>2. ASSUME Find(h), ~ GivesUp(h) PROVE KeysInv'
  <2>1. CASE Goes(h, Answered(handler[h], TRUE))
    BY <2>1, GivesUpStep
  <2>2. ASSUME row # NoRow, NEW mapped \in BOOLEAN,
               Goes(h, [handler[h] EXCEPT !.phase = AfterFind(handler[h].op, mapped),
                                          !.found = row])
        PROVE  KeysInv'
    <3>1. PICK p \in {"map", "release"} : p = AfterFind(handler[h].op, mapped)
      BY DEF AfterFind
    <3> DEFINE x == [handler[h] EXCEPT !.phase = p, !.found = row]
    <3>2. Goes(h, x)
      BY <2>2, <3>1
    <3>3. x \in Handler /\ x.found = row /\ x.phase = p
      BY <1>0, <3>1 DEF Handler, Phases
    <3> HIDE DEF x
    <3>4. ReadsOwnRow(x, row, rows, replaced) /\ ProbesOwnKey(x, replaced)
      BY <1>0, <2>2, <3>1, <3>3 DEF ReadsOwnRow, ProbesOwnKey
    <3> QED
      BY <3>2, <3>3, <3>4, GoesStep
  <2> QED
    BY <1>2, <2>1, <2>2 DEF Find
<1>3. ASSUME MapDeployment(h), ~ GivesUp(h) PROVE KeysInv'
  <2>1. PICK r : r = [row EXCEPT !.settings = handler[h].found.settings]
    OBVIOUS
  <2> DEFINE x == [handler[h] EXCEPT !.phase = "release", !.found = r]
  <2>2. /\ handler[h].phase = "map" /\ row.id = handler[h].found.id
        /\ Commits(h, x, r) /\ rows' = rows
    BY <1>3, <2>1 DEF MapDeployment
  <2>3. handler[h].found \in ConnectionRow /\ row \in ConnectionRow
    BY <1>0, <2>2, RowIds DEF ReadsOwnRow
  <2>4. /\ r \in ConnectionRow /\ r.id = row.id /\ r.secret = row.secret /\ r.of = row.of
        /\ r # NoRow
    <3>1. r \in ConnectionRow /\ r.id = row.id /\ r.secret = row.secret /\ r.of = row.of
      BY <2>1, <2>3 DEF ConnectionRow
    <3>2. r.id # 0
      BY <3>1 DEF ConnectionRow
    <3> QED
      BY <3>1, <3>2 DEF NoRow
  <2>5. x \in Handler /\ x.found = r /\ x.phase = "release"
    BY <1>0, <2>4 DEF Handler, Phases
  <2> HIDE DEF x
  <2>6. ReadsOwnRow(x, r, rows, replaced) /\ ProbesOwnKey(x, replaced)
    BY <1>0, <2>4, <2>5 DEF ReadsOwnRow, ProbesOwnKey
  <2> QED
    BY <2>2, <2>4, <2>5, <2>6, TouchStep
<1>4. ASSUME ReleaseCredential(h), ~ GivesUp(h) PROVE KeysInv'
  <2>1. PICK p \in {"record", "fact", "snapshot"} : p = AfterRelease(handler[h].op)
    BY DEF AfterRelease
  <2> DEFINE x == [handler[h] EXCEPT !.phase = p, !.probed = row.secret]
  <2>2. /\ handler[h].phase = "release" /\ row.id = handler[h].found.id /\ Goes(h, x)
    BY <1>4, <2>1 DEF ReleaseCredential
  <2>3. row # NoRow /\ row.secret \in Secrets /\ handler[h].found # NoRow
    BY <1>0, <2>2, RowIds DEF ReadsOwnRow
  <2>4. /\ x \in Handler /\ x.phase = p /\ x.probed = row.secret
        /\ x.found = handler[h].found
    BY <1>0, <2>1, <2>3 DEF Handler, Phases
  <2> HIDE DEF x
  <2>5. ReadsOwnRow(x, row, rows, replaced) /\ ProbesOwnKey(x, replaced)
    BY <1>0, <2>1, <2>2, <2>3, <2>4 DEF ReadsOwnRow, ProbesOwnKey
  <2> QED
    BY <2>2, <2>4, <2>5, GoesStep
<1>5. ASSUME RecordStatus(h), ~ GivesUp(h) PROVE KeysInv'
  <2>1. PICK r : r = [row EXCEPT !.of = handler[h].probed, !.words = {handler[h].probed}]
    OBVIOUS
  <2>2. /\ handler[h].phase = "record" /\ row # NoRow /\ Fenced(row, handler[h].found)
        /\ Commits(h, Answered(handler[h], TRUE), r) /\ rows' = rows
    BY <1>5, <2>1 DEF RecordStatus
  <2>3. /\ handler[h].probed \in Secrets /\ handler[h].found # NoRow
        /\ handler[h].found.secret \in Secrets
    BY <1>0, <2>2, RowIds DEF ReadsOwnRow
  <2>4. row.secret = handler[h].found.secret
    BY <1>0, <2>2, <2>3, ProviderConstants DEF Fenced
  <2>5. /\ r \in ConnectionRow /\ r.id = row.id /\ r.secret = row.secret
        /\ r.of = handler[h].probed
    <3>1. {handler[h].probed} \in SUBSET Secrets
      BY <2>3
    <3> QED
      BY <1>0, <2>1, <2>2, <2>3, <3>1 DEF ConnectionRow
  <2>6. replaced' = replaced
    BY <2>2, <2>5 DEF Commits
  <2>7. r.secret \notin replaced' => r.of = r.secret
    BY <1>0, <2>2, <2>4, <2>5, <2>6 DEF ProbesOwnKey
  <2>8. /\ rows' \in Nat /\ rows <= rows' /\ r.id <= rows' /\ r.id \in {0, row.id}
        /\ r \in ConnectionRow \cup {NoRow}
    BY <1>0, <2>2, <2>5
  <2>9. /\ ReadsOwnRow(Answered(handler[h], TRUE), r, rows', replaced')
        /\ ProbesOwnKey(Answered(handler[h], TRUE), replaced')
    BY <1>a, <2>2, <2>6
  <2> QED
    BY <1>a, <2>2, <2>7, <2>8, <2>9, CommitsStep
<1>6. ASSUME RecordModelFact(h), ~ GivesUp(h) PROVE KeysInv'
  <2>1. PICK r : r = [row EXCEPT !.words = handler[h].found.words \cup {handler[h].probed}]
    OBVIOUS
  <2>2. /\ handler[h].phase = "fact" /\ row.id = handler[h].found.id
        /\ Commits(h, Answered(handler[h], TRUE), r) /\ rows' = rows
    BY <1>6, <2>1 DEF RecordModelFact
  <2>3. /\ handler[h].probed \in Secrets /\ handler[h].found \in ConnectionRow
        /\ row \in ConnectionRow
    BY <1>0, <2>2, RowIds DEF ReadsOwnRow
  <2>4. handler[h].found.words \cup {handler[h].probed} \in SUBSET Secrets
    BY <2>3 DEF ConnectionRow
  <2>5. /\ r \in ConnectionRow /\ r.id = row.id /\ r.secret = row.secret /\ r.of = row.of
    BY <2>1, <2>3, <2>4 DEF ConnectionRow
  <2> QED
    BY <1>a, <2>2, <2>5, TouchStep
<1> QED
  BY <1>1, <1>2, <1>3, <1>4, <1>5, <1>6

\* The spend credential, the declared balance, its snapshot and the disconnect.
LEMMA OtherStep ==
  ASSUME KeysInv, NEW h \in Handlers,
         \/ SetSpendCredential(h) \/ DeclareBalance(h) \/ InsertSnapshot(h)
         \/ DeleteProviderConnection(h)
  PROVE  KeysInv'
<1>0. /\ handler[h] \in Handler /\ rows \in Nat /\ row.id <= rows
      /\ row \in ConnectionRow \cup {NoRow} /\ handler[h].found \in ConnectionRow \cup {NoRow}
      /\ ReadsOwnRow(handler[h], row, rows, replaced)
      /\ ProbesOwnKey(handler[h], replaced)
  BY DEF KeysInv, TypeOK, Handler
<1>1. CASE GivesUp(h)
  <2>1. (handler[h].op = "connect") \in BOOLEAN
    OBVIOUS
  <2> QED
    BY <1>1, <2>1, GivesUpStep DEF GivesUp
<1>2. /\ Answered(handler[h], TRUE) \in Handler
      /\ \A r, n, gone : n \in Nat =>
            /\ ReadsOwnRow(Answered(handler[h], TRUE), r, n, gone)
            /\ ProbesOwnKey(Answered(handler[h], TRUE), gone)
  BY <1>0, AnsweredType, NothingKnown
\* The row as it is, whether or not there is one.
<1>3. ASSUME NEW x \in Handler, Commits(h, x, row), rows' = rows,
             ReadsOwnRow(x, row, rows, replaced), ProbesOwnKey(x, replaced)
      PROVE  KeysInv'
  <2>1. replaced' = replaced
    BY <1>3 DEF Commits
  <2>2. row.of # Null /\ row.secret \notin replaced' => row.of = row.secret
    BY <2>1 DEF KeysInv, VerdictOfStoredKey
  <2>3. /\ rows' \in Nat /\ rows <= rows' /\ row.id <= rows' /\ row.id \in {0, row.id}
        /\ ReadsOwnRow(x, row, rows', replaced') /\ ProbesOwnKey(x, replaced')
    BY <1>0, <1>3, <2>1
  <2> QED
    BY <1>0, <1>3, <2>2, <2>3, CommitsStep
<1>4. CASE SetSpendCredential(h)
  <2> DEFINE x == [handler[h] EXCEPT !.phase = "find"]
  <2>1. Goes(h, x) \/ (Commits(h, x, row) /\ rows' = rows)
    BY <1>4 DEF SetSpendCredential
  <2>2. x \in Handler /\ x.found = handler[h].found /\ x.phase = "find"
    BY <1>0 DEF Handler, Phases
  <2> HIDE DEF x
  <2>3. ReadsOwnRow(x, row, rows, replaced) /\ ProbesOwnKey(x, replaced)
    BY <1>0, <2>2 DEF ReadsOwnRow, ProbesOwnKey
  <2> QED
    BY <1>3, <2>1, <2>2, <2>3, GoesStep
<1>5. ASSUME DeclareBalance(h), ~ GivesUp(h) PROVE KeysInv'
  <2> DEFINE x == [handler[h] EXCEPT !.phase = "snapshot", !.found = row]
  <2>1. Commits(h, x, row) /\ rows' = rows
    BY <1>5 DEF DeclareBalance
  <2>2. x \in Handler /\ x.found = row /\ x.phase = "snapshot"
    BY <1>0 DEF Handler, Phases
  <2> HIDE DEF x
  <2>3. ReadsOwnRow(x, row, rows, replaced) /\ ProbesOwnKey(x, replaced)
    BY <1>0, <2>2 DEF ReadsOwnRow, ProbesOwnKey
  <2> QED
    BY <1>3, <2>1, <2>2, <2>3
<1>6. ASSUME InsertSnapshot(h), ~ GivesUp(h) PROVE KeysInv'
  BY <1>0, <1>2, <1>3, <1>6 DEF InsertSnapshot
<1>7. ASSUME DeleteProviderConnection(h), ~ GivesUp(h) PROVE KeysInv'
  <2>1. Commits(h, Answered(handler[h], TRUE), NoRow) /\ rows' = rows
    BY <1>7 DEF DeleteProviderConnection
  <2>2. NoRow.id = 0 /\ NoRow.of = Null
    BY DEF NoRow
  <2>3. /\ rows' \in Nat /\ rows <= rows' /\ NoRow.id <= rows' /\ NoRow.id \in {0, row.id}
        /\ NoRow \in ConnectionRow \cup {NoRow}
    BY <1>0, <2>1, <2>2
  <2>4. /\ ReadsOwnRow(Answered(handler[h], TRUE), NoRow, rows', replaced')
        /\ ProbesOwnKey(Answered(handler[h], TRUE), replaced')
    BY <1>2, <2>3
  <2> QED
    BY <1>2, <2>1, <2>2, <2>3, <2>4, CommitsStep
<1> QED
  BY <1>1, <1>4, <1>5, <1>6, <1>7

\* A step that leaves the row and every handler's knowledge alone.
LEMMA AnswerStep == ASSUME KeysInv, NEW h \in Handlers, Answer(h) PROVE KeysInv'
<1>0. handler[h] \in Handler /\ rows \in Nat /\ OneLoad(cache) /\ TypeOK
  BY DEF KeysInv, TypeOK
<1>1. /\ handler' = [handler EXCEPT ![h] = Idle]
      /\ UNCHANGED <<row, rows, replaced, requests, mounted>>
      /\ others' \in BOOLEAN
  BY DEF Answer, server
<1>2. OneLoad(cache')
  BY <1>0, RefreshKeepsOneLoad DEF Answer
<1>3. /\ Idle \in Handler /\ ReadsOwnRow(Idle, row, rows, replaced)
      /\ ProbesOwnKey(Idle, replaced)
  <2>1. Idle \in Handler /\ Idle.found = NoRow /\ Idle.phase = "idle"
    BY DEF Idle, Handler, Phases
  <2> QED
    BY <1>0, <2>1, NothingKnown
<1>4. TypeOK' /\ VerdictOfStoredKey'
  <2>1. handler' \in [Handlers -> Handler]
    BY <1>0, <1>1, <1>3 DEF TypeOK
  <2>2. cache' \in Entry /\ cache'.loading = (cache'.loads # {})
    BY <1>2 DEF OneLoad
  <2>3. {mounted', others'} \subseteq BOOLEAN
    BY <1>0, <1>1 DEF TypeOK
  <2> QED
    BY <1>0, <1>1, <2>1, <2>2, <2>3 DEF TypeOK, VerdictOfStoredKey, KeysInv
<1>5. ASSUME NEW g \in Handlers
      PROVE  /\ ReadsOwnRow(handler'[g], row', rows', replaced')
             /\ ProbesOwnKey(handler'[g], replaced')
  <2>1. handler'[g] = IF g = h THEN Idle ELSE handler[g]
    BY <1>0, <1>1 DEF TypeOK
  <2> QED
    BY <1>1, <1>3, <2>1 DEF KeysInv
<1> QED
  BY <1>2, <1>4, <1>5 DEF KeysInv

-----------------------------------------------------------------------------
(* The theorems.                                                           *)

\* There is no connection and no request at first.
LEMMA KeysInit == Init => KeysInv
<1> SUFFICES ASSUME Init PROVE KeysInv
  OBVIOUS
<1>1. Idle \in Handler /\ Idle.found = NoRow /\ Idle.phase = "idle"
  BY DEF Idle, Handler, Phases
<1>2. handler \in [Handlers -> Handler] /\ \A h \in Handlers : handler[h] = Idle
  BY <1>1 DEF Init
<1>3. OneLoad(cache)
  BY DEF Init, OneLoad, Entry
<1>4. TypeOK
  <2>1. cache \in Entry /\ cache.loading = (cache.loads # {})
    BY <1>3 DEF OneLoad
  <2>2. row = NoRow /\ rows = 0 /\ row.id = 0 /\ replaced = {} /\ requests = 0
    BY DEF Init, NoRow
  <2>3. {mounted, others} \subseteq BOOLEAN
    BY DEF Init
  <2> QED
    BY <1>2, <2>1, <2>2, <2>3, ProviderConstants DEF TypeOK
<1>5. VerdictOfStoredKey
  BY DEF Init, NoRow, VerdictOfStoredKey
<1>6. \A h \in Handlers : /\ ReadsOwnRow(handler[h], row, rows, replaced)
                          /\ ProbesOwnKey(handler[h], replaced)
  BY <1>1, <1>2, <1>4, NothingKnown DEF TypeOK
<1> QED
  BY <1>3, <1>4, <1>5, <1>6 DEF KeysInv

\* Every step keeps the invariant.
LEMMA KeysStep == KeysInv /\ [Next]_vars => KeysInv'
<1> SUFFICES ASSUME KeysInv, [Next]_vars PROVE KeysInv'
  OBVIOUS
<1>1. CASE Subscribe \/ Loads
  <2>1. OneLoad(cache')
    BY <1>1, PageStep
  <2>2. /\ UNCHANGED <<row, rows, replaced, requests, handler, others>>
        /\ mounted' \in BOOLEAN
    BY <1>1 DEF Subscribe, Loads, ListProviderConnections, LoadArrives, LoadFails, server,
                KeysInv, TypeOK
  <2>3. cache' \in Entry /\ cache'.loading = (cache'.loads # {})
    BY <2>1 DEF OneLoad
  <2>4. {mounted', others'} \subseteq BOOLEAN
    BY <2>2 DEF KeysInv, TypeOK
  <2> QED
    BY <2>1, <2>2, <2>3, <2>4 DEF KeysInv, TypeOK, VerdictOfStoredKey
<1>2. ASSUME NEW h \in Handlers, Steps(h) PROVE KeysInv'
  BY <1>2, UpsertStep, CheckStep, OtherStep, AnswerStep DEF Steps
<1>3. ASSUME NEW h \in Handlers, CheckProviderConnection(h) PROVE KeysInv'
  BY <1>3, StartStep DEF CheckProviderConnection
<1>4. ASSUME NEW h \in Handlers, NEW mine \in BOOLEAN,
             \/ \E s \in Secrets : ConnectProvider(h, s, mine)
             \/ CheckModelDeployment(h, mine) \/ RefreshProviderSpend(h, mine)
             \/ DeclareProviderBalance(h, mine) \/ DisconnectProvider(h, mine)
      PROVE  KeysInv'
  BY <1>4, StartStep DEF ConnectProvider, CheckModelDeployment, RefreshProviderSpend,
                         DeclareProviderBalance, DisconnectProvider
<1>5. CASE UNCHANGED vars
  BY <1>5 DEF vars, KeysInv, TypeOK, VerdictOfStoredKey
<1> QED
  BY <1>1, <1>2, <1>3, <1>4, <1>5 DEF Next

\* A connection's verdict was produced with the key it stores, unless that key
\* had been rotated out and saved again (record_status's fence on last4 and the
\* reset in upsert_provider_connection).
THEOREM VerdictsOwned == Spec => []VerdictOfStoredKey
<1>1. KeysInv => VerdictOfStoredKey
  BY DEF KeysInv
<1> QED
  BY <1>1, KeysInit, KeysStep, PTL DEF Spec

\* A request's commit moves it to another phase.
LEMMA CommitsMove ==
  ASSUME KeysInv, NEW h \in Handlers, NEW x, NEW r, Commits(h, x, r),
         x.phase # handler[h].phase
  PROVE  handler' # handler
<1>1. handler'[h] = x
  BY DEF Commits, KeysInv, TypeOK
<1> QED
  BY <1>1

\* The key hub never goes back to an older read than the one it shows
\* (refreshEntry starts no second load).
THEOREM CacheKeepsUp == Spec => CacheNeverRegresses
<1>1. ASSUME KeysInv, [Next]_vars
      PROVE  [cache.data = "now" /\ handler' = handler => cache'.data = "now"]_vars
  <2> SUFFICES ASSUME cache.data = "now", handler' = handler, Next
               PROVE  cache'.data = "now"
    BY <1>1
  <2>1. CASE Subscribe \/ Loads
    BY <1>1, <2>1, PageStep
  <2>2. CASE cache' = cache
    BY <2>2
  <2>3. ASSUME NEW h \in Handlers, Steps(h) PROVE cache'.data = "now"
    <3>0. handler[h] \in Handler /\ Answered(handler[h], TRUE).phase = "answer"
      <4>1. handler[h] \in Handler
        BY <1>1 DEF KeysInv, TypeOK
      <4> QED
        BY <4>1, AnsweredType
    <3>1. ASSUME NEW x, Goes(h, x) PROVE cache' = cache
      BY <3>1 DEF Goes
    <3>2. ASSUME NEW x, NEW r, Commits(h, x, r) PROVE x.phase = handler[h].phase
      BY <1>1, <3>2, CommitsMove
    <3>3. \A p \in Phases : [handler[h] EXCEPT !.phase = p].phase = p
      BY <3>0 DEF Handler
    <3>4. \A f : \A p \in Phases : [handler[h] EXCEPT !.phase = p, !.found = f].phase = p
      BY <3>0 DEF Handler
    <3>5. CASE UpsertReads(h) \/ UpsertMisses(h) \/ Find(h) \/ ReleaseCredential(h)
      BY <2>2, <3>1, <3>5 DEF UpsertReads, UpsertMisses, Find, ReleaseCredential, GivesUp
    <3>6. CASE UpsertRotates(h) \/ UpsertInserts(h)
      <4>1. [handler[h] EXCEPT !.phase = "spend"].phase # "write"
        BY <3>3 DEF Phases
      <4> QED
        BY <2>2, <3>1, <3>2, <3>6, <4>1 DEF UpsertRotates, UpsertInserts
    <3>7. CASE SetSpendCredential(h)
      <4>1. [handler[h] EXCEPT !.phase = "find"].phase # "spend"
        BY <3>3 DEF Phases
      <4> QED
        BY <2>2, <3>1, <3>2, <3>7, <4>1 DEF SetSpendCredential
    <3>8. CASE MapDeployment(h)
      <4>1. \A f : [handler[h] EXCEPT !.phase = "release", !.found = f].phase # "map"
        BY <3>4 DEF Phases
      <4> QED
        BY <2>2, <3>1, <3>2, <3>8, <4>1 DEF MapDeployment, GivesUp
    <3>9. CASE DeclareBalance(h)
      <4>1. \A f : [handler[h] EXCEPT !.phase = "snapshot", !.found = f].phase # "declare"
        BY <3>4 DEF Phases
      <4> QED
        BY <2>2, <3>1, <3>2, <3>9, <4>1 DEF DeclareBalance, GivesUp
    <3>10. CASE \/ RecordStatus(h) \/ RecordModelFact(h) \/ InsertSnapshot(h)
                \/ DeleteProviderConnection(h)
      BY <2>2, <3>0, <3>1, <3>2, <3>10
         DEF RecordStatus, RecordModelFact, InsertSnapshot, DeleteProviderConnection, GivesUp
    <3>11. CASE Answer(h)
      <4>1. OneLoad(cache)
        BY <1>1 DEF KeysInv
      <4> QED
        BY <3>11, <4>1, RefreshKeepsOneLoad DEF Answer
    <3> QED
      BY <2>3, <3>5, <3>6, <3>7, <3>8, <3>9, <3>10, <3>11 DEF Steps
  <2>4. ASSUME NEW h \in Handlers, NEW op, NEW first, NEW secret, NEW mine,
               Start(h, op, first, secret, mine)
        PROVE  cache'.data = "now"
    BY <2>2, <2>4 DEF Start
  <2> QED
    BY <2>1, <2>3, <2>4
       DEF Next, CheckProviderConnection, ConnectProvider, CheckModelDeployment,
           RefreshProviderSpend, DeclareProviderBalance, DisconnectProvider
<1> QED
  BY <1>1, KeysInit, KeysStep, PTL DEF Spec, CacheNeverRegresses

\* Every step keeps the connection row, the requests and the cache entry well
\* formed: one row per id, and an entry that is loading while it has a load.
THEOREM KeysTypeCorrect == Spec => []TypeOK
<1>1. KeysInv => TypeOK
  BY DEF KeysInv
<1> QED
  BY <1>1, KeysInit, KeysStep, PTL DEF Spec
=============================================================================
