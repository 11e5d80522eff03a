---------------------------- MODULE ProviderKeys ----------------------------
(***************************************************************************)
(* An org's own account with one model provider: the stored connection,    *)
(* the requests that change and check it, and the browser cache (KeyHub)   *)
(* every key section of the web application reads it through.              *)
(*                                                                         *)
(* A save, a check and a deployment check are several database calls with  *)
(* a call to the provider between them; requests of several admins and     *)
(* agents overlap. The connection row and its Vault secret change together *)
(* in one database function.                                               *)
(***************************************************************************)
EXTENDS Integers

CONSTANTS
    Secrets,           \* provider keys that may be saved
    Last4,             \* the last four characters of each
    Handlers,          \* requests in flight
    MaxRequests,       \* bound: requests in a run
    Null

ASSUME ProviderConstants ==
    /\ Null \notin Secrets
    /\ MaxRequests \in Nat
    (* Two keys with the same ending defeat the fence of record_status.    *)
    /\ \A s, t \in Secrets : Last4[s] = Last4[t] => s = t

VARIABLES
    row,               \* the provider_connections row, or NoRow
    rows,              \* rows ever inserted, the next id's source
    replaced,          \* history: keys a rotation took out of the row
    requests, handler, \* requests started, and what each handler is doing
    cache,             \* the entry connections|org and the load it has in flight
    mounted,           \* a key section has mounted, so the entry exists
    others             \* history: the row changed without this page being told

server == <<row, rows, replaced>>
vars == <<row, rows, replaced, requests, handler, cache, mounted, others>>
-----------------------------------------------------------------------------
(* of and words are history: the key the verdict in status was produced    *)
(* with (Null while it is unchecked) and the keys status_detail speaks of; *)
(* settings is the save the non-secret config came with.                   *)
ConnectionRow ==
    [id : Nat \ {0}, secret : Secrets, settings : Secrets,
     of : Secrets \cup {Null}, words : SUBSET Secrets]

NoRow == [id |-> 0, secret |-> Null, settings |-> Null, of |-> Null, words |-> {}]

Phases ==
    {"idle", "upsert", "write", "spend", "find", "map", "release", "record",
     "fact", "snapshot", "declare", "delete", "answer"}

(* found: the record the request read; probed: the key it released.        *)
Handler ==
    [phase : Phases,
     op : {"none", "connect", "check", "deploy", "refresh", "declare", "disconnect"},
     secret : Secrets \cup {Null}, mine : BOOLEAN,
     found : ConnectionRow \cup {NoRow}, probed : Secrets \cup {Null}, ok : BOOLEAN]

Idle ==
    [phase |-> "idle", op |-> "none", secret |-> Null, mine |-> FALSE,
     found |-> NoRow, probed |-> Null, ok |-> FALSE]

(* data: what the entry shows, of the row as it is now or as it was        *)
(* before; loads: the fetches in flight, "sent" until the server read.     *)
Entry ==
    [data : {"none", "before", "now"}, error : BOOLEAN, loading : BOOLEAN,
     loads : SUBSET {"sent", "before", "now"}]

TypeOK ==
    /\ row \in ConnectionRow \cup {NoRow}
    /\ rows \in Nat /\ row.id <= rows
    /\ replaced \subseteq Secrets
    /\ requests \in 0 .. MaxRequests
    /\ handler \in [Handlers -> Handler]
    /\ cache \in Entry /\ cache.loading = (cache.loads # {})
    /\ {mounted, others} \subseteq BOOLEAN

Init ==
    /\ row = NoRow /\ rows = 0 /\ replaced = {}
    /\ requests = 0 /\ handler = [h \in Handlers |-> Idle]
    /\ cache = [data |-> "none", error |-> FALSE, loading |-> FALSE, loads |-> {}]
    /\ mounted = FALSE /\ others = FALSE
-----------------------------------------------------------------------------
(* The page's cache.                                                       *)

RefreshEntryFault(c) == [c EXCEPT !.loading = TRUE, !.loads = @ \cup {"sent"}]

RefreshEntry(c) ==
    IF c.loading THEN c ELSE [c EXCEPT !.loading = TRUE, !.loads = {"sent"}]

NeverLoadedFault(c) == c.data = "none" /\ c.error /\ ~c.loading

NeverLoaded(c) == c.data = "none" /\ ~c.error /\ ~c.loading

(* A section mounts; the first one's subscription loads the entry.         *)
Subscribe ==
    /\ ~mounted
    /\ mounted' = TRUE
    /\ cache' = IF NeverLoaded(cache) THEN RefreshEntry(cache) ELSE cache
    /\ UNCHANGED <<server, requests, handler, others>>

(* The list route reads the row.                                           *)
ListProviderConnections ==
    /\ "sent" \in cache.loads
    /\ cache' = [cache EXCEPT !.loads = (@ \ {"sent"}) \cup {"now"}]
    /\ UNCHANGED <<server, requests, handler, mounted, others>>

Settled(c, got) == [c EXCEPT !.loads = @ \ {got}, !.loading = c.loads # {got}]

LoadArrives(got) ==
    /\ got \in cache.loads \ {"sent"}
    /\ cache' = [Settled(cache, got) EXCEPT !.data = got, !.error = FALSE]
    /\ UNCHANGED <<server, requests, handler, mounted, others>>

LoadFails(got) ==
    /\ got \in cache.loads
    /\ cache' = [Settled(cache, got) EXCEPT !.error = TRUE]
    /\ UNCHANGED <<server, requests, handler, mounted, others>>

(* What was read of the row is of the past once the row changes.           *)
Past(seen) == IF seen = "now" THEN "before" ELSE seen

Outdated(c) == [c EXCEPT !.data = Past(@), !.loads = {Past(seen) : seen \in @}]
-----------------------------------------------------------------------------
(* Requests. mine: the page sent it; others come from other pages or from  *)
(* agents holding an org key.                                              *)
Start(h, op, first, secret, mine) ==
    /\ handler[h].phase = "idle" /\ requests < MaxRequests
    /\ requests' = requests + 1
    /\ handler' = [handler EXCEPT ![h] =
                      [Idle EXCEPT !.phase = first, !.op = op, !.secret = secret,
                                   !.mine = mine]]
    /\ UNCHANGED <<server, cache, mounted, others>>

ConnectProvider(h, secret, mine) == Start(h, "connect", "upsert", secret, mine)
CheckProviderConnection(h) == Start(h, "check", "find", Null, FALSE)
CheckModelDeployment(h, mine) == Start(h, "deploy", "find", Null, mine)
RefreshProviderSpend(h, mine) == Start(h, "refresh", "find", Null, mine)
DeclareProviderBalance(h, mine) == Start(h, "declare", "declare", Null, mine)
DisconnectProvider(h, mine) == Start(h, "disconnect", "delete", Null, mine)

(* The request goes on without having changed the row.                     *)
Goes(h, x) ==
    /\ handler' = [handler EXCEPT ![h] = x]
    /\ UNCHANGED <<server, requests, cache, mounted, others>>

(* The request commits a change to what the connections read returns.      *)
Commits(h, x, newrow) ==
    /\ row' = newrow
    /\ replaced' = IF newrow # NoRow /\ newrow.id = row.id /\ newrow.secret # row.secret
                   THEN replaced \cup {row.secret} ELSE replaced
    /\ cache' = Outdated(cache)
    /\ others' = (others \/ ~x.mine)
    /\ handler' = [handler EXCEPT ![h] = x]
    /\ UNCHANGED <<requests, mounted>>

Answered(x, ok) == [Idle EXCEPT !.phase = "answer", !.mine = x.mine, !.ok = ok]

(* upsert_provider_connection looks the row up ...                         *)
UpsertReads(h) ==
    /\ handler[h].phase = "upsert"
    /\ Goes(h, [handler[h] EXCEPT !.phase = "write", !.found = row])

RotatedFault(r, secret) == [r EXCEPT !.secret = secret, !.settings = secret]

(* ... and updates it, which resets the verdict, ...                       *)
Rotated(r, secret) ==
    [r EXCEPT !.secret = secret, !.settings = secret, !.of = Null, !.words = {}]

UpsertRotates(h) ==
    /\ handler[h].phase = "write" /\ handler[h].found # NoRow
    /\ row.id = handler[h].found.id
    /\ Commits(h, [handler[h] EXCEPT !.phase = "spend"], Rotated(row, handler[h].secret))
    /\ UNCHANGED rows

(* ... or, when it was disconnected meanwhile, updates nothing, ...        *)
UpsertMisses(h) ==
    /\ handler[h].phase = "write" /\ handler[h].found # NoRow
    /\ row.id # handler[h].found.id
    /\ Goes(h, [handler[h] EXCEPT !.phase = "spend"])

(* ... or inserts it, unless another request just did.                     *)
UpsertInserts(h) ==
    /\ handler[h].phase = "write" /\ handler[h].found = NoRow
    /\ IF row = NoRow
       THEN /\ rows' = rows + 1
            /\ Commits(h, [handler[h] EXCEPT !.phase = "spend"],
                       [NoRow EXCEPT !.id = rows + 1, !.secret = handler[h].secret,
                                     !.settings = handler[h].secret])
       ELSE Goes(h, Answered(handler[h], FALSE))

(* The optional admin key rides an existing connection; its failure is     *)
(* reported beside the save.                                               *)
SetSpendCredential(h) ==
    /\ handler[h].phase = "spend"
    /\ \/ Goes(h, [handler[h] EXCEPT !.phase = "find"])
       \/ /\ row # NoRow
          /\ Commits(h, [handler[h] EXCEPT !.phase = "find"], row)
          /\ UNCHANGED rows

(* A save whose check cannot run is still answered as saved.               *)
GivesUp(h) == Goes(h, Answered(handler[h], handler[h].op = "connect"))

AfterFind(op, mapped) == IF op = "deploy" /\ mapped THEN "map" ELSE "release"

(* The check, the deployment check and the spend read find the connection; *)
(* a spend read inside its staleness floor is answered from the snapshots. *)
Find(h) ==
    /\ handler[h].phase = "find"
    /\ \/ GivesUp(h)
       \/ /\ row # NoRow
          /\ \E mapped \in BOOLEAN :
                Goes(h, [handler[h] EXCEPT !.phase = AfterFind(handler[h].op, mapped),
                                           !.found = row])
       \/ /\ row # NoRow /\ handler[h].op = "refresh"
          /\ Goes(h, Answered(handler[h], TRUE))

(* _map_deployment writes the config it read with one mapping added and    *)
(* goes on with the row as written.                                        *)
MapDeployment(h) ==
    /\ handler[h].phase = "map"
    /\ IF row.id = handler[h].found.id
       THEN LET mapped == [row EXCEPT !.settings = handler[h].found.settings]
            IN  /\ Commits(h, [handler[h] EXCEPT !.phase = "release", !.found = mapped], mapped)
                /\ UNCHANGED rows
       ELSE GivesUp(h)

AfterRelease(op) ==
    CASE op \in {"connect", "check"} -> "record" [] op = "deploy" -> "fact" [] OTHER -> "snapshot"

(* The secret is released and the provider is asked with it; the provider  *)
(* may not answer, which ends a deployment check and a spend read.         *)
ReleaseCredential(h) ==
    /\ handler[h].phase = "release"
    /\ \/ GivesUp(h)
       \/ /\ row.id = handler[h].found.id
          /\ Goes(h, [handler[h] EXCEPT !.phase = AfterRelease(handler[h].op),
                                        !.probed = row.secret])

FencedFault(r, found) == r.id = found.id

(* record_status writes only while the row still carries the key the check *)
(* set out with.                                                           *)
Fenced(r, found) == r.id = found.id /\ Last4[r.secret] = Last4[found.secret]

RecordStatus(h) ==
    /\ handler[h].phase = "record"
    /\ IF row # NoRow /\ Fenced(row, handler[h].found)
       THEN /\ Commits(h, Answered(handler[h], TRUE),
                       [row EXCEPT !.of = handler[h].probed, !.words = {handler[h].probed}])
            /\ UNCHANGED rows
       ELSE GivesUp(h)

(* record_model_fact writes the detail it read with one fact added, fenced *)
(* by the row's id alone.                                                  *)
RecordModelFact(h) ==
    /\ handler[h].phase = "fact"
    /\ IF row.id = handler[h].found.id
       THEN /\ Commits(h, Answered(handler[h], TRUE),
                       [row EXCEPT !.words = handler[h].found.words \cup {handler[h].probed}])
            /\ UNCHANGED rows
       ELSE GivesUp(h)

(* The balance is declared, then recorded as a snapshot, whose failure     *)
(* answers the request with an error.                                      *)
DeclareBalance(h) ==
    /\ handler[h].phase = "declare"
    /\ IF row = NoRow THEN GivesUp(h)
       ELSE /\ Commits(h, [handler[h] EXCEPT !.phase = "snapshot", !.found = row], row)
            /\ UNCHANGED rows

InsertSnapshot(h) ==
    /\ handler[h].phase = "snapshot"
    /\ \/ GivesUp(h)
       \/ /\ row.id = handler[h].found.id
          /\ Commits(h, Answered(handler[h], TRUE), row)
          /\ UNCHANGED rows

DeleteProviderConnection(h) ==
    /\ handler[h].phase = "delete"
    /\ IF row = NoRow THEN GivesUp(h)
       ELSE Commits(h, Answered(handler[h], TRUE), NoRow) /\ UNCHANGED rows

(* The answer reaches the page, which refreshes its cache on success only; *)
(* after an error it does not know of what the request did change.         *)
Answer(h) ==
    /\ handler[h].phase = "answer"
    /\ handler' = [handler EXCEPT ![h] = Idle]
    /\ cache' = IF handler[h].mine /\ handler[h].ok /\ mounted
                THEN RefreshEntry(cache) ELSE cache
    /\ others' = (others \/ ~handler[h].ok)
    /\ UNCHANGED <<server, requests, mounted>>
-----------------------------------------------------------------------------
Loads == ListProviderConnections \/ \E got \in cache.loads : LoadArrives(got) \/ LoadFails(got)

Steps(h) ==
    \/ UpsertReads(h) \/ UpsertRotates(h) \/ UpsertMisses(h) \/ UpsertInserts(h)
    \/ SetSpendCredential(h) \/ Find(h) \/ MapDeployment(h) \/ ReleaseCredential(h)
    \/ RecordStatus(h) \/ RecordModelFact(h) \/ DeclareBalance(h)
    \/ InsertSnapshot(h) \/ DeleteProviderConnection(h) \/ Answer(h)

Next ==
    \/ Subscribe \/ Loads
    \/ \E h \in Handlers : Steps(h) \/ CheckProviderConnection(h) \/
          \E mine \in BOOLEAN :
             \/ \E s \in Secrets : ConnectProvider(h, s, mine)
             \/ CheckModelDeployment(h, mine) \/ RefreshProviderSpend(h, mine)
             \/ DeclareProviderBalance(h, mine) \/ DisconnectProvider(h, mine)

Spec == Init /\ [][Next]_vars

(* A fetch of the page ends, with an answer or an error.                   *)
LiveSpec == Spec /\ WF_vars(Loads)
-----------------------------------------------------------------------------
(* A connection's verdict was produced with the key it stores, however     *)
(* rotations, disconnects and checks interleave, unless that key had been  *)
(* rotated out and saved again (record_status and the reset in             *)
(* upsert_provider_connection).                                            *)
VerdictOfStoredKey ==
    row.of # Null /\ row.secret \notin replaced => row.of = row.secret

(* The cache never goes back to an older read than the one it shows: an    *)
(* entry has one load at a time (refreshEntry).                            *)
CacheNeverRegresses ==
    [][cache.data = "now" /\ handler' = handler => cache'.data = "now"]_vars

(* A mounted key section gets data or an error (the first subscriber's     *)
(* load in useStoreEntry).                                                 *)
SectionsLoad == mounted ~> (cache.data # "none" \/ cache.error)

(* With every request answered and nothing loading, a mounted section      *)
(* shows the page's own successful changes (the store's header: a key      *)
(* added on one mount appears on every other without a reload).            *)
CacheShowsOwnChanges ==
    (/\ mounted /\ ~others /\ ~cache.loading /\ ~cache.error
     /\ \A h \in Handlers : handler[h] = Idle) => cache.data = "now"

(* A connection whose key was never rotated back carries no word about     *)
(* another key, nor another save's settings (the reset in                  *)
(* upsert_provider_connection: a fresh key never wears the previous one's  *)
(* status).                                                                *)
RowIsOfOneSave ==
    row # NoRow /\ row.secret \notin replaced =>
        row.words \subseteq {row.secret} /\ row.settings = row.secret
=============================================================================
