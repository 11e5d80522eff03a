----------------------------- MODULE ReplayStore -----------------------------
(***************************************************************************)
(* The cross-worker idempotency store (PostgresReplayStore and the         *)
(* gateway_replay_* functions) for one caller operation, that is, one row  *)
(* of gateway_replay_operations.  A caller is one submission of the        *)
(* operation to some worker; its owner token is the caller itself, because *)
(* every claim draws a fresh uuid.  The service that drives a lease (claim *)
(* first; owners complete or abandon, joiners poll) is outside the         *)
(* repository; the worker's total request timeout bounds how long it works.*)
(***************************************************************************)
EXTENDS Naturals

CONSTANTS
    Null,
    Callers,        \* submissions of the operation
    Contents,       \* canonical request digests
    Lease,          \* _LEASE_SECONDS
    Timeout,        \* request_timeout_seconds
    Retention,      \* _RETENTION_SECONDS
    LastClaim,      \* bound: no claim after this tick
    MaxTime         \* bound: the clock stops here

ASSUME ClockAssumption ==
    /\ {Lease, Retention} \subseteq Nat \ {0}
    /\ {Timeout, LastClaim, MaxTime} \subseteq Nat

ASSUME NullAssumption == Null \notin Callers /\ Null \notin Contents

VARIABLES
    now,        \* the database clock
    row,        \* the operation's gateway_replay_operations row
    callers     \* [Callers -> lease handle of the submission]

vars == <<now, row, callers>>

RowType ==
    [state : {"absent", "claimed", "published"}, content : Contents \cup {Null},
     owner : Callers \cup {Null}, lease : Nat, expires : Nat]

NoRow ==
    [state |-> "absent", content |-> Null, owner |-> Null, lease |-> 0, expires |-> 0]

Phases ==
    {"idle", "working", "joining", "published", "replayed", "joined",
     "conflict", "unavailable", "lapsed", "abandoned", "crashed"}

CallerType ==
    [phase : Phases, content : Contents \cup {Null}, since : Nat,
     answer : Callers \cup {Null}]

Init ==
    /\ now = 0
    /\ row = NoRow
    /\ callers = [c \in Callers |-> [phase |-> "idle", content |-> Null, since |-> 0,
                                     answer |-> Null]]

-----------------------------------------------------------------------------
(* gateway_replay_claim                                                    *)

\* The row after the claim's own prune of expired published rows.
Pruned == IF row.state = "published" /\ row.expires <= now THEN NoRow ELSE row

\* Faults: an unexpired claim is taken over; the digest is not compared.
ClaimKindEager(content) ==
    IF Pruned.state \in {"absent", "claimed"} THEN "owner"
    ELSE IF Pruned.content # content THEN "conflict"
    ELSE "replay"

ClaimKindAnyContent(content) ==
    IF Pruned.state = "absent" THEN "owner"
    ELSE IF Pruned.state = "claimed" /\ Pruned.lease <= now THEN "owner"
    ELSE IF Pruned.state = "published" THEN "replay"
    ELSE "join"

ClaimKind(content) ==
    IF Pruned.state = "absent" THEN "owner"
    ELSE IF Pruned.state = "claimed" /\ Pruned.lease <= now THEN "owner"
    ELSE IF Pruned.content # content THEN "conflict"
    ELSE IF Pruned.state = "published" THEN "replay"
    ELSE "join"

PhaseOf(kind) ==
    CASE kind = "owner" -> "working"
      [] kind = "conflict" -> "conflict"
      [] kind = "replay" -> "replayed"
      [] kind = "join" -> "joining"

Claim(c, content) ==
    LET kind == ClaimKind(content)
    IN /\ callers[c].phase = "idle"
       /\ now <= LastClaim
       /\ row' = IF kind = "owner"
                 THEN [state |-> "claimed", content |-> content, owner |-> c,
                       lease |-> now + Lease, expires |-> 0]
                 ELSE Pruned
       /\ callers' = [callers EXCEPT ![c] =
                        [phase |-> PhaseOf(kind), content |-> content, since |-> now,
                         answer |-> IF kind = "replay" THEN Pruned.owner ELSE Null]]
       /\ UNCHANGED now

-----------------------------------------------------------------------------
\* Fault: the state of the row is not checked.
OwnsRow(c) == row.owner = c

\* The where clause of publish and abandon.
OwnsUnpublished(c) == row.state = "claimed" /\ row.owner = c

\* PostgresReplayLease.complete and gateway_replay_publish.
Publish(c) ==
    /\ callers[c].phase = "working"
    /\ IF OwnsUnpublished(c)
       THEN /\ row' = [row EXCEPT !.state = "published", !.expires = now + Retention]
            /\ callers' = [callers EXCEPT ![c].phase = "published", ![c].answer = c]
       ELSE /\ UNCHANGED row
            /\ callers' = [callers EXCEPT ![c].phase = "lapsed"]
    /\ UNCHANGED now

\* PostgresReplayLease.abandon and gateway_replay_abandon: after failed work or
\* an oversized response, and harmlessly after the owner already published.
Abandon(c) ==
    /\ callers[c].phase \in {"working", "published"}
    /\ row' = IF OwnsUnpublished(c) THEN NoRow ELSE row
    /\ callers' = [callers EXCEPT ![c].phase = IF @ = "working" THEN "abandoned" ELSE @]
    /\ UNCHANGED now

\* The owner's worker is lost; nothing releases the row.
Crash(c) ==
    /\ callers[c].phase = "working"
    /\ callers' = [callers EXCEPT ![c].phase = "crashed"]
    /\ UNCHANGED <<now, row>>

\* Fault: an expired lease keeps the joiner polling.
PollPatiently(c) ==
    /\ callers[c].phase = "joining"
    /\ \/ /\ row.state = "published"
          /\ callers' = [callers EXCEPT ![c].phase = "joined", ![c].answer = row.owner]
       \/ /\ row.state = "absent"
          /\ callers' = [callers EXCEPT ![c].phase = "unavailable"]
    /\ UNCHANGED <<now, row>>

\* One turn of _await_published: _read by operation, whoever owns the row now.
\* An unexpired claim keeps the joiner polling.
Poll(c) ==
    /\ callers[c].phase = "joining"
    /\ \/ /\ row.state = "published"
          /\ callers' = [callers EXCEPT ![c].phase = "joined", ![c].answer = row.owner]
       \/ /\ row.state = "absent" \/ (row.state = "claimed" /\ row.lease <= now)
          /\ callers' = [callers EXCEPT ![c].phase = "unavailable"]
    /\ UNCHANGED <<now, row>>

\* Time passes, but no owner works past the worker's request timeout.
Tick ==
    /\ now < MaxTime
    /\ \A c \in Callers : callers[c].phase = "working" => now < callers[c].since + Timeout
    /\ now' = now + 1
    /\ UNCHANGED <<row, callers>>

EndWork(c) == Publish(c) \/ Abandon(c) \/ Crash(c)

Next ==
    \/ \E c \in Callers :
          \/ \E content \in Contents : Claim(c, content)
          \/ EndWork(c)
          \/ Poll(c)
    \/ Tick

Spec == Init /\ [][Next]_vars

-----------------------------------------------------------------------------
(* Properties                                                              *)

\* The row and every handle hold values of their types (gateway_replay_operations
\* and PostgresReplayLease).
TypeOK ==
    /\ now \in Nat
    /\ row \in RowType
    /\ callers \in [Callers -> CallerType]

\* A submission that is still working owns the operation: no other caller has
\* been told to do the work as well, and its result can be published.  This is
\* what gateway_replay_claim says of a takeover ("its owner is gone").
OneLiveAuthority ==
    \A c \in Callers : callers[c].phase = "working" => OwnsUnpublished(c)

\* A replayed answer was produced for the very request content the caller
\* submitted (the digest comparison of gateway_replay_claim).
ReplayedExactly ==
    \A c \in Callers : callers[c].phase = "replayed" =>
       callers[callers[c].answer].content = callers[c].content

\* A joiner is answered with a response produced for its own request content
\* (PostgresReplayLease.result: "Join in-flight work or return the already
\* completed exact response").
JoinedExactly ==
    \A c \in Callers : callers[c].phase = "joined" =>
       callers[callers[c].answer].content = callers[c].content

\* A published result is never erased or replaced before its retention ends,
\* by a late abandon, a takeover or a second publish (gateway_replay_abandon).
PublishedStays ==
    [][row.state = "published" /\ row' # row => row.expires <= now]_vars

-----------------------------------------------------------------------------
(***************************************************************************)
(* Fairness.  The clock runs, a joiner's poll loop keeps polling, and an   *)
(* owner's work ends, by the worker's request timeout or by its loss.      *)
(***************************************************************************)
LiveSpec ==
    /\ Spec
    /\ WF_vars(Tick)
    /\ \A c \in Callers : WF_vars(Poll(c)) /\ WF_vars(callers[c].phase = "working" /\ EndWork(c))

\* Worker loss never strands a waiting duplicate: every joiner is answered or
\* told that the result is unavailable (PostgresReplayStore, _await_published).
JoinersReleased ==
    \A c \in Callers : callers[c].phase = "joining" ~> callers[c].phase # "joining"
=============================================================================
