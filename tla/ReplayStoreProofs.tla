-------------------------- MODULE ReplayStoreProofs --------------------------
(***************************************************************************)
(* Proofs about ReplayStore for any number of submissions and request      *)
(* bodies and any lease, timeout and retention.                            *)
(***************************************************************************)
EXTENDS ReplayStore, TLAPS

-----------------------------------------------------------------------------
(* Type correctness.                                                       *)

\* The row that a claim leaves after its prune has the type of a row.
LEMMA PrunedType == TypeOK => Pruned \in RowType
  BY DEF TypeOK, Pruned, RowType, NoRow

\* Every kind a claim can return is one the adapter maps to a phase.
LEMMA PhaseType ==
  ASSUME NEW content PROVE PhaseOf(ClaimKind(content)) \in Phases
  BY DEF PhaseOf, ClaimKind, Phases

\* The row and every handle keep their types under every step of
\* gateway_replay_claim, _publish, _abandon and the join poll.
LEMMA TypeStep == TypeOK /\ [Next]_vars => TypeOK'
<1> SUFFICES ASSUME TypeOK, [Next]_vars PROVE TypeOK'
  OBVIOUS
<1> USE DEF TypeOK
<1>1. ASSUME NEW c \in Callers, NEW content \in Contents, Claim(c, content) PROVE TypeOK'
  <2> DEFINE kind == ClaimKind(content)
  <2>1. PhaseOf(kind) \in Phases
    BY PhaseType
  <2>2. Pruned \in RowType
    BY PrunedType
  <2>3. row' \in RowType
    BY <1>1, <2>2, ClockAssumption DEF Claim, RowType
  <2>4. [phase |-> PhaseOf(kind), content |-> content, since |-> now,
         answer |-> IF kind = "replay" THEN Pruned.owner ELSE Null] \in CallerType
    BY <2>1, <2>2 DEF CallerType, RowType
  <2> QED
    BY <1>1, <2>3, <2>4 DEF Claim
<1>2. ASSUME NEW c \in Callers, EndWork(c) PROVE TypeOK'
  <2>1. CASE Publish(c)
    <3>0. now + Retention \in Nat
      BY ClockAssumption
    <3>1. row' \in RowType
      BY <2>1, <3>0 DEF Publish, RowType
    <3>2. callers' \in [Callers -> CallerType]
      BY <2>1 DEF Publish, CallerType, Phases
    <3> QED
      BY <2>1, <3>1, <3>2 DEF Publish
  <2>2. CASE Abandon(c)
    BY <2>2 DEF Abandon, RowType, NoRow, CallerType, Phases
  <2>3. CASE Crash(c)
    BY <2>3 DEF Crash, CallerType, Phases
  <2> QED
    BY <1>2, <2>1, <2>2, <2>3 DEF EndWork
<1>3. ASSUME NEW c \in Callers, Poll(c) PROVE TypeOK'
  BY <1>3 DEF Poll, CallerType, RowType, Phases
<1>4. CASE Tick
  BY <1>4 DEF Tick
<1>5. CASE UNCHANGED vars
  BY <1>5 DEF vars
<1> QED
  BY <1>1, <1>2, <1>3, <1>4, <1>5 DEF Next

\* The row and every lease handle always hold values of their types.
THEOREM TypeCorrect == Spec => []TypeOK
<1>1. Init => TypeOK
  BY DEF Init, TypeOK, NoRow, RowType, CallerType, Phases
<1> QED
  BY <1>1, TypeStep, PTL DEF Spec

-----------------------------------------------------------------------------
(* One live authority, when the lease outlives the request timeout.        *)

\* While a submission works, the row is its claim, the claim's lease runs from
\* the same instant as the work, and the work is inside the request timeout.
LeaseCoversWork ==
    \A c \in Callers : callers[c].phase = "working" =>
       /\ OwnsUnpublished(c)
       /\ row.lease = callers[c].since + Lease
       /\ now <= callers[c].since + Timeout

\* With a lease longer than the timeout, no takeover, publish or abandon of
\* another submission can reach the row of one that is still working.
LEMMA LeaseStep ==
  ASSUME Lease > Timeout, TypeOK, LeaseCoversWork, [Next]_vars
  PROVE  LeaseCoversWork'
<1> USE ClockAssumption DEF OwnsUnpublished
<1> SUFFICES ASSUME NEW c \in Callers, (callers[c].phase = "working")'
             PROVE  (/\ OwnsUnpublished(c)
                     /\ row.lease = callers[c].since + Lease
                     /\ now <= callers[c].since + Timeout)'
  BY DEF LeaseCoversWork
<1>0. /\ now \in Nat /\ row.lease \in Nat
      /\ \A d \in Callers : callers[d].since \in Nat /\ callers[d].phase \in Phases
      /\ DOMAIN callers = Callers
      /\ \A d \in Callers : DOMAIN callers[d] = {"phase", "content", "since", "answer"}
  BY DEF TypeOK, RowType, CallerType
<1>1. ASSUME NEW d \in Callers, NEW content \in Contents, Claim(d, content)
      PROVE  (/\ OwnsUnpublished(c)
              /\ row.lease = callers[c].since + Lease
              /\ now <= callers[c].since + Timeout)'
  <2>1. CASE c = d
    <3>1. PhaseOf(ClaimKind(content)) = "working"
      BY <1>0, <1>1, <2>1 DEF Claim
    <3>2. ClaimKind(content) = "owner"
      BY <3>1 DEF PhaseOf, ClaimKind
    <3> QED
      BY <1>0, <1>1, <2>1, <3>2 DEF Claim
  <2>2. CASE c # d
    <3>1. callers[c].phase = "working" /\ callers'[c] = callers[c]
      BY <1>0, <1>1, <2>2 DEF Claim
    <3>2. Pruned = row /\ ClaimKind(content) # "owner"
      BY <1>0, <3>1 DEF LeaseCoversWork, Pruned, ClaimKind
    <3> QED
      BY <1>1, <3>1, <3>2 DEF Claim, LeaseCoversWork
  <2> QED
    BY <2>1, <2>2
<1>2. ASSUME NEW d \in Callers, EndWork(d) \/ Poll(d)
      PROVE  (/\ OwnsUnpublished(c)
              /\ row.lease = callers[c].since + Lease
              /\ now <= callers[c].since + Timeout)'
  <2>1. c # d
    BY <1>0, <1>2 DEF EndWork, Publish, Abandon, Crash, Poll
  <2>2. callers[c].phase = "working" /\ callers'[c] = callers[c]
    BY <1>0, <1>2, <2>1 DEF EndWork, Publish, Abandon, Crash, Poll
  <2>3. row' = row /\ now' = now
    BY <1>2, <2>1, <2>2 DEF EndWork, Publish, Abandon, Crash, Poll, LeaseCoversWork
  <2> QED
    BY <2>2, <2>3 DEF LeaseCoversWork
<1>3. CASE Tick
  BY <1>0, <1>3 DEF Tick, LeaseCoversWork
<1>4. CASE UNCHANGED vars
  BY <1>4 DEF vars, LeaseCoversWork
<1> QED
  BY <1>1, <1>2, <1>3, <1>4 DEF Next

\* When the unpublished lease exceeds the request timeout, a submission that is
\* still working is never taken over (gateway_replay_claim's expired-claim
\* branch), and its result can still be published.
THEOREM AuthorityHeld ==
  ASSUME Lease > Timeout PROVE Spec => []OneLiveAuthority
<1>1. Init => TypeOK /\ LeaseCoversWork
  BY DEF Init, TypeOK, NoRow, RowType, CallerType, Phases, LeaseCoversWork
<1>2. TypeOK /\ LeaseCoversWork /\ [Next]_vars => TypeOK' /\ LeaseCoversWork'
  BY TypeStep, LeaseStep
<1>3. LeaseCoversWork => OneLiveAuthority
  BY DEF LeaseCoversWork, OneLiveAuthority
<1> QED
  BY <1>1, <1>2, <1>3, PTL DEF Spec

-----------------------------------------------------------------------------
(* Exact replays.                                                          *)

ClaimedWith(c, content) ==
    c \in Callers /\ callers[c].phase # "idle" /\ callers[c].content = content

\* The row's owner is a submission that has claimed, with the row's content,
\* and so is the owner of every replayed answer.
OwnersKnown ==
    /\ row.state # "absent" => ClaimedWith(row.owner, row.content)
    /\ \A c \in Callers : callers[c].phase = "replayed" =>
          ClaimedWith(callers[c].answer, callers[c].content)

\* A submission that has claimed never changes its content, nor becomes idle.
LEMMA ContentKept ==
  ASSUME TypeOK, [Next]_vars, NEW c \in Callers, callers[c].phase # "idle"
  PROVE  callers'[c].phase # "idle" /\ callers'[c].content = callers[c].content
<1>0. /\ DOMAIN callers = Callers
      /\ \A d \in Callers : DOMAIN callers[d] = {"phase", "content", "since", "answer"}
  BY DEF TypeOK, CallerType
<1>1. ASSUME NEW d \in Callers, NEW content \in Contents, Claim(d, content)
      PROVE  callers'[c] = callers[c]
  BY <1>0, <1>1 DEF Claim
<1>2. ASSUME NEW d \in Callers, EndWork(d) \/ Poll(d)
      PROVE  callers'[c].phase # "idle" /\ callers'[c].content = callers[c].content
  BY <1>0, <1>2 DEF EndWork, Publish, Abandon, Crash, Poll
<1>3. CASE Tick \/ UNCHANGED vars
  BY <1>3 DEF Tick, vars
<1> QED
  BY <1>1, <1>2, <1>3 DEF Next

\* Claims, takeovers, publishes and abandons keep the recorded owners exact.
LEMMA OwnersStep ==
  ASSUME TypeOK, OwnersKnown, [Next]_vars PROVE OwnersKnown'
<1>0. /\ DOMAIN callers = Callers
      /\ \A d \in Callers : DOMAIN callers[d] = {"phase", "content", "since", "answer"}
  BY DEF TypeOK, CallerType, RowType
<1>1. ASSUME NEW d \in Callers, NEW content \in Contents, Claim(d, content)
      PROVE  OwnersKnown'
  <2>1. callers'[d].phase # "idle" /\ callers'[d].content = content
    BY <1>0, <1>1 DEF Claim, PhaseOf, ClaimKind
  <2>2. Pruned.state # "absent" => ClaimedWith(Pruned.owner, Pruned.content)
    BY DEF OwnersKnown, Pruned, NoRow
  <2>3. (row.state # "absent" => ClaimedWith(row.owner, row.content))'
    <3>1. CASE ClaimKind(content) = "owner"
      BY <1>1, <2>1, <3>1 DEF Claim, ClaimedWith
    <3>2. CASE ClaimKind(content) # "owner"
      <4>1. row' = Pruned
        BY <1>1, <3>2 DEF Claim
      <4> QED
        BY <2>2, <4>1, ContentKept DEF ClaimedWith
    <3> QED
      BY <3>1, <3>2
  <2>4. ASSUME NEW c \in Callers, callers'[c].phase = "replayed"
        PROVE  ClaimedWith(callers[c].answer, callers[c].content)'
    <3>1. CASE c = d
      <4>1. ClaimKind(content) = "replay"
        BY <1>0, <1>1, <2>4, <3>1 DEF Claim, PhaseOf, ClaimKind
      <4>2. Pruned.state = "published" /\ Pruned.content = content
        BY <4>1 DEF ClaimKind
      <4>3. callers'[c].answer = Pruned.owner
        BY <1>0, <1>1, <3>1, <4>1 DEF Claim
      <4> QED
        BY <2>1, <2>2, <3>1, <4>2, <4>3, ContentKept DEF ClaimedWith
    <3>2. CASE c # d
      <4>1. callers'[c] = callers[c]
        BY <1>0, <1>1, <3>2 DEF Claim
      <4> QED
        BY <2>4, <4>1, ContentKept DEF OwnersKnown, ClaimedWith
    <3> QED
      BY <3>1, <3>2
  <2> QED
    BY <2>3, <2>4 DEF OwnersKnown
<1>2. ASSUME NEW d \in Callers, EndWork(d) \/ Poll(d) PROVE OwnersKnown'
  <2>1. row'.state # "absent" =>
          /\ row.state # "absent"
          /\ row'.owner = row.owner /\ row'.content = row.content
    <3>1. CASE Publish(d)
      BY <3>1 DEF Publish, OwnsUnpublished, TypeOK, RowType
    <3>2. CASE Abandon(d)
      BY <3>2 DEF Abandon, NoRow
    <3>3. CASE Crash(d) \/ Poll(d)
      BY <3>3 DEF Crash, Poll
    <3> QED
      BY <1>2, <3>1, <3>2, <3>3 DEF EndWork
  <2>2. ASSUME NEW c \in Callers, callers'[c].phase = "replayed"
        PROVE  callers[c].phase = "replayed" /\ callers'[c] = callers[c]
    BY <1>0, <1>2, <2>2 DEF EndWork, Publish, Abandon, Crash, Poll
  <2>3. (row.state # "absent" => ClaimedWith(row.owner, row.content))'
    <3> SUFFICES ASSUME row'.state # "absent" PROVE ClaimedWith(row.owner, row.content)'
      OBVIOUS
    <3>1. row'.owner = row.owner /\ row'.content = row.content
      BY <2>1
    <3>2. ClaimedWith(row.owner, row.content)
      BY <2>1 DEF OwnersKnown
    <3> QED
      BY <3>1, <3>2, ContentKept DEF ClaimedWith
  <2>4. ASSUME NEW c \in Callers, callers'[c].phase = "replayed"
        PROVE  ClaimedWith(callers[c].answer, callers[c].content)'
    BY <2>2, <2>4, ContentKept DEF OwnersKnown, ClaimedWith
  <2> QED
    BY <2>3, <2>4 DEF OwnersKnown
<1>3. CASE Tick \/ UNCHANGED vars
  BY <1>3 DEF Tick, vars, OwnersKnown, ClaimedWith
<1> QED
  BY <1>1, <1>2, <1>3 DEF Next

\* A replayed answer was produced for the request content of the submission it
\* answers (the digest comparison of gateway_replay_claim), whatever took over,
\* was abandoned or expired before.
THEOREM ReplaysExact == Spec => []ReplayedExactly
<1>1. Init => TypeOK /\ OwnersKnown
  BY DEF Init, TypeOK, NoRow, RowType, CallerType, Phases, OwnersKnown
<1>2. TypeOK /\ OwnersKnown /\ [Next]_vars => TypeOK' /\ OwnersKnown'
  BY TypeStep, OwnersStep
<1>3. OwnersKnown => ReplayedExactly
  BY DEF OwnersKnown, ReplayedExactly, ClaimedWith
<1> QED
  BY <1>1, <1>2, <1>3, PTL DEF Spec

-----------------------------------------------------------------------------
(* Durable results.                                                        *)

\* No claim, publish or abandon touches a published row inside its retention.
THEOREM PublishedDurable == Spec => PublishedStays
<1>1. ASSUME [Next]_vars
      PROVE  [row.state = "published" /\ row' # row => row.expires <= now]_vars
  <2> SUFFICES ASSUME row.state = "published", ~ (row.expires <= now)
               PROVE  row' = row
    OBVIOUS
  <2>1. ASSUME NEW c \in Callers, NEW content \in Contents, Claim(c, content)
        PROVE  row' = row
    BY <2>1 DEF Claim, ClaimKind, Pruned
  <2>2. ASSUME NEW c \in Callers, EndWork(c) \/ Poll(c) PROVE row' = row
    BY <2>2 DEF EndWork, Publish, Abandon, Crash, Poll, OwnsUnpublished
  <2>3. CASE Tick \/ UNCHANGED vars
    BY <2>3 DEF Tick, vars
  <2> QED
    BY <1>1, <2>1, <2>2, <2>3 DEF Next
<1> QED
  BY <1>1, PTL DEF Spec, PublishedStays
=============================================================================
