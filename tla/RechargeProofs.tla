--------------------------- MODULE RechargeProofs ---------------------------
(***************************************************************************)
(* Proofs about Recharge for any number of sessions, attempts, cards and   *)
(* pollers, any amounts, cooldowns and bounds. What is said of the claims  *)
(* holds when the lease covers the longest work of a poller.               *)
(***************************************************************************)
EXTENDS Recharge, FiniteSetTheorems, TLAPS

\* The lease outlasts what one poller may spend on an attempt: five minutes
\* against the timeout of the provider's client.
LeaseCoversCalls == CallTime <= Lease
-----------------------------------------------------------------------------
(* The inductive invariant, in parts.                                      *)

\* The provider's memory of an attempt, and what its events say: a charge is a
\* success, an intent belongs to a row that was queued, an id in the row to a
\* charge that was answered, and an event tells the recorded outcome.
ProviderTold ==
    \A a \in Attempts :
          /\ intents[a].charged = IF intents[a].state = "succeeded" THEN 1 ELSE 0
          /\ intents[a].state # "none" => attempts[a].status # "none"
          /\ attempts[a].intent => intents[a].state \in {"succeeded", "declined", "action"}
          /\ <<"succeeded", a>> \in events => intents[a].state = "succeeded"
          /\ <<"failed", a>> \in events => intents[a].state = "declined"

\* Only collected payments are in the ledger.
LedgerPaid ==
    /\ \A s \in Sessions : s \in ledger => sessions[s].state = "paid"
    /\ \A a \in Attempts : a \in ledger => intents[a].state = "succeeded"

\* A poller at work claimed its row within the last CallTime and nobody has
\* put the row back since; one that still has the row as it read it can claim
\* it only because the row is still a candidate.
ClaimsHeld ==
    \A p \in Pollers :
       /\ Working(p) =>
             /\ poller[p].attempt \in Attempts
             /\ poller[p].since <= clock /\ clock <= poller[p].since + CallTime
             /\ attempts[poller[p].attempt].status \notin {"none", "pending"}
             /\ poller[p].since <= attempts[poller[p].attempt].at
       /\ poller[p].phase = "loaded" =>
             /\ poller[p].attempt \in Attempts
             /\ poller[p].fresh => Candidate(poller[p].attempt)

\* What a poller holds after the provider's answer is the recorded outcome.
AnswersHeld ==
    \A p \in Pollers : poller[p].phase \in {"record", "fail"} =>
       /\ poller[p].result = intents[poller[p].attempt].state
       /\ poller[p].result \in {"succeeded", "declined", "action"}
       /\ poller[p].phase = "fail" => poller[p].result # "succeeded"

Told == ProviderTold /\ AnswersHeld /\ LedgerPaid

\* A row that was closed as failed while a poller works on it was closed by the
\* webhook, for a decline whose poller is about to report it too; such a row
\* is never put back.
DeclinesIn(rows, pollers) ==
    /\ \A p \in Pollers : pollers[p].phase \notin {"idle", "loaded"} =>
          LET a == pollers[p].attempt
          IN /\ rows[a].status = "failed" => intents[a].state = "declined" /\ rows[a].intent
             /\ intents[a].state = "declined" /\ rows[a].intent => pollers[p].phase = "fail"
    /\ \A a \in Attempts :
          intents[a].state = "declined" /\ rows[a].intent => rows[a].status # "pending"

DeclinesHeld == DeclinesIn(attempts, poller)

\* The rows whose decline has been counted.
Counted ==
    {a \in Attempts : /\ attempts[a].status = "failed" /\ attempts[a].intent
                      /\ intents[a].state \in {"declined", "action"}}

FailuresCounted == settings.failures <= Cardinality(Counted)

ClaimInv == ClaimsHeld /\ OnePollerPerAttempt
-----------------------------------------------------------------------------
(* Type correctness.                                                       *)

\* A poller that is not idle holds an attempt that was queued.
Named(pollers) ==
    \A p \in Pollers : pollers[p].phase # "idle" =>
       pollers[p].attempt \in Attempts /\ attempts[pollers[p].attempt].status # "none"

PollersNamed == Named(poller)

\* An UPDATE of one attempt keeps the types of the rows and of the pollers.
LEMMA WriteType ==
  ASSUME TypeOK, NEW a \in Attempts, NEW row \in AttemptRow,
         NEW pollers \in [Pollers -> PollerState], Write(a, row, pollers)
  PROVE  /\ attempts' \in [Attempts -> AttemptRow]
         /\ poller' \in [Pollers -> PollerState]
<1>1. clock \in Nat
  BY RechargeConstants DEF TypeOK
<1>2. [row EXCEPT !.at = clock] \in AttemptRow
  BY <1>1 DEF AttemptRow
<1>3. \A p \in Pollers : [pollers[p] EXCEPT !.fresh = FALSE] \in PollerState
  BY DEF PollerState
<1> QED
  BY <1>2, <1>3 DEF Write, TypeOK

\* An UPDATE changes one row and takes no poller but the writer any further:
\* those that read the row only lose the right to claim it.
LEMMA WriteEffect ==
  ASSUME TypeOK, NEW a \in Attempts, NEW row \in AttemptRow,
         NEW pollers \in [Pollers -> PollerState], Write(a, row, pollers)
  PROVE  /\ \A b \in Attempts \ {a} : attempts'[b] = attempts[b]
         /\ attempts'[a].status = row.status /\ attempts'[a].intent = row.intent
         /\ attempts'[a].amount = row.amount /\ attempts'[a].at = clock
         /\ \A p \in Pollers :
               /\ poller'[p].phase = pollers[p].phase
               /\ poller'[p].attempt = pollers[p].attempt
               /\ poller'[p].since = pollers[p].since
               /\ poller'[p].result = pollers[p].result
               /\ poller'[p].card = pollers[p].card
               /\ poller'[p].fresh => pollers[p].fresh /\ pollers[p].attempt # a
<1>1. /\ attempts' = [attempts EXCEPT ![a] = [row EXCEPT !.at = clock]]
      /\ attempts \in [Attempts -> AttemptRow]
  BY DEF Write, TypeOK
<1>2. /\ attempts'[a] = [row EXCEPT !.at = clock]
      /\ \A b \in Attempts \ {a} : attempts'[b] = attempts[b]
  BY <1>1
<1>3. ASSUME NEW p \in Pollers
      PROVE  /\ poller'[p].phase = pollers[p].phase
             /\ poller'[p].attempt = pollers[p].attempt
             /\ poller'[p].since = pollers[p].since
             /\ poller'[p].result = pollers[p].result
             /\ poller'[p].card = pollers[p].card
             /\ poller'[p].fresh => pollers[p].fresh /\ pollers[p].attempt # a
  <2>1. poller'[p] = IF pollers[p].attempt = a THEN [pollers[p] EXCEPT !.fresh = FALSE]
                                               ELSE pollers[p]
    BY DEF Write
  <2>2. pollers[p] \in PollerState
    OBVIOUS
  <2> QED
    BY <2>1, <2>2 DEF PollerState
<1> QED
  BY <1>2, <1>3 DEF AttemptRow

\* A poller between attempts.
LEMMA IdleType == Idle \in PollerState
  BY DEF Idle, PollerState

\* The event the provider emits for an outcome.
Sent(a, outcome) ==
    IF outcome = "succeeded" THEN {<<"succeeded", a>>}
    ELSE IF outcome = "declined" THEN {<<"failed", a>>} ELSE {}

\* The first request under an attempt's key, and where it leaves its poller.
FirstCharge(p, outcome, phase, result) ==
    LET a == poller[p].attempt IN
    /\ intents[a].state = "none"
    /\ intents' = [intents EXCEPT ![a] =
          [state |-> outcome, card |-> poller[p].card,
           charged |-> intents[a].charged + (IF outcome = "succeeded" THEN 1 ELSE 0)]]
    /\ events' = events \cup Sent(a, outcome)
    /\ unacked' = unacked \cup Sent(a, outcome)
    /\ \/ phase = "retry" /\ result = Null
       \/ phase = "cardless" /\ result = outcome
       \/ phase = "record" /\ result = outcome /\ outcome # "refused"
    /\ poller' = [poller EXCEPT ![p].phase = phase, ![p].result = result]

\* Any other request, or one that never arrived.
RepeatedCharge(p, phase, result) ==
    LET a == poller[p].attempt IN
    /\ UNCHANGED <<intents, events, unacked>>
    /\ \/ phase = "retry" /\ result = poller[p].result
       \/ /\ intents[a].state # "none"
          /\ result = intents[a].state
          /\ phase = IF result = "refused" THEN "cardless" ELSE "record"
    /\ poller' = [poller EXCEPT ![p].phase = phase, ![p].result = result]

\* What a charge can do, with its outcome and the poller's answer named.
LEMMA ChargeCases ==
  ASSUME TypeOK, NEW p \in Pollers, ChargeAttempt(p)
  PROVE  \E phase, result :
            \/ \E outcome \in Outcomes : FirstCharge(p, outcome, phase, result)
            \/ RepeatedCharge(p, phase, result)
<1> DEFINE a == poller[p].attempt
<1>0. poller \in [Pollers -> PollerState]
  BY DEF TypeOK
<1>1. ASSUME ~Known(a), NEW outcome \in Outcomes, NEW answered \in BOOLEAN,
             intents' = [intents EXCEPT ![a] =
                [state |-> outcome, card |-> poller[p].card,
                 charged |-> @.charged + (IF outcome = "succeeded" THEN 1 ELSE 0)]],
             events' = events \cup Sent(a, outcome),
             unacked' = unacked \cup Sent(a, outcome),
             poller' = [poller EXCEPT
                ![p].phase = CASE ~answered -> "retry"
                               [] answered /\ outcome = "refused" -> "cardless"
                               [] OTHER -> "record",
                ![p].result = IF answered THEN outcome ELSE Null]
      PROVE  \E phase, result : FirstCharge(p, outcome, phase, result)
  <2> DEFINE phase == CASE ~answered -> "retry"
                        [] answered /\ outcome = "refused" -> "cardless"
                        [] OTHER -> "record"
             result == IF answered THEN outcome ELSE Null
  <2>1. \/ phase = "retry" /\ result = Null
        \/ phase = "cardless" /\ result = outcome
        \/ phase = "record" /\ result = outcome /\ outcome # "refused"
    <3>1. CASE answered /\ outcome = "refused"
      BY <3>1
    <3>2. CASE answered /\ outcome # "refused"
      BY <3>2
    <3>3. CASE ~answered
      BY <3>3
    <3> QED
      BY <3>1, <3>2, <3>3
  <2>2. poller' = [poller EXCEPT ![p].phase = phase, ![p].result = result]
    BY <1>1
  <2> HIDE DEF phase, result
  <2>3. FirstCharge(p, outcome, phase, result)
    BY <1>1, <2>1, <2>2 DEF FirstCharge, Known
  <2> QED
    BY <2>3
<1>2. ASSUME Known(a), UNCHANGED <<intents, events, unacked>>,
             poller' = [poller EXCEPT
                ![p].phase = IF intents[a].state = "refused" THEN "cardless" ELSE "record",
                ![p].result = intents[a].state]
      PROVE  \E phase, result : RepeatedCharge(p, phase, result)
  <2> DEFINE phase == IF intents[a].state = "refused" THEN "cardless" ELSE "record"
  <2>1. RepeatedCharge(p, phase, intents[a].state)
    BY <1>2 DEF RepeatedCharge, Known
  <2> QED
    BY <2>1
<1>3. ASSUME UNCHANGED <<intents, events, unacked>>,
             poller' = [poller EXCEPT ![p].phase = "retry"]
      PROVE  \E phase, result : RepeatedCharge(p, phase, result)
  <2>1. poller' = [poller EXCEPT ![p].phase = "retry", ![p].result = poller[p].result]
    BY <1>0, <1>3 DEF PollerState
  <2>2. RepeatedCharge(p, "retry", poller[p].result)
    BY <1>3, <2>1 DEF RepeatedCharge
  <2> QED
    BY <2>2
<1> QED
  BY <1>1, <1>2, <1>3 DEF ChargeAttempt, Sent

\* The steps of the webhooks and the settings keep every type.
LEMMA TypeStep == TypeOK /\ PollersNamed /\ [Next]_vars => TypeOK'
<1> SUFFICES ASSUME TypeOK, PollersNamed, [Next]_vars PROVE TypeOK'
  OBVIOUS
<1>0. clock \in Nat /\ MaxTime \in Nat /\ MaxDebits \in Nat
  BY RechargeConstants DEF TypeOK
<1>1. CASE Debit
  <2>1. Enqueued \in AttemptRow
    BY <1>0, RechargeConstants DEF Enqueued, NoAttempt, AttemptRow, Live, TypeOK, Settings
  <2>2. attempts' \in [Attempts -> AttemptRow]
    BY <1>1, <2>1 DEF Debit, TypeOK
  <2> QED
    BY <1>0, <1>1, <2>2 DEF Debit, TypeOK, provider
<1>2. CASE SaveSettings
  <2>1. PICK on \in BOOLEAN, amount \in Amounts :
          settings' = [settings EXCEPT !.enabled = on, !.amount = amount,
                                       !.failures = 0, !.lastFailure = Null]
    BY <1>2 DEF SaveSettings
  <2>2. settings' \in Settings
    BY <2>1 DEF TypeOK, Settings
  <2> QED
    BY <1>2, <2>2 DEF SaveSettings, TypeOK, provider
<1>3. CASE Tick
  BY <1>0, <1>3 DEF Tick, TypeOK, provider
<1>4. ASSUME NEW s \in Sessions, CreateSession(s) PROVE TypeOK'
  BY <1>4 DEF CreateSession, TypeOK
<1>5. ASSUME NEW s \in Sessions, CompleteSession(s) PROVE TypeOK'
  <2>1. PICK card \in Cards, state \in {"paid", "unpaid"} :
          sessions' = [sessions EXCEPT ![s].state = state, ![s].card = card]
    BY <1>5 DEF CompleteSession
  <2>2. sessions' \in [Sessions -> [state : {"none", "open", "unpaid", "paid"},
                                    card : Cards \cup {Null}, consent : BOOLEAN]]
    BY ZenonT(60), <2>1 DEF TypeOK
  <2> QED
    BY <1>5, <2>2 DEF CompleteSession, TypeOK, EventKinds
<1>6. ASSUME NEW s \in Sessions, HandleCheckoutCompleted(s) PROVE TypeOK'
  <2>1. balance' \in Int /\ ledger' \subseteq Sessions \cup Attempts
    BY <1>6, RechargeConstants DEF HandleCheckoutCompleted, Credited, TypeOK
  <2>2. persisting' \subseteq Sessions /\ unacked' \subseteq events
    BY <1>6 DEF HandleCheckoutCompleted, Acked, TypeOK
  <2> QED
    BY <1>6, <2>1, <2>2 DEF HandleCheckoutCompleted, TypeOK, provider
<1>7. ASSUME NEW s \in Sessions, PersistAutoRecharge(s) PROVE TypeOK'
  <2>1. settings' \in Settings
    <3>1. ASSUME NEW amount \in Amounts,
                 settings' = [settings EXCEPT !.enabled = TRUE, !.card = sessions[s].card,
                                 !.amount = amount, !.failures = 0, !.lastFailure = Null]
          PROVE  settings' \in Settings
      BY <3>1 DEF TypeOK, Settings
    <3> QED
      BY <1>7, <3>1 DEF PersistAutoRecharge, TypeOK
  <2> QED
    BY <1>7, <2>1 DEF PersistAutoRecharge, Acked, TypeOK, provider
<1>8. ASSUME NEW s \in Sessions, WebhookDies(s) PROVE TypeOK'
  BY <1>8 DEF WebhookDies, TypeOK, provider
<1>9. ASSUME NEW a \in Attempts, HandleAutoRechargeSucceeded(a) PROVE TypeOK'
  <2>1. [attempts[a] EXCEPT !.status = "succeeded"] \in AttemptRow
    BY DEF TypeOK, AttemptRow
  <2>2. attempts' \in [Attempts -> AttemptRow] /\ poller' \in [Pollers -> PollerState]
    BY <1>9, <2>1, WriteType DEF HandleAutoRechargeSucceeded, Skip, TypeOK
  <2>3. settings' \in Settings
    BY <1>0, <1>9 DEF HandleAutoRechargeSucceeded, TypeOK, Settings
  <2>4. balance' \in Int /\ ledger' \subseteq Sessions \cup Attempts
    BY <1>9 DEF HandleAutoRechargeSucceeded, Credited, TypeOK, AttemptRow
  <2> QED
    BY <1>9, <2>2, <2>3, <2>4 DEF HandleAutoRechargeSucceeded, Acked, TypeOK, provider
<1>10. ASSUME NEW a \in Attempts, NEW pollers \in [Pollers -> PollerState],
              RecordedFailure(a, pollers)
       PROVE  /\ attempts' \in [Attempts -> AttemptRow]
              /\ poller' \in [Pollers -> PollerState]
              /\ settings' \in Settings
  <2>1. [attempts[a] EXCEPT !.status = "failed"] \in AttemptRow
    BY DEF TypeOK, AttemptRow
  <2>2. attempts' \in [Attempts -> AttemptRow] /\ poller' \in [Pollers -> PollerState]
    BY <1>10, <2>1, WriteType DEF RecordedFailure, Skip, TypeOK
  <2>3. settings' \in Settings
    <3>1. PICK n \in Nat : n = settings.failures + 1
      BY DEF TypeOK, Settings
    <3>2. [settings EXCEPT !.failures = n, !.lastFailure = clock] \in Settings
      BY <1>0 DEF TypeOK, Settings
    <3> QED
      BY <1>10, <3>1, <3>2 DEF RecordedFailure, TypeOK
  <2> QED
    BY <2>2, <2>3
<1>11. ASSUME NEW a \in Attempts, HandleAutoRechargeFailed(a) PROVE TypeOK'
  <2>1. RecordedFailure(a, poller) /\ poller \in [Pollers -> PollerState]
    BY <1>11 DEF HandleAutoRechargeFailed, TypeOK
  <2> QED
    BY <1>10, <1>11, <2>1 DEF HandleAutoRechargeFailed, Acked, TypeOK, provider
<1>12. ASSUME NEW p \in Pollers, Poll(p) PROVE TypeOK'
  <2> DEFINE a == poller[p].attempt
  <2>0. poller[p] \in PollerState /\ poller \in [Pollers -> PollerState]
    BY DEF TypeOK
  <2>i. [poller EXCEPT ![p] = Idle] \in [Pollers -> PollerState]
    BY <2>0, IdleType
  <2>1. CASE LoadCandidates(p)
    <3>1. PICK b \in Attempts, card \in {settings.card, Null} :
            poller' = [poller EXCEPT ![p] =
                [Idle EXCEPT !.phase = "loaded", !.attempt = b,
                             !.fresh = TRUE, !.card = card]]
      BY <2>1 DEF LoadCandidates
    <3>2. card \in Cards \cup {Null}
      BY DEF TypeOK, Settings
    <3>3. [Idle EXCEPT !.phase = "loaded", !.attempt = b, !.fresh = TRUE,
                       !.card = card] \in PollerState
      BY <3>2 DEF Idle, PollerState
    <3> QED
      BY <2>1, <3>1, <3>3 DEF LoadCandidates, TypeOK, provider
  <2> HIDE DEF a
  <2>2. CASE ClaimAttempt(p)
    <3>0. a \in Attempts
      BY <2>2 DEF ClaimAttempt, PollersNamed, Named, a
    <3> DEFINE working == [poller[p] EXCEPT !.since = clock,
                  !.phase = IF poller[p].card = Null THEN "cardless" ELSE "charge"]
    <3>1. working \in PollerState
      BY <1>0, <2>0 DEF PollerState
    <3>2. [attempts[a] EXCEPT !.status = "processing"] \in AttemptRow
      BY <3>0 DEF TypeOK, AttemptRow, Live
    <3>3. [poller EXCEPT ![p] = working] \in [Pollers -> PollerState]
      BY <2>0, <3>1
    <3>4. /\ attempts' \in [Attempts -> AttemptRow]
          /\ poller' \in [Pollers -> PollerState]
      <4>1. \/ Write(a, [attempts[a] EXCEPT !.status = "processing"],
                     [poller EXCEPT ![p] = working])
            \/ Skip([poller EXCEPT ![p] = Idle])
        BY <2>2 DEF ClaimAttempt, a
      <4> HIDE DEF working
      <4> QED
        BY <2>i, <3>0, <3>2, <3>3, <4>1, WriteType DEF Skip, TypeOK
    <3> QED
      BY <2>2, <3>4 DEF ClaimAttempt, TypeOK, provider
  <2>3. CASE FailAttemptById(p)
    <3>1. a \in Attempts
      BY <2>3 DEF FailAttemptById, PollersNamed, Named, a
    <3>2. [attempts[a] EXCEPT !.status = "failed"] \in AttemptRow
      BY <3>1 DEF TypeOK, AttemptRow
    <3>3. \/ Write(a, [attempts[a] EXCEPT !.status = "failed"], [poller EXCEPT ![p] = Idle])
          \/ Skip([poller EXCEPT ![p] = Idle])
      BY <2>3 DEF FailAttemptById, a
    <3>4. attempts' \in [Attempts -> AttemptRow] /\ poller' \in [Pollers -> PollerState]
      BY <2>i, <3>1, <3>2, <3>3, WriteType DEF Skip, TypeOK
    <3> QED
      BY <2>3, <3>4 DEF FailAttemptById, TypeOK, provider
  <2>4. CASE ChargeAttempt(p)
    <3>1. a \in Attempts
      BY <2>4 DEF ChargeAttempt, PollersNamed, Named, a
    <3>2. ASSUME NEW outcome \in Outcomes, NEW phase, NEW result,
                 FirstCharge(p, outcome, phase, result)
          PROVE  TypeOK'
      <4>1. intents[a].charged + (IF outcome = "succeeded" THEN 1 ELSE 0) \in Nat
        BY <3>1 DEF TypeOK, Intent
      <4>2. poller[p].card \in Cards \cup {Null}
        BY <2>0 DEF PollerState
      <4>3. intents' \in [Attempts -> Intent]
        BY <3>2, <4>1, <4>2 DEF TypeOK, Intent, FirstCharge, a
      <4>4. phase \in {"retry", "cardless", "record"} /\ result \in Outcomes \cup {Null}
        BY <3>2 DEF FirstCharge
      <4>5. poller' \in [Pollers -> PollerState]
        BY <2>0, <3>2, <4>4 DEF PollerState, FirstCharge
      <4>6. Sent(a, outcome) \subseteq EventKinds \X (Sessions \cup Attempts)
        BY <3>1 DEF EventKinds, Sent
      <4>7. events' \subseteq EventKinds \X (Sessions \cup Attempts) /\ unacked' \subseteq events'
        BY <3>2, <4>6 DEF TypeOK, FirstCharge, a
      <4> QED
        BY <2>4, <4>3, <4>5, <4>7 DEF ChargeAttempt, TypeOK
    <3>3. ASSUME NEW phase, NEW result, RepeatedCharge(p, phase, result) PROVE TypeOK'
      <4>1. phase \in {"retry", "cardless", "record"} /\ result \in Outcomes \cup {Null}
        BY <2>0, <3>1, <3>3 DEF RepeatedCharge, TypeOK, Intent, PollerState, a
      <4>2. poller' \in [Pollers -> PollerState]
        BY <2>0, <3>3, <4>1 DEF PollerState, RepeatedCharge
      <4> QED
        BY <2>4, <3>3, <4>2 DEF ChargeAttempt, TypeOK, RepeatedCharge
    <3> QED
      BY <2>4, <3>2, <3>3, ChargeCases
  <2>5. CASE RecordIntent(p)
    <3>1. a \in Attempts
      BY <2>5 DEF RecordIntent, PollersNamed, Named, a
    <3>2. [attempts[a] EXCEPT !.intent = TRUE] \in AttemptRow
      BY <3>1 DEF TypeOK, AttemptRow
    <3> DEFINE after == [poller EXCEPT ![p] = IF @.result = "succeeded"
                                      THEN Idle ELSE [@ EXCEPT !.phase = "fail"]]
    <3>3. [poller[p] EXCEPT !.phase = "fail"] \in PollerState
      BY <2>0 DEF PollerState
    <3>4. after \in [Pollers -> PollerState]
      BY <2>0, <3>3, IdleType
    <3>5. Write(a, [attempts[a] EXCEPT !.intent = TRUE], after) \/ Skip(after)
      BY <2>5 DEF RecordIntent, a
    <3> HIDE DEF after
    <3>6. attempts' \in [Attempts -> AttemptRow] /\ poller' \in [Pollers -> PollerState]
      BY <3>1, <3>2, <3>4, <3>5, WriteType DEF Skip, TypeOK
    <3> QED
      BY <2>5, <3>6 DEF RecordIntent, TypeOK, provider
  <2>6. CASE RecordFailure(p)
    <3>1. a \in Attempts
      BY <2>6 DEF RecordFailure, PollersNamed, Named, a
    <3> DEFINE back == [poller EXCEPT ![p] = IF @.result = "action"
                                      THEN [@ EXCEPT !.phase = "retry"] ELSE Idle]
    <3>2. [poller[p] EXCEPT !.phase = "retry"] \in PollerState
      BY <2>0 DEF PollerState
    <3>3. back \in [Pollers -> PollerState]
      BY <2>0, <3>2, IdleType
    <3>4. RecordedFailure(a, [poller EXCEPT ![p] = Idle]) \/ (Skip(back) /\ UNCHANGED settings)
      BY <2>6 DEF RecordFailure, a
    <3> HIDE DEF back
    <3>5. /\ attempts' \in [Attempts -> AttemptRow] /\ poller' \in [Pollers -> PollerState]
          /\ settings' \in Settings
      BY <1>10, <2>i, <3>1, <3>3, <3>4 DEF Skip, TypeOK
    <3> QED
      BY <2>6, <3>5 DEF RecordFailure, TypeOK, provider
  <2>7. CASE ResetToPending(p)
    <3>1. a \in Attempts
      BY <2>7 DEF ResetToPending, PollersNamed, Named, a
    <3>2. [attempts[a] EXCEPT !.status = "pending"] \in AttemptRow
      BY <3>1 DEF TypeOK, AttemptRow, Live
    <3>3. \/ Write(a, [attempts[a] EXCEPT !.status = "pending"], [poller EXCEPT ![p] = Idle])
          \/ Skip([poller EXCEPT ![p] = Idle])
      BY <2>7 DEF ResetToPending, a
    <3>4. attempts' \in [Attempts -> AttemptRow] /\ poller' \in [Pollers -> PollerState]
      BY <2>i, <3>1, <3>2, <3>3, WriteType DEF Skip, TypeOK
    <3> QED
      BY <2>7, <3>4 DEF ResetToPending, TypeOK, provider
  <2>8. CASE PollerDies(p)
    BY <2>i, <2>8 DEF PollerDies, TypeOK, provider
  <2> QED
    BY <1>12, <2>1, <2>2, <2>3, <2>4, <2>5, <2>6, <2>7, <2>8 DEF Poll
<1>13. CASE UNCHANGED vars
  BY <1>13 DEF vars, TypeOK
<1> QED
  BY <1>1, <1>2, <1>3, <1>4, <1>5, <1>6, <1>7, <1>8, <1>9, <1>11, <1>12, <1>13
     DEF Next, Webhook

\* Rows are never taken out of the table, and their amount never changes.
RowsKept ==
    \A a \in Attempts : attempts[a].status # "none" =>
       attempts'[a].status # "none" /\ attempts'[a].amount = attempts[a].amount

\* A write by a poller or the webhook keeps the rows and what the pollers hold.
LEMMA WriteKeeps ==
  ASSUME TypeOK, NEW a \in Attempts, NEW row \in AttemptRow,
         row.status # "none", row.amount = attempts[a].amount,
         NEW pollers \in [Pollers -> PollerState], Named(pollers),
         Write(a, row, pollers) \/ Skip(pollers)
  PROVE  RowsKept /\ PollersNamed'
<1>1. CASE Write(a, row, pollers)
  BY <1>1, WriteEffect DEF RowsKept, PollersNamed, Named
<1>2. CASE Skip(pollers)
  BY <1>2 DEF Skip, RowsKept, PollersNamed, Named
<1> QED
  BY <1>1, <1>2

\* Every step keeps the rows, and leaves no poller with a row that is not there.
LEMMA NamedStep ==
  ASSUME TypeOK, PollersNamed, [Next]_vars PROVE RowsKept /\ PollersNamed'
<1>0. attempts \in [Attempts -> AttemptRow] /\ poller \in [Pollers -> PollerState]
  BY DEF TypeOK
<1>1. CASE Debit
  <2>1. \A a \in Attempts : attempts[a].status # "none" => attempts'[a] = attempts[a]
    BY <1>1 DEF Debit, Unused
  <2> QED
    BY <1>1, <2>1 DEF Debit, RowsKept, PollersNamed, Named
<1>2. CASE UNCHANGED <<attempts, poller>>
  BY <1>2 DEF RowsKept, PollersNamed, Named
<1>3. ASSUME NEW a \in Attempts, NEW status \in {"succeeded", "failed"},
             Write(a, [attempts[a] EXCEPT !.status = status], poller) \/ Skip(poller)
      PROVE  RowsKept /\ PollersNamed'
  <2> DEFINE row == [attempts[a] EXCEPT !.status = status]
  <2>1. row \in AttemptRow /\ row.status # "none" /\ row.amount = attempts[a].amount
    BY <1>0 DEF AttemptRow
  <2> HIDE DEF row
  <2> QED
    BY <1>0, <1>3, <2>1, WriteKeeps DEF PollersNamed, row
<1>4. ASSUME NEW a \in Attempts, HandleAutoRechargeSucceeded(a) PROVE RowsKept /\ PollersNamed'
  BY <1>3, <1>4 DEF HandleAutoRechargeSucceeded
<1>5. ASSUME NEW a \in Attempts, HandleAutoRechargeFailed(a) PROVE RowsKept /\ PollersNamed'
  BY <1>3, <1>5 DEF HandleAutoRechargeFailed, RecordedFailure
<1>6. ASSUME NEW p \in Pollers, Poll(p) PROVE RowsKept /\ PollersNamed'
  <2> DEFINE a == poller[p].attempt
             idle == [poller EXCEPT ![p] = Idle]
  <2>1. idle \in [Pollers -> PollerState] /\ Named(idle)
    BY <1>0, IdleType DEF PollersNamed, Named, Idle
  <2>2. poller[p].phase # "idle" => a \in Attempts /\ attempts[a].status # "none"
    BY DEF PollersNamed, Named
  <2>3. ASSUME NEW phase, NEW result,
               poller' = [poller EXCEPT ![p].phase = phase, ![p].result = result],
               UNCHANGED attempts, poller[p].phase # "idle"
        PROVE  RowsKept /\ PollersNamed'
    BY <1>0, <2>2, <2>3 DEF RowsKept, PollersNamed, Named, PollerState
  <2>4. ASSUME UNCHANGED attempts, poller' = idle PROVE RowsKept /\ PollersNamed'
    BY <2>1, <2>4 DEF RowsKept, PollersNamed, Named
  <2>5. ASSUME NEW status \in {"failed", "pending", "processing", "succeeded"},
               a \in Attempts, NEW pollers \in [Pollers -> PollerState], Named(pollers),
               \/ Write(a, [attempts[a] EXCEPT !.status = status], pollers)
               \/ Write(a, [attempts[a] EXCEPT !.intent = TRUE], pollers)
                     /\ attempts[a].status # "none"
               \/ Skip(pollers)
        PROVE  RowsKept /\ PollersNamed'
    <3> DEFINE row == [attempts[a] EXCEPT !.status = status]
               marked == [attempts[a] EXCEPT !.intent = TRUE]
    <3>1. row \in AttemptRow /\ row.status # "none" /\ row.amount = attempts[a].amount
      BY <1>0, <2>5 DEF AttemptRow, Live
    <3>2. marked \in AttemptRow /\ marked.status = attempts[a].status
          /\ marked.amount = attempts[a].amount
      BY <1>0, <2>5 DEF AttemptRow, Live
    <3>3. Write(a, row, pollers) \/ (Write(a, marked, pollers) /\ attempts[a].status # "none")
          \/ Skip(pollers)
      BY <2>5
    <3> HIDE DEF row, marked, a
    <3> QED
      BY <2>5, <3>1, <3>2, <3>3, WriteKeeps
  <2> HIDE DEF a, idle
  <2>6. CASE LoadCandidates(p)
    <3>1. PICK b \in Attempts, card \in {settings.card, Null} :
            /\ Candidate(b)
            /\ poller' = [poller EXCEPT ![p] =
                [Idle EXCEPT !.phase = "loaded", !.attempt = b,
                             !.fresh = TRUE, !.card = card]]
      BY <2>6 DEF LoadCandidates
    <3>2. attempts[b].status # "none"
      BY <3>1 DEF Candidate
    <3> QED
      BY <1>0, <2>6, <3>1, <3>2 DEF LoadCandidates, RowsKept, PollersNamed, Named, Idle
  <2>7. CASE ClaimAttempt(p)
    <3> DEFINE working == [poller[p] EXCEPT !.since = clock,
                  !.phase = IF poller[p].card = Null THEN "cardless" ELSE "charge"]
               pollers == [poller EXCEPT ![p] = working]
    <3>1. working \in PollerState /\ working.attempt = a
      <4>1. clock \in Nat
        BY RechargeConstants DEF TypeOK
      <4> QED
        BY <1>0, <4>1 DEF PollerState, a
    <3>2. a \in Attempts /\ attempts[a].status # "none"
      BY <2>2, <2>7 DEF ClaimAttempt
    <3>3. pollers \in [Pollers -> PollerState] /\ Named(pollers)
      <4> HIDE DEF working
      <4> QED
        BY <1>0, <3>1, <3>2 DEF PollersNamed, Named
    <3>4. \/ Write(a, [attempts[a] EXCEPT !.status = "processing"], pollers)
          \/ Skip(idle)
      BY <2>7 DEF ClaimAttempt, a, idle
    <3> HIDE DEF working, pollers
    <3> QED
      BY <2>1, <2>5, <3>2, <3>3, <3>4
  <2>8. CASE FailAttemptById(p)
    BY <2>1, <2>2, <2>5, <2>8 DEF FailAttemptById, a, idle
  <2>9. CASE ChargeAttempt(p)
    <3>1. PICK phase, result :
            \/ \E outcome \in Outcomes : FirstCharge(p, outcome, phase, result)
            \/ RepeatedCharge(p, phase, result)
      BY <2>9, ChargeCases
    <3>2. poller' = [poller EXCEPT ![p].phase = phase, ![p].result = result]
      BY <3>1 DEF FirstCharge, RepeatedCharge
    <3>3. UNCHANGED attempts /\ poller[p].phase # "idle"
      BY <2>9 DEF ChargeAttempt
    <3> QED
      BY <2>3, <3>2, <3>3
  <2>10. CASE RecordIntent(p)
    <3> DEFINE after == [poller EXCEPT ![p] = IF @.result = "succeeded"
                                      THEN Idle ELSE [@ EXCEPT !.phase = "fail"]]
    <3>1. a \in Attempts /\ attempts[a].status # "none"
      BY <2>2, <2>10 DEF RecordIntent
    <3>2. after \in [Pollers -> PollerState] /\ Named(after)
      BY <1>0, <3>1, IdleType DEF PollerState, PollersNamed, Named, Idle, a
    <3>3. Write(a, [attempts[a] EXCEPT !.intent = TRUE], after) \/ Skip(after)
      BY <2>10 DEF RecordIntent, a
    <3> HIDE DEF after
    <3> QED
      BY <2>5, <3>1, <3>2, <3>3
  <2>11. CASE RecordFailure(p)
    <3> DEFINE back == [poller EXCEPT ![p] = IF @.result = "action"
                                      THEN [@ EXCEPT !.phase = "retry"] ELSE Idle]
    <3>1. a \in Attempts /\ attempts[a].status # "none"
      BY <2>2, <2>11 DEF RecordFailure
    <3>2. back \in [Pollers -> PollerState] /\ Named(back)
      BY <1>0, <3>1, IdleType DEF PollerState, PollersNamed, Named, Idle, a
    <3>3. Write(a, [attempts[a] EXCEPT !.status = "failed"], idle) \/ Skip(idle) \/ Skip(back)
      BY <2>11 DEF RecordFailure, RecordedFailure, a, idle
    <3> HIDE DEF back
    <3> QED
      BY <2>1, <2>5, <3>1, <3>2, <3>3
  <2>12. CASE ResetToPending(p)
    BY <2>1, <2>2, <2>5, <2>12 DEF ResetToPending, a, idle
  <2>13. CASE PollerDies(p)
    BY <2>4, <2>13 DEF PollerDies, idle
  <2> QED
    BY <1>6, <2>6, <2>7, <2>8, <2>9, <2>10, <2>11, <2>12, <2>13 DEF Poll
<1> QED
  BY <1>1, <1>2, <1>4, <1>5, <1>6
     DEF Next, Webhook, SaveSettings, Tick, CreateSession, CompleteSession,
         HandleCheckoutCompleted, PersistAutoRecharge, WebhookDies, vars
-----------------------------------------------------------------------------
(* Charges and the ledger.                                                 *)

\* Rows that are written keep what the provider told about them; a row gets a
\* PaymentIntent id only once its intent was answered.
RowsMarked ==
    \A a \in Attempts :
       attempts'[a].intent => \/ attempts[a].intent
                              \/ intents[a].state \in {"succeeded", "declined", "action"}

\* Pollers that hold an answer after the step held the outcome before it.
LEMMA MarkedStep ==
  ASSUME TypeOK, PollersNamed, AnswersHeld, [Next]_vars PROVE RowsMarked
<1>0. attempts \in [Attempts -> AttemptRow] /\ poller \in [Pollers -> PollerState]
  BY DEF TypeOK
<1>1. CASE Debit
  BY <1>1 DEF Debit, Enqueued, NoAttempt, RowsMarked
<1>2. CASE UNCHANGED attempts
  BY <1>2 DEF RowsMarked
<1>3. ASSUME NEW a \in Attempts, NEW status \in {"failed", "pending", "processing", "succeeded"},
             NEW pollers \in [Pollers -> PollerState],
             Write(a, [attempts[a] EXCEPT !.status = status], pollers)
      PROVE  RowsMarked
  <2> DEFINE row == [attempts[a] EXCEPT !.status = status]
  <2>1. row \in AttemptRow /\ row.intent = attempts[a].intent
    BY <1>0 DEF AttemptRow, Live
  <2> HIDE DEF row
  <2>2. Write(a, row, pollers)
    BY <1>3 DEF row
  <2> QED
    BY <2>1, <2>2, WriteEffect DEF RowsMarked
<1>4. ASSUME NEW a \in Attempts, HandleAutoRechargeSucceeded(a) PROVE RowsMarked
  BY <1>0, <1>2, <1>3, <1>4 DEF HandleAutoRechargeSucceeded, Skip
<1>5. ASSUME NEW a \in Attempts, HandleAutoRechargeFailed(a) PROVE RowsMarked
  BY <1>0, <1>2, <1>3, <1>5 DEF HandleAutoRechargeFailed, RecordedFailure, Skip
<1>6. ASSUME NEW p \in Pollers, Poll(p) PROVE RowsMarked
  <2> DEFINE a == poller[p].attempt
             idle == [poller EXCEPT ![p] = Idle]
  <2>1. idle \in [Pollers -> PollerState]
    BY <1>0, IdleType
  <2>2. poller[p].phase # "idle" => a \in Attempts
    BY SMTT(30) DEF PollersNamed, Named
  <2> HIDE DEF a, idle
  <2>3. CASE LoadCandidates(p) \/ ChargeAttempt(p) \/ PollerDies(p)
    BY <1>2, <2>3 DEF LoadCandidates, ChargeAttempt, PollerDies
  <2>4. CASE ClaimAttempt(p)
    <3> DEFINE working == [poller[p] EXCEPT !.since = clock,
                  !.phase = IF poller[p].card = Null THEN "cardless" ELSE "charge"]
               pollers == [poller EXCEPT ![p] = working]
    <3>1. working \in PollerState
      <4>1. clock \in Nat
        BY RechargeConstants DEF TypeOK
      <4> QED
        BY <1>0, <4>1 DEF PollerState
    <3>2. pollers \in [Pollers -> PollerState]
      BY <1>0, <3>1
    <3>3. \/ Write(a, [attempts[a] EXCEPT !.status = "processing"], pollers)
          \/ Skip(idle)
      BY <2>4 DEF ClaimAttempt, a, idle
    <3>4. a \in Attempts
      BY <2>2, <2>4 DEF ClaimAttempt
    <3> HIDE DEF working, pollers
    <3> QED
      BY <1>2, <1>3, <3>2, <3>3, <3>4 DEF Skip
  <2>5. CASE FailAttemptById(p)
    BY <1>2, <1>3, <2>1, <2>2, <2>5 DEF FailAttemptById, Skip, a, idle
  <2>6. CASE ResetToPending(p)
    BY <1>2, <1>3, <2>1, <2>2, <2>6 DEF ResetToPending, Skip, a, idle
  <2>7. CASE RecordFailure(p)
    BY <1>2, <1>3, <2>1, <2>2, <2>7 DEF RecordFailure, RecordedFailure, Skip, a, idle
  <2>8. CASE RecordIntent(p)
    <3>1. a \in Attempts /\ intents[a].state \in {"succeeded", "declined", "action"}
      BY <2>2, <2>8 DEF RecordIntent, AnswersHeld, a
    <3>2. \A b \in Attempts \ {a} : attempts'[b] = attempts[b]
      BY <1>0, <2>8 DEF RecordIntent, Write, Skip, a
    <3> QED
      BY <3>1, <3>2 DEF RowsMarked
  <2> QED
    BY <1>6, <2>3, <2>4, <2>5, <2>6, <2>7, <2>8 DEF Poll
<1> QED
  BY <1>1, <1>2, <1>4, <1>5, <1>6
     DEF Next, Webhook, SaveSettings, Tick, CreateSession, CompleteSession,
         HandleCheckoutCompleted, PersistAutoRecharge, WebhookDies, vars

\* The provider's memory changes with the first request under a key only, and
\* nobody else speaks of charges.
ProviderKept ==
    /\ UNCHANGED intents
    /\ \A a \in Attempts : /\ <<"succeeded", a>> \in events' => <<"succeeded", a>> \in events
                           /\ <<"failed", a>> \in events' => <<"failed", a>> \in events

\* A step is the first request under some attempt's key, or keeps what the
\* provider remembers and told.
LEMMA ProviderStep ==
  ASSUME TypeOK, [Next]_vars
  PROVE  \/ ProviderKept
         \/ \E p \in Pollers, outcome \in Outcomes : \E phase, result :
               ChargeAttempt(p) /\ FirstCharge(p, outcome, phase, result)
<1>1. CASE UNCHANGED <<intents, events>>
  BY <1>1 DEF ProviderKept
<1>2. ASSUME NEW s \in Sessions, CompleteSession(s) PROVE ProviderKept
  BY <1>2 DEF CompleteSession, ProviderKept
<1>3. ASSUME NEW p \in Pollers, ChargeAttempt(p)
      PROVE  \/ ProviderKept
             \/ \E outcome \in Outcomes : \E phase, result : FirstCharge(p, outcome, phase, result)
  <2>1. PICK phase, result :
          \/ \E outcome \in Outcomes : FirstCharge(p, outcome, phase, result)
          \/ RepeatedCharge(p, phase, result)
    BY <1>3, ChargeCases
  <2>2. CASE RepeatedCharge(p, phase, result)
    BY <2>2 DEF RepeatedCharge, ProviderKept
  <2> QED
    BY <2>1, <2>2
<1>4. ASSUME NEW p \in Pollers, Poll(p), ~ChargeAttempt(p) PROVE UNCHANGED <<intents, events>>
  BY <1>4 DEF Poll, LoadCandidates, ClaimAttempt, FailAttemptById, RecordIntent,
              RecordFailure, ResetToPending, PollerDies, provider
<1> QED
  BY <1>1, <1>2, <1>3, <1>4
     DEF Next, Webhook, Debit, SaveSettings, Tick, CreateSession,
         HandleCheckoutCompleted, PersistAutoRecharge, WebhookDies,
         HandleAutoRechargeSucceeded, HandleAutoRechargeFailed, provider, vars

\* One charge per key, told as it was.
LEMMA ToldStep ==
  ASSUME TypeOK, PollersNamed, Told, [Next]_vars PROVE ProviderTold'
<1>1. RowsKept /\ RowsMarked
  BY NamedStep, MarkedStep DEF Told
<1>2. CASE ProviderKept
  BY <1>1, <1>2 DEF Told, ProviderTold, ProviderKept, RowsKept, RowsMarked
<1>3. ASSUME NEW p \in Pollers, NEW outcome \in Outcomes, NEW phase, NEW result,
             ChargeAttempt(p), FirstCharge(p, outcome, phase, result)
      PROVE  ProviderTold'
  <2> DEFINE a == poller[p].attempt
  <2>1. a \in Attempts /\ attempts[a].status # "none"
    BY <1>3 DEF ChargeAttempt, PollersNamed, Named
  <2>2. intents[a].state = "none" /\ intents[a].charged = 0
    BY <1>3, <2>1 DEF FirstCharge, Told, ProviderTold
  <2>3. /\ intents'[a].state = outcome
        /\ intents'[a].charged = IF outcome = "succeeded" THEN 1 ELSE 0
        /\ \A b \in Attempts \ {a} : intents'[b] = intents[b]
    BY <1>3, <2>1, <2>2 DEF FirstCharge, TypeOK
  <2>4. UNCHANGED attempts /\ events' = events \cup Sent(a, outcome)
    BY <1>3 DEF ChargeAttempt, FirstCharge
  <2> HIDE DEF a
  <2> QED
    BY <2>1, <2>2, <2>3, <2>4 DEF Told, ProviderTold, Sent, Outcomes
<1> QED
  BY <1>2, <1>3, ProviderStep

\* Every answer a poller holds stays the recorded one.
LEMMA AnswersStep ==
  ASSUME TypeOK, PollersNamed, Told, [Next]_vars PROVE AnswersHeld'
<1>0. attempts \in [Attempts -> AttemptRow] /\ poller \in [Pollers -> PollerState]
  BY DEF TypeOK
<1>1. \A a \in Attempts : intents[a].state # "none" => intents'[a].state = intents[a].state
  BY ZenonT(60), ProviderStep DEF ProviderKept, FirstCharge, TypeOK
<1>2. ASSUME NEW q \in Pollers, poller'[q].phase = poller[q].phase,
             poller'[q].attempt = poller[q].attempt, poller'[q].result = poller[q].result,
             poller'[q].phase \in {"record", "fail"}
      PROVE  /\ poller'[q].result = intents'[poller'[q].attempt].state
             /\ poller'[q].result \in {"succeeded", "declined", "action"}
             /\ poller'[q].phase = "fail" => poller'[q].result # "succeeded"
  BY <1>1, <1>2 DEF Told, AnswersHeld, PollersNamed, Named
<1> DEFINE Same(q) == /\ poller'[q].phase = poller[q].phase
                      /\ poller'[q].attempt = poller[q].attempt
                      /\ poller'[q].result = poller[q].result
           Silent(q) == poller'[q].phase \notin {"record", "fail"}
<1>3. (\A q \in Pollers : Same(q) \/ Silent(q)) => AnswersHeld'
  BY <1>2 DEF AnswersHeld
<1>4. ASSUME NEW a \in Attempts, NEW pollers \in [Pollers -> PollerState],
             NEW status \in {"failed", "pending", "processing", "succeeded"},
             \/ Write(a, [attempts[a] EXCEPT !.status = status], pollers)
             \/ Write(a, [attempts[a] EXCEPT !.intent = TRUE], pollers)
             \/ Skip(pollers)
      PROVE  \A q \in Pollers : /\ poller'[q].phase = pollers[q].phase
                                /\ poller'[q].attempt = pollers[q].attempt
                                /\ poller'[q].result = pollers[q].result
  <2>1. /\ [attempts[a] EXCEPT !.status = status] \in AttemptRow
        /\ [attempts[a] EXCEPT !.intent = TRUE] \in AttemptRow
    BY <1>0 DEF AttemptRow, Live
  <2> QED
    BY <1>4, <2>1, WriteEffect DEF Skip
<1> HIDE DEF Same, Silent
<1>5. CASE UNCHANGED poller
  BY <1>3, <1>5 DEF Same
<1>6. ASSUME NEW a \in Attempts, HandleAutoRechargeSucceeded(a) PROVE AnswersHeld'
  BY <1>0, <1>3, <1>4, <1>6 DEF HandleAutoRechargeSucceeded, Same
<1>7. ASSUME NEW a \in Attempts, HandleAutoRechargeFailed(a) PROVE AnswersHeld'
  BY <1>0, <1>3, <1>4, <1>7 DEF HandleAutoRechargeFailed, RecordedFailure, Same
<1>8. ASSUME NEW p \in Pollers, Poll(p) PROVE AnswersHeld'
  <2> DEFINE a == poller[p].attempt
             idle == [poller EXCEPT ![p] = Idle]
  <2>1. idle \in [Pollers -> PollerState]
    BY <1>0, IdleType
  <2>2. poller[p].phase # "idle" => a \in Attempts
    BY DEF PollersNamed, Named
  <2>3. ASSUME \A q \in Pollers : /\ poller'[q].phase = idle[q].phase
                                  /\ poller'[q].attempt = idle[q].attempt
                                  /\ poller'[q].result = idle[q].result
        PROVE  AnswersHeld'
    BY <1>0, <1>3, <2>3 DEF Same, Silent, Idle
  <2>4. ASSUME a \in Attempts, NEW status \in {"failed", "pending", "processing", "succeeded"},
               Write(a, [attempts[a] EXCEPT !.status = status], idle) \/ Skip(idle)
        PROVE  AnswersHeld'
    <3> HIDE DEF a, idle
    <3> QED
      BY <1>4, <2>1, <2>3, <2>4
  <2>5. CASE LoadCandidates(p)
    BY <1>0, <1>3, <2>5 DEF LoadCandidates, Same, Silent, Idle
  <2>6. CASE ClaimAttempt(p)
    <3> DEFINE working == [poller[p] EXCEPT !.since = clock,
                  !.phase = IF poller[p].card = Null THEN "cardless" ELSE "charge"]
               pollers == [poller EXCEPT ![p] = working]
    <3>1. working \in PollerState /\ working.phase \in {"cardless", "charge"}
      <4>1. clock \in Nat
        BY RechargeConstants DEF TypeOK
      <4> QED
        BY <1>0, <4>1 DEF PollerState
    <3>2. pollers \in [Pollers -> PollerState]
      BY <1>0, <3>1
    <3>3. \/ Write(a, [attempts[a] EXCEPT !.status = "processing"], pollers)
          \/ Skip(idle)
      BY <2>6 DEF ClaimAttempt
    <3>4. a \in Attempts
      BY <2>2, <2>6 DEF ClaimAttempt
    <3>5. \A q \in Pollers : pollers[q] = poller[q] \/ pollers[q].phase \in {"cardless", "charge"}
      BY <1>0, <3>1
    <3> HIDE DEF working, pollers, a, idle
    <3>6. CASE Skip(idle)
      BY <2>4, <3>4, <3>6
    <3>7. CASE Write(a, [attempts[a] EXCEPT !.status = "processing"], pollers)
      <4>1. \A q \in Pollers : /\ poller'[q].phase = pollers[q].phase
                               /\ poller'[q].attempt = pollers[q].attempt
                               /\ poller'[q].result = pollers[q].result
        BY <1>4, <3>2, <3>4, <3>7
      <4> QED
        BY <1>3, <3>5, <4>1 DEF Same, Silent
    <3> QED
      BY <3>3, <3>6, <3>7
  <2>7. CASE FailAttemptById(p)
    BY <2>2, <2>4, <2>7 DEF FailAttemptById
  <2>8. CASE ChargeAttempt(p)
    <3>1. PICK phase, result :
            \/ \E outcome \in Outcomes : FirstCharge(p, outcome, phase, result)
            \/ RepeatedCharge(p, phase, result)
      BY <2>8, ChargeCases
    <3>2. /\ poller'[p].phase = phase /\ poller'[p].result = result
          /\ poller'[p].attempt = a
          /\ \A q \in Pollers \ {p} : poller'[q] = poller[q]
      BY ZenonT(60), <1>0, <3>1 DEF FirstCharge, RepeatedCharge, PollerState
    <3>3. a \in Attempts
      BY <2>2, <2>8 DEF ChargeAttempt
    <3>4. phase = "record" => /\ result = intents'[a].state
                              /\ result \in {"succeeded", "declined", "action"}
      BY <3>1, <3>3 DEF FirstCharge, RepeatedCharge, Outcomes, TypeOK, Intent
    <3>5. phase # "fail"
      BY <3>1 DEF FirstCharge, RepeatedCharge
    <3>6. \A q \in Pollers \ {p} : poller'[q].phase \in {"record", "fail"} =>
             /\ poller'[q].result = intents'[poller'[q].attempt].state
             /\ poller'[q].result \in {"succeeded", "declined", "action"}
             /\ poller'[q].phase = "fail" => poller'[q].result # "succeeded"
      BY <1>2, <3>2
    <3> QED
      BY <3>2, <3>4, <3>5, <3>6 DEF AnswersHeld
  <2>9. CASE RecordIntent(p)
    <3> DEFINE after == [poller EXCEPT ![p] = IF @.result = "succeeded"
                                      THEN Idle ELSE [@ EXCEPT !.phase = "fail"]]
    <3>1. a \in Attempts
      BY <2>2, <2>9 DEF RecordIntent
    <3>2. after \in [Pollers -> PollerState]
      BY <1>0, IdleType DEF PollerState
    <3>3. \A q \in Pollers : /\ poller'[q].phase = after[q].phase
                             /\ poller'[q].attempt = after[q].attempt
                             /\ poller'[q].result = after[q].result
      <4>1. Write(a, [attempts[a] EXCEPT !.intent = TRUE], after) \/ Skip(after)
        BY <2>9 DEF RecordIntent
      <4> HIDE DEF after, a
      <4> QED
        BY <1>4, <3>1, <3>2, <4>1
    <3>4. \A q \in Pollers \ {p} : after[q] = poller[q]
      BY <1>0
    <3>5. \/ after[p] = Idle
          \/ /\ after[p].phase = "fail" /\ after[p].attempt = a
             /\ after[p].result = poller[p].result /\ poller[p].result # "succeeded"
      BY <1>0 DEF PollerState
    <3>6. /\ poller[p].result = intents[a].state
          /\ poller[p].result \in {"succeeded", "declined", "action"}
      BY <2>9 DEF RecordIntent, Told, AnswersHeld
    <3>7. intents'[a].state = intents[a].state
      BY <1>1, <3>1, <3>6
    <3> HIDE DEF after, a
    <3> QED
      BY <1>2, <3>3, <3>4, <3>5, <3>6, <3>7 DEF AnswersHeld, Idle
  <2>10. CASE RecordFailure(p)
    <3> DEFINE back == [poller EXCEPT ![p] = IF @.result = "action"
                                      THEN [@ EXCEPT !.phase = "retry"] ELSE Idle]
    <3>1. a \in Attempts
      BY <2>2, <2>10 DEF RecordFailure
    <3>2. \A q \in Pollers : back[q] = poller[q] \/ back[q].phase \in {"retry", "idle"}
      BY <1>0 DEF PollerState, Idle
    <3>3. Write(a, [attempts[a] EXCEPT !.status = "failed"], idle) \/ Skip(idle) \/ Skip(back)
      BY <2>10 DEF RecordFailure, RecordedFailure
    <3> HIDE DEF back, a, idle
    <3>4. CASE Skip(back)
      BY <1>3, <3>2, <3>4 DEF Skip, Same, Silent
    <3> QED
      BY <2>4, <3>1, <3>3, <3>4
  <2>11. CASE ResetToPending(p)
    BY <2>2, <2>4, <2>11 DEF ResetToPending
  <2>12. CASE PollerDies(p)
    BY SMTT(30), <2>3, <2>12 DEF PollerDies
  <2> QED
    BY <1>8, <2>5, <2>6, <2>7, <2>8, <2>9, <2>10, <2>11, <2>12 DEF Poll
<1> QED
  BY <1>5, <1>6, <1>7, <1>8
     DEF Next, Webhook, Debit, SaveSettings, Tick, CreateSession, CompleteSession,
         HandleCheckoutCompleted, PersistAutoRecharge, WebhookDies, vars

\* The ledger follows collected payments, whichever events are repeated.
LEMMA LedgerStep ==
  ASSUME TypeOK, PollersNamed, Told, [Next]_vars PROVE LedgerPaid'
<1>1. \A a \in Attempts : intents[a].state # "none" => intents'[a].state = intents[a].state
  BY ProviderStep DEF ProviderKept, FirstCharge, TypeOK
<1>2. CASE UNCHANGED <<ledger, sessions>>
  BY <1>1, <1>2 DEF Told, LedgerPaid
<1>3. ASSUME NEW s \in Sessions, CreateSession(s) PROVE LedgerPaid'
  BY <1>1, <1>3 DEF CreateSession, Told, LedgerPaid, TypeOK
<1>4. ASSUME NEW s \in Sessions, CompleteSession(s) PROVE LedgerPaid'
  <2>1. PICK card \in Cards, state \in {"paid", "unpaid"} :
          sessions' = [sessions EXCEPT ![s].state = state, ![s].card = card]
    BY <1>4 DEF CompleteSession
  <2>2. \A t \in Sessions \ {s} : sessions'[t] = sessions[t]
    BY <2>1 DEF TypeOK
  <2>3. s \notin ledger
    BY <1>4 DEF CompleteSession, Told, LedgerPaid
  <2> QED
    BY <1>1, <1>4, <2>2, <2>3 DEF CompleteSession, Told, LedgerPaid
<1>5. ASSUME NEW s \in Sessions, HandleCheckoutCompleted(s) PROVE LedgerPaid'
  <2>1. /\ UNCHANGED sessions
        /\ \/ UNCHANGED ledger
           \/ ledger' = ledger \cup {s} /\ sessions[s].state = "paid"
    BY <1>5 DEF HandleCheckoutCompleted, Mints, Credited, provider
  <2>2. s \notin Attempts
    BY RechargeConstants
  <2> QED
    BY <1>1, <2>1, <2>2 DEF Told, LedgerPaid
<1>6. ASSUME NEW a \in Attempts, HandleAutoRechargeSucceeded(a) PROVE LedgerPaid'
  <2>1. UNCHANGED sessions /\ ledger' = ledger \cup {a}
    BY <1>6 DEF HandleAutoRechargeSucceeded, Credited, provider
  <2>2. a \notin Sessions /\ intents[a].state = "succeeded"
    BY <1>6, RechargeConstants DEF HandleAutoRechargeSucceeded, Told, ProviderTold
  <2> QED
    BY <1>1, <2>1, <2>2 DEF Told, LedgerPaid
<1> QED
  BY <1>2, <1>3, <1>4, <1>5, <1>6
     DEF Next, Webhook, Debit, SaveSettings, Tick, PersistAutoRecharge, WebhookDies,
         HandleAutoRechargeFailed, Poll, LoadCandidates, ClaimAttempt, FailAttemptById,
         ChargeAttempt, RecordIntent, RecordFailure, ResetToPending, PollerDies, provider, vars

\* What holds of charges and ledger without any assumption on the lease.
MoneyInv == TypeOK /\ PollersNamed /\ Told

\* The invariant holds before anything was charged.
LEMMA MoneyInit == Init => MoneyInv
<1> SUFFICES ASSUME Init PROVE MoneyInv
  OBVIOUS
<1>1. settings \in Settings
  <2>1. PICK amount \in Amounts :
          settings = [enabled |-> TRUE, card |-> Null, amount |-> amount,
                      failures |-> 0, lastFailure |-> Null, lastRecharge |-> Null]
    BY DEF Init
  <2> QED
    BY <2>1 DEF Settings
<1>2. attempts \in [Attempts -> AttemptRow] /\ intents \in [Attempts -> Intent]
  BY DEF Init, NoAttempt, AttemptRow, Intent
<1>3. poller \in [Pollers -> PollerState] /\ PollersNamed
  BY IdleType DEF Init, PollersNamed, Named, Idle
<1>4. TypeOK
  BY <1>1, <1>2, <1>3, RechargeConstants DEF Init, TypeOK
<1>5. Told
  BY DEF Init, Told, ProviderTold, AnswersHeld, LedgerPaid, NoAttempt, Idle
<1> QED
  BY <1>3, <1>4, <1>5 DEF MoneyInv

\* Every step keeps it.
LEMMA MoneyStep == MoneyInv /\ [Next]_vars => MoneyInv'
  BY TypeStep, NamedStep, ToldStep, AnswersStep, LedgerStep DEF MoneyInv, Told

\* It always holds, whatever the lease.
LEMMA MoneyHeld == Spec => []MoneyInv
  BY MoneyInit, MoneyStep, PTL DEF Spec

\* Rows, settings, sessions, intents, events and pollers always hold values of
\* their types, whichever writes are lost.
THEOREM RechargeTypeCorrect == Spec => []TypeOK
<1>1. MoneyInv => TypeOK
  BY DEF MoneyInv
<1> QED
  BY <1>1, MoneyHeld, PTL

\* An attempt that is retried, taken over after its lease or reset after a lost
\* response charges the card at most once, whatever the lease.
THEOREM ChargedOnce == Spec => []ChargedOncePerAttempt
<1>1. MoneyInv => ChargedOncePerAttempt
  <2>1. MoneyInv => \A a \in Attempts : intents[a].charged \in {0, 1}
    BY DEF MoneyInv, Told, ProviderTold
  <2>2. \A n \in {0, 1} : n <= 1
    OBVIOUS
  <2> QED
    BY <2>1, <2>2 DEF ChargedOncePerAttempt
<1> QED
  BY <1>1, MoneyHeld, PTL
-----------------------------------------------------------------------------
(* The safety part of the refinement of CreditedPayments.                  *)

\* Nothing is collected or credited at the start; a step collects one payment,
\* credits one collected payment that was not credited yet, or does neither.
BooksKept == Books!Init /\ [][Books!Next]_<<Collected, ledger>>

\* A session that is paid or an intent that succeeds is one new payment.
LEMMA BooksStep ==
  ASSUME MoneyInv, [Next]_vars PROVE [Books!Next]_<<Collected, ledger>>
<1> USE DEF MoneyInv
<1>1. CASE UNCHANGED <<sessions, intents, ledger>>
  BY <1>1 DEF Collected
<1>2. ASSUME NEW s \in Sessions, CreateSession(s) PROVE UNCHANGED <<Collected, ledger>>
  BY <1>2 DEF CreateSession, Collected, TypeOK
<1>3. ASSUME NEW s \in Sessions, CompleteSession(s) PROVE [Books!Next]_<<Collected, ledger>>
  <2>1. PICK card \in Cards, state \in {"paid", "unpaid"} :
          sessions' = [sessions EXCEPT ![s].state = state, ![s].card = card]
    BY <1>3 DEF CompleteSession
  <2>2. /\ \A t \in Sessions \ {s} : sessions'[t] = sessions[t]
        /\ sessions'[s].state = state /\ sessions[s].state = "open"
        /\ UNCHANGED <<intents, ledger>>
    BY <1>3, <2>1 DEF CompleteSession, TypeOK
  <2>3. s \notin Collected
    BY <2>2, RechargeConstants DEF Collected
  <2>4. CASE state = "paid"
    <3>1. Collected' = Collected \cup {s}
      BY <2>2, <2>4 DEF Collected
    <3> QED
      BY <2>2, <2>3, <3>1 DEF Books!Next, Books!Receive
  <2>5. CASE state = "unpaid"
    <3>1. Collected' = Collected
      BY <2>2, <2>5 DEF Collected
    <3> QED
      BY <2>2, <3>1
  <2> QED
    BY <2>4, <2>5
<1>4. ASSUME NEW p \in Pollers, NEW outcome \in Outcomes, NEW phase, NEW result,
             ChargeAttempt(p), FirstCharge(p, outcome, phase, result)
      PROVE  [Books!Next]_<<Collected, ledger>>
  <2> DEFINE a == poller[p].attempt
  <2>1. a \in Attempts /\ UNCHANGED <<sessions, ledger>>
    BY <1>4 DEF ChargeAttempt, PollersNamed, Named
  <2>2. intents[a].charged = 0
    BY <1>4, <2>1 DEF FirstCharge, Told, ProviderTold
  <2>3. /\ intents'[a].charged = IF outcome = "succeeded" THEN 1 ELSE 0
        /\ \A b \in Attempts \ {a} : intents'[b] = intents[b]
    BY <1>4, <2>1, <2>2 DEF FirstCharge, TypeOK
  <2>4. a \notin Collected
    BY <2>1, <2>2, RechargeConstants DEF Collected
  <2> HIDE DEF a
  <2>5. CASE outcome = "succeeded"
    <3>1. Collected' = Collected \cup {a}
      BY <2>1, <2>3, <2>5 DEF Collected
    <3> QED
      BY <2>1, <2>4, <3>1 DEF Books!Next, Books!Receive
  <2>6. CASE outcome # "succeeded"
    <3>1. Collected' = Collected
      BY <2>1, <2>2, <2>3, <2>6 DEF Collected
    <3> QED
      BY <2>1, <3>1
  <2> QED
    BY <2>5, <2>6
<1>5. ASSUME NEW ref \in Collected, ref \in Sessions \cup Attempts, ledger' = ledger \cup {ref},
             UNCHANGED <<sessions, intents>>
      PROVE  [Books!Next]_<<Collected, ledger>>
  <2>1. Collected' = Collected
    BY <1>5 DEF Collected
  <2> QED
    BY <1>5, <2>1 DEF Books!Next, Books!Credit
<1>6. ASSUME NEW s \in Sessions, HandleCheckoutCompleted(s)
      PROVE  [Books!Next]_<<Collected, ledger>>
  <2>1. /\ UNCHANGED <<sessions, intents>>
        /\ \/ UNCHANGED ledger
           \/ ledger' = ledger \cup {s} /\ s \in Collected
    BY <1>6 DEF HandleCheckoutCompleted, Mints, Credited, Collected, provider
  <2> QED
    BY <1>1, <1>5, <2>1
<1>7. ASSUME NEW a \in Attempts, HandleAutoRechargeSucceeded(a)
      PROVE  [Books!Next]_<<Collected, ledger>>
  <2>1. UNCHANGED <<sessions, intents>> /\ ledger' = ledger \cup {a}
    BY <1>7 DEF HandleAutoRechargeSucceeded, Credited, provider
  <2>2. a \in Collected
    <3>1. intents[a].state = "succeeded"
      BY <1>7 DEF HandleAutoRechargeSucceeded, Told, ProviderTold
    <3>2. intents[a].charged = 1
      BY <3>1 DEF Told, ProviderTold
    <3> QED
      BY <3>2 DEF Collected
  <2> QED
    BY <1>5, <2>1, <2>2
<1>8. ASSUME NEW p \in Pollers, Poll(p) PROVE UNCHANGED <<sessions, ledger>>
  BY <1>8 DEF Poll, LoadCandidates, ClaimAttempt, FailAttemptById, ChargeAttempt,
              RecordIntent, RecordFailure, ResetToPending, PollerDies, provider
<1>9. CASE UNCHANGED intents
  BY <1>1, <1>2, <1>3, <1>6, <1>7, <1>8, <1>9
     DEF Next, Webhook, Debit, SaveSettings, Tick, PersistAutoRecharge, WebhookDies,
         HandleAutoRechargeFailed, provider, vars
<1> QED
  BY <1>4, <1>9, ProviderStep DEF ProviderKept

\* The billing code credits only payments that were collected and none of them
\* twice: with its events repeated, late or out of order it takes only steps of
\* CreditedPayments.
THEOREM BooksRefined == Spec => BooksKept
<1>1. Init => Books!Init
  BY DEF Init, Books!Init, Collected
<1>2. MoneyInv /\ [Next]_vars => [Books!Next]_<<Collected, ledger>>
  BY BooksStep
<1> QED
  BY <1>1, <1>2, MoneyHeld, PTL DEF Spec, BooksKept
-----------------------------------------------------------------------------
(* The balance.                                                            *)

\* The ledger is a finite table of natural amounts.
LEMMA LedgerFinite ==
  ASSUME TypeOK
  PROVE  /\ IsFiniteSet(ledger)
         /\ \A ref \in Sessions \cup Attempts : CreditOf(ref) \in Nat
<1>1. IsFiniteSet(Attempts)
  BY RechargeConstants, FS_Interval DEF Attempts
<1>2. IsFiniteSet(Sessions \cup Attempts)
  BY <1>1, RechargeConstants, FS_Union
<1>3. IsFiniteSet(ledger)
  BY <1>2, FS_Subset DEF TypeOK
<1>4. \A ref \in Sessions \cup Attempts : CreditOf(ref) \in Nat
  BY RechargeConstants DEF CreditOf, TypeOK, AttemptRow
<1> QED
  BY <1>3, <1>4

\* A credit that is already in the ledger keeps its amount in every step.
LEMMA CreditsKept ==
  ASSUME MoneyInv, [Next]_vars
  PROVE  \A ref \in ledger : CreditOf(ref)' = CreditOf(ref)
<1>1. RowsKept
  BY NamedStep DEF MoneyInv
<1>2. \A a \in Attempts : a \in ledger => attempts[a].status # "none"
  BY DEF MoneyInv, Told, LedgerPaid, ProviderTold
<1>3. ledger \subseteq Sessions \cup Attempts
  BY DEF MoneyInv, TypeOK
<1> QED
  BY <1>1, <1>2, <1>3 DEF CreditOf, RowsKept

(* The sum of the credits, one unit at a time.                              *)

\* The units of finitely many rows with natural amounts are finitely many.
LEMMA UnitsFinite ==
  ASSUME NEW S, IsFiniteSet(S), NEW f, \A a \in S : f[a] \in Nat
  PROVE  IsFiniteSet(Units(f, S))
<1> DEFINE unit == [a \in S |-> {a} \X (1..f[a])]
           T == {{a} \X (1..f[a]) : a \in S}
<1>1. unit \in Surjection(S, T)
  BY DEF Surjection
<1>2. IsFiniteSet(T)
  BY <1>1, FS_Surjection
<1>3. ASSUME NEW U \in T PROVE IsFiniteSet(U)
  <2>1. PICK a \in S : U = {a} \X (1..f[a])
    OBVIOUS
  <2>2. f[a] \in Int
    OBVIOUS
  <2>3. IsFiniteSet(1..f[a])
    BY <2>2, FS_Interval
  <2>4. IsFiniteSet({a})
    BY FS_Singleton
  <2> QED
    BY <2>1, <2>3, <2>4, FS_Product
<1>4. IsFiniteSet(UNION T)
  BY <1>2, <1>3, FS_UNION
<1> QED
  BY <1>4 DEF Units

\* A sum of natural amounts is a natural number.
LEMMA TotalType ==
  ASSUME NEW S, IsFiniteSet(S), NEW f, \A a \in S : f[a] \in Nat
  PROVE  Total(f, S) \in Nat
  BY UnitsFinite, FS_CardinalityType DEF Total

\* The sum depends on the amounts of its own rows only.
LEMMA TotalSame ==
  ASSUME NEW S, NEW f, NEW g, \A a \in S : f[a] = g[a]
  PROVE  Total(f, S) = Total(g, S)
<1>1. Units(f, S) = Units(g, S)
  BY DEF Units
<1> QED
  BY <1>1 DEF Total

\* The sum over no rows.
LEMMA TotalEmpty ==
  ASSUME NEW f PROVE Total(f, {}) = 0
<1>1. Units(f, {}) = {}
  BY DEF Units
<1> QED
  BY <1>1, FS_EmptySet DEF Total

\* A row outside S adds its amount.
LEMMA TotalAdd ==
  ASSUME NEW S, IsFiniteSet(S), NEW f, \A a \in S : f[a] \in Nat,
         NEW b, b \notin S, f[b] \in Nat
  PROVE  Total(f, S \cup {b}) = Total(f, S) + f[b]
<1> DEFINE new == {b} \X (1..f[b])
<1>1. Units(f, S \cup {b}) = Units(f, S) \cup new
  BY DEF Units
<1>2. Units(f, S) \cap new = {}
  BY DEF Units
<1>3. IsFiniteSet(Units(f, S)) /\ Cardinality(Units(f, S)) \in Nat
  BY UnitsFinite, FS_CardinalityType
<1>4. IsFiniteSet(new) /\ Cardinality(new) = f[b]
  <2>1. IsFiniteSet({b}) /\ Cardinality({b}) = 1
    BY FS_Singleton
  <2>2. f[b] \in Int
    OBVIOUS
  <2>3. IsFiniteSet(1..f[b]) /\ Cardinality(1..f[b]) = f[b]
    BY SMTT(30), <2>2, FS_Interval
  <2>4. IsFiniteSet(new) /\ Cardinality(new) = Cardinality({b}) * Cardinality(1..f[b])
    BY <2>1, <2>3, FS_Product
  <2> QED
    BY <2>1, <2>3, <2>4
<1>5. Cardinality(Units(f, S) \cup new)
        = Cardinality(Units(f, S)) + Cardinality(new) - Cardinality(Units(f, S) \cap new)
  BY <1>3, <1>4, FS_Union
<1>6. Cardinality(Units(f, S) \cap new) = 0
  BY <1>2, FS_EmptySet
<1>7. Cardinality(Units(f, S) \cup new) = Cardinality(Units(f, S)) + f[b]
  BY <1>3, <1>4, <1>5, <1>6
<1> QED
  BY <1>1, <1>7 DEF Total

\* Only the first credit of a payment moves the balance.
LEMMA BalanceStep ==
  ASSUME MoneyInv, BalanceMatchesLedger, [Next]_vars PROVE BalanceMatchesLedger'
<1> DEFINE f == [ref \in ledger |-> CreditOf(ref)]
           g == [ref \in ledger' |-> CreditOf(ref)']
<1>1. /\ IsFiniteSet(ledger) /\ ledger \subseteq Sessions \cup Attempts
      /\ \A ref \in Sessions \cup Attempts : CreditOf(ref) \in Nat
      /\ balance \in Int /\ debits \in Int /\ StartBalance \in Int
  BY LedgerFinite, RechargeConstants DEF MoneyInv, TypeOK
<1>2. \A ref \in ledger : CreditOf(ref)' = CreditOf(ref)
  BY CreditsKept
<1>3. balance = StartBalance - debits + Total(f, ledger)
  BY DEF BalanceMatchesLedger
<1>4. SUFFICES balance' = StartBalance - debits' + Total(g, ledger')
  BY DEF BalanceMatchesLedger
<1>5. Total(f, ledger) \in Nat
  BY <1>1, TotalType
<1>6. ASSUME UNCHANGED ledger PROVE Total(g, ledger') = Total(f, ledger)
  <2>1. \A ref \in ledger : g[ref] = f[ref]
    BY <1>2, <1>6
  <2> HIDE DEF f, g
  <2> QED
    BY <1>6, <2>1, TotalSame
<1>7. ASSUME NEW ref \in Sessions \cup Attempts, NEW amount, amount = CreditOf(ref)',
             amount \in Nat, Credited(ref, amount), UNCHANGED debits
      PROVE  balance' = StartBalance - debits' + Total(g, ledger')
  <2>1. CASE ref \in ledger
    <3>1. ledger' = ledger /\ balance' = balance
      BY <1>7, <2>1 DEF Credited
    <3> QED
      BY <1>3, <1>6, <1>7, <3>1
  <2>2. CASE ref \notin ledger
    <3>1. ledger' = ledger \cup {ref} /\ balance' = balance + amount
      BY <1>7, <2>2 DEF Credited
    <3>2. \A r \in ledger : g[r] = f[r] /\ g[r] \in Nat
      BY <1>1, <1>2, <3>1
    <3>3. g[ref] = amount
      BY <1>7, <3>1
    <3> HIDE DEF f, g
    <3>4. Total(g, ledger \cup {ref}) = Total(g, ledger) + amount
      BY <1>1, <1>7, <2>2, <3>2, <3>3, TotalAdd
    <3>5. Total(g, ledger) = Total(f, ledger)
      BY <3>2, TotalSame
    <3> QED
      BY <1>1, <1>3, <1>5, <1>7, <3>1, <3>4, <3>5
  <2> QED
    BY <2>1, <2>2
<1> HIDE DEF f, g
<1>8. CASE UNCHANGED <<balance, debits, ledger>>
  BY <1>3, <1>6, <1>8
<1>9. CASE Debit
  <2>1. balance' = balance - 1 /\ debits' = debits + 1 /\ UNCHANGED ledger
    BY <1>9 DEF Debit
  <2> QED
    BY <1>1, <1>3, <1>5, <1>6, <2>1
<1>10. ASSUME NEW s \in Sessions, HandleCheckoutCompleted(s)
       PROVE  balance' = StartBalance - debits' + Total(g, ledger')
  <2>1. UNCHANGED debits /\ (Credited(s, TopUp) \/ UNCHANGED <<ledger, balance>>)
    BY <1>10 DEF HandleCheckoutCompleted
  <2>2. TopUp = CreditOf(s)' /\ TopUp \in Nat
    BY RechargeConstants DEF CreditOf
  <2> QED
    BY <1>7, <1>8, <2>1, <2>2
<1>11. ASSUME NEW a \in Attempts, HandleAutoRechargeSucceeded(a)
       PROVE  balance' = StartBalance - debits' + Total(g, ledger')
  <2>1. UNCHANGED debits /\ Credited(a, attempts[a].amount)
    BY <1>11 DEF HandleAutoRechargeSucceeded
  <2>2. a \notin Sessions
    BY RechargeConstants
  <2>3. attempts[a].status # "none"
    BY <1>11 DEF HandleAutoRechargeSucceeded, MoneyInv, Told, ProviderTold
  <2>4. attempts'[a].amount = attempts[a].amount
    BY <2>3, NamedStep DEF MoneyInv, RowsKept
  <2>5. attempts[a].amount = CreditOf(a)' /\ attempts[a].amount \in Nat
    BY <1>1, <2>2, <2>4 DEF CreditOf
  <2> QED
    BY <1>7, <2>1, <2>5
<1> QED
  BY <1>8, <1>9, <1>10, <1>11
     DEF Next, Webhook, SaveSettings, Tick, PersistAutoRecharge, WebhookDies,
         HandleAutoRechargeFailed, CreateSession, CompleteSession, Poll, LoadCandidates,
         ClaimAttempt, FailAttemptById, ChargeAttempt, RecordIntent, RecordFailure,
         ResetToPending, PollerDies, vars

\* The balance is the grant and the credits in the ledger less the debits, for
\* any sequence of repeated webhooks, retries and debits.
THEOREM BalanceFollowsLedger == Spec => []BalanceMatchesLedger
<1>1. Init => BalanceMatchesLedger
  <2> SUFFICES ASSUME Init PROVE BalanceMatchesLedger
    OBVIOUS
  <2>1. ledger = {} /\ balance = StartBalance /\ debits = 0 /\ StartBalance \in Int
    BY RechargeConstants DEF Init
  <2>2. Total([ref \in ledger |-> CreditOf(ref)], {}) = 0
    BY TotalEmpty
  <2> QED
    BY <2>1, <2>2 DEF BalanceMatchesLedger
<1>2. MoneyInv /\ BalanceMatchesLedger /\ [Next]_vars => BalanceMatchesLedger'
  BY BalanceStep
<1> QED
  BY <1>1, <1>2, MoneyHeld, PTL DEF Spec
-----------------------------------------------------------------------------
(* Claims, when the lease covers the longest work of a poller.             *)

\* Pollers that go on with what they had, or stop.
GoOn(pollers) ==
    \A q \in Pollers :
       /\ pollers[q].phase \notin {"idle", "loaded"} =>
             /\ Working(q)
             /\ pollers[q].attempt = poller[q].attempt
             /\ pollers[q].since = poller[q].since
       /\ pollers[q].phase = "loaded" => pollers[q] = poller[q]

\* A write that puts a row back to pending leaves nobody at work on it, and any
\* other write, or none, disturbs no claim.
LEMMA WriteKeepsClaims ==
  ASSUME TypeOK, ClaimInv, NEW a \in Attempts, NEW row \in AttemptRow,
         NEW pollers \in [Pollers -> PollerState], GoOn(pollers), UNCHANGED clock,
         \/ Skip(pollers)
         \/ /\ Write(a, row, pollers)
            /\ \/ row.status \notin {"none", "pending"}
               \/ \A q \in Pollers : pollers[q].phase \notin {"idle", "loaded"} =>
                     pollers[q].attempt # a
  PROVE  ClaimInv'
<1>0. clock \in Nat /\ \A q \in Pollers : poller[q].since \in Nat
  BY RechargeConstants DEF TypeOK, PollerState
<1>1. \A q \in Pollers : /\ poller'[q].phase = pollers[q].phase
                         /\ poller'[q].attempt = pollers[q].attempt
                         /\ poller'[q].since = pollers[q].since
                         /\ poller'[q].fresh => pollers[q].fresh
  BY WriteEffect DEF Skip
<1>2. OnePollerPerAttempt'
  BY <1>1 DEF ClaimInv, OnePollerPerAttempt, GoOn, Working
<1>3. ASSUME NEW q \in Pollers, Working(q)'
      PROVE  /\ poller'[q].attempt \in Attempts
             /\ poller'[q].since <= clock' /\ clock' <= poller'[q].since + CallTime
             /\ attempts'[poller'[q].attempt].status \notin {"none", "pending"}
             /\ poller'[q].since <= attempts'[poller'[q].attempt].at
  <2> DEFINE b == poller[q].attempt
  <2>1. /\ Working(q) /\ poller'[q].attempt = b /\ poller'[q].since = poller[q].since
        /\ pollers[q].phase \notin {"idle", "loaded"} /\ pollers[q].attempt = b
    BY <1>1, <1>3 DEF GoOn, Working
  <2>2. /\ b \in Attempts /\ poller[q].since <= clock /\ clock <= poller[q].since + CallTime
        /\ attempts[b].status \notin {"none", "pending"} /\ poller[q].since <= attempts[b].at
    BY <2>1 DEF ClaimInv, ClaimsHeld
  <2> HIDE DEF b
  <2>3. CASE Skip(pollers)
    BY <2>1, <2>2, <2>3 DEF Skip
  <2>4. CASE /\ Write(a, row, pollers)
             /\ \/ row.status \notin {"none", "pending"}
                \/ \A r \in Pollers : pollers[r].phase \notin {"idle", "loaded"} =>
                      pollers[r].attempt # a
    <3>1. b # a => attempts'[b] = attempts[b]
      BY <2>2, <2>4, WriteEffect
    <3>2. b = a => attempts'[b].status \notin {"none", "pending"} /\ attempts'[b].at = clock
      BY <2>1, <2>4, WriteEffect
    <3> QED
      BY <2>1, <2>2, <3>1, <3>2
  <2> QED
    BY <2>3, <2>4
<1>4. ASSUME NEW q \in Pollers, poller'[q].phase = "loaded"
      PROVE  poller'[q].attempt \in Attempts /\ (poller'[q].fresh => Candidate(poller[q].attempt)')
  <2> DEFINE b == poller[q].attempt
  <2>1. poller[q].phase = "loaded" /\ poller'[q].attempt = b /\ pollers[q] = poller[q]
    BY <1>1, <1>4 DEF GoOn
  <2>2. b \in Attempts /\ (poller[q].fresh => Candidate(b))
    BY <2>1 DEF ClaimInv, ClaimsHeld
  <2>3. poller'[q].fresh => poller[q].fresh /\ attempts'[b] = attempts[b]
    <3> HIDE DEF b
    <3>1. CASE Skip(pollers)
      BY <1>1, <2>1, <3>1 DEF Skip
    <3>2. CASE Write(a, row, pollers)
      BY <2>1, <2>2, <3>2, WriteEffect DEF b
    <3> QED
      BY <3>1, <3>2
  <2> QED
    BY <2>1, <2>2, <2>3 DEF Candidate
<1>5. ClaimsHeld'
  BY <1>3, <1>4 DEF ClaimsHeld
<1> QED
  BY <1>2, <1>5 DEF ClaimInv

\* Nobody is at work on a row that a poller may claim.
LEMMA ClaimIsFree ==
  ASSUME LeaseCoversCalls, TypeOK, ClaimInv, NEW a \in Attempts, Candidate(a),
         NEW q \in Pollers, Working(q)
  PROVE  poller[q].attempt # a
<1>0. /\ clock \in Int /\ poller[q].since \in Int /\ attempts[a].at \in Int
      /\ Lease \in Int /\ CallTime \in Int
  BY RechargeConstants DEF TypeOK, PollerState, AttemptRow
<1>1. SUFFICES ASSUME poller[q].attempt = a PROVE FALSE
  OBVIOUS
<1>2. /\ clock <= poller[q].since + CallTime /\ poller[q].since <= attempts[a].at
      /\ attempts[a].status # "pending"
  BY <1>1 DEF ClaimInv, ClaimsHeld
<1>3. attempts[a].at < clock - Lease
  BY <1>2 DEF Candidate
<1> QED
  BY <1>0, <1>2, <1>3 DEF LeaseCoversCalls

\* Every step keeps the claims: overlapping polls, takeovers after a lease, and
\* webhooks that close a row under a poller.
LEMMA ClaimStep ==
  ASSUME LeaseCoversCalls, TypeOK, PollersNamed, ClaimInv, [Next]_vars PROVE ClaimInv'
<1>0. /\ attempts \in [Attempts -> AttemptRow] /\ poller \in [Pollers -> PollerState]
      /\ clock \in Nat /\ CallTime \in Nat /\ Lease \in Nat
  BY RechargeConstants DEF TypeOK
<1>1. CASE Debit
  <2>1. \A a \in Attempts : attempts[a].status # "none" => attempts'[a] = attempts[a]
    BY <1>1 DEF Debit, Unused
  <2>2. UNCHANGED <<clock, poller>>
    BY <1>1 DEF Debit
  <2>3. OnePollerPerAttempt'
    BY <2>2 DEF ClaimInv, OnePollerPerAttempt, Working
  <2>4. \A q \in Pollers : poller[q].phase # "idle" =>
             attempts'[poller[q].attempt] = attempts[poller[q].attempt]
    BY <2>1 DEF PollersNamed, Named
  <2>5. ClaimsHeld'
    BY <2>2, <2>4 DEF ClaimInv, ClaimsHeld, Working, Candidate
  <2> QED
    BY <2>3, <2>5 DEF ClaimInv
<1>2. CASE UNCHANGED <<clock, attempts, poller>>
  BY <1>2 DEF ClaimInv, ClaimsHeld, OnePollerPerAttempt, Working, Candidate
<1>3. CASE Tick
  <2>1. clock' = clock + 1 /\ UNCHANGED <<attempts, poller>>
    BY <1>3 DEF Tick
  <2>2. \A q \in Pollers : Working(q) => clock < poller[q].since + CallTime
    BY <1>3 DEF Tick
  <2>3. OnePollerPerAttempt'
    BY <2>1 DEF ClaimInv, OnePollerPerAttempt, Working
  <2>4. \A a \in Attempts : Candidate(a) => Candidate(a)'
    BY <1>0, <2>1 DEF Candidate, AttemptRow
  <2>5. \A q \in Pollers : poller[q].since \in Nat
    BY <1>0 DEF PollerState
  <2>6. \A q \in Pollers : Working(q) => /\ poller[q].since <= clock + 1
                                         /\ clock + 1 <= poller[q].since + CallTime
    BY <1>0, <2>2, <2>5 DEF ClaimInv, ClaimsHeld
  <2>7. ClaimsHeld'
    BY <2>1, <2>4, <2>6 DEF ClaimInv, ClaimsHeld, Working
  <2> QED
    BY <2>3, <2>7 DEF ClaimInv
<1>4. GoOn(poller)
  BY DEF GoOn, Working
<1>5. ASSUME NEW a \in Attempts, NEW status \in {"failed", "succeeded"},
             NEW pollers \in [Pollers -> PollerState], GoOn(pollers), UNCHANGED clock,
             Write(a, [attempts[a] EXCEPT !.status = status], pollers) \/ Skip(pollers)
      PROVE  ClaimInv'
  <2> DEFINE row == [attempts[a] EXCEPT !.status = status]
  <2>1. row \in AttemptRow /\ row.status \notin {"none", "pending"}
    BY <1>0 DEF AttemptRow
  <2>2. Write(a, row, pollers) \/ Skip(pollers)
    BY <1>5
  <2> HIDE DEF row
  <2> QED
    BY <1>5, <2>1, <2>2, WriteKeepsClaims
<1>6. ASSUME NEW a \in Attempts, HandleAutoRechargeSucceeded(a) PROVE ClaimInv'
  BY <1>0, <1>4, <1>5, <1>6 DEF HandleAutoRechargeSucceeded
<1>7. ASSUME NEW a \in Attempts, HandleAutoRechargeFailed(a) PROVE ClaimInv'
  BY <1>0, <1>4, <1>5, <1>7 DEF HandleAutoRechargeFailed, RecordedFailure
<1>8. ASSUME NEW p \in Pollers, Poll(p) PROVE ClaimInv'
  <2> DEFINE a == poller[p].attempt
             idle == [poller EXCEPT ![p] = Idle]
  <2>1. idle \in [Pollers -> PollerState] /\ GoOn(idle)
    BY <1>0, IdleType DEF GoOn, Idle, Working
  <2>2. poller[p].phase # "idle" => a \in Attempts
    BY SMTT(30) DEF PollersNamed, Named
  <2>3. UNCHANGED clock
    BY <1>8 DEF Poll, LoadCandidates, ClaimAttempt, FailAttemptById, ChargeAttempt,
                RecordIntent, RecordFailure, ResetToPending, PollerDies
  <2>4. ASSUME NEW pollers \in [Pollers -> PollerState], GoOn(pollers), Skip(pollers),
               a \in Attempts
        PROVE  ClaimInv'
    BY <1>0, <2>3, <2>4, WriteKeepsClaims
  <2> HIDE DEF a, idle
  <2>5. CASE LoadCandidates(p)
    <3>1. PICK b \in Attempts, card \in {settings.card, Null} :
            /\ Candidate(b)
            /\ poller' = [poller EXCEPT ![p] =
                [Idle EXCEPT !.phase = "loaded", !.attempt = b,
                             !.fresh = TRUE, !.card = card]]
      BY <2>5 DEF LoadCandidates
    <3>2. /\ poller'[p].phase = "loaded" /\ poller'[p].attempt = b
          /\ \A q \in Pollers \ {p} : poller'[q] = poller[q]
      BY <1>0, <3>1 DEF Idle
    <3>3. UNCHANGED <<clock, attempts>>
      BY <2>5 DEF LoadCandidates
    <3>4. OnePollerPerAttempt'
      BY <3>2 DEF ClaimInv, OnePollerPerAttempt, Working
    <3>5. Candidate(b)'
      BY <3>1, <3>3 DEF Candidate
    <3>6. ClaimsHeld'
      BY <3>2, <3>3, <3>5 DEF ClaimInv, ClaimsHeld, Working, Candidate
    <3> QED
      BY <3>4, <3>6 DEF ClaimInv
  <2>6. CASE ClaimAttempt(p) /\ Claimable(p)
    <3> DEFINE working == [poller[p] EXCEPT !.since = clock,
                  !.phase = IF poller[p].card = Null THEN "cardless" ELSE "charge"]
               pollers == [poller EXCEPT ![p] = working]
               row == [attempts[a] EXCEPT !.status = "processing"]
    <3>1. /\ working \in PollerState /\ working.attempt = a /\ working.since = clock
          /\ working.phase \notin {"idle", "loaded"}
      BY <1>0 DEF PollerState, a
    <3>2. pollers \in [Pollers -> PollerState] /\ pollers[p] = working
          /\ \A q \in Pollers \ {p} : pollers[q] = poller[q]
      BY <1>0, <3>1
    <3>3. a \in Attempts /\ poller[p].phase = "loaded" /\ poller[p].fresh
      BY <2>2, <2>6 DEF ClaimAttempt, Claimable
    <3>4. row \in AttemptRow /\ row.status = "processing"
      BY <1>0, <3>3 DEF AttemptRow, Live
    <3>5. Write(a, row, pollers)
      BY <2>6 DEF ClaimAttempt, a
    <3> HIDE DEF working, pollers, row
    <3>6. Candidate(a)
      BY <3>3 DEF ClaimInv, ClaimsHeld, a
    <3>7. \A q \in Pollers : Working(q) => poller[q].attempt # a
      BY <3>3, <3>6, ClaimIsFree
    <3>8. /\ \A b \in Attempts \ {a} : attempts'[b] = attempts[b]
          /\ attempts'[a].status = "processing" /\ attempts'[a].at = clock
          /\ \A q \in Pollers :
               /\ poller'[q].phase = pollers[q].phase
               /\ poller'[q].attempt = pollers[q].attempt
               /\ poller'[q].since = pollers[q].since
               /\ poller'[q].fresh => pollers[q].fresh /\ pollers[q].attempt # a
      BY <3>2, <3>3, <3>4, <3>5, WriteEffect
    <3>9. OnePollerPerAttempt'
      BY <3>1, <3>2, <3>7, <3>8 DEF ClaimInv, OnePollerPerAttempt, Working
    <3>10. ASSUME NEW q \in Pollers, Working(q)'
           PROVE  /\ poller'[q].attempt \in Attempts
                  /\ poller'[q].since <= clock' /\ clock' <= poller'[q].since + CallTime
                  /\ attempts'[poller'[q].attempt].status \notin {"none", "pending"}
                  /\ poller'[q].since <= attempts'[poller'[q].attempt].at
      <4>1. CASE q = p
        BY <1>0, <2>3, <3>1, <3>2, <3>3, <3>8, <4>1
      <4>2. CASE q # p
        <5>1. /\ Working(q) /\ poller'[q].attempt = poller[q].attempt
              /\ poller'[q].since = poller[q].since
          BY <3>2, <3>8, <3>10, <4>2 DEF Working
        <5>2. poller[q].attempt \in Attempts \ {a}
          BY <3>7, <5>1 DEF ClaimInv, ClaimsHeld
        <5> QED
          BY <2>3, <3>8, <5>1, <5>2 DEF ClaimInv, ClaimsHeld
      <4> QED
        BY <4>1, <4>2
    <3>11. ASSUME NEW q \in Pollers, poller'[q].phase = "loaded"
           PROVE  /\ poller'[q].attempt \in Attempts
                  /\ poller'[q].fresh => Candidate(poller[q].attempt)'
      <4>1. q # p /\ poller[q].phase = "loaded" /\ poller'[q].attempt = poller[q].attempt
        BY <3>1, <3>2, <3>8, <3>11
      <4>2. /\ poller[q].attempt \in Attempts /\ (poller[q].fresh => Candidate(poller[q].attempt))
        BY <4>1 DEF ClaimInv, ClaimsHeld
      <4>3. poller'[q].fresh => poller[q].fresh /\ poller[q].attempt # a
        BY <3>2, <3>8, <4>1
      <4>4. poller[q].attempt # a => attempts'[poller[q].attempt] = attempts[poller[q].attempt]
        BY <3>8, <4>2
      <4> QED
        BY <2>3, <4>1, <4>2, <4>3, <4>4 DEF Candidate
    <3>12. ClaimsHeld'
      BY <3>10, <3>11 DEF ClaimsHeld
    <3> QED
      BY <3>9, <3>12 DEF ClaimInv
  <2>7. CASE ClaimAttempt(p) /\ ~Claimable(p)
    BY <2>1, <2>2, <2>4, <2>7 DEF ClaimAttempt, idle
  <2>8. CASE FailAttemptById(p)
    BY <1>5, <2>1, <2>2, <2>3, <2>8 DEF FailAttemptById, a, idle
  <2>9. CASE ChargeAttempt(p)
    <3>1. PICK phase, result :
            \/ \E outcome \in Outcomes : FirstCharge(p, outcome, phase, result)
            \/ RepeatedCharge(p, phase, result)
      BY <2>9, ChargeCases
    <3>2. poller' = [poller EXCEPT ![p].phase = phase, ![p].result = result]
      BY <3>1 DEF FirstCharge, RepeatedCharge
    <3>3. phase \notin {"idle", "loaded"}
      BY <3>1 DEF FirstCharge, RepeatedCharge
    <3>4. GoOn(poller')
      BY ZenonT(60), <1>0, <2>9, <3>2, <3>3 DEF ChargeAttempt, GoOn, Working, PollerState
    <3>5. poller' \in [Pollers -> PollerState]
      BY TypeStep DEF TypeOK
    <3>6. Skip(poller') /\ a \in Attempts
      BY <2>2, <2>9 DEF Skip, ChargeAttempt
    <3> QED
      BY <2>4, <3>4, <3>5, <3>6
  <2>10. CASE RecordIntent(p)
    <3> DEFINE after == [poller EXCEPT ![p] = IF @.result = "succeeded"
                                      THEN Idle ELSE [@ EXCEPT !.phase = "fail"]]
               row == [attempts[a] EXCEPT !.intent = TRUE]
    <3>1. a \in Attempts /\ Working(p)
      BY <2>2, <2>10 DEF RecordIntent, Working
    <3>2. after \in [Pollers -> PollerState] /\ GoOn(after)
      BY <1>0, <3>1, IdleType DEF PollerState, GoOn, Working, Idle
    <3>3. row \in AttemptRow /\ row.status = attempts[a].status
      BY <1>0, <3>1 DEF AttemptRow
    <3>4. attempts[a].status \notin {"none", "pending"}
      BY <3>1 DEF ClaimInv, ClaimsHeld, a
    <3>5. Write(a, row, after) \/ Skip(after)
      BY <2>10 DEF RecordIntent, a
    <3> HIDE DEF after, row
    <3> QED
      BY <2>3, <3>1, <3>2, <3>3, <3>4, <3>5, WriteKeepsClaims
  <2>11. CASE RecordFailure(p)
    <3> DEFINE back == [poller EXCEPT ![p] = IF @.result = "action"
                                      THEN [@ EXCEPT !.phase = "retry"] ELSE Idle]
    <3>1. a \in Attempts /\ Working(p)
      BY <2>2, <2>11 DEF RecordFailure, Working
    <3>2. back \in [Pollers -> PollerState] /\ GoOn(back)
      BY <1>0, <3>1, IdleType DEF PollerState, GoOn, Working, Idle
    <3>3. Write(a, [attempts[a] EXCEPT !.status = "failed"], idle) \/ Skip(idle) \/ Skip(back)
      BY <2>11 DEF RecordFailure, RecordedFailure, a, idle
    <3> HIDE DEF back
    <3> QED
      BY <1>5, <2>1, <2>3, <2>4, <3>1, <3>2, <3>3
  <2>12. CASE ResetToPending(p)
    <3> DEFINE row == [attempts[a] EXCEPT !.status = "pending"]
    <3>1. a \in Attempts /\ Working(p)
      BY <2>2, <2>12 DEF ResetToPending, Working
    <3>2. row \in AttemptRow
      BY <1>0, <3>1 DEF AttemptRow, Live
    <3>3. \A q \in Pollers : idle[q].phase \notin {"idle", "loaded"} => idle[q].attempt # a
      BY <1>0, <3>1 DEF idle, Idle, ClaimInv, OnePollerPerAttempt, Working, a
    <3>4. Write(a, row, idle) \/ Skip(idle)
      BY <2>12 DEF ResetToPending, a, idle
    <3> HIDE DEF row
    <3> QED
      BY <2>1, <2>3, <3>1, <3>2, <3>3, <3>4, WriteKeepsClaims
  <2>13. CASE PollerDies(p)
    BY <2>1, <2>2, <2>4, <2>13 DEF PollerDies, Working, Skip, idle
  <2> QED
    BY <1>8, <2>5, <2>6, <2>7, <2>8, <2>9, <2>10, <2>11, <2>12, <2>13 DEF Poll
<1> QED
  BY <1>1, <1>2, <1>3, <1>6, <1>7, <1>8
     DEF Next, Webhook, SaveSettings, CreateSession, CompleteSession,
         HandleCheckoutCompleted, PersistAutoRecharge, WebhookDies, vars

\* Overlapping polls, leases that run out and retries never double the work or
\* the charge of an attempt, when a poller's calls end within the lease.
THEOREM ClaimsExclusive == ASSUME LeaseCoversCalls PROVE Spec => []AttemptsAreExclusive
<1>1. Init => ClaimInv
  BY DEF Init, ClaimInv, ClaimsHeld, OnePollerPerAttempt, Working, Idle
<1>2. MoneyInv /\ ClaimInv /\ [Next]_vars => ClaimInv'
  BY ClaimStep DEF MoneyInv
<1>3. ClaimInv => OnePollerPerAttempt
  BY DEF ClaimInv
<1> QED
  BY <1>1, <1>2, <1>3, MoneyHeld, ChargedOnce, PTL DEF Spec, AttemptsAreExclusive
-----------------------------------------------------------------------------
(* Declines.                                                               *)

\* What a write leaves behind is judged by the row and the pollers it is given.
LEMMA WriteKeepsDeclines ==
  ASSUME TypeOK, NEW a \in Attempts, NEW row \in AttemptRow,
         NEW pollers \in [Pollers -> PollerState], UNCHANGED intents,
         \A q \in Pollers : pollers[q].phase \notin {"idle", "loaded"} =>
            pollers[q].attempt \in Attempts,
         \/ Skip(pollers) /\ DeclinesIn(attempts, pollers)
         \/ Write(a, row, pollers) /\ DeclinesIn([attempts EXCEPT ![a] = row], pollers)
  PROVE  DeclinesHeld'
<1>1. CASE Skip(pollers) /\ DeclinesIn(attempts, pollers)
  BY SMTT(30), <1>1 DEF Skip, DeclinesHeld, DeclinesIn
<1>2. CASE Write(a, row, pollers) /\ DeclinesIn([attempts EXCEPT ![a] = row], pollers)
  <2> DEFINE rows == [attempts EXCEPT ![a] = row]
  <2>1. \A b \in Attempts : attempts'[b].status = rows[b].status
                            /\ attempts'[b].intent = rows[b].intent
    BY <1>2, WriteEffect DEF TypeOK
  <2>2. \A q \in Pollers : /\ poller'[q].phase = pollers[q].phase
                           /\ poller'[q].attempt = pollers[q].attempt
    BY <1>2, WriteEffect
  <2>3. DeclinesIn(rows, pollers)
    BY <1>2
  <2> HIDE DEF rows
  <2> QED
    BY <2>1, <2>2, <2>3 DEF DeclinesHeld, DeclinesIn
<1> QED
  BY <1>1, <1>2

\* What else is known while declines are followed.
DeclineInv == MoneyInv /\ ClaimInv /\ DeclinesHeld

\* Every step keeps what is known of declined attempts.
LEMMA DeclineStep ==
  ASSUME LeaseCoversCalls, DeclineInv, [Next]_vars PROVE DeclinesHeld'
<1>0. /\ attempts \in [Attempts -> AttemptRow] /\ poller \in [Pollers -> PollerState]
      /\ TypeOK /\ PollersNamed /\ Told /\ ClaimInv /\ DeclinesHeld
  BY DEF DeclineInv, MoneyInv, TypeOK
<1>1. \A q \in Pollers : poller[q].phase \notin {"idle", "loaded"} =>
         poller[q].attempt \in Attempts
  BY <1>0 DEF PollersNamed, Named
<1>2. CASE Debit
  <2>1. \A a \in Attempts : \/ attempts'[a] = attempts[a]
                            \/ attempts[a].status = "none" /\ ~attempts'[a].intent
    BY <1>2 DEF Debit, Unused, Enqueued, NoAttempt
  <2>2. \A q \in Pollers : poller[q].phase \notin {"idle", "loaded"} =>
           attempts'[poller[q].attempt] = attempts[poller[q].attempt]
    BY <1>0, <2>1 DEF PollersNamed, Named
  <2>3. UNCHANGED <<poller, intents>>
    BY <1>2 DEF Debit, provider
  <2> QED
    BY <1>0, <2>1, <2>2, <2>3 DEF DeclinesHeld, DeclinesIn
<1>3. CASE UNCHANGED <<attempts, intents, poller>>
  BY <1>0, <1>3 DEF DeclinesHeld, DeclinesIn
<1>4. ASSUME NEW a \in Attempts, HandleAutoRechargeSucceeded(a) PROVE DeclinesHeld'
  <2> DEFINE row == [attempts[a] EXCEPT !.status = "succeeded"]
             rows == [attempts EXCEPT ![a] = row]
  <2>1. row \in AttemptRow
    BY <1>0 DEF AttemptRow
  <2>2. \A b \in Attempts : /\ rows[b].intent = attempts[b].intent
                            /\ rows[b].status = attempts[b].status \/ rows[b].status = "succeeded"
    BY <1>0 DEF AttemptRow
  <2>3. DeclinesIn(rows, poller)
    <3> HIDE DEF rows
    <3> QED
      BY <1>0, <1>1, <2>2 DEF DeclinesHeld, DeclinesIn
  <2>4. UNCHANGED intents /\ (Write(a, row, poller) \/ Skip(poller))
    BY <1>4 DEF HandleAutoRechargeSucceeded, provider
  <2> HIDE DEF row
  <2> QED
    BY <1>0, <1>1, <2>1, <2>3, <2>4, WriteKeepsDeclines DEF DeclinesHeld, rows
<1>5. ASSUME NEW a \in Attempts, HandleAutoRechargeFailed(a) PROVE DeclinesHeld'
  <2> DEFINE row == [attempts[a] EXCEPT !.status = "failed"]
             rows == [attempts EXCEPT ![a] = row]
  <2>1. row \in AttemptRow
    BY <1>0 DEF AttemptRow
  <2>2. /\ \A b \in Attempts \ {a} : rows[b] = attempts[b]
        /\ rows[a].status = "failed" /\ rows[a].intent = attempts[a].intent
    BY <1>0 DEF AttemptRow
  <2>3. intents[a].state = "declined"
    BY <1>0, <1>5 DEF HandleAutoRechargeFailed, Told, ProviderTold
  <2>4. Matches(a) => DeclinesIn(rows, poller)
    <3> HIDE DEF rows
    <3> QED
      BY <1>0, <1>1, <2>2, <2>3 DEF Matches, DeclinesHeld, DeclinesIn
  <2>5. UNCHANGED intents /\ ((Matches(a) /\ Write(a, row, poller)) \/ Skip(poller))
    BY <1>5 DEF HandleAutoRechargeFailed, RecordedFailure, provider
  <2> HIDE DEF row
  <2> QED
    BY <1>0, <1>1, <2>1, <2>4, <2>5, WriteKeepsDeclines DEF DeclinesHeld, rows
<1>6. ASSUME NEW p \in Pollers, Poll(p) PROVE DeclinesHeld'
  <2> DEFINE a == poller[p].attempt
             idle == [poller EXCEPT ![p] = Idle]
             Apart == \A q \in Pollers \ {p} :
                         poller[q].phase \notin {"idle", "loaded"} => poller[q].attempt # a
  <2>1. /\ idle \in [Pollers -> PollerState]
        /\ idle[p].phase = "idle" /\ \A q \in Pollers \ {p} : idle[q] = poller[q]
        /\ \A q \in Pollers : idle[q].phase \notin {"idle", "loaded"} => idle[q].attempt \in Attempts
    BY <1>0, <1>1, IdleType DEF Idle
  <2>2. poller[p].phase # "idle" => a \in Attempts
    BY <1>0 DEF PollersNamed, Named
  <2>3. Working(p) => Apart
    BY <1>0 DEF ClaimInv, OnePollerPerAttempt, Working
  <2>4. ASSUME NEW row \in AttemptRow, a \in Attempts, Apart, UNCHANGED intents,
               intents[a].state = "declined" /\ row.intent => row.status # "pending",
               Write(a, row, idle)
        PROVE  DeclinesHeld'
    <3> DEFINE rows == [attempts EXCEPT ![a] = row]
    <3>1. rows[a] = row /\ \A b \in Attempts \ {a} : rows[b] = attempts[b]
      BY <1>0, <2>4
    <3>2. DeclinesIn(rows, idle)
      <4> HIDE DEF rows, idle, a
      <4> QED
        BY <1>0, <1>1, <2>1, <2>4, <3>1 DEF DeclinesHeld, DeclinesIn
    <3> HIDE DEF idle, a
    <3> QED
      BY <1>0, <2>1, <2>4, <3>2, WriteKeepsDeclines DEF rows
  <2>5. ASSUME Skip(idle), UNCHANGED intents PROVE DeclinesHeld'
    <3>1. DeclinesIn(attempts, idle)
      BY <1>0, <2>1 DEF DeclinesHeld, DeclinesIn
    <3> QED
      BY <2>5, <3>1 DEF Skip, DeclinesHeld, DeclinesIn
  <2>6. Working(p) => /\ attempts[a].status = "failed" =>
                            intents[a].state = "declined" /\ attempts[a].intent
                      /\ intents[a].state = "declined" /\ attempts[a].intent =>
                            poller[p].phase = "fail"
    BY <1>0 DEF DeclinesHeld, DeclinesIn, Working
  <2> HIDE DEF a, idle
  <2>7. CASE LoadCandidates(p)
    <3>1. /\ poller'[p].phase = "loaded" /\ \A q \in Pollers \ {p} : poller'[q] = poller[q]
          /\ UNCHANGED <<attempts, intents>>
      BY <1>0, <2>7 DEF LoadCandidates, Idle, provider
    <3> QED
      BY <1>0, <3>1 DEF DeclinesHeld, DeclinesIn
  <2>8. CASE ClaimAttempt(p) /\ Claimable(p)
    <3> DEFINE working == [poller[p] EXCEPT !.since = clock,
                  !.phase = IF poller[p].card = Null THEN "cardless" ELSE "charge"]
               pollers == [poller EXCEPT ![p] = working]
               row == [attempts[a] EXCEPT !.status = "processing"]
               rows == [attempts EXCEPT ![a] = row]
    <3>1. working \in PollerState /\ working.attempt = a
      <4>1. clock \in Nat
        BY <1>0, RechargeConstants DEF TypeOK
      <4> QED
        BY <1>0, <4>1 DEF PollerState, a
    <3>2. a \in Attempts /\ poller[p].phase = "loaded" /\ poller[p].fresh
      BY <2>2, <2>8 DEF ClaimAttempt, Claimable
    <3>3. /\ pollers \in [Pollers -> PollerState] /\ pollers[p] = working
          /\ \A q \in Pollers \ {p} : pollers[q] = poller[q]
      BY <1>0, <3>1
    <3>4. row \in AttemptRow /\ row.status = "processing" /\ row.intent = attempts[a].intent
      BY <1>0, <3>2 DEF AttemptRow, Live
    <3>5. rows[a] = row /\ \A b \in Attempts \ {a} : rows[b] = attempts[b]
      BY <1>0, <3>2
    <3>6. Write(a, row, pollers) /\ UNCHANGED intents
      BY <2>8 DEF ClaimAttempt, a, provider
    <3> HIDE DEF working, pollers, row, rows
    <3>7. Candidate(a)
      BY <1>0, <3>2 DEF ClaimInv, ClaimsHeld, a
    <3>8. \A q \in Pollers : poller[q].phase \notin {"idle", "loaded"} => poller[q].attempt # a
      BY <1>0, <3>2, <3>7, ClaimIsFree DEF Working
    <3>9. ~(intents[a].state = "declined" /\ attempts[a].intent)
      BY <1>0, <3>2, <3>7 DEF Candidate, DeclinesHeld, DeclinesIn
    <3>10. DeclinesIn(rows, pollers)
      BY <1>0, <1>1, <3>1, <3>2, <3>3, <3>4, <3>5, <3>8, <3>9 DEF DeclinesHeld, DeclinesIn
    <3>11. \A q \in Pollers : pollers[q].phase \notin {"idle", "loaded"} =>
              pollers[q].attempt \in Attempts
      BY <1>1, <3>1, <3>2, <3>3
    <3> QED
      BY <1>0, <3>2, <3>3, <3>4, <3>6, <3>10, <3>11, WriteKeepsDeclines DEF rows
  <2>9. CASE ClaimAttempt(p) /\ ~Claimable(p)
    BY <2>5, <2>9 DEF ClaimAttempt, idle, provider
  <2>10. CASE FailAttemptById(p)
    <3> DEFINE row == [attempts[a] EXCEPT !.status = "failed"]
    <3>1. a \in Attempts /\ Apart
      BY <2>2, <2>3, <2>10 DEF FailAttemptById, Working
    <3>2. row \in AttemptRow /\ row.status = "failed"
      BY <1>0, <3>1 DEF AttemptRow
    <3>3. UNCHANGED intents /\ (Write(a, row, idle) \/ Skip(idle))
      BY <2>10 DEF FailAttemptById, a, idle, provider
    <3> HIDE DEF row, Apart
    <3> QED
      BY <2>4, <2>5, <3>1, <3>2, <3>3
  <2>11. CASE ChargeAttempt(p)
    <3>1. PICK phase, result :
            \/ \E outcome \in Outcomes : FirstCharge(p, outcome, phase, result)
            \/ RepeatedCharge(p, phase, result)
      BY <1>0, <2>11, ChargeCases
    <3>2. /\ a \in Attempts /\ Apart /\ Working(p) /\ poller[p].phase = "charge"
          /\ UNCHANGED attempts
      BY <2>2, <2>3, <2>11 DEF ChargeAttempt, Working
    <3>3. /\ poller'[p].phase = phase /\ poller'[p].attempt = a
          /\ \A q \in Pollers \ {p} : poller'[q] = poller[q]
      BY <1>0, <3>1 DEF FirstCharge, RepeatedCharge, PollerState, a
    <3>4. attempts[a].status # "failed"
      BY <2>6, <3>2
    <3>5. \A b \in Attempts \ {a} : intents'[b] = intents[b]
      BY <1>0, <3>1 DEF FirstCharge, RepeatedCharge, TypeOK, a
    <3>6. ~(intents'[a].state = "declined" /\ attempts[a].intent)
      <4>1. CASE intents[a].state = "none"
        BY <1>0, <3>2, <4>1 DEF Told, ProviderTold
      <4>2. CASE intents[a].state # "none"
        <5>1. intents' = intents
          BY <3>1, <4>2 DEF FirstCharge, RepeatedCharge, a
        <5> QED
          BY <2>6, <3>2, <5>1
      <4> QED
        BY <4>1, <4>2
    <3> QED
      BY <1>0, <1>1, <3>2, <3>3, <3>4, <3>5, <3>6 DEF DeclinesHeld, DeclinesIn
  <2>12. CASE RecordIntent(p)
    <3> DEFINE after == [poller EXCEPT ![p] = IF @.result = "succeeded"
                                      THEN Idle ELSE [@ EXCEPT !.phase = "fail"]]
               row == [attempts[a] EXCEPT !.intent = TRUE]
               rows == [attempts EXCEPT ![a] = row]
    <3>1. a \in Attempts /\ Apart /\ Working(p) /\ poller[p].phase = "record"
      BY <2>2, <2>3, <2>12 DEF RecordIntent, Working
    <3>2. /\ after \in [Pollers -> PollerState]
          /\ \A q \in Pollers \ {p} : after[q] = poller[q]
          /\ after[p].phase \in {"idle", "fail"}
          /\ after[p].phase = "fail" => after[p].attempt = a
      BY <1>0, <3>1, IdleType DEF PollerState, Idle, a
    <3>3. row \in AttemptRow /\ row.status = attempts[a].status
      BY <1>0, <3>1 DEF AttemptRow
    <3>4. attempts[a].status \notin {"none", "pending", "failed"}
      BY <1>0, <2>6, <3>1 DEF ClaimInv, ClaimsHeld, a
    <3>5. rows[a] = row /\ \A b \in Attempts \ {a} : rows[b] = attempts[b]
      BY <1>0, <3>1
    <3>6. UNCHANGED intents /\ (Write(a, row, after) \/ Skip(after))
      BY <2>12 DEF RecordIntent, a, provider
    <3> HIDE DEF after, row, rows
    <3>7. DeclinesIn(rows, after) /\ DeclinesIn(attempts, after)
      BY <1>0, <1>1, <3>1, <3>2, <3>3, <3>4, <3>5 DEF DeclinesHeld, DeclinesIn
    <3>8. \A q \in Pollers : after[q].phase \notin {"idle", "loaded"} => after[q].attempt \in Attempts
      BY <1>1, <3>1, <3>2
    <3> QED
      BY <1>0, <3>1, <3>2, <3>3, <3>6, <3>7, <3>8, WriteKeepsDeclines DEF rows
  <2>13. CASE RecordFailure(p)
    <3> DEFINE back == [poller EXCEPT ![p] = IF @.result = "action"
                                      THEN [@ EXCEPT !.phase = "retry"] ELSE Idle]
               row == [attempts[a] EXCEPT !.status = "failed"]
    <3>1. a \in Attempts /\ Apart /\ Working(p) /\ poller[p].result = intents[a].state
      BY <1>0, <2>2, <2>3, <2>13 DEF RecordFailure, Working, Told, AnswersHeld, a
    <3>2. row \in AttemptRow /\ row.status = "failed"
      BY <1>0, <3>1 DEF AttemptRow
    <3>3. /\ \A q \in Pollers \ {p} : back[q] = poller[q]
          /\ back[p].phase \in {"idle", "retry"}
          /\ back[p].phase = "retry" => back[p].attempt = a /\ intents[a].state = "action"
      BY <1>0, <3>1 DEF PollerState, Idle, a
    <3>4. UNCHANGED intents /\ (Write(a, row, idle) \/ Skip(idle) \/ Skip(back))
      BY <2>13 DEF RecordFailure, RecordedFailure, a, idle, provider
    <3> HIDE DEF back, row
    <3>5. CASE Skip(back)
      <4>1. DeclinesIn(attempts, back)
        BY <1>0, <2>6, <3>1, <3>3 DEF DeclinesHeld, DeclinesIn
      <4> QED
        BY <3>4, <3>5, <4>1 DEF Skip, DeclinesHeld, DeclinesIn
    <3> HIDE DEF Apart
    <3> QED
      BY <2>4, <2>5, <3>1, <3>2, <3>4, <3>5
  <2>14. CASE ResetToPending(p)
    <3> DEFINE row == [attempts[a] EXCEPT !.status = "pending"]
    <3>1. a \in Attempts /\ Apart /\ ~(intents[a].state = "declined" /\ attempts[a].intent)
      BY <2>2, <2>3, <2>6, <2>14 DEF ResetToPending, Working
    <3>2. row \in AttemptRow /\ row.intent = attempts[a].intent
      BY <1>0, <3>1 DEF AttemptRow, Live
    <3>3. UNCHANGED intents /\ (Write(a, row, idle) \/ Skip(idle))
      BY <2>14 DEF ResetToPending, a, idle, provider
    <3> HIDE DEF row, Apart
    <3> QED
      BY <2>4, <2>5, <3>1, <3>2, <3>3
  <2>15. CASE PollerDies(p)
    BY <2>5, <2>15 DEF PollerDies, Skip, idle, provider
  <2> QED
    BY <1>6, <2>7, <2>8, <2>9, <2>10, <2>11, <2>12, <2>13, <2>14, <2>15 DEF Poll
<1> QED
  BY <1>2, <1>3, <1>4, <1>5, <1>6
     DEF Next, Webhook, SaveSettings, Tick, CreateSession, CompleteSession,
         HandleCheckoutCompleted, PersistAutoRecharge, WebhookDies, provider, vars

\* A row that was closed as failed, with its PaymentIntent id, stays so.
ClosedKept ==
    \A a \in Attempts : attempts[a].status = "failed" /\ attempts[a].intent =>
       attempts'[a].status = "failed" /\ attempts'[a].intent

\* Who closes a row leaves the others, and nobody puts a closed row back: the
\* poller that could holds a decline, and goes on to report it.
LEMMA ClosedStep ==
  ASSUME DeclineInv, [Next]_vars PROVE ClosedKept
<1>0. /\ attempts \in [Attempts -> AttemptRow] /\ poller \in [Pollers -> PollerState]
      /\ TypeOK /\ PollersNamed /\ DeclinesHeld
  BY DEF DeclineInv, MoneyInv, TypeOK
<1>1. CASE Debit
  BY <1>1 DEF Debit, Unused, ClosedKept
<1>2. CASE UNCHANGED attempts
  BY <1>2 DEF ClosedKept
<1>3. ASSUME NEW a \in Attempts, NEW row \in AttemptRow,
             \/ attempts[a].status # "failed"
             \/ row.status = "failed" /\ (attempts[a].intent => row.intent),
             \E pollers : Write(a, row, pollers)
      PROVE  ClosedKept
  <2>1. attempts' = [attempts EXCEPT ![a] = [row EXCEPT !.at = clock]]
    BY <1>3 DEF Write
  <2>2. attempts'[a].status = row.status /\ attempts'[a].intent = row.intent
    BY <1>0, <2>1 DEF AttemptRow
  <2>3. \A b \in Attempts \ {a} : attempts'[b] = attempts[b]
    BY <1>0, <2>1
  <2> QED
    BY <1>3, <2>2, <2>3 DEF ClosedKept
<1>4. ASSUME NEW a \in Attempts, NEW status \in {"failed", "pending", "processing", "succeeded"},
             attempts[a].status # "failed" \/ status = "failed",
             \E pollers : Write(a, [attempts[a] EXCEPT !.status = status], pollers)
      PROVE  ClosedKept
  <2> DEFINE row == [attempts[a] EXCEPT !.status = status]
  <2>1. row \in AttemptRow /\ row.status = status /\ row.intent = attempts[a].intent
    BY <1>0 DEF AttemptRow, Live
  <2>2. \E pollers : Write(a, row, pollers)
    BY <1>4
  <2> HIDE DEF row
  <2> QED
    BY <1>3, <1>4, <2>1, <2>2
<1>5. ASSUME NEW a \in Attempts, HandleAutoRechargeSucceeded(a) PROVE ClosedKept
  BY <1>2, <1>4, <1>5 DEF HandleAutoRechargeSucceeded, Skip, Matches, Live
<1>6. ASSUME NEW a \in Attempts, HandleAutoRechargeFailed(a) PROVE ClosedKept
  BY <1>2, <1>4, <1>6 DEF HandleAutoRechargeFailed, RecordedFailure, Skip
<1>7. ASSUME NEW p \in Pollers, Poll(p) PROVE ClosedKept
  <2> DEFINE a == poller[p].attempt
  <2>1. poller[p].phase # "idle" => a \in Attempts
    BY <1>0 DEF PollersNamed, Named
  <2>2. Working(p) /\ attempts[a].status = "failed" => poller[p].phase = "fail"
    BY SMTT(30), <1>0 DEF DeclinesHeld, DeclinesIn, Working
  <2> HIDE DEF a
  <2>3. CASE LoadCandidates(p) \/ ChargeAttempt(p) \/ PollerDies(p)
    BY <1>2, <2>3 DEF LoadCandidates, ChargeAttempt, PollerDies
  <2>4. CASE ClaimAttempt(p)
    <3>1. \/ /\ Claimable(p)
             /\ \E pollers : Write(a, [attempts[a] EXCEPT !.status = "processing"], pollers)
          \/ UNCHANGED attempts
      BY <2>4 DEF ClaimAttempt, Skip, a
    <3>2. Claimable(p) => attempts[a].status # "failed"
      BY DEF Claimable, Live, a
    <3>3. a \in Attempts
      BY <2>1, <2>4 DEF ClaimAttempt
    <3> QED
      BY <1>2, <1>4, <3>1, <3>2, <3>3
  <2>5. CASE FailAttemptById(p)
    BY <1>2, <1>4, <2>1, <2>5 DEF FailAttemptById, Skip, a
  <2>6. CASE ResetToPending(p)
    <3>1. a \in Attempts /\ attempts[a].status # "failed"
      BY <2>1, <2>2, <2>6 DEF ResetToPending, Working
    <3>2. \/ \E pollers : Write(a, [attempts[a] EXCEPT !.status = "pending"], pollers)
          \/ UNCHANGED attempts
      BY <2>6 DEF ResetToPending, Skip, a
    <3> QED
      BY <1>2, <1>4, <3>1, <3>2
  <2>7. CASE RecordFailure(p)
    BY <1>2, <1>4, <2>1, <2>7 DEF RecordFailure, RecordedFailure, Skip, a
  <2>8. CASE RecordIntent(p)
    <3> DEFINE row == [attempts[a] EXCEPT !.intent = TRUE]
    <3>1. a \in Attempts
      BY <2>1, <2>8 DEF RecordIntent
    <3>2. row \in AttemptRow /\ row.status = attempts[a].status /\ row.intent
      BY <1>0, <3>1 DEF AttemptRow
    <3>3. (\E pollers : Write(a, row, pollers)) \/ UNCHANGED attempts
      BY <2>8 DEF RecordIntent, Skip, a
    <3> HIDE DEF row
    <3> QED
      BY <1>2, <1>3, <3>1, <3>2, <3>3
  <2> QED
    BY <1>7, <2>3, <2>4, <2>5, <2>6, <2>7, <2>8 DEF Poll
<1> QED
  BY <1>1, <1>2, <1>5, <1>6, <1>7
     DEF Next, Webhook, SaveSettings, Tick, CreateSession, CompleteSession,
         HandleCheckoutCompleted, PersistAutoRecharge, WebhookDies, vars

\* A row whose decline was counted stays among them.
LEMMA CountedKept ==
  ASSUME DeclineInv, [Next]_vars PROVE Counted \subseteq Counted'
<1>1. ClosedKept
  BY ClosedStep
<1>2. ProviderKept \/ \E p \in Pollers, outcome \in Outcomes : \E phase, result :
                         FirstCharge(p, outcome, phase, result)
  BY ProviderStep DEF DeclineInv, MoneyInv
<1>3. ASSUME NEW a \in Attempts, intents[a].state # "none" PROVE intents'[a] = intents[a]
  <2>1. intents \in [Attempts -> Intent]
    BY DEF DeclineInv, MoneyInv, TypeOK
  <2> QED
    BY ZenonT(60), <1>2, <1>3, <2>1 DEF ProviderKept, FirstCharge
<1> QED
  BY <1>1, <1>3 DEF ClosedKept, Counted

\* The decline of row a is counted by this step.
Counts(a) ==
    /\ settings'.failures = settings.failures + 1
    /\ UNCHANGED intents /\ intents[a].state \in {"declined", "action"}
    /\ attempts[a].status # "failed"
    /\ attempts'[a].status = "failed" /\ attempts'[a].intent

\* A recorder that finds the row counts it and closes it in one transaction.
LEMMA RecordedCounts ==
  ASSUME TypeOK, NEW a \in Attempts, NEW pollers, RecordedFailure(a, pollers),
         UNCHANGED intents, intents[a].state \in {"declined", "action"}
  PROVE  Counts(a) \/ UNCHANGED settings
<1>1. CASE Matches(a)
  <2> DEFINE row == [attempts[a] EXCEPT !.status = "failed"]
  <2>1. /\ attempts' = [attempts EXCEPT ![a] = [row EXCEPT !.at = clock]]
        /\ settings' = [settings EXCEPT !.failures = @ + 1, !.lastFailure = clock]
    BY <1>1 DEF RecordedFailure, Write
  <2>2. attempts \in [Attempts -> AttemptRow] /\ settings \in Settings
    BY DEF TypeOK
  <2>3. attempts'[a].status = "failed" /\ attempts'[a].intent = attempts[a].intent
    BY <2>1, <2>2 DEF AttemptRow
  <2>4. settings'.failures = settings.failures + 1
    BY <2>1, <2>2 DEF Settings
  <2> QED
    BY <1>1, <2>3, <2>4 DEF Counts, Matches, Live
<1>2. CASE ~Matches(a)
  BY <1>2 DEF RecordedFailure
<1> QED
  BY <1>1, <1>2

\* The counter is reset, left alone, or counts one row more.
LEMMA CounterStep ==
  ASSUME DeclineInv, [Next]_vars
  PROVE  \/ settings'.failures \in {0, settings.failures}
         \/ \E a \in Attempts : Counts(a)
<1>0. /\ settings \in Settings /\ TypeOK /\ PollersNamed /\ Told
  BY DEF DeclineInv, MoneyInv, TypeOK
<1>1. CASE UNCHANGED settings
  BY <1>1
<1>2. CASE SaveSettings
  BY <1>0, <1>2 DEF SaveSettings, Settings
<1>3. ASSUME NEW s \in Sessions, PersistAutoRecharge(s)
      PROVE  settings'.failures \in {0, settings.failures}
  BY <1>0, <1>3 DEF PersistAutoRecharge, Settings
<1>4. ASSUME NEW a \in Attempts, HandleAutoRechargeSucceeded(a)
      PROVE  settings'.failures \in {0, settings.failures}
  BY <1>0, <1>4 DEF HandleAutoRechargeSucceeded, Settings
<1>5. ASSUME NEW a \in Attempts, HandleAutoRechargeFailed(a)
      PROVE  Counts(a) \/ UNCHANGED settings
  <2>1. intents[a].state = "declined" /\ UNCHANGED intents /\ RecordedFailure(a, poller)
    BY <1>0, <1>5 DEF HandleAutoRechargeFailed, Told, ProviderTold, provider
  <2> QED
    BY <1>0, <2>1, RecordedCounts
<1>6. ASSUME NEW p \in Pollers, RecordFailure(p)
      PROVE  Counts(poller[p].attempt) \/ UNCHANGED settings
  <2> DEFINE a == poller[p].attempt
  <2>1. a \in Attempts /\ intents[a].state \in {"declined", "action"} /\ UNCHANGED intents
    BY <1>0, <1>6 DEF RecordFailure, PollersNamed, Named, Told, AnswersHeld, provider
  <2>2. (\E pollers : RecordedFailure(a, pollers)) \/ UNCHANGED settings
    BY <1>6 DEF RecordFailure
  <2> HIDE DEF a
  <2>3. Counts(a) \/ UNCHANGED settings
    BY <1>0, <2>1, <2>2, RecordedCounts
  <2> QED
    BY <2>3 DEF a
<1>7. ASSUME NEW p \in Pollers, Poll(p)
      PROVE  UNCHANGED settings \/ \E a \in Attempts : Counts(a)
  <2>1. RecordFailure(p) \/ UNCHANGED settings
    BY <1>7 DEF Poll, LoadCandidates, ClaimAttempt, FailAttemptById, ChargeAttempt,
                RecordIntent, ResetToPending, PollerDies
  <2>2. RecordFailure(p) => poller[p].attempt \in Attempts
    BY <1>0 DEF RecordFailure, PollersNamed, Named
  <2> QED
    BY <1>6, <2>1, <2>2
<1> QED
  BY <1>1, <1>2, <1>3, <1>4, <1>5, <1>7
     DEF Next, Webhook, Debit, Tick, CreateSession, CompleteSession,
         HandleCheckoutCompleted, WebhookDies, vars

\* The rows are finitely many, and so are those whose decline was counted.
LEMMA CountedFinite ==
  /\ IsFiniteSet(Attempts)
  /\ IsFiniteSet(Counted) /\ IsFiniteSet(Counted')
<1>1. IsFiniteSet(Attempts)
  <2>1. 1 \in Int /\ MaxAttempts \in Int
    BY RechargeConstants
  <2> QED
    BY <2>1, FS_Interval DEF Attempts
<1>2. Counted \subseteq Attempts /\ Counted' \subseteq Attempts
  BY DEF Counted
<1> QED
  BY <1>1, <1>2, FS_Subset

\* The counter never runs ahead of the declines that were counted.
LEMMA FailuresStep ==
  ASSUME DeclineInv, FailuresCounted, [Next]_vars PROVE FailuresCounted'
<1>1. Counted \subseteq Counted'
  BY CountedKept
<1>2. /\ Cardinality(Counted) \in Nat /\ Cardinality(Counted') \in Nat
      /\ Cardinality(Counted) <= Cardinality(Counted')
  BY <1>1, CountedFinite, FS_Subset, FS_CardinalityType
<1>3. settings.failures \in Nat
  BY DEF DeclineInv, MoneyInv, TypeOK, Settings
<1>4. CASE settings'.failures \in {0, settings.failures}
  <2>1. settings'.failures <= Cardinality(Counted')
    BY <1>2, <1>3, <1>4 DEF FailuresCounted
  <2> QED
    BY <2>1 DEF FailuresCounted
<1>5. ASSUME NEW a \in Attempts, Counts(a) PROVE FailuresCounted'
  <2>1. a \notin Counted /\ a \in Counted'
    BY <1>5 DEF Counts, Counted
  <2>2. IsFiniteSet(Counted \cup {a}) /\ Cardinality(Counted \cup {a}) = Cardinality(Counted) + 1
    BY <2>1, CountedFinite, FS_AddElement
  <2>3. Counted \cup {a} \subseteq Counted'
    BY <1>1, <2>1
  <2>4. Cardinality(Counted \cup {a}) <= Cardinality(Counted')
    BY <2>3, CountedFinite, FS_Subset
  <2>5. settings'.failures = settings.failures + 1
    BY <1>5 DEF Counts
  <2>6. settings'.failures <= Cardinality(Counted')
    BY <1>2, <1>3, <2>2, <2>4, <2>5 DEF FailuresCounted
  <2> QED
    BY <2>6 DEF FailuresCounted
<1> QED
  BY <1>4, <1>5, CounterStep

\* One decline is one failure: the poller and the webhook may both report it,
\* again and in any order, and the counter that pauses the organization moves
\* once, when a poller's calls end within the lease.
THEOREM DeclinesCounted == ASSUME LeaseCoversCalls PROVE Spec => []FailuresCountDeclines
<1>1. Init => ClaimInv /\ DeclinesHeld /\ FailuresCounted
  <2> SUFFICES ASSUME Init PROVE ClaimInv /\ DeclinesHeld /\ FailuresCounted
    OBVIOUS
  <2>1. ClaimInv /\ DeclinesHeld
    BY DEF Init, ClaimInv, ClaimsHeld, OnePollerPerAttempt, Working, Idle,
           DeclinesHeld, DeclinesIn
  <2>2. settings.failures = 0 /\ Cardinality(Counted) \in Nat
    BY CountedFinite, FS_CardinalityType DEF Init
  <2> QED
    BY <2>1, <2>2 DEF FailuresCounted
<1>2. MoneyInv /\ ClaimInv /\ [Next]_vars => ClaimInv'
  BY ClaimStep DEF MoneyInv
<1>3. MoneyInv /\ ClaimInv /\ DeclinesHeld /\ [Next]_vars => DeclinesHeld'
  BY DeclineStep DEF DeclineInv
<1>4. MoneyInv /\ ClaimInv /\ DeclinesHeld /\ FailuresCounted /\ [Next]_vars => FailuresCounted'
  BY FailuresStep DEF DeclineInv
<1>5. MoneyInv /\ FailuresCounted => FailuresCountDeclines
  <2> DEFINE declined == {a \in Attempts : intents[a].state \in {"declined", "action"}}
  <2>1. IsFiniteSet(declined) /\ Counted \subseteq declined
    BY CountedFinite, FS_Subset DEF Counted
  <2>2. /\ Cardinality(Counted) <= Cardinality(declined)
        /\ Cardinality(Counted) \in Nat /\ Cardinality(declined) \in Nat
    BY <2>1, CountedFinite, FS_Subset, FS_CardinalityType
  <2>3. MoneyInv => settings.failures \in Nat
    BY DEF MoneyInv, TypeOK, Settings
  <2> QED
    BY <2>2, <2>3 DEF FailuresCounted, FailuresCountDeclines
<1> QED
  BY <1>1, <1>2, <1>3, <1>4, <1>5, MoneyHeld, PTL DEF Spec
=============================================================================
