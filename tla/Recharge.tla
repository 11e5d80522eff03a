------------------------------ MODULE Recharge ------------------------------
(***************************************************************************)
(* Credit top-ups and auto-recharge of one organization.                   *)
(*                                                                         *)
(* The database queues a recharge when a debit leaves the balance low; a   *)
(* poller claims the attempt and charges the saved card off-session; the   *)
(* payment provider reports back through webhooks, which write the credit. *)
(* Pollers overlap and die, webhooks are repeated, late and out of order,  *)
(* and every database write outside a SQL function may fail unnoticed.     *)
(***************************************************************************)
EXTENDS Totals

CONSTANTS
    Sessions,          \* Checkout sessions
    MaxAttempts,       \* bound: rows of auto_recharge_attempts
    Cards,             \* saved payment methods
    Pollers,           \* invocations of the poller that may overlap
    Null,
    TopUp,             \* credit bought by one session
    Amounts,           \* what settings.amount_usd may be
    Threshold,         \* settings.threshold_usd
    StartBalance,
    MaxDebits,         \* bound: debits in a run
    Lease,             \* LEASE_MS
    CallTime,          \* the longest a poller works on one attempt
    SuccessCooldown,
    FailureCooldown,
    MaxFailures,
    MaxTime            \* bound: the last instant

(* Rows are numbered in the order in which they are queued.                *)
Attempts == 1 .. MaxAttempts

ASSUME RechargeConstants ==
    /\ \A n \in {MaxAttempts, TopUp, Threshold, StartBalance, MaxDebits, Lease, CallTime,
                 SuccessCooldown, FailureCooldown, MaxFailures, MaxTime} : n \in Nat
    /\ Amounts \subseteq Nat /\ Amounts # {}
    /\ Null \notin Cards \cup Sessions \cup Nat
    /\ IsFiniteSet(Sessions)
    /\ Sessions \cap Attempts = {}

VARIABLES
    clock,
    balance,           \* credit_granted_usd - billable_spend_usd
    debits,            \* how many debits were made
    settings,          \* the row of org_auto_recharge_settings
    attempts,          \* the rows of auto_recharge_attempts
    ledger,            \* source_ref of every credit_ledger row
    sessions,          \* the provider's Checkout sessions
    intents,           \* the provider's PaymentIntents, by idempotency key
    events,            \* webhook events the provider emitted
    unacked,           \* those not answered with a success yet
    persisting,        \* webhook handlers about to save a session's card
    poller             \* what each poller invocation is doing

vars == <<clock, balance, debits, settings, attempts, ledger, sessions,
          intents, events, unacked, persisting, poller>>

provider == <<sessions, intents>>
-----------------------------------------------------------------------------
Live == {"pending", "processing"}

Settings ==
    [enabled : BOOLEAN, card : Cards \cup {Null}, amount : Amounts,
     failures : Nat, lastFailure : Nat \cup {Null}, lastRecharge : Nat \cup {Null}]

(* intent: whether stripe_payment_intent_id is set. The id itself is the   *)
(* attempt's, because the create call is keyed by the attempt. at is the   *)
(* value of updated_at for the lease; that a reader still holds the exact  *)
(* updated_at of the row is the reader's fresh.                            *)
AttemptRow ==
    [status : {"none", "failed", "succeeded"} \cup Live, amount : Nat,
     intent : BOOLEAN, at : Nat]

NoAttempt == [status |-> "none", amount |-> 0, intent |-> FALSE, at |-> 0]

Outcomes == {"succeeded", "declined", "action", "refused"}

Intent == [state : {"none"} \cup Outcomes, card : Cards \cup {Null},
           charged : Nat]

PollerState ==
    [phase : {"idle", "loaded", "charge", "cardless", "record", "fail", "retry"},
     attempt : Attempts \cup {Null}, fresh : BOOLEAN, card : Cards \cup {Null},
     since : Nat, result : Outcomes \cup {Null}]

Idle == [phase |-> "idle", attempt |-> Null, fresh |-> FALSE, card |-> Null,
         since |-> 0, result |-> Null]

EventKinds == {"completed", "succeeded", "failed"}

TypeOK ==
    /\ clock \in 0 .. MaxTime
    /\ balance \in Int
    /\ debits \in 0 .. MaxDebits
    /\ settings \in Settings
    /\ attempts \in [Attempts -> AttemptRow]
    /\ ledger \subseteq Sessions \cup Attempts
    /\ sessions \in [Sessions -> [state : {"none", "open", "unpaid", "paid"},
                                  card : Cards \cup {Null}, consent : BOOLEAN]]
    /\ intents \in [Attempts -> Intent]
    /\ events \subseteq EventKinds \X (Sessions \cup Attempts)
    /\ unacked \subseteq events
    /\ persisting \subseteq Sessions
    /\ poller \in [Pollers -> PollerState]

Init ==
    /\ clock = 0
    /\ balance = StartBalance
    /\ debits = 0
    /\ settings \in [enabled : {TRUE}, card : {Null}, amount : Amounts,
                     failures : {0}, lastFailure : {Null}, lastRecharge : {Null}]
    /\ attempts = [a \in Attempts |-> NoAttempt]
    /\ ledger = {}
    /\ sessions = [s \in Sessions |-> [state |-> "none", card |-> Null, consent |-> FALSE]]
    /\ intents = [a \in Attempts |->
                    [state |-> "none", card |-> Null, charged |-> 0]]
    /\ events = {}
    /\ unacked = {}
    /\ persisting = {}
    /\ poller = [p \in Pollers |-> Idle]
-----------------------------------------------------------------------------
(* The balance trigger and enqueue_auto_recharge_if_low.                   *)

Recent(instant, cooldown) == instant # Null /\ instant > clock - cooldown

MayEnqueue(newBalance) ==
    /\ settings.enabled
    /\ settings.card # Null
    /\ settings.failures < MaxFailures
    /\ ~Recent(settings.lastFailure, FailureCooldown)
    /\ ~Recent(settings.lastRecharge, SuccessCooldown)
    /\ newBalance < Threshold
    /\ \A a \in Attempts : attempts[a].status \notin Live

Unused == {a \in Attempts : attempts[a].status = "none"}

Enqueued == [NoAttempt EXCEPT !.status = "pending", !.amount = settings.amount,
                              !.at = clock]

(* A settlement debits the organization; the trigger queues at most one    *)
(* attempt in the same transaction.                                        *)
Debit ==
    /\ debits < MaxDebits
    /\ debits' = debits + 1
    /\ balance' = balance - 1
    /\ attempts' = [a \in Attempts |->
          IF MayEnqueue(balance - 1) /\ a \in Unused /\ \A b \in Unused : a <= b
          THEN Enqueued ELSE attempts[a]]
    /\ UNCHANGED <<clock, settings, ledger, provider, events, unacked,
                   persisting, poller>>

(* PATCH of the settings route: a save also clears the decline back-off.   *)
SaveSettings ==
    /\ \E on \in BOOLEAN, amount \in Amounts :
          settings' = [settings EXCEPT !.enabled = on, !.amount = amount,
                                       !.failures = 0, !.lastFailure = Null]
    /\ UNCHANGED <<clock, balance, debits, attempts, ledger, provider, events,
                   unacked, persisting, poller>>
-----------------------------------------------------------------------------
(* The poller: processPendingAutoRecharges.                                *)

Candidate(a) ==
    \/ attempts[a].status = "pending"
    \/ /\ attempts[a].status = "processing"
       /\ ~attempts[a].intent
       /\ attempts[a].at < clock - Lease

(* Any UPDATE of one attempt also moves updated_at, so that whoever read   *)
(* the row before holds a stale one. pollers is where the writer leaves    *)
(* the pollers.                                                            *)
Write(a, row, pollers) ==
    /\ attempts' = [attempts EXCEPT ![a] = [row EXCEPT !.at = clock]]
    /\ poller' = [p \in Pollers |->
          IF pollers[p].attempt = a THEN [pollers[p] EXCEPT !.fresh = FALSE]
                                    ELSE pollers[p]]

Skip(pollers) == poller' = pollers /\ UNCHANGED attempts

(* The candidate query and loadSettings. The two reads are one step: a row *)
(* that changes between them fails the claim. A failed settings read is    *)
(* not noticed and looks like an organization without a card.              *)
LoadCandidates(p) ==
    /\ poller[p].phase = "idle"
    /\ \E a \in Attempts, card \in {settings.card, Null} :
          /\ Candidate(a)
          /\ poller' = [poller EXCEPT ![p] =
                [Idle EXCEPT !.phase = "loaded", !.attempt = a,
                             !.fresh = TRUE, !.card = card]]
    /\ UNCHANGED <<clock, balance, debits, settings, attempts, ledger, provider,
                   events, unacked, persisting>>

(* A compare-and-swap that does not look at updated_at.                    *)
ClaimableFault(p) == attempts[poller[p].attempt].status \in Live

Claimable(p) ==
    /\ attempts[poller[p].attempt].status \in Live
    /\ poller[p].fresh

(* claimAttempt; the loser of the swap skips the row.                      *)
ClaimAttempt(p) ==
    LET a == poller[p].attempt
        working == [poller[p] EXCEPT !.since = clock,
                       !.phase = IF poller[p].card = Null THEN "cardless" ELSE "charge"]
    IN
    /\ poller[p].phase = "loaded"
    /\ \/ /\ Claimable(p)
          /\ Write(a, [attempts[a] EXCEPT !.status = "processing"],
                   [poller EXCEPT ![p] = working])
       \/ /\ ~Claimable(p)
          /\ Skip([poller EXCEPT ![p] = Idle])
    /\ UNCHANGED <<clock, balance, debits, settings, ledger, provider, events,
                   unacked, persisting>>

(* failAttemptById: close the row by id, whatever its status is by now.    *)
FailAttemptById(p) ==
    /\ poller[p].phase = "cardless"
    /\ LET a == poller[p].attempt
           done == [poller EXCEPT ![p] = Idle]
       IN \/ Write(a, [attempts[a] EXCEPT !.status = "failed"], done)
          \/ Skip(done)                              \* the write failed unnoticed
    /\ UNCHANGED <<clock, balance, debits, settings, ledger, provider, events,
                   unacked, persisting>>

(* The provider has no memory of the idempotency key.                      *)
KnownFault(a) == FALSE

Known(a) == intents[a].state # "none"

(* paymentIntents.create, keyed by the attempt id: the provider charges on *)
(* the first request it sees under the key and repeats that outcome after- *)
(* wards; it rejects a request under the same key for another card. The    *)
(* request or the response may be lost, which the caller cannot tell from  *)
(* any other transient error.                                              *)
ChargeAttempt(p) ==
    LET a == poller[p].attempt IN
    /\ poller[p].phase = "charge"
    /\ \/ /\ ~Known(a)
          /\ \E outcome \in Outcomes :
                /\ intents' = [intents EXCEPT ![a] =
                      [state |-> outcome, card |-> poller[p].card,
                       charged |-> @.charged + (IF outcome = "succeeded" THEN 1 ELSE 0)]]
                /\ LET sent == CASE outcome = "succeeded" -> {<<"succeeded", a>>}
                                 [] outcome = "declined" -> {<<"failed", a>>}
                                 [] OTHER -> {}
                   IN /\ events' = events \cup sent
                      /\ unacked' = unacked \cup sent
                /\ \E answered \in BOOLEAN :
                      poller' = [poller EXCEPT
                         ![p].phase = CASE ~answered -> "retry"
                                        [] answered /\ outcome = "refused" -> "cardless"
                                        [] OTHER -> "record",
                         ![p].result = IF answered THEN outcome ELSE Null]
       \/ /\ Known(a)
          /\ poller[p].card = intents[a].card
          /\ poller' = [poller EXCEPT
                ![p].phase = IF intents[a].state = "refused" THEN "cardless" ELSE "record",
                ![p].result = intents[a].state]
          /\ UNCHANGED <<intents, events, unacked>>
       \/ /\ poller' = [poller EXCEPT ![p].phase = "retry"]
          /\ UNCHANGED <<intents, events, unacked>>
    /\ UNCHANGED <<clock, balance, debits, settings, attempts, ledger, sessions,
                   persisting>>

(* The PaymentIntent id is written by row id; an error of this write is    *)
(* ignored. A decline goes on to recordFailure.                            *)
RecordIntent(p) ==
    /\ poller[p].phase = "record"
    /\ LET a == poller[p].attempt
           after == [poller EXCEPT ![p] = IF @.result = "succeeded"
                                          THEN Idle ELSE [@ EXCEPT !.phase = "fail"]]
       IN \/ Write(a, [attempts[a] EXCEPT !.intent = TRUE], after)
          \/ Skip(after)
    /\ UNCHANGED <<clock, balance, debits, settings, ledger, provider, events,
                   unacked, persisting>>

(* A failure recorder that does not ask whether the row was still live.    *)
MatchesFault(a) == attempts[a].intent

(* The WHERE clause of both record functions: the row is found by the      *)
(* PaymentIntent id and must still be live.                                *)
Matches(a) == attempts[a].intent /\ attempts[a].status \in Live

(* record_auto_recharge_failure, one transaction.                          *)
RecordedFailure(a, pollers) ==
    IF Matches(a)
    THEN /\ Write(a, [attempts[a] EXCEPT !.status = "failed"], pollers)
         /\ settings' = [settings EXCEPT !.failures = @ + 1, !.lastFailure = clock]
    ELSE Skip(pollers) /\ UNCHANGED settings

(* recordFailure throws when the function fails. For a card that needs     *)
(* authentication that lands in the transient branch, for a declined card  *)
(* it ends the poller's run.                                               *)
RecordFailure(p) ==
    /\ poller[p].phase = "fail"
    /\ \/ RecordedFailure(poller[p].attempt, [poller EXCEPT ![p] = Idle])
       \/ /\ Skip([poller EXCEPT ![p] = IF @.result = "action"
                                         THEN [@ EXCEPT !.phase = "retry"] ELSE Idle])
          /\ UNCHANGED settings
    /\ UNCHANGED <<clock, balance, debits, ledger, provider, events, unacked,
                   persisting>>

(* The transient branch puts the row back to pending by id; the partial    *)
(* unique index refuses it when another attempt is live.                   *)
ResetToPending(p) ==
    LET a == poller[p].attempt
        done == [poller EXCEPT ![p] = Idle]
    IN
    /\ poller[p].phase = "retry"
    /\ \/ /\ \A b \in Attempts \ {a} : attempts[b].status \notin Live
          /\ Write(a, [attempts[a] EXCEPT !.status = "pending"], done)
       \/ Skip(done)
    /\ UNCHANGED <<clock, balance, debits, settings, ledger, provider, events,
                   unacked, persisting>>

Working(p) == poller[p].phase \notin {"idle", "loaded"}

(* The poller's process is lost. One that has only read leaves no trace.   *)
PollerDies(p) ==
    /\ Working(p)
    /\ poller' = [poller EXCEPT ![p] = Idle]
    /\ UNCHANGED <<clock, balance, debits, settings, attempts, ledger, provider,
                   events, unacked, persisting>>
-----------------------------------------------------------------------------
(* The checkout route and the provider's side of it.                       *)

(* POST of the checkout route; only a payer who consents has a card saved. *)
CreateSession(s) ==
    /\ sessions[s].state = "none"
    /\ \E consent \in BOOLEAN :
          sessions' = [sessions EXCEPT ![s] = [state |-> "open", card |-> Null,
                                               consent |-> consent]]
    /\ UNCHANGED <<clock, balance, debits, settings, attempts, ledger, intents,
                   events, unacked, persisting, poller>>

(* The provider completes the session, paid or, with a delayed method, not.*)
CompleteSession(s) ==
    /\ sessions[s].state = "open"
    /\ \E card \in Cards, state \in {"paid", "unpaid"} :
          sessions' = [sessions EXCEPT ![s].state = state, ![s].card = card]
    /\ events' = events \cup {<<"completed", s>>}
    /\ unacked' = unacked \cup {<<"completed", s>>}
    /\ UNCHANGED <<clock, balance, debits, settings, attempts, ledger, intents,
                   persisting, poller>>
-----------------------------------------------------------------------------
(* The webhook. The provider repeats an event until it is acknowledged and *)
(* may repeat it afterwards.                                               *)

Acked(e) == unacked' = unacked \ {e}

(* A credit that is not keyed by its source.                               *)
CreditedFault(ref, amount) ==
    /\ ledger' = ledger \cup {ref}
    /\ balance' = balance + amount

(* Insert into credit_ledger, idempotent on (source, source_ref).          *)
Credited(ref, amount) ==
    /\ ledger' = ledger \cup {ref}
    /\ balance' = IF ref \in ledger THEN balance ELSE balance + amount

(* A handler that takes completion for payment.                            *)
MintsFault(s) == TRUE

Mints(s) == sessions[s].state = "paid"

(* handleCheckoutCompleted: an unpaid session mints nothing. The credit,   *)
(* then, for a consenting payer, the card in a write of its own. The       *)
(* answer is sent after both.                                              *)
HandleCheckoutCompleted(s) ==
    /\ <<"completed", s>> \in events
    /\ IF Mints(s) THEN Credited(s, TopUp) ELSE UNCHANGED <<ledger, balance>>
    /\ IF Mints(s) /\ sessions[s].consent
       THEN /\ persisting' = persisting \cup {s}
            /\ UNCHANGED unacked
       ELSE /\ Acked(<<"completed", s>>)
            /\ UNCHANGED persisting
    /\ UNCHANGED <<clock, debits, settings, attempts, provider, events, poller>>

(* persistAutoRecharge: best effort, and acknowledged either way.          *)
PersistAutoRecharge(s) ==
    /\ s \in persisting
    /\ persisting' = persisting \ {s}
    /\ Acked(<<"completed", s>>)
    /\ \/ \E amount \in Amounts :
             settings' = [settings EXCEPT !.enabled = TRUE, !.card = sessions[s].card,
                             !.amount = amount, !.failures = 0, !.lastFailure = Null]
       \/ UNCHANGED settings
    /\ UNCHANGED <<clock, balance, debits, attempts, ledger, provider, events, poller>>

(* The webhook's process is lost between the two writes.                   *)
WebhookDies(s) ==
    /\ s \in persisting
    /\ persisting' = persisting \ {s}
    /\ UNCHANGED <<clock, balance, debits, settings, attempts, ledger, provider,
                   events, unacked, poller>>

(* handleAutoRechargeSucceeded and record_auto_recharge_success: credit,   *)
(* close of the attempt and reset of the settings in one transaction, the  *)
(* reset on a replay too.                                                  *)
HandleAutoRechargeSucceeded(a) ==
    /\ <<"succeeded", a>> \in events
    /\ Credited(a, attempts[a].amount)
    /\ IF Matches(a) THEN Write(a, [attempts[a] EXCEPT !.status = "succeeded"], poller)
                     ELSE Skip(poller)
    /\ settings' = [settings EXCEPT !.lastRecharge = clock, !.failures = 0,
                                    !.lastFailure = Null]
    /\ Acked(<<"succeeded", a>>)
    /\ UNCHANGED <<clock, debits, provider, events, persisting>>

HandleAutoRechargeFailed(a) ==
    /\ <<"failed", a>> \in events
    /\ RecordedFailure(a, poller)
    /\ Acked(<<"failed", a>>)
    /\ UNCHANGED <<clock, balance, debits, ledger, provider, events, persisting>>

(* A poller finishes an attempt within CallTime: the provider's client     *)
(* bounds its calls, and the process is killed with its request.           *)
Tick ==
    /\ clock < MaxTime
    /\ \A p \in Pollers : Working(p) => clock < poller[p].since + CallTime
    /\ clock' = clock + 1
    /\ UNCHANGED <<balance, debits, settings, attempts, ledger, provider, events,
                   unacked, persisting, poller>>

Poll(p) ==
    \/ LoadCandidates(p) \/ ClaimAttempt(p) \/ FailAttemptById(p) \/ ChargeAttempt(p)
    \/ RecordIntent(p) \/ RecordFailure(p) \/ ResetToPending(p) \/ PollerDies(p)

Webhook ==
    \/ \E s \in Sessions : \/ HandleCheckoutCompleted(s)
                           \/ PersistAutoRecharge(s) \/ WebhookDies(s)
    \/ \E a \in Attempts : \/ HandleAutoRechargeSucceeded(a)
                           \/ HandleAutoRechargeFailed(a)

Next ==
    \/ Debit \/ SaveSettings \/ Tick \/ Webhook
    \/ \E p \in Pollers : Poll(p)
    \/ \E s \in Sessions : CreateSession(s) \/ CompleteSession(s)

Spec == Init /\ [][Next]_vars

(* The provider repeats an unacknowledged event until the webhook answers  *)
(* it, and the webhook's database recovers.                                *)
LiveSpec ==
    /\ Spec
    /\ \A s \in Sessions : WF_vars(Mints(s) /\ s \notin ledger /\ HandleCheckoutCompleted(s))
    /\ \A a \in Attempts : WF_vars(a \notin ledger /\ HandleAutoRechargeSucceeded(a))
-----------------------------------------------------------------------------
(* Properties.                                                             *)

(* At most one poller works on an attempt between its claim and the end of *)
(* its calls, however many polls overlap, and whatever leases ran out.     *)
OnePollerPerAttempt ==
    \A p, q \in Pollers :
        Working(p) /\ Working(q) /\ poller[p].attempt = poller[q].attempt => p = q

(* An attempt that is retried, taken over after its lease or reset after a *)
(* lost response charges the card at most once.                            *)
ChargedOncePerAttempt == \A a \in Attempts : intents[a].charged <= 1

(* Claims are exclusive and so are charges: overlapping polls, leases that *)
(* run out and retries never double the work or the charge of one attempt. *)
AttemptsAreExclusive == OnePollerPerAttempt /\ ChargedOncePerAttempt

CreditOf(ref) == IF ref \in Sessions THEN TopUp ELSE attempts[ref].amount

(* The balance moves only with the ledger: it is what was granted at the   *)
(* start and credited since, less the debits, whichever events were        *)
(* repeated.                                                               *)
BalanceMatchesLedger ==
    balance = StartBalance - debits + Total([ref \in ledger |-> CreditOf(ref)], ledger)

(* One decline is one failure: the poller and the webhook may both report  *)
(* it, and repeat it, before the counter pauses the organization.          *)
FailuresCountDeclines ==
    settings.failures <= Cardinality({a \in Attempts : intents[a].state \in {"declined", "action"}})

Collected == {s \in Sessions : sessions[s].state = "paid"}
                \cup {a \in Attempts : intents[a].charged > 0}

Books == INSTANCE CreditedPayments WITH
            Payments <- Sessions \cup Attempts, received <- Collected, credited <- ledger

(* Every payment that was collected is credited once and eventually.       *)
CreditsPayments == Books!Spec

(* The credit closes the attempt: once the payment is in the ledger and    *)
(* its event answered, an attempt that carries the PaymentIntent no longer *)
(* stands in the way of the next recharge.                                 *)
CreditClosesAttempt ==
    \A a \in Attempts :
        a \in ledger /\ attempts[a].intent /\ <<"succeeded", a>> \notin unacked
            => attempts[a].status \notin Live
=============================================================================
