----------------------------- MODULE GatewayLedger -----------------------------
(***************************************************************************)
(* The gateway attempt ledger: the security-definer functions through      *)
(* which every gateway worker accepts a request, reserves and dispatches   *)
(* attempts, settles them, emits the usage event and reconciles crashed    *)
(* work.  Each function is one transaction serialized by row locks, so     *)
(* each is one action.  The callers are unconstrained: any worker may call *)
(* any function at any time, late, twice, or never, which covers retries,  *)
(* lost responses, crashes and duplicated calls.  A refused or replayed    *)
(* call changes no row and is a stuttering step.                           *)
(***************************************************************************)
EXTENDS SpendGates

CONSTANTS
    CallerOps,      \* caller operations of accept calls (Null: unkeyed)
    WorstCases,     \* worst-case prices a route may quote (Null: unknown)
    Outputs,        \* output-token counts a settlement may report
    Outcomes,       \* terminal states a settlement may report
    Finalizes,      \* p_finalize_request values a settlement may carry
    FinishStates,   \* terminal states finish_request may be called with
    RevocableKeys,  \* keys that may be revoked or expire
    Lifetimes,      \* ticks from acceptance to deadline
    TopUps,         \* amounts a top-up may grant
    MaxGrant,       \* bound: no top-up past this granted total
    LastAccept,     \* bound: no request is accepted after this tick
    MaxTime         \* bound: the clock stops here

ASSUME InputsAssumption ==
    /\ CallerOps \subseteq Operations \cup {Null}
    /\ WorstCases \subseteq NatOrNull /\ Outputs \subseteq Nat
    /\ Outcomes \subseteq SettleStates /\ FinishStates \subseteq SettleStates
    /\ Finalizes \subseteq BOOLEAN /\ RevocableKeys \subseteq Keys
    /\ Lifetimes \subseteq Nat /\ TopUps \subseteq Nat
    /\ {MaxGrant, LastAccept, MaxTime} \subseteq Nat

Init ==
    /\ now = 0
    /\ requests = [r \in Requests |-> NoRequest]
    /\ accepted = << >>
    /\ attempts = [a \in Attempts |-> NoAttempt]
    /\ events = [r \in Requests |-> NoEvent]
    /\ daily = [d \in 0..Day(MaxTime) |-> [requests |-> 0, spend |-> 0]]
    /\ org = [granted |-> InitialGrant, billable |-> 0, unknownCost |-> 0,
              unlocked |-> Verified, toppedUp |-> FALSE]
    /\ revoked = {}
    /\ notices = {}
    /\ pendingNotices = {}

-----------------------------------------------------------------------------
(* gateway_accept_request                                                  *)

\* Positions in `accepted' of the requests that carry this caller operation.
Priors(alias, op) ==
    {i \in 1..Len(accepted) : /\ requests[accepted[i]].alias = alias
                              /\ requests[accepted[i]].op = op}

Reclaimable(r) ==
    \/ requests[r].state \in CrashStates
    \/ requests[r].state = "open" /\ requests[r].deadline < now

\* Fault: the probe looks at the first request of the operation, not the latest.
OperationFreeByFirst(alias, op, content) ==
    op # Null =>
      \A i \in Priors(alias, op) :
         (\A j \in Priors(alias, op) : i <= j) =>
            /\ requests[accepted[i]].content = content
            /\ Reclaimable(accepted[i])

\* The probe under the caller operation's advisory lock: refused with P1020
\* (other content) or P1021 (the latest prior is not reclaimable).
OperationFree(alias, op, content) ==
    op # Null =>
      \A i \in Priors(alias, op) :
         (\A j \in Priors(alias, op) : j <= i) =>
            /\ requests[accepted[i]].content = content
            /\ Reclaimable(accepted[i])

Accepted(r, k, alias, op, content, life) ==
    /\ now <= LastAccept
    /\ requests' = [requests EXCEPT ![r] =
                      [state |-> "open", key |-> k, alias |-> alias, op |-> op,
                       content |-> content, deadline |-> now + life, closedAt |-> 0]]
    /\ accepted' = IF op = Null THEN accepted ELSE Append(accepted, r)

AcceptRequest(r, k, alias, op, content, life) ==
    /\ k \notin revoked
    /\ requests[r].state = "absent"
    /\ OperationFree(alias, op, content)
    /\ Accepted(r, k, alias, op, content, life)
    /\ UNCHANGED <<now, attempts, events, daily, org, revoked, notices, pendingNotices>>

-----------------------------------------------------------------------------
(* gateway_start_attempt                                                   *)

ChargeWorst(alias, route, worst) ==
    IF Funded(alias, route, worst) THEN worst
    ELSE Discounted(worst, PercentOff(alias, route, worst))

HostRow(alias, route, worst) ==
    LET funded == Funded(alias, route, worst)
        percent == PercentOff(alias, route, worst)
    IN [NoAttempt EXCEPT
          !.state = "dispatched", !.route = route, !.worst = worst, !.started = now,
          !.reserved = IF funded THEN 0 ELSE ChargeWorst(alias, route, worst),
          !.funded = funded,
          !.promoReserved = IF funded THEN worst ELSE 0,
          !.percent = IF funded THEN 0 ELSE percent,
          !.promo = IF funded \/ percent > 0
                    THEN WinningPromo(alias, route, worst) ELSE 0]

CustomerRow(route, max) ==
    LET worst == IF max = Null THEN 0 ELSE max
    IN [NoAttempt EXCEPT !.state = "dispatched", !.route = route, !.worst = worst,
                         !.started = now, !.reserved = worst]

\* P1012, P1022, P1013: the fail-closed guards ahead of the funding split.
HostGuards(k, max) == ~ KeyRateLimited(k) /\ ~ KeyTokenLimited(k) /\ max # Null

HostAdmits(k, alias, route, max) ==
    /\ HostGuards(k, max)
    /\ \/ Funded(alias, route, max)
       \/ /\ ~ PromoExhausted(alias, route, max)
          /\ CreditGates(k, alias, route, ChargeWorst(alias, route, max))

Dispatch(r, n, k, alias, route, max) ==
    /\ attempts[<<r, n>>].state = "none"
    /\ \/ /\ Lane[route] = "host_managed"
          /\ HostAdmits(k, alias, route, max)
          /\ attempts' = [attempts EXCEPT ![<<r, n>>] = HostRow(alias, route, max)]
       \/ /\ Lane[route] = "customer_managed"
          /\ attempts' = [attempts EXCEPT ![<<r, n>>] = CustomerRow(route, max)]

StartAttempt(r, n, route, max) ==
    /\ requests[r].state = "open"
    /\ now < requests[r].deadline
    /\ requests[r].key \notin revoked
    /\ Dispatch(r, n, requests[r].key, requests[r].alias, route, max)
    /\ UNCHANGED <<now, requests, accepted, events, daily, org, revoked, notices,
                   pendingNotices>>

\* gateway_accept_and_start_attempt: an unkeyed accept and its first dispatch
\* in one transaction.
AcceptAndStartAttempt(r, k, alias, content, life, n, route, max) ==
    /\ k \notin revoked
    /\ requests[r].state = "absent"
    /\ life > 0
    /\ Accepted(r, k, alias, Null, content, life)
    /\ Dispatch(r, n, k, alias, route, max)
    /\ UNCHANGED <<now, events, daily, org, revoked, notices, pendingNotices>>

-----------------------------------------------------------------------------
(* gateway_finalize_usage                                                  *)

\* The event of request r as the rows reqs and rows show it.
UsageEvent(r, reqs, rows) ==
    LET dispatched == {a \in AttemptsOf(r) : rows[a].state # "none"}
        host == {a \in dispatched : Lane[rows[a].route] = "host_managed"}
        customer == dispatched \ host
        estimate == [a \in customer |->
                       IF rows[a].estimated # Null THEN rows[a].estimated
                       ELSE rows[a].settled]
    IN [status |-> reqs[r].state,
        cost |-> Total([a \in host |-> rows[a].settled], host),
        estimated |-> Total(estimate, customer),
        attempts |-> Cardinality(dispatched),
        day |-> Day(reqs[r].closedAt)]

\* Requests whose event an insert ... on conflict do nothing really inserts.
Inserted(R) == {r \in R : events[r].status = "none"}

\* Fault: the rollup counts every offered event, inserted or not.
FinalizeUsageUnconditional(R, event) ==
    /\ events' = [r \in Requests |-> IF r \in Inserted(R) THEN event[r] ELSE events[r]]
    /\ daily' =
         [d \in DOMAIN daily |->
            LET new == {r \in R : event[r].day = d}
            IN [requests |-> daily[d].requests + Cardinality(new),
                spend |-> daily[d].spend
                            + Total([r \in new |-> event[r].cost + event[r].estimated], new)]]

\* Insert the events offered for the requests of R; roll up what was inserted.
FinalizeUsage(R, event) ==
    /\ events' = [r \in Requests |-> IF r \in Inserted(R) THEN event[r] ELSE events[r]]
    /\ daily' =
         [d \in DOMAIN daily |->
            LET new == {r \in Inserted(R) : event[r].day = d}
            IN [requests |-> daily[d].requests + Cardinality(new),
                spend |-> daily[d].spend
                            + Total([r \in new |-> event[r].cost + event[r].estimated], new)]]

\* Fault: a request that is already terminal is closed again.
ClosingAgain(R, s) ==
    [r \in Requests |->
       IF r \in R THEN [requests[r] EXCEPT !.state = s, !.closedAt = now]
       ELSE requests[r]]

\* gateway_requests after closing the open requests of R with state s.
Closing(R, s) ==
    [r \in Requests |->
       IF r \in R /\ requests[r].state = "open"
       THEN [requests[r] EXCEPT !.state = s, !.closedAt = now]
       ELSE requests[r]]

-----------------------------------------------------------------------------
(* gateway_settle_attempt                                                  *)

\* The list-price settlement.  Host lane: zero-completion insurance, and an
\* unknown cost bills nothing.  Customer lane: an unknown cost is attributed
\* at the reservation.
ListSettlement(row, state, output, cost) ==
    IF Lane[row.route] = "host_managed"
    THEN IF state = "failed" \/ output = 0 \/ cost = Null THEN 0 ELSE cost
    ELSE IF cost = Null THEN row.reserved ELSE cost

\* Fault: the promotional discount is left out of the settlement.
SettledRowAtList(row, state, output, cost) ==
    LET list == ListSettlement(row, state, output, cost)
    IN [row EXCEPT !.state = state, !.ended = now, !.output = output,
                   !.estimated = cost,
                   !.settled = IF row.funded THEN 0 ELSE list,
                   !.promoSettled = IF row.funded THEN list ELSE 0]

SettledRow(row, state, output, cost) ==
    LET list == ListSettlement(row, state, output, cost)
    IN [row EXCEPT !.state = state, !.ended = now, !.output = output,
                   !.estimated = cost,
                   !.settled = IF row.funded THEN 0 ELSE Discounted(list, row.percent),
                   !.promoSettled = IF row.funded THEN list ELSE 0]

\* Faults: the debit has the wrong sign; insurance is not applied to the debit;
\* attempts that delivered nothing are counted for review.
SettleBillingNegated(row) == [org EXCEPT !.billable = @ - row.settled]

SettleBillingUninsured(row) ==
    [org EXCEPT !.billable = @ + IF row.estimated = Null THEN 0 ELSE row.estimated]

SettleBillingUndelivered(row) ==
    IF row.settled = 0 /\ row.estimated = Null
    THEN [org EXCEPT !.unknownCost = @ + 1]
    ELSE [org EXCEPT !.billable = @ + row.settled]

\* gateway_settle_billing, called for credit-funded host attempts only.
SettleBilling(row) ==
    IF row.settled = 0
    THEN IF /\ row.state \in {"completed", "incomplete", "cancelled"}
            /\ row.output > 0
            /\ row.estimated = Null
         THEN [org EXCEPT !.unknownCost = @ + 1]
         ELSE org
    ELSE [org EXCEPT !.billable = @ + row.settled]

SettleAttempt(a, state, output, cost, finalize) ==
    LET row == SettledRow(attempts[a], state, output, cost)
        rows == [attempts EXCEPT ![a] = row]
        closing == IF finalize THEN {a[1]} ELSE {}
    IN /\ Dispatched(a)
       /\ attempts' = rows
       /\ org' = IF Lane[row.route] = "host_managed" /\ ~ row.funded
                 THEN SettleBilling(row) ELSE org
       /\ requests' = Closing(closing, state)
       /\ FinalizeUsage(closing, [r \in closing |-> UsageEvent(r, requests', rows)])
       /\ UNCHANGED <<now, accepted, revoked, notices, pendingNotices>>

\* Fault: the late finalize closes the request without its usage event.
FinalizeSettledSilently(a) ==
    /\ attempts[a].state \in SettleStates
    /\ requests[a[1]].state = "open"
    /\ requests' = Closing({a[1]}, attempts[a].state)
    /\ UNCHANGED <<now, accepted, attempts, events, daily, org, revoked, notices,
                   pendingNotices>>

\* The replay receipt that still honors a finalize an earlier settle skipped.
FinalizeSettled(a) ==
    LET state == attempts[a].state
    IN /\ state \in SettleStates
       /\ requests[a[1]].state = "open"
       /\ requests' = Closing({a[1]}, state)
       /\ FinalizeUsage({a[1]}, [r \in {a[1]} |-> UsageEvent(r, requests', attempts)])
       /\ UNCHANGED <<now, accepted, attempts, org, revoked, notices, pendingNotices>>

\* gateway_finish_request
FinishRequest(r, state) ==
    /\ requests[r].state = "open"
    /\ requests' = Closing({r}, state)
    /\ FinalizeUsage({r}, [q \in {r} |-> UsageEvent(q, requests', attempts)])
    /\ UNCHANGED <<now, accepted, attempts, org, revoked, notices, pendingNotices>>

-----------------------------------------------------------------------------
(* gateway_reconcile_crashed                                               *)

Expired ==
    {r \in Requests : /\ requests[r].state = "open"
                      /\ requests[r].deadline <= now
                      /\ \A a \in AttemptsOf(r) : attempts[a].state = "none"}

\* Fault: only attempts of requests that are still open are reconciled.
CrashedOpen ==
    {a \in Attempts : /\ Dispatched(a)
                      /\ requests[a[1]].state = "open"
                      /\ requests[a[1]].deadline + GraceTicks <= now}

Crashed ==
    {a \in Attempts : Dispatched(a) /\ requests[a[1]].deadline + GraceTicks <= now}

CrashedRow(row) ==
    LET keep == IF Lane[row.route] = "host_managed" THEN 0 ELSE row.reserved
    IN [row EXCEPT !.state = "unknown_after_crash", !.ended = now,
                   !.estimated = IF Lane[row.route] = "host_managed" THEN Null ELSE keep,
                   !.settled = keep]

\* The loop closes a request and offers its event when it settles the first of
\* the request's crashed attempts; `first' is the order the cursor yields.
ReconcileCrashed(first) ==
    LET orphaned == {a[1] : a \in Crashed}
        seen(r) == IF r \in orphaned
                   THEN [attempts EXCEPT ![first[r]] = CrashedRow(@)] ELSE attempts
    IN /\ Expired # {} \/ Crashed # {}
       /\ \A r \in orphaned : first[r] \in Crashed
       /\ attempts' = [a \in Attempts |->
                         IF a \in Crashed THEN CrashedRow(attempts[a]) ELSE attempts[a]]
       /\ requests' = [r \in Requests |->
                         IF r \in Expired THEN Closing(Expired, "expired_before_dispatch")[r]
                         ELSE Closing(orphaned, "unknown_after_crash")[r]]
       /\ FinalizeUsage(Expired \cup orphaned,
                        [r \in Expired \cup orphaned |-> UsageEvent(r, requests', seen(r))])
       /\ UNCHANGED <<now, accepted, org, revoked, notices, pendingNotices>>

-----------------------------------------------------------------------------
(* The promotion notice.  A P1030 refusal rolls back; the worker that got  *)
(* it writes the marker in a second transaction, or fails to.              *)

RefuseExhausted(k, alias, route, max) ==
    /\ k \notin revoked
    /\ Lane[route] = "host_managed"
    /\ HostGuards(k, max)
    /\ PromoExhausted(alias, route, max)
    /\ LET i == WinningPromo(alias, route, max)
       IN pendingNotices' = pendingNotices \cup {<<i, PeriodKey(Promotions[i], now)>>}
    /\ UNCHANGED <<now, requests, accepted, attempts, events, daily, org, revoked, notices>>

\* gateway_mark_promo_notified: the period is read from the clock of the write.
MarkPromoNotified(x) ==
    /\ x \in pendingNotices
    /\ notices' = notices \cup {<<x[1], PeriodKey(Promotions[x[1]], now)>>}
    /\ pendingNotices' = pendingNotices \ {x}
    /\ UNCHANGED <<now, requests, accepted, attempts, events, daily, org, revoked>>

LoseNotice(x) ==
    /\ x \in pendingNotices
    /\ pendingNotices' = pendingNotices \ {x}
    /\ UNCHANGED <<now, requests, accepted, attempts, events, daily, org, revoked, notices>>

-----------------------------------------------------------------------------
(* The rest of the platform, as the ledger sees it.                        *)

RevokeKey(k) ==
    /\ k \notin revoked
    /\ revoked' = revoked \cup {k}
    /\ UNCHANGED <<now, requests, accepted, attempts, events, daily, org, notices,
                   pendingNotices>>

TopUp(amount) ==
    /\ org.granted + amount <= MaxGrant
    /\ org' = [org EXCEPT !.granted = @ + amount, !.toppedUp = TRUE]
    /\ UNCHANGED <<now, requests, accepted, attempts, events, daily, revoked, notices,
                   pendingNotices>>

UnlockSpend ==
    /\ ~ org.unlocked
    /\ org' = [org EXCEPT !.unlocked = TRUE]
    /\ UNCHANGED <<now, requests, accepted, attempts, events, daily, revoked, notices,
                   pendingNotices>>

Tick ==
    /\ now < MaxTime
    /\ now' = now + 1
    /\ UNCHANGED <<requests, accepted, attempts, events, daily, org, revoked, notices,
                   pendingNotices>>

-----------------------------------------------------------------------------
Accept ==
    \E r \in Requests, k \in Keys, alias \in Aliases, op \in CallerOps,
       content \in Contents, life \in Lifetimes :
       AcceptRequest(r, k, alias, op, content, life)

Start ==
    \E r \in Requests, n \in Ordinals, route \in Routes, max \in WorstCases :
       StartAttempt(r, n, route, max)

AcceptAndStart ==
    \E r \in Requests, k \in Keys, alias \in Aliases, content \in Contents,
       life \in Lifetimes, n \in Ordinals, route \in Routes, max \in WorstCases :
       AcceptAndStartAttempt(r, k, alias, content, life, n, route, max)

Settle ==
    \E a \in Attempts, state \in Outcomes, output \in Outputs, finalize \in Finalizes :
       \E cost \in (0..attempts[a].worst) \cup {Null} :
          SettleAttempt(a, state, output, cost, finalize)

FinalizeLate == \E a \in Attempts : FinalizeSettled(a)

Finish == \E r \in Requests, state \in FinishStates : FinishRequest(r, state)

Reconcile ==
    \E first \in [{a[1] : a \in Crashed} -> Attempts] :
       /\ \A r \in DOMAIN first : first[r][1] = r
       /\ ReconcileCrashed(first)

PromoNotice ==
    \/ \E k \in Keys, alias \in Aliases, route \in Routes, max \in WorstCases :
          RefuseExhausted(k, alias, route, max)
    \/ \E x \in pendingNotices : MarkPromoNotified(x) \/ LoseNotice(x)

Platform ==
    \/ \E k \in RevocableKeys : RevokeKey(k)
    \/ \E amount \in TopUps : TopUp(amount)
    \/ UnlockSpend

Next ==
    \/ Accept \/ Start \/ AcceptAndStart
    \/ Settle \/ FinalizeLate \/ Finish \/ Reconcile
    \/ PromoNotice \/ Platform \/ Tick

Spec == Init /\ [][Next]_vars

-----------------------------------------------------------------------------
(* Properties                                                              *)

\* Every table holds rows of its type.
TypeOK ==
    /\ now \in 0..MaxTime
    /\ requests \in [Requests -> RequestRow]
    /\ accepted \in Seq(Requests)
    /\ attempts \in [Attempts -> AttemptRow]
    /\ events \in [Requests -> EventRow]
    /\ daily \in [0..Day(MaxTime) -> [requests : Nat, spend : Nat]]
    /\ org \in OrgRow
    /\ revoked \subseteq Keys
    /\ notices \subseteq (1..Len(Promotions)) \X NatOrNull
    /\ pendingNotices \subseteq (1..Len(Promotions)) \X NatOrNull

\* Exactly-once billing: the organization's billable spend is what its
\* platform-funded attempts settled at, whatever was retried, replayed or
\* reconciled (gateway_settle_billing runs once per attempt transition).
BillableIsSettled == org.billable = Total(Settled, HostAttempts)

\* The review counter counts each credit-funded attempt that delivered output
\* at an unknown cost exactly once, and no insured or crashed one
\* (gateway_settle_billing).
UnknownCostCounted ==
    org.unknownCost =
      Cardinality({a \in HostAttempts :
                     /\ ~ attempts[a].funded
                     /\ attempts[a].state \in {"completed", "incomplete", "cancelled"}
                     /\ attempts[a].output > 0
                     /\ attempts[a].estimated = Null})

\* One honest overdraft: with all reservations counted, the balance is never
\* further below zero than one worst case (gateway_spend_policy_check).
OneOverdraft ==
    Available >= 0 \/ \E w \in WorstCases \ {Null} : Available > - w

\* The settled charge of a platform-funded attempt never exceeds what was
\* reserved for it, discount and rounding included, so no gate is passed on a
\* figure the settlement then exceeds (gateway_start_attempt's v_charge_worst
\* against gateway_settle_attempt's v_settled).
SettledWithinReserved ==
    \A a \in HostAttempts :
       /\ attempts[a].settled <= attempts[a].reserved
       /\ attempts[a].promoSettled <= attempts[a].promoReserved

\* In no window of the rate limit's length does a key start more platform-funded
\* dispatches than its limit, whoever accepted, finished or failed meanwhile
\* (P1012).
RatesHeld ==
    \A k \in Keys, t \in 0..MaxTime :
       Rpm(k) # Null =>
          Cardinality({a \in HostAttempts :
                         /\ KeyOf(a) = k
                         /\ attempts[a].started \in (t - WindowTicks)..t}) <= Rpm(k)

\* Charged-or-reserved spend of the rows of S that started in UTC day d.
SpentOn(S, d) == Total(ChargedOrReserved, {a \in S : Day(attempts[a].started) = d})

\* A key with an explicit daily cap never has more charged or reserved in one
\* UTC day than the cap, settlements after midnight included (P1011).
KeyCapsHeld ==
    \A k \in Keys, d \in 0..Day(MaxTime) :
       (KeyLimits[k] # Null /\ KeyLimits[k].cap # Null) =>
          SpentOn({a \in HostAttempts : KeyOf(a) = k}, d) <= KeyLimits[k].cap

\* Until the first top-up the organization and each model stay inside the
\* free-credit daily caps (P1014, P1015).
FreeCreditCapsHeld ==
    FreeCreditFunded =>
      \A d \in 0..Day(MaxTime) :
         /\ SpentOn(HostAttempts, d) <= FreeOrgCap
         /\ \A route \in Routes :
               SpentOn({a \in HostAttempts : Model[attempts[a].route] = Model[route]}, d)
                 <= FreeModelCap

\* An organization whose owner has not verified never has more than the
\* allowance charged or reserved, over all time (P1025).
AllowanceHeld ==
    ~ org.unlocked => Total(ChargedOrReserved, HostAttempts) <= Allowance

\* The three spend ceilings of gateway_start_attempt hold together, whichever of
\* them refuses first: the key's day, the free credit's day, the unverified
\* owner's allowance (P1011, P1014, P1015, P1025).
SpendCapsHeld == KeyCapsHeld /\ FreeCreditCapsHeld /\ AllowanceHeld

\* No budget row is exceeded in any month it governs, whichever key, alias or
\* route the spend came through (gateway_budget_reservation_check).
BudgetsHeld ==
    \A b \in Budgets, m \in 0..Month(MaxTime) :
       b.period \in {m, Null} =>
          Total(ChargedOrReserved,
                {a \in HostAttempts :
                   /\ Month(attempts[a].started) = m
                   /\ Scope(KeyOf(a), requests[a[1]].alias, attempts[a].route)[b.kind]
                        = b.scope})
            <= b.limit

\* Attempts attributed to promotion i in the period of its cap that holds m.
Attributed(i, m) ==
    {a \in Attempts : /\ attempts[a].promo = i
                      /\ Promotions[i].recurring => Month(attempts[a].started) = m}

\* A promotion gives away at most its free cap and discounts at most its
\* charged-spend ceiling, per period, and a free attempt never draws credits
\* (gateway_promo_state under the organizations row lock).
PromoCapsHeld ==
    \A i \in 1..Len(Promotions), m \in 0..Month(MaxTime) :
       LET free == {a \in Attributed(i, m) : attempts[a].funded}
           discounted == Attributed(i, m) \ free
       IN /\ Total(PromoChargedOrReserved, free) <= Promotions[i].cap
          /\ Promotions[i].discountCap > 0 =>
                Total(ChargedOrReserved, discounted) <= Promotions[i].discountCap
          /\ Total(ChargedOrReserved, free) = 0

\* Exactly one usage event per finished request and none before, with the
\* request's own terminal state, and no attempt is ever added to a request
\* after its event counted them (gateway_finalize_usage).
UsageEventsMatch ==
    \A r \in Requests :
       /\ events[r].status =
            IF requests[r].state \in TerminalStates THEN requests[r].state ELSE "none"
       /\ events[r].status # "none" =>
            events[r].attempts = Cardinality({a \in AttemptsOf(r) : attempts[a].state # "none"})

\* The daily rollup is always the sum of the events of the day: it never lags
\* and never counts an event twice (gateway_finalize_usage).
DailyMatchesEvents ==
    \A d \in 0..Day(MaxTime) :
       LET rs == {r \in Requests : events[r].status # "none" /\ events[r].day = d}
       IN /\ daily[d].requests = Cardinality(rs)
          /\ daily[d].spend = Total([r \in rs |-> events[r].cost + events[r].estimated], rs)

\* History is final: a settled attempt, a finished request and a usage event
\* are never changed again, whoever calls late (settle, finish and reconcile).
LedgerIsFinal ==
    [][ /\ \A a \in Attempts : ~ Dispatched(a) /\ attempts[a].state # "none" =>
              attempts'[a] = attempts[a]
        /\ \A r \in Requests :
              /\ requests[r].state \in TerminalStates => requests'[r] = requests[r]
              /\ events[r].status # "none" => events'[r] = events[r] ]_vars

\* At any time at most one accepted request of a caller operation is still
\* inside its deadline: a duplicate submission never runs beside the original
\* (gateway_accept_request's probe under the advisory lock).
OneLiveOwner ==
    \A r, q \in Requests :
       (/\ r # q
        /\ requests[r].op # Null
        /\ requests[r].op = requests[q].op /\ requests[r].alias = requests[q].alias
        /\ requests[r].state = "open" /\ requests[q].state = "open")
       => requests[r].deadline < now \/ requests[q].deadline < now

\* One caller operation charges at most once: of the requests that carry it,
\* at most one has settled charges (the at-most-once guarantee stated for
\* gateway_accept_request's reclaim rule).
OperationChargedOnce ==
    \A r, q \in Requests :
       (/\ r # q /\ requests[r].op # Null
        /\ requests[r].op = requests[q].op /\ requests[r].alias = requests[q].alias)
       => \/ Total(Settled, AttemptsOf(r) \cap HostAttempts) = 0
          \/ Total(Settled, AttemptsOf(q) \cap HostAttempts) = 0

\* A notice row stands for a refusal delivered in the same period
\* (gateway_mark_promo_notified after a P1030).
NoticeForItsPeriod == [][notices' \ notices \subseteq pendingNotices]_vars

-----------------------------------------------------------------------------
(***************************************************************************)
(* Fairness.  The clock runs, and every worker's CrashReconciler thread    *)
(* calls gateway_reconcile_crashed on a fixed cadence for ever.  Nothing   *)
(* is assumed of the callers that accept, start, settle or finish.         *)
(***************************************************************************)
LiveSpec == Spec /\ WF_vars(Tick) /\ WF_vars(Reconcile)

\* No reservation is stranded: every dispatched attempt eventually settles or
\* is reconciled, even when its worker is gone.
ReservationsReleased ==
    \A a \in Attempts : Dispatched(a) ~> ~ Dispatched(a)

\* Every accepted request reaches a terminal state once the reconciler has run,
\* whatever became of its worker (the ledger assertion of the chaos suite).
RequestsClosed ==
    \A r \in Requests : requests[r].state = "open" ~> requests[r].state # "open"
=============================================================================
