------------------------------ MODULE SpendGates ------------------------------
(***************************************************************************)
(* The money decisions gateway_start_attempt takes under the organizations *)
(* row lock before it reserves a host-lane attempt: rate limits, promotion *)
(* funding, the pre-verification allowance, the key's daily cap, the       *)
(* credit balance, the free-credit daily caps and the scoped budgets.      *)
(* Every gate only reads; each is named for the refusal it raises.         *)
(***************************************************************************)
EXTENDS GatewayTables

KeyOf(a) == requests[a[1]].key

-----------------------------------------------------------------------------
(* Per-key rate limits.                                                    *)

Rpm(k) == IF KeyLimits[k] = Null THEN DefaultRpm ELSE KeyLimits[k].rpm
Tpm(k) == IF KeyLimits[k] = Null THEN Null ELSE KeyLimits[k].tpm

\* Fault: only dispatches still in flight are counted.
KeyRateLimitedInFlight(k) ==
    /\ Rpm(k) # Null
    /\ Cardinality({a \in HostAttempts : /\ KeyOf(a) = k
                                         /\ Dispatched(a)
                                         /\ attempts[a].started >= now - WindowTicks})
         >= Rpm(k)

\* P1012: host-lane dispatches of the key started inside the window.
KeyRateLimited(k) ==
    /\ Rpm(k) # Null
    /\ Cardinality({a \in HostAttempts : /\ KeyOf(a) = k
                                         /\ attempts[a].started >= now - WindowTicks})
         >= Rpm(k)

\* P1022: tokens of the key's attempts that went terminal inside the window.
KeyTokenLimited(k) ==
    /\ Tpm(k) # Null
    /\ Total([a \in Attempts |-> attempts[a].output],
             {a \in HostAttempts : /\ KeyOf(a) = k
                                   /\ ~ Dispatched(a)
                                   /\ attempts[a].ended >= now - WindowTicks})
         >= Tpm(k)

-----------------------------------------------------------------------------
(* gateway_promo_state: the winning promotion for (alias, provider).       *)

PromoMatches(p, alias, route) ==
    /\ p.providers = {} \/ Provider[route] \in p.providers
    /\ alias \in p.aliases
    /\ p.audience \subseteq OrgLabels
    /\ p.funding \in {"all", "platform_funded"}

\* The key of model_promotion_notices: a month, or Null for a lifetime cap.
PeriodKey(p, t) == IF p.recurring THEN Month(t) ELSE Null

Counts(p, i, a) ==
    /\ attempts[a].promo = i
    /\ p.recurring => Month(attempts[a].started) = Month(now)

\* Fault: reservations of attempts in flight are not counted.
FreeSpentSettledOnly(i) ==
    Total([a \in Attempts |-> attempts[a].promoSettled],
          {a \in Attempts : Counts(Promotions[i], i, a) /\ attempts[a].funded})

FreeSpent(i) ==
    Total(PromoChargedOrReserved,
          {a \in Attempts : Counts(Promotions[i], i, a) /\ attempts[a].funded})

DiscountedSpent(i) ==
    Total(ChargedOrReserved,
          {a \in Attempts : /\ Counts(Promotions[i], i, a)
                            /\ ~ attempts[a].funded
                            /\ attempts[a].percent > 0})

Notified(i) == <<i, PeriodKey(Promotions[i], now)>> \in notices

WithinFree(i, worst) == FreeSpent(i) + worst <= Promotions[i].cap

DiscountActive(i, worst) ==
    LET p == Promotions[i] IN
    /\ p.percent > 0
    /\ \/ p.discountCap = 0
       \/ DiscountedSpent(i) + Discounted(worst, p.percent) <= p.discountCap

\* 1 usable free tier, 2 usable discount, 3 exhausted free tier, 4 any match.
Tier(i, worst) ==
    IF Promotions[i].cap > 0 /\ WithinFree(i, worst) /\ ~ Notified(i) THEN 1
    ELSE IF DiscountActive(i, worst) THEN 2
    ELSE IF Promotions[i].cap > 0 THEN 3
    ELSE 4

Candidates(alias, route) ==
    {i \in 1..Len(Promotions) : PromoMatches(Promotions[i], alias, route)}

\* First candidate of the best tier; 0 when no promotion matches.
WinningPromo(alias, route, worst) ==
    LET matching == Candidates(alias, route)
        tier == [i \in matching |-> Tier(i, worst)]
    IN  IF matching = {} THEN 0
        ELSE CHOOSE i \in matching :
               \A j \in matching \ {i} :
                  \/ tier[i] < tier[j]
                  \/ tier[i] = tier[j] /\ i < j

(***************************************************************************)
(* The funding split: who pays for a host attempt of this worst case.  A   *)
(* funded attempt is free and holds its worst case in the promo columns;   *)
(* every other attempt draws credits, at `percent' off while the discount  *)
(* is active.                                                              *)
(***************************************************************************)
Funded(alias, route, worst) ==
    LET i == WinningPromo(alias, route, worst) IN
    /\ i # 0
    /\ Promotions[i].cap > 0
    /\ WithinFree(i, worst)
    /\ ~ Notified(i)

PercentOff(alias, route, worst) ==
    LET i == WinningPromo(alias, route, worst) IN
    IF i # 0 /\ DiscountActive(i, worst) THEN Promotions[i].percent ELSE 0

\* P1030: the free tier is used up and the organization has not been told.
PromoExhausted(alias, route, worst) ==
    LET i == WinningPromo(alias, route, worst) IN
    /\ ~ Funded(alias, route, worst)
    /\ i # 0
    /\ Promotions[i].cap > 0
    /\ ~ Notified(i)

-----------------------------------------------------------------------------
(* Credit-path gates, for an attempt charging at most `charge'.            *)

FreeCreditFunded == ~ org.toppedUp

\* Fault: the allowance is compared with settled spend only.
OwnerUnverifiedSettledOnly(charge) ==
    ~ org.unlocked /\ Total(Settled, HostAttempts) + charge > Allowance

\* P1025: cumulative charged-or-reserved spend before the owner verified.
OwnerUnverified(charge) ==
    /\ ~ org.unlocked
    /\ Total(ChargedOrReserved, HostAttempts) + charge > Allowance

Today(S) == {a \in S : Day(attempts[a].started) = Day(now)}

DailyCap(k) ==
    IF KeyLimits[k] # Null THEN KeyLimits[k].cap
    ELSE IF FreeCreditFunded THEN FreeOrgCap ELSE Null

\* Fault: reservations of attempts in flight are not counted.
KeySettledToday(k) == Total(Settled, Today({a \in HostAttempts : KeyOf(a) = k}))

KeySpentToday(k) ==
    Total(ChargedOrReserved, Today({a \in HostAttempts : KeyOf(a) = k}))

\* P1011
KeyCapped(k, charge) ==
    DailyCap(k) # Null /\ KeySpentToday(k) + charge > DailyCap(k)

\* The reservation-aware balance of gateway_spend_policy_check.
Outstanding == Total(Reserved, {a \in HostAttempts : Dispatched(a)})
Available == org.granted - org.billable - Outstanding

\* Fault: the balance ignores outstanding reservations.
InsufficientBalance == org.granted - org.billable <= 0

\* P1010 (P1031 for a promotional model): a positive balance admits, whatever
\* the worst case.
InsufficientCredits == Available <= 0

OrgSpentToday == Total(ChargedOrReserved, Today(HostAttempts))

ModelSpentToday(m) ==
    Total(ChargedOrReserved, Today({a \in HostAttempts : Model[attempts[a].route] = m}))

\* Fault: the caps are compared without the attempt being admitted.
FreeCreditCapReached(route, charge) ==
    /\ FreeCreditFunded
    /\ \/ OrgSpentToday >= FreeOrgCap
       \/ ModelSpentToday(Model[route]) >= FreeModelCap

\* P1014, P1015
FreeCreditCapped(route, charge) ==
    /\ FreeCreditFunded
    /\ \/ OrgSpentToday + charge > FreeOrgCap
       \/ ModelSpentToday(Model[route]) + charge > FreeModelCap

\* The budget coordinates of a dispatch, per scope kind.
Scope(k, alias, route) ==
    [team |-> Null, identity |-> Identity[k], key |-> k, model |-> alias,
     pool |-> <<alias, Pool[route]>>, deployment |-> <<alias, Pool[route], route>>]

\* Fault: reservations of attempts in flight are not counted.
ScopeSettled(b) ==
    Total(Settled,
          {a \in HostAttempts :
             /\ Month(attempts[a].started) = Month(now)
             /\ Scope(KeyOf(a), requests[a[1]].alias, attempts[a].route)[b.kind] = b.scope})

ScopeSpent(b) ==
    Total(ChargedOrReserved,
          {a \in HostAttempts :
             /\ Month(attempts[a].started) = Month(now)
             /\ Scope(KeyOf(a), requests[a[1]].alias, attempts[a].route)[b.kind] = b.scope})

\* P1016-P1019, P1023, P1024: a pinned month or a recurring (Null) budget.
OverBudget(k, alias, route, charge) ==
    \E b \in Budgets :
       /\ b.period \in {Month(now), Null}
       /\ Scope(k, alias, route)[b.kind] = b.scope
       /\ ScopeSpent(b) + charge > b.limit

CreditGates(k, alias, route, charge) ==
    /\ ~ OwnerUnverified(charge)
    /\ ~ KeyCapped(k, charge)
    /\ ~ InsufficientCredits
    /\ ~ FreeCreditCapped(route, charge)
    /\ ~ OverBudget(k, alias, route, charge)
=============================================================================
