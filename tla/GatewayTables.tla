---------------------------- MODULE GatewayTables ----------------------------
(***************************************************************************)
(* The tables behind the gateway's attempt ledger, for one organization:   *)
(* gateway_requests, gateway_attempts, gateway_usage_events,               *)
(* gateway_usage_daily, model_promotion_notices, the money columns of      *)
(* organizations and the revocation column of api_keys.                    *)
(*                                                                         *)
(* Time is a clock `now' of abstract ticks: deadlines, the reconciler's    *)
(* grace, the sixty-second rate window, the UTC day and the UTC month are  *)
(* all numbers of ticks, so every timestamp comparison of the SQL keeps    *)
(* its own <, <= or >=.  Money is a natural number of micro-dollars.       *)
(***************************************************************************)
EXTENDS Totals, Sequences

CONSTANTS
    Null,           \* SQL null
    Requests,       \* request ids
    Ordinals,       \* attempt ordinals (physical dispatches of one request)
    Keys,           \* API keys of the organization
    Identity,       \* [Keys -> identities]: api_keys.identity_id
    KeyLimits,      \* [Keys -> gateway_key_limits row or Null]
    Aliases,        \* model slugs (one immutable revision each)
    Operations,     \* caller operations (hashed Idempotency-Keys)
    Contents,       \* canonical request digests
    Routes,         \* deployments a dispatch may go to
    Lane,           \* [Routes -> Lanes]: billing_source
    Model,          \* [Routes -> models]: exact_model_id
    Provider,       \* [Routes -> providers]
    Pool,           \* [Routes -> pools]
    Budgets,        \* gateway_budgets rows
    Promotions,     \* sequence of active model_promotions, display order
    OrgLabels,      \* org_labels of the organization
    DefaultRpm,     \* 60: requests per minute of a key without a limits row
    FreeOrgCap,     \* $50/day while the organization is free-credit funded
    FreeModelCap,   \* $25/day per model while free-credit funded
    Allowance,      \* pre_verify_allowance_micro_usd
    InitialGrant,   \* credit granted before the first request
    Verified,       \* whether the owner verified (spend_unlocked_at) at the start
    DayTicks, MonthTicks, WindowTicks, GraceTicks

ASSUME TicksAssumption ==
    /\ {DayTicks, MonthTicks} \subseteq Nat \ {0}
    /\ {WindowTicks, GraceTicks} \subseteq Nat

ASSUME SetsAssumption ==
    /\ IsFiniteSet(Requests) /\ IsFiniteSet(Ordinals)
    /\ Null \notin Nat /\ Null \notin Routes

ASSUME OrgAssumption == InitialGrant \in Nat /\ Verified \in BOOLEAN

\* The check constraints of model_promotions.
ASSUME PromotionsAssumption ==
    /\ Len(Promotions) \in Nat
    /\ \A i \in 1..Len(Promotions) :
          /\ Promotions[i].cap \in Nat /\ Promotions[i].discountCap \in Nat
          /\ Promotions[i].percent \in 0..100
          /\ Promotions[i].recurring \in BOOLEAN

\* The check constraints of gateway_key_limits, gateway_budgets and
\* app_settings, and the literals of the spend policy.
ASSUME LimitsAssumption ==
    /\ {DefaultRpm, FreeOrgCap, FreeModelCap, Allowance} \subseteq Nat
    /\ \A k \in Keys : KeyLimits[k] # Null =>
          {KeyLimits[k].rpm, KeyLimits[k].tpm, KeyLimits[k].cap} \subseteq Nat \cup {Null}
    /\ \A b \in Budgets : b.limit \in Nat

VARIABLES
    now,            \* the database clock
    requests,       \* [Requests -> RequestRow]
    accepted,       \* keyed requests in accepted_at order
    attempts,       \* [Attempts -> AttemptRow]
    events,         \* [Requests -> EventRow]: gateway_usage_events
    daily,          \* [Nat -> DailyRow] on demand: gateway_usage_daily
    org,            \* OrgRow
    revoked,        \* revoked or expired keys
    notices,        \* model_promotion_notices
    pendingNotices  \* P1030 refusals whose marker no worker has written yet

vars == <<now, requests, accepted, attempts, events, daily, org, revoked,
          notices, pendingNotices>>

Lanes == {"host_managed", "customer_managed"}
SettleStates == {"completed", "failed", "cancelled", "incomplete"}
CrashStates == {"expired_before_dispatch", "unknown_after_crash"}
TerminalStates == SettleStates \cup CrashStates
Attempts == Requests \X Ordinals

NatOrNull == Nat \cup {Null}

RequestRow ==
    [state : {"absent", "open"} \cup TerminalStates,
     key : Keys \cup {Null}, alias : Aliases \cup {Null},
     op : Operations \cup {Null}, content : Contents \cup {Null},
     deadline : Nat, closedAt : Nat]

NoRequest ==
    [state |-> "absent", key |-> Null, alias |-> Null, op |-> Null,
     content |-> Null, deadline |-> 0, closedAt |-> 0]

(***************************************************************************)
(* `worst' is p_maximum_cost_micro_usd, which the table keeps only through *)
(* the reservation it leads to; it bounds what the frozen rates can make   *)
(* the attempt cost.                                                       *)
(***************************************************************************)
AttemptRow ==
    [state : {"none", "dispatched", "unknown_after_crash"} \cup SettleStates,
     route : Routes \cup {Null}, worst : Nat,
     reserved : Nat, settled : Nat, estimated : NatOrNull,
     funded : BOOLEAN, promoReserved : Nat, promoSettled : Nat,
     percent : 0..100, promo : Nat,
     started : Nat, ended : Nat, output : Nat]

NoAttempt ==
    [state |-> "none", route |-> Null, worst |-> 0,
     reserved |-> 0, settled |-> 0, estimated |-> Null,
     funded |-> FALSE, promoReserved |-> 0, promoSettled |-> 0,
     percent |-> 0, promo |-> 0, started |-> 0, ended |-> 0, output |-> 0]

EventRow ==
    [status : {"none"} \cup TerminalStates, cost : Nat, estimated : Nat,
     attempts : Nat, day : Nat]

NoEvent == [status |-> "none", cost |-> 0, estimated |-> 0, attempts |-> 0, day |-> 0]

OrgRow ==
    [granted : Nat, billable : Nat, unknownCost : Nat,
     unlocked : BOOLEAN, toppedUp : BOOLEAN]

-----------------------------------------------------------------------------
Day(t) == t \div DayTicks
Month(t) == t \div MonthTicks

AttemptsOf(r) == {a \in Attempts : a[1] = r}

Dispatched(a) == attempts[a].state = "dispatched"

\* Rows of the platform-funded lane.
HostAttempts ==
    {a \in Attempts : /\ attempts[a].state # "none"
                      /\ Lane[attempts[a].route] = "host_managed"}

Reserved == [a \in Attempts |-> attempts[a].reserved]
Settled == [a \in Attempts |-> attempts[a].settled]

\* What every cap and budget sums: in-flight rows at their reservation,
\* terminal rows at their settlement.
ChargedOrReserved ==
    [a \in Attempts |-> IF Dispatched(a) THEN attempts[a].reserved ELSE attempts[a].settled]

PromoChargedOrReserved ==
    [a \in Attempts |->
        IF Dispatched(a) THEN attempts[a].promoReserved ELSE attempts[a].promoSettled]

\* pg_catalog.round(amount * (100 - percent) / 100) on nonnegative amounts.
Discounted(amount, percent) == (amount * (100 - percent) + 50) \div 100
=============================================================================
