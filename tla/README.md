# Verification of the gateway platform

TLA+ models, model-checking runs and proofs for the parts of the repository where
concurrency, failure and retries decide whether the program is right: the money path
behind the AI gateway, credit top-ups and auto-recharge, who may act in an
organization and on the platform, how accounts come and go, and the two client
components that hold state of their own across awaits.

## 1. The system

The product is a multi-tenant AI gateway with a control plane. Requests enter a
gateway worker (`explabs/gateway/worker.py`), which drives a routing engine that is
not part of this repository through adapters: a control store (who is calling), a
catalog (which routes exist), an attempt ledger (money and history) and a replay
store (idempotency). Many workers run at once. They share nothing but the Postgres
database, and every rule that must hold between them is a security-definer SQL
function under `supabase/migrations/`. A function is replaced by later migrations;
the models follow the last definition of each.

The control plane is a Next.js application (`apps/web`). Its route handlers run
concurrently on stateless servers: a handler is a sequence of separate database and
provider calls, and between any two of them another handler may run or the process
may be lost. Only what a single statement or SQL function does is atomic. Its pages
keep state in the browser (open streams, a module-level cache) which callbacks of
several requests write.

| part | state | operations | interacts with | hard behaviour |
|---|---|---|---|---|
| attempt ledger (`20260831110000`, `20260829000000`, `20260828220000`, `20260819234500`, `20260821200000`, `20260902000000`, `20260822120000`) | requests, attempts, usage events, daily rollup, organization money columns, promotion notices | accept, accept-and-start, start, settle, finish, finalize, mark-notified | workers call it; gates read every attempt of the organization | concurrent reservations, late and repeated settlements, UTC boundaries, discount rounding |
| crash reconciler (`20260819190000`, `worker.py` CrashReconciler) | the ledger's tables | reconcile expired requests and crashed attempts | races every other call | worker loss between dispatch and settlement |
| worker ledger adapter (`ledger.py`) | deferred accepts, first-token times, route contexts | fold the accept into the first dispatch, write the promotion notice | ledger functions | eviction, refused folds, lost responses |
| idempotency store (`20260819233000`, `protocol_state.py`) | one row per caller operation, one lease handle per submission | claim, publish, abandon, await | ledger's keyed accept | takeover, abandonment, joining a row that changes hands |
| top-ups and auto-recharge (`20260729200000`, `20260820143000`, `lib/billing`, the Stripe webhook) | settings, attempt queue, append-only ledger, balance | checkout, enqueue, claim, charge, record, three webhook events | a debit of the attempt ledger enqueues; a credit raises the balance the gates read | overlapping pollers, lost responses, repeated and reordered webhooks, writes that fail unnoticed |
| organization membership and API keys (`members`, `invites`, `keys`, `account` routes) | roles, invitations, keys, bans | add or invite, change role, remove, leave, mint, revoke, rotate, ban, unban | keys authenticate gateway calls; bans revoke them | checks that are stale at the write, rotations cut in half |
| site administrators (`site-admin` route, `superadmin-keys.ts`) | operators, superadmin keys, bans | grant, revoke, ban, unban, delete account | the API authenticates their keys | a revocation that dies half way, operators removing each other |
| signup and spend unlock (`auth`, `signup` routes, `spend-unlock.ts`, `20260827120000`) | accounts, memberships, invitations, keys, the unlock | instant signup, email code, provider sign-in, provisioning, clean-up, two unlock triggers | the unlock opens the ledger's allowance gate | deletion of an account that was just provisioned; keys from before the unlock |
| playground (`PlaygroundChat.tsx`, chat route) | panes, turns, controllers, one exchange per pane and send | send, switch, add, remove, stop, stream, revoke | mints a serving key, calls the gateway | deltas after the pane changed; paid streams nobody reads |
| provider connections and key hub (`provider-connections` routes, `provider_connections.py`, `keys/store.ts`) | one connection row, the page's cache entry | connect, rotate, check, deployment check, spend read, balance, disconnect, load, refresh | the gateway serves with the stored key | verdicts about a replaced key; loads that cross mutations |
| lease shadow (`lease_shadow.py`) | in-memory leases | take, renew, expire | measures beside the SQL gate | no effect on admission |
| worker lifecycle (`worker.py`) | readiness, drain latch, presence | start, drain, stop | loads the catalog, runs the reconciler | shutdown racing dispatch |
| spend alerts (`20260822140000`) | one claim per threshold and period | claim, send | reads spend | duplicate sends |
| projection queues (`20260822162416`, `20260822211051`) | outbox rows, leases | enqueue, lease, acknowledge | fed by triggers, drained into ClickHouse | redelivery, lost lease |
| storage cleanup (`20260709210000`) | outbox rows, leases | enqueue, claim, complete, fail | object storage | delete retried after success |
| SSO, SCIM, teams | domains, providers, teams | provision, revoke | memberships | stale authorization |
| agent sessions | session workspace and patches | sync | trainer | ordering of patches |
| control API, batch workers, trace acquisition, the rest of the web application | none of their own beyond the database | HTTP handlers, jobs, rendering | call the functions above | input and output |

What makes the parts correct: money is charged once and within what was reserved; no
gate can be passed by racing it; history does not change; a lost worker strands
nothing; every collected payment is credited once; a ban, a revocation and an unlock
end what they must, and only a check that had gone stale explains an exception; a
reply lands in the turn that asked for it; a verdict is about the key that is stored.

## 2. Modules

| module | models |
|---|---|
| `GatewayTables` | the tables, their row types, periods and sums |
| `SpendGates` | the read-only decisions of `gateway_start_attempt`: rate limits, promotion choice and funding, verification allowance, key cap, balance, free-credit caps, budgets |
| `GatewayLedger` | the functions as actions, the properties, the fairness |
| `MCGatewayLedger` | values for the constants |
| `ReplayStore`, `MCReplayStore` | one row of `gateway_replay_operations` and its submissions |
| `Recharge` | checkout, auto-recharge queue, poller and webhook of one organization |
| `CreditedPayments` | the abstract specification of the same: a payment is received, then credited, once and eventually. `Recharge` implements it (`Books`, `CreditsPayments`) |
| `OrgAccess`, `MCOrgAccess` | members, invitations, keys and bans of two organizations |
| `SiteAdmins` | operators and their superadmin keys |
| `Signup`, `MCSignup` | accounts, provisioning and the spend unlock |
| `Playground`, `MCPlayground` | the chat page and its streaming route |
| `ProviderKeys`, `MCProviderKeys` | one provider connection and the page's cache of it |
| `Totals` | sums of money over the rows of a table, shared by the ledger and by `Recharge` |
| `GatewayLedgerProofs`, `ReplayStoreProofs`, `RechargeProofs`, `SiteAdminsProofs`, `OrgAccessProofs`, `ProviderKeysProofs`, `SignupProofs`, `PlaygroundProofs` | theorems and proofs |

Operators named in a comment as a *fault*, or ending in `Fault`, are deliberate
deviations from the code (a dropped guard, a missing term). No specification uses
them. Each one shows that a property can fail: with it in place of the operator that
follows, TLC violates the property.

### Ledger: state and actions

One organization is modelled. Tables become functions from keys to rows; a row that
does not exist is `absent`/`none`. `accepted` is the `accepted_at` order of keyed
requests, which the probe of a reclaim sorts by. `AttemptRow.worst` is the parameter
`p_maximum_cost_micro_usd`; the table keeps it only through the reservation. Money is
a natural number; time is a counter of ticks in which a day, a month, the rate window
and the reconciler's grace are separately chosen lengths.

| action | code |
|---|---|
| `AcceptRequest` | `gateway_accept_request`: replay of a request id and every refusal change nothing and are stuttering steps; a keyed accept probes the latest prior request of the caller operation |
| `StartAttempt`, `AcceptAndStartAttempt` | `gateway_start_attempt` and the folded call; all gates, the funding split and the insert in one step |
| `SettleAttempt` | `gateway_settle_attempt` with the billing, request close and event of the same transaction |
| `FinalizeSettled` | the replay branch of the same function that still honors a finalize |
| `FinishRequest` | `gateway_finish_request` |
| `ReconcileCrashed` | `gateway_reconcile_crashed`, both loops; the order in which the cursor meets the crashed attempts of one request is nondeterministic because the event is built at the first |
| `RefuseExhausted`, `MarkPromoNotified`, `LoseNotice` | the P1030 refusal and the separate, best-effort marker write of `ledger.py` |
| `RevokeKey`, `TopUp`, `UnlockSpend`, `Tick` | what the rest of the platform does to the rows the ledger reads |

Each function is one atomic action: it takes its row locks first (attempt, request,
organization) and the gates run under the `organizations` lock. Callers are not
modelled as processes. Any function may be called with any arguments at any time,
which includes a retried, duplicated, delayed or lost call and a caller that died.

Not in the model: other organizations; `free_credit_caps_lifted_at`; edits to
promotions and budgets while requests run; the team membership check (the team scope
of a budget never matches); deletion of keys (revocation is modelled); fractional
discount percentages; token pricing (a settlement reports any cost up to the quoted
worst case, or no cost; that the engine's worst case bounds its cost is its contract).

### Replay store: state and actions

A row with its state, content digest, owner and expiries, and one handle per
submission. `Claim` includes the prune, the takeover of an expired claim, the conflict
on another digest, the replay and the join. `Publish` and `Abandon` carry the
`where` clause of their SQL. `Poll` is one turn of `_await_published`. `Crash` loses
an owner. `Tick` does not pass the request timeout of a working owner, because the
worker cancels it there.

### Recharge: state and actions

One organization, its settings row, its attempts, the credit ledger as the set of
payments in it, and the provider's side: sessions, intents and events. `Debit`
includes the trigger that queues at most one attempt. A poller is a process with one
step per call: `LoadCandidates`, `ClaimAttempt` (the compare-and-swap on
`updated_at`, modelled by a flag that any other write of the row clears),
`ChargeAttempt`, `RecordIntent`, `RecordFailure`, `ResetToPending`,
`FailAttemptById`, and `PollerDies` between any two. Writes whose error the code does
not look at may be lost. `ChargeAttempt` models the idempotency key from how the code
uses it: the provider repeats its first outcome under a key and refuses another card
under it; the request or the response may be lost. `Webhook` delivers events in any
order, again after they were acknowledged, and may die between the credit and the
save of the card. `CallTime` bounds how long a poller works on one attempt; the lease
is not shorter, as with the shipped five minutes against the client's timeout.

### OrgAccess, SiteAdmins, Signup: handlers as processes

In these modules a request is a record in `handler` whose `phase` names its next
call; the first step holds the checks, each later one a database call, and
`HandlerDies`/`Dies` may end it anywhere. SQL functions and triggers are single
steps: `BanOrg`, `UnbanOrg`, `BanUser`, `UnbanUser`, `SignUp`/`Provision` (the
trigger on a new account), `Deletes` (the trigger on a deleted one), `Unlock` (the
rotation trigger). Fields called `late`, `fresh`, `early`, `orphan`, `clear`, `seen`
and the variables `changes`, `proven`, `carded` and `keeper` are history: they record
whether a request acted on a check that had become stale, so that a property can
state exactly which exception the code has. A property with such an exception says
that nothing but that race breaks the rule.

`OrgAccess`: an invitation slot is unique per organization and address, an expired
one still occupies it until cleaned up; a rotation inserts the replacement, then
expires the old key, then compensates by revoking the replacement when that failed.
`SiteAdmins`: a superadmin key authenticates while its row is live and its user is an
operator. `Signup`: one address may have a second account that a provider sign-in
created; accounts grow old out of the ten-minute window of the callback.

### Playground

`panes` is what the state setter sees, `rendered` what the closures of the last
render see; handlers read the second and write the first, as in React. An exchange
joins the client's stream, the events on the wire, the route and the serving key.
Text is abstracted to the number of the event and the (send, model) it answers.
Sampling parameters, attachments and the URL are left out.

### ProviderKeys

`row` is the connection with its secret, the save its settings come from, the key its
verdict is about and the keys its details mention. A request of the page or of
another client runs through the calls of its route and of the API behind it. `cache`
is one entry of the store: what it shows relative to the latest change (`now`,
`before`, `none`), and the loads in flight with what they have read. Secrets differ
in their last four characters in the instance; that two keys may agree there is left
out, because the fence cannot tell them apart by design.

## 3. Runs

Constants that a run is not about are set where they never bite. Clocks, requests,
keys and grants are bounded (`Max...`, `LastAccept`), so instances may stop and
deadlock is not checked.

| run | checks | instance and why it is enough |
|---|---|---|
| `ledger_spend` | `TypeOK`, `BillableIsSettled`, `UnknownCostCounted`, `PromoCapsHeld`, `SettledWithinReserved` | three requests on a revocable key under two promotions over two months, quoted worst case 2 (so that a cost of 1 at half price is rounded up) or none, zero and positive outputs: tiers fill, exhaust and reset, notices are written, delayed or lost. Attempts end `completed`; a `failed` one is insured like one without output (`ListSettlement`) and doubles the instance, and the theorems of section 4 cover every outcome |
| `ledger_crash` | `UsageEventsMatch`, `DailyMatchesEvents`, `LedgerIsFinal` | two requests of two attempts on both lanes across a midnight, every order of settle, late finalize, finish and reconcile |
| `ledger_caps` | `RatesHeld`, `SpendCapsHeld`, `BudgetsHeld`, `OneOverdraft` | three requests, two keys, two models, a recurring and a pinned budget, three days, two months, a sliding rate window, a top-up and a verification; every limit, and the balance, is below what three attempts would reserve. `SpendCapsHeld` joins the key caps, the free-credit caps and the allowance |
| `ledger_live` | `OneLiveOwner`, `ReservationsReleased` | three submissions of one operation with lifetimes 0 and 1, so that a reclaim meets an owner before, at and after its deadline, and finish under a dispatched attempt |
| `replay_timely` | `OneLiveAuthority`, `ReplayedExactly`, `PublishedStays`, `JoinersReleased` | three submissions, two bodies, lease 2 over timeout 1, retention 2, seven ticks: owner, joiner and taker, expiry and reuse of the row |
| `recharge` | `AttemptsAreExclusive`, `BalanceMatchesLedger`, `FailuresCountDeclines`, `CreditsPayments` | two pollers, two attempts, one checkout, two debits, lease 1, cooldowns 1 and 2, failure limit 2, three instants: a takeover, a second attempt while the first is unresolved, a pause |
| `org_access` | `BanProvenance`, `BanCutsOff`, `LastAdminStays`, `RotationSettles` | two organizations, an operator and two users, two handlers, three requests: any two handlers interleaved with one ban, unban or sign-up |
| `site_admins` | `NoRevival`, `BannedHoldNoKey`, `OperatorRemains` | three users, two handlers, two keys, five requests: grant, half a revocation, ban, unban and grant again |
| `signup` | `EarlyKeysEnd`, `UnlockIsProven`, `ProvisionedStay` | two addresses and a second account for one of them, two handlers, three requests besides their continuations, keys minted and members removed |
| `playground` | `RepliesInOwnTurn`, `StopReachesEveryStream`, `KeyDiesWithItsRoute`, `AbortEndsExchange`, `StopFreesComposer` | two models, at most two panes, two prompts, one delta and an error per reply: a pane can be switched away and back between two sends |
| `provider_keys` | `VerdictOfStoredKey`, `CacheNeverRegresses`, `SectionsLoad` | two keys, two handlers, three requests: a check overtaken by a rotation, a disconnect and a new save |

One run refutes what a comment says of the code: `ledger_keyed_charge` checks
`OperationChargedOnce` (a caller operation charges at most once, `20260821230000`
line 19). The reclaim of an open request past its deadline leaves its attempt
dispatched, and both requests' attempts settle with a charge.

Further configurations can be given to TLC by hand. Each of them ends in a trace that
contradicts a comment, docstring or test:

| configuration (module) | statement | what the trace shows |
|---|---|---|
| `LedgerNotice.cfg` (`MCGatewayLedger`) | `NoticeForItsPeriod`: a notice stands for an exhaustion that was surfaced (`20260828130000` line 164) | a refusal at the end of a month is marked in the next month, whose free tier is then skipped |
| `LedgerUnfinished.cfg` (`MCGatewayLedger`) | `RequestsClosed`: every request reaches a terminal state (`chaos_test.py` line 148) | a worker lost after a settle without finalize leaves an open request that neither loop of the reconciler selects |
| `ReplayShortLease.cfg` (`MCReplayStore`) | `OneLiveAuthority` with a lease shorter than the timeout, the shipped defaults (300 s, 600 s) against `protocol_state.py` line 45 | a second submission takes over a live owner |
| `ReplayJoin.cfg` (`MCReplayStore`) | `JoinedExactly`: a joiner gets the exact response (`protocol_state.py` lines 114, 284) | between two polls the row is abandoned, claimed with another body and published |
| `RechargeStuck.cfg` (`Recharge`) | `CreditClosesAttempt`: success credits and closes the attempt in one transaction (`20260820143000` lines 230-233) | the webhook arrives before the poller wrote the PaymentIntent id; the attempt stays `processing` with an id, which no poll selects and which the unique index holds against the next one |
| `OrgAccessBan.cfg` (`MCOrgAccess`) | `BannedOrgStaysDead`: no live key in a banned organization | a mint that had passed its check inserts after the ban |
| `PlaygroundUnseen.cfg` (`MCPlayground`) | `StreamsAreShown`: a stream being paid for has a pane that shows it | switching a pane's model relabels it and leaves the old stream running |
| `KeyHubStale.cfg` (`MCProviderKeys`) | `CacheShowsOwnChanges`: a key added on one mount appears on every other without a reload (`store.ts` lines 6-7) | the refresh after a mutation is dropped because a load that had read before it is in flight |
| `ProviderOldSettings.cfg` (`MCProviderKeys`) | `RowIsOfOneSave`: a replaced key never wears the old key's health (`provider_connection_store.py` lines 308-309), read as: nor its recorded facts or settings | mapping a deployment, or recording a model fact, writes back what it read before a rotation, fenced by the row's id alone |

One more disagreement needs no trace: `superadmin-keys.ts` lines 29-34 say that
`user_id` is null after the account is deleted, but no foreign key or trigger clears
it; `SiteAdmins` keeps it.

Apart from the ledger's, the type invariants (`TypeOK` in each module) are not checked
by a run: all of them are theorems (section 4).

### Fairness

`LiveSpec` of the ledger assumes the clock and the reconciler only: every worker runs
the reconciler thread on a fixed cadence for as long as it lives, and one pass
succeeds eventually. Accept, dispatch, settle and finish are not fair: their callers
may vanish. `LiveSpec` of the replay store assumes the clock, the poll loop of a
waiting joiner, and that an owner's work ends, by its result, its failure, its
timeout or its loss.

`LiveSpec` of `Recharge` assumes that the webhook credits a paid session and a
charged attempt that it is told of: Stripe repeats an event until it is answered, and
the handler answers only after the ledger insert. Pollers, checkouts and the save of
the card are not fair. `Playground` assumes that the page's event loop settles the
promise of a pane whose reader is done and ends the send when all have settled, and that
a live route takes the steps that wait on nobody, a call whose client has left
included; nothing is assumed of the upstream, which may never answer. `ProviderKeys` assumes
that a fetch of the page ends, in an answer or an error.

## 4. Proofs

All theorems hold for every value of the constants that satisfies the named
assumptions, which TLC evaluates on every run's instance as well: finite sets of
requests and ordinals, positive period lengths, natural amounts, promotion, limit and
budget rows within the check constraints of their tables (`PromotionsAssumption`,
`LimitsAssumption`), provider keys that differ in their last four characters
(`ProviderConstants`), and `Null` outside the value sets. `MaxRequests`, `MaxTime`
and the other bounds are arbitrary naturals in the proofs: they cap a run of TLC and
no theorem.

Ledger and replay store:

| theorem | property | argument |
|---|---|---|
| `LedgerTypeCorrect` | `TypeOK` | `LedgerTyped` = `TypeOK` and `Attached`: an attempt's request was accepted. Without it the status of an event offered at settlement could be `absent`. |
| `HistoryIsFinal` | `LedgerIsFinal` | each action writes only `none`, `dispatched`, `absent`, `open` rows or missing events |
| `EventsMatch` | `UsageEventsMatch` | `Finalized`: events and terminal states correspond, and a step that closes a request offers an event that counts the rows as the step leaves them. A crashed attempt that the loop has not reached when the event is built is already counted as dispatched. |
| `RollupMatches` | `DailyMatchesEvents` | from `Finalized`: the rollup gains exactly the events that were not there; sums by `TotalUnion` |
| `OneOwner` | `OneLiveOwner` | `Owners`: every keyed request is in the `accepted_at` order, and of two of one operation the earlier is terminal or past its deadline. The property alone is not inductive: the probe reads the latest prior only. |
| `SettlementsBounded` | `SettledWithinReserved` | `RowsPriced`: a platform row keeps the price it was dispatched at and holds no settlement while in flight; `DiscountedBounds`: half-up rounding is monotone in the amount for every percentage |
| `BilledExactlyOnce` | `BillableIsSettled` | needs `RowsPriced`, since a settlement adds its whole charge to a row that must have held zero; sums by `TotalAdd`, `TotalSplit`, `TotalSame` |
| `OverdraftBounded` | `OneOverdraft` | `BalanceStep`: only a credit-funded dispatch lowers the balance; it starts from a positive one and takes at most its worst case; a settlement returns at least what it debits |
| `SpendCapsKept`, `BudgetsKept` | `SpendCapsHeld`, `BudgetsHeld` | `ChargesEase`: outside a dispatch no row's charged-or-reserved amount grows and none changes its scope (`SameScope`), so a ceiling can only be passed by the dispatch that the gate admitted; `CeilingStep` says so once for any set of rows, and each cap instantiates it with its own. A dispatch in the current period cannot affect another one. |
| `RatesKept` | `RatesHeld` | no dispatch lies in the future, so the window ending now is the fullest one a new dispatch enters |
| `ReviewsCounted` | `UnknownCostCounted` | a settlement adds to the counter exactly when the row it closes enters the counted set (`ForReview`, `SettlementCounts`) |
| `PromoCapsKept` | `PromoCapsHeld` | `RowsAttributed`: only a platform row that a promotion pays for or discounts is attributed to one, so the rows the caps sum are the rows the gate counted; the attribution and the period never change after dispatch |
| `TypeCorrect` (replay) | `TypeOK` | directly inductive |
| `AuthorityHeld` | `OneLiveAuthority`, for a lease above the timeout | `LeaseCoversWork`: lease and work start at the same instant |
| `ReplaysExact` | `ReplayedExactly` | `OwnersKnown`: the row's owner has claimed with the row's content, and a claimed submission's content never changes |
| `PublishedDurable` | `PublishedStays` | a step property of the specification |

Recharge. `MoneyInv` is `TypeOK`, that a busy poller holds a queued attempt
(`PollersNamed`), and what the provider has told (`Told`).

| theorem | property | argument |
|---|---|---|
| `RechargeTypeCorrect` | `TypeOK` | with `PollersNamed` |
| `ChargedOnce` | `ChargedOncePerAttempt`, whatever the lease | the provider's memory changes only with the first request under a key, and a charge is a success (`ProviderTold`) |
| `BalanceFollowsLedger` | `BalanceMatchesLedger` | a credit is inserted at most once and its amount, the row's or the session's, never changes (`RowsKept`) |
| `BooksRefined` | the safety part of `CreditsPayments` | `Told`: an event or an answer speaks of the recorded outcome only, so what is credited was collected; every step maps to one of `CreditedPayments` or a stutter |
| `ClaimsExclusive` | `AttemptsAreExclusive`, under `LeaseCoversCalls` | `ClaimsHeld`: a poller at work claimed its row within the last `CallTime`, so the row is not yet a candidate for anybody else |
| `DeclinesCounted` | `FailuresCountDeclines`, under `LeaseCoversCalls` | `DeclinesHeld`: a row closed as failed while a poller works on it was closed by the webhook for the decline this poller is about to report, so the counter is tied to rows (`FailuresCounted`) and not to reports |

`LeaseCoversCalls` is `CallTime <= Lease`: the lease is five minutes and the calls of
one attempt end with the timeout of the provider's client. The run's instance
satisfies it with equality.

Access control and provider keys:

| theorem | property | argument |
|---|---|---|
| `SiteTypeCorrect`, `KeysNeverRevive`, `BansTakeKeys` | `TypeOK`, `NoRevival`, `BannedHoldNoKey` | `SiteInv`: a key that no request overtook was minted under its owner's last change and belongs to an operator; a revocation about to delete the operator's row has left no such key and none is on its way (`RevocationsClear`); a grant whose check still stands is for an account that is not banned (`ClearGrants`) |
| `LastOperatorStays` | `OperatorRemains` | a request that removes an operator names somebody else or has just counted |
| `AccessTypeCorrect`, `SweepsUndone`, `BansCutOff` | `TypeOK`, `BanProvenance`, `BanCutsOff` | `AccessInv`: the tables, and for each request in flight that it carries what its next call needs (`Named`), knows when a ban overtook it (`Checked`) and may rely on what it found out about the admins (`Relied`). `BanCutsOff` is strengthened to expired keys, which a rotation would replace. |
| `RotationsSettle`, `LastAdminKept` | `RotationSettles`, `LastAdminStays` | step properties from `Named` and `Relied` |
| `KeysTypeCorrect`, `VerdictsOwned` | `TypeOK`, `VerdictOfStoredKey` | `KeysInv`: while the row a request read exists, its key is the one read or the one read was rotated out (`ReadsOwnRow`, from row ids that are never reused); a check about to record asked with the key it read, or that key was rotated out (`ProbesOwnKey`). With the fence on the last four characters nothing else can be recorded. |
| `CacheKeepsUp` | `CacheNeverRegresses` | `OneLoad`: an entry has one load at a time, and shows nothing newer than that load brings |

Signup. `SignupInv` says of the tables that a membership and its role go together,
that only existing accounts have one and that the numbers of the joining order are
bounded (so that a newcomer is always the last), and of every request in flight that it
is `Ready`.

| theorem | property | argument |
|---|---|---|
| `SignupTypeCorrect` | `TypeOK` | `Named`: a request carries the account and the organization its next call needs |
| `EarlyKeysRotated` | `EarlyKeysEnd` | inductive with the types: an unlock revokes the early keys of every member but the admin it keeps, and marks those it cannot see |
| `UnlocksProven` | `UnlockIsProven` | a step property from `Proved`: a request on its way to an unlock is about an account that proved its inbox, or an organization with a card; the unlock itself looks for the organizations whose founding admin that account is |
| `MembersKept` | `ProvisionedStay` | a step property from `Known` and `Alone`: an account about to be removed exists and, unless somebody added it meanwhile, is in no organization; no other request's step can take that away (`Undisturbed`) |

Playground. `PlaygroundInv` has three parts: `Streams` ties every running stream to
the send in progress and every open one to the controller under its slug; `Served` is
about each exchange alone; `Lists` is about the panes.

| theorem | property | argument |
|---|---|---|
| `PlaygroundTypeCorrect` | `TypeOK` | removing a pane is a removal at one index (`Removed`), so distinct slugs stay distinct |
| `StopReachesStreams` | `StopReachesEveryStream` | only streams of one send run at a time, so a stream that ends clears its own controller and no other one (`StreamEnds`) |
| `RepliesLandInTheirTurn` | `RepliesInOwnTurn` | the panes are in one of two regimes (`Regime`). As long as no pane with a turn was relabelled, every turn belongs to the slug its pane shows and every open stream has its pane. A pane can be relabelled only when it is the only one; from then on every turn and every open stream belongs to one slug, until the next send. In both, a pane that shows the slug of an open stream and has a turn has that stream's turn (`TurnOfStream`). The rendered panes differ from the latest ones in what streamed at most (`SamePanes`), so a handler that writes back what it closed over loses no pane. |
| `KeysDieWithRoutes` | `KeyDiesWithItsRoute` | each exit of the route revokes, or was taken before the mint |

`Totals` sums money as the cardinality of a set of units (`Units`, `Total`), so that
the library's facts on finite sets serve and no recursive definition is needed;
the first part of `GatewayLedgerProofs` derives the algebra of sums that the rest of it
cites, and `RechargeProofs` the few facts of it that it needs.

Three changes of the models came out of proof attempts. The outcomes of
`ChargeAttempt` were cases whose guards overlapped; they are disjoint now. The
counters that only order events (`changes` in `SiteAdmins`, row ids in `ProviderKeys`,
`joined` in `Signup`) are typed as naturals, because their former bound follows from
counting requests and says nothing of the code. `RemovePane` of `Playground` removes
the one index whose pane has the slug: the code filters, which is the same because the
slugs are distinct (`PlaygroundTypeCorrect`), but what a filter of a sequence computes
is out of the prover's reach.

Only model-checked: the liveness properties (`ReservationsReleased`,
`JoinersReleased`, `AbortEndsExchange`, `StopFreesComposer`, `SectionsLoad`, and the
eventual credit of `CreditedPayments`), because fairness is outside what the proof
system handles. Every safety property that a passing run checks is a theorem.

## 5. Hazards

`PROJECT.json` lists the places where the code is hard to test, with the properties
that watch them. Without a property of a passing run: the bounded map of deferred
accepts in the worker and the lock order between settle, fold and reconcile, which
need modules of their own, and two places where the code does not keep the property
that would watch it (`JoinedExactly`, `CacheShowsOwnChanges`, section 3).

## 6. Not modelled

- Presentation: the pages, tables, forms, charts and typed read clients that make up
  most of the lines under `apps/web`. Their state lives in one component and is
  replaced by the next read; there is no protocol in them to check. This is why the
  models stand for a small share of the application's lines.
- Polling hooks that only re-read; the email cooldown; audit events; notification
  mails.
- Password sign-in and reset, single sign-on step-up, YC claims, founder invites, and
  the operators' creation of an organization for an existing account.
- Revisions and rollback of model aliases, catalog documents and route planning.
- Attachments of the playground: reading files races the next render (`addFiles`),
  but only the draft is affected.
- The queues, outboxes, lease shadow, worker lifecycle and agent sessions of
  section 1, which are planned below.

## 7. Plan

Done: the ledger with its gates, reconciler and replay store; the recharge path with
its refinement; organization access, site administrators, signup and unlock;
playground; provider keys; and proofs of every safety property of them. Next, in this
order:

1. `GatewayWorker`: the adapter of `ledger.py` over the ledger (deferred accepts and
   their eviction, refused folds, lost responses and the replay receipts).
2. `LedgerLocks`: the row-lock order of settle, fold, start and reconcile.
3. `ProjectionQueue`, `StorageCleanup`, `WorkerLifecycle`, `LeaseShadow`.
