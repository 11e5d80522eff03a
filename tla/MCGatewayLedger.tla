--------------------------- MODULE MCGatewayLedger ---------------------------
(***************************************************************************)
(* Small instances of GatewayLedger for TLC.  The cfg files pick, for each *)
(* constant, one of the values below; a limit that a run is not about is   *)
(* set where it never bites.                                               *)
(***************************************************************************)
EXTENDS GatewayLedger, TLC

CONSTANTS r1, r2, r3, k1, k2, alias1, host1, host2, byok, body1, body2, op1

RequestSymmetry == Permutations(Requests)

LaneOf == [d \in Routes |-> IF d = byok THEN "customer_managed" ELSE "host_managed"]
ModelOf == [d \in Routes |-> d]
ProviderOf == [d \in Routes |-> d]
PoolOf == [d \in Routes |-> "pool"]
IdentityOf == [k \in Keys |-> "identity"]

Limits(rpm, tpm, cap) == [rpm |-> rpm, tpm |-> tpm, cap |-> cap]
NoLimits == [k \in Keys |-> Limits(Null, Null, Null)]
\* k1 has a daily cap and a token limit, k2 no limits row at all.
OneCappedKey == [k \in Keys |-> IF k = k1 THEN Limits(Null, 2, 3) ELSE Null]

NoPromotions == << >>
\* A monthly free tier of 3 at half price afterwards, up to 2 charged; then a
\* lifetime discount on the first provider only.
TwoPromotions ==
    << [providers |-> {}, aliases |-> Aliases, audience |-> {}, funding |-> "all",
        cap |-> 3, percent |-> 50, discountCap |-> 2, recurring |-> TRUE],
       [providers |-> {host1}, aliases |-> Aliases, audience |-> {},
        funding |-> "platform_funded",
        cap |-> 0, percent |-> 30, discountCap |-> 0, recurring |-> FALSE] >>
MonthlyFreeTier ==
    << [providers |-> {}, aliases |-> Aliases, audience |-> {}, funding |-> "all",
        cap |-> 1, percent |-> 0, discountCap |-> 0, recurring |-> TRUE] >>

\* A recurring budget on the identity of both keys and one pinned to month 0
\* on a single deployment.
TwoBudgets ==
    { [kind |-> "identity", scope |-> "identity", period |-> Null, limit |-> 4],
      [kind |-> "deployment", scope |-> <<alias1, "pool", host1>>, period |-> 0, limit |-> 2] }
=============================================================================
