-------------------------- MODULE GatewayLedgerProofs --------------------------
(***************************************************************************)
(* Proofs about the attempt ledger, for any finite sets of requests and    *)
(* ordinals and any keys, routes, promotions, limits and clock bounds: its *)
(* types, the finality of its history, its usage events and daily rollup,  *)
(* the one live owner of a caller operation; that every settlement stays   *)
(* under its reservation, every attempt is billed exactly once, the        *)
(* balance is never overdrawn by more than one worst case, and every rate  *)
(* limit, spend ceiling, budget and promotion cap holds.                   *)
(***************************************************************************)
EXTENDS GatewayLedger, FiniteSetTheorems, WellFoundedInduction, TLAPS

-----------------------------------------------------------------------------
(* The algebra of sums over finitely many rows.                            *)

\* The units of finitely many rows with natural amounts are finitely many.
LEMMA UnitsFinite ==
  ASSUME NEW S, IsFiniteSet(S), NEW f, \A a \in S : f[a] \in Nat
  PROVE  IsFiniteSet(Units(f, S))
<1> DEFINE unit == [a \in S |-> {a} \X (1..f[a])]
           T == {{a} \X (1..f[a]) : a \in S}
<1>1. unit \in Surjection(S, T)
  BY DEF Surjection
<1>2. IsFiniteSet(T)
  BY <1>1, FS_Surjection
<1>3. ASSUME NEW U \in T PROVE IsFiniteSet(U)
  <2>1. PICK a \in S : U = {a} \X (1..f[a])
    OBVIOUS
  <2>2. f[a] \in Int
    OBVIOUS
  <2>3. IsFiniteSet(1..f[a])
    BY <2>2, FS_Interval
  <2>4. IsFiniteSet({a})
    BY FS_Singleton
  <2> QED
    BY <2>1, <2>3, <2>4, FS_Product
<1>4. IsFiniteSet(UNION T)
  BY <1>2, <1>3, FS_UNION
<1> QED
  BY <1>4 DEF Units

\* A sum of natural amounts is a natural number.
LEMMA TotalType ==
  ASSUME NEW S, IsFiniteSet(S), NEW f, \A a \in S : f[a] \in Nat
  PROVE  Total(f, S) \in Nat
  BY UnitsFinite, FS_CardinalityType DEF Total

\* The sum depends on the amounts of its own rows only.
LEMMA TotalSame ==
  ASSUME NEW S, NEW f, NEW g, \A a \in S : f[a] = g[a]
  PROVE  Total(f, S) = Total(g, S)
<1>1. Units(f, S) = Units(g, S)
  BY DEF Units
<1> QED
  BY <1>1 DEF Total

\* The sum over no rows.
LEMMA TotalEmpty ==
  ASSUME NEW f PROVE Total(f, {}) = 0
<1>1. Units(f, {}) = {}
  BY DEF Units
<1> QED
  BY <1>1, FS_EmptySet DEF Total

\* Rows that count for nothing sum to nothing.
LEMMA TotalZero ==
  ASSUME NEW S, NEW f, \A a \in S : f[a] = 0 PROVE Total(f, S) = 0
<1>1. Units(f, S) = {}
  BY DEF Units
<1> QED
  BY <1>1, FS_EmptySet DEF Total

\* A row outside S adds its amount.
LEMMA TotalAdd ==
  ASSUME NEW S, IsFiniteSet(S), NEW f, \A a \in S : f[a] \in Nat,
         NEW b, b \notin S, f[b] \in Nat
  PROVE  Total(f, S \cup {b}) = Total(f, S) + f[b]
<1> DEFINE new == {b} \X (1..f[b])
<1>1. Units(f, S \cup {b}) = Units(f, S) \cup new
  BY DEF Units
<1>2. Units(f, S) \cap new = {}
  BY DEF Units
<1>3. IsFiniteSet(Units(f, S)) /\ Cardinality(Units(f, S)) \in Nat
  BY UnitsFinite, FS_CardinalityType
<1>4. IsFiniteSet(new) /\ Cardinality(new) = f[b]
  <2>1. IsFiniteSet({b}) /\ Cardinality({b}) = 1
    BY FS_Singleton
  <2>2. f[b] \in Int
    OBVIOUS
  <2>3. IsFiniteSet(1..f[b]) /\ Cardinality(1..f[b]) = f[b]
    BY SMTT(30), <2>2, FS_Interval
  <2>4. IsFiniteSet(new) /\ Cardinality(new) = Cardinality({b}) * Cardinality(1..f[b])
    BY <2>1, <2>3, FS_Product
  <2> QED
    BY <2>1, <2>3, <2>4
<1>5. Cardinality(Units(f, S) \cup new)
        = Cardinality(Units(f, S)) + Cardinality(new) - Cardinality(Units(f, S) \cap new)
  BY <1>3, <1>4, FS_Union
<1>6. Cardinality(Units(f, S) \cap new) = 0
  BY <1>2, FS_EmptySet
<1>7. Cardinality(Units(f, S) \cup new) = Cardinality(Units(f, S)) + f[b]
  BY <1>3, <1>4, <1>5, <1>6
<1> QED
  BY <1>1, <1>7 DEF Total

\* Two disjoint sets of rows sum apart.
LEMMA TotalUnion ==
  ASSUME NEW S, IsFiniteSet(S), NEW T, IsFiniteSet(T), S \cap T = {},
         NEW f, \A a \in S \cup T : f[a] \in Nat
  PROVE  Total(f, S \cup T) = Total(f, S) + Total(f, T)
<1>1. Units(f, S \cup T) = Units(f, S) \cup Units(f, T)
  BY DEF Units
<1>2. Units(f, S) \cap Units(f, T) = {}
  BY DEF Units
<1>3. /\ IsFiniteSet(Units(f, S)) /\ Cardinality(Units(f, S)) \in Nat
      /\ IsFiniteSet(Units(f, T)) /\ Cardinality(Units(f, T)) \in Nat
  BY UnitsFinite, FS_CardinalityType
<1>4. Cardinality(Units(f, S) \cup Units(f, T))
        = Cardinality(Units(f, S)) + Cardinality(Units(f, T))
          - Cardinality(Units(f, S) \cap Units(f, T))
  BY <1>3, FS_Union
<1>5. Cardinality(Units(f, S) \cap Units(f, T)) = 0
  BY <1>2, FS_EmptySet
<1>6. Cardinality(Units(f, S) \cup Units(f, T))
        = Cardinality(Units(f, S)) + Cardinality(Units(f, T))
  BY <1>3, <1>4, <1>5
<1> QED
  BY <1>1, <1>6 DEF Total

\* The amount of a row of S, and the sum of the others, make the sum.
LEMMA TotalSplit ==
  ASSUME NEW S, IsFiniteSet(S), NEW f, \A a \in S : f[a] \in Nat, NEW b \in S
  PROVE  Total(f, S) = Total(f, S \ {b}) + f[b]
<1>1. IsFiniteSet(S \ {b})
  BY FS_RemoveElement
<1>2. (S \ {b}) \cup {b} = S
  OBVIOUS
<1>3. Total(f, (S \ {b}) \cup {b}) = Total(f, S \ {b}) + f[b]
  BY <1>1, TotalAdd
<1> QED
  BY <1>2, <1>3

\* A sum over fewer rows is no larger.
LEMMA TotalSubset ==
  ASSUME NEW S, IsFiniteSet(S), NEW f, \A a \in S : f[a] \in Nat, NEW T \in SUBSET S
  PROVE  Total(f, T) <= Total(f, S)
<1>1. Units(f, T) \subseteq Units(f, S)
  BY DEF Units
<1>2. IsFiniteSet(Units(f, S))
  BY UnitsFinite
<1> QED
  BY <1>1, <1>2, FS_Subset DEF Total

\* Rows whose amounts shrink, some of them gone, and one more row: the sum grows
\* by at most that row's amount.
LEMMA TotalGrows ==
  ASSUME NEW S, IsFiniteSet(S), NEW f, NEW g, NEW b, b \notin S, g[b] \in Nat,
         \A a \in S : f[a] \in Nat /\ g[a] \in Nat /\ g[a] <= f[a],
         NEW T \in SUBSET (S \cup {b})
  PROVE  /\ Total(f, S) \in Nat /\ Total(g, T) \in Nat
         /\ Total(g, T) <= Total(f, S) + g[b]
         /\ b \notin T => Total(g, T) <= Total(f, S)
<1>1. Units(g, S) \subseteq Units(f, S)
  BY DEF Units
<1>2. Total(g, S) <= Total(f, S)
  BY <1>1, UnitsFinite, FS_Subset DEF Total
<1>3. Total(g, S) \in Nat /\ Total(f, S) \in Nat
  BY TotalType
<1>4. Total(g, S \cup {b}) = Total(g, S) + g[b]
  BY TotalAdd
<1>5. IsFiniteSet(S \cup {b}) /\ \A a \in S \cup {b} : g[a] \in Nat
  BY FS_AddElement
<1>6. Total(g, T) <= Total(g, S \cup {b})
  BY <1>5, TotalSubset
<1>7. b \notin T => Total(g, T) <= Total(g, S)
  <2> SUFFICES ASSUME b \notin T PROVE Total(g, T) <= Total(g, S)
    OBVIOUS
  <2>1. T \in SUBSET S
    OBVIOUS
  <2> QED
    BY <2>1, TotalSubset
<1>8. Total(g, T) \in Nat
  <2>1. IsFiniteSet(T) /\ \A a \in T : g[a] \in Nat
    BY <1>5, FS_Subset
  <2> QED
    BY <2>1, TotalType
<1> QED
  BY <1>2, <1>3, <1>4, <1>6, <1>7, <1>8

\* Every nonempty set of natural numbers has a least element.
LEMMA LeastNat ==
  ASSUME NEW T \in SUBSET Nat, T # {}
  PROVE  \E x \in T : \A y \in T : x <= y
<1> DEFINE R == {ss \in Nat \X Nat : ss[1] < ss[2]}
<1>1. IsWellFoundedOn(R, Nat)
  BY NatLessThanWellFounded DEF OpToRel
<1>2. \E x \in T : \A y \in T : ~ (<<y, x>> \in R)
  <2> HIDE DEF R
  <2> QED
    BY <1>1, WFMin
<1>3. \A x, y \in Nat : ~ (<<y, x>> \in R) => x <= y
  OBVIOUS
<1> QED
  BY <1>2, <1>3

-----------------------------------------------------------------------------
(* Rows, prices and periods.                                               *)

\* Every set of attempt rows is finite.
LEMMA AttemptsFinite ==
  /\ IsFiniteSet(Attempts)
  /\ \A S \in SUBSET Attempts : IsFiniteSet(S)
<1>1. IsFiniteSet(Attempts)
  BY FS_Product, SetsAssumption DEF Attempts
<1> QED
  BY <1>1, FS_Subset

\* The settlement's rounding never exceeds the reservation's: the discounted
\* amount is natural, grows with the amount and is at most the amount.
LEMMA DiscountedBounds ==
  ASSUME NEW a \in Nat, NEW b \in Nat, a <= b, NEW p \in 0..100
  PROVE  /\ Discounted(a, p) \in Nat
         /\ Discounted(a, p) <= Discounted(b, p)
         /\ Discounted(a, p) <= a
<1> DEFINE q == 100 - p
<1>1. q \in Nat /\ q <= 100
  OBVIOUS
<1>2. PICK d \in Nat : b = a + d
  <2>1. b - a \in Nat /\ b = a + (b - a)
    OBVIOUS
  <2> QED
    BY <2>1
<1> HIDE DEF q
<1>3. a * q \in Nat /\ d * q \in Nat /\ b * q = a * q + d * q
  BY <1>1, <1>2
<1>4. a * q <= a * 100
  BY <1>1
<1>5. /\ (a * q + 50) \div 100 \in Nat
      /\ (a * q + 50) \div 100 <= (b * q + 50) \div 100
      /\ (a * q + 50) \div 100 <= a
  <2> DEFINE x == a * q
             y == b * q
  <2>1. x \in Nat /\ y \in Nat /\ x <= y /\ x <= a * 100
    BY <1>3, <1>4
  <2> HIDE DEF x, y
  <2>2. (x + 50) \div 100 \in Nat /\ (x + 50) \div 100 <= (y + 50) \div 100
    BY <2>1
  <2>3. (x + 50) \div 100 <= a
    BY <2>1
  <2> QED
    BY <2>2, <2>3 DEF x, y
<1> QED
  BY <1>5 DEF Discounted, q

\* A discounted amount is a natural number.
LEMMA DiscountedType ==
  ASSUME NEW a \in Nat, NEW p \in 0..100 PROVE Discounted(a, p) \in Nat
<1>1. a <= a
  OBVIOUS
<1> QED
  BY <1>1, DiscountedBounds

\* UTC days and months of a natural clock are natural numbers.
LEMMA PeriodsNat ==
  ASSUME NEW t \in Nat PROVE Day(t) \in Nat /\ Month(t) \in Nat
  BY TicksAssumption DEF Day, Month

-----------------------------------------------------------------------------
(* Rows that the functions build have the type of a row.                   *)

\* gateway_promo_state picks one of the active promotions, or none: a first
\* candidate of the best tier exists whenever there is a candidate.
LEMMA WinningPromoType ==
  ASSUME NEW alias, NEW route, NEW worst
  PROVE  WinningPromo(alias, route, worst) \in 0..Len(Promotions)
<1> DEFINE C == Candidates(alias, route)
           best(i) == \A j \in C \ {i} : \/ Tier(i, worst) < Tier(j, worst)
                                         \/ Tier(i, worst) = Tier(j, worst) /\ i < j
<1>0. C \subseteq 1..Len(Promotions) /\ Len(Promotions) \in Nat
  BY PromotionsAssumption DEF Candidates
<1>1. CASE C = {}
  BY <1>0, <1>1 DEF WinningPromo
<1>2. CASE C # {}
  <2> DEFINE tiers == {Tier(i, worst) : i \in C}
  <2>1. \A i \in C : Tier(i, worst) \in Nat
    BY DEF Tier
  <2>2. PICK t \in tiers : \A u \in tiers : t <= u
    <3> HIDE DEF C
    <3>1. tiers \in SUBSET Nat /\ tiers # {}
      BY <1>2, <2>1
    <3> HIDE DEF tiers
    <3> QED
      BY <3>1, LeastNat
  <2> DEFINE top == {i \in C : Tier(i, worst) = t}
  <2>3. PICK i \in top : \A j \in top : i <= j
    <3>1. top \in SUBSET Nat /\ top # {}
      BY <1>0, <2>2
    <3> HIDE DEF top
    <3> QED
      BY <3>1, LeastNat
  <2>4. i \in C /\ best(i)
    <3>1. i \in C /\ Tier(i, worst) = t /\ i \in Nat
      BY <1>0, <2>3
    <3>2. ASSUME NEW j \in C \ {i}
          PROVE  \/ Tier(i, worst) < Tier(j, worst)
                 \/ Tier(i, worst) = Tier(j, worst) /\ i < j
      <4>1. t <= Tier(j, worst) /\ t \in Nat /\ Tier(j, worst) \in Nat /\ j \in Nat
        BY <1>0, <2>1, <2>2
      <4>2. Tier(j, worst) = t => i <= j
        BY <2>3
      <4> HIDE DEF C
      <4> QED
        BY <3>1, <3>2, <4>1, <4>2
    <3> QED
      BY <3>1, <3>2
  <2>5. WinningPromo(alias, route, worst) = CHOOSE k \in C : best(k)
    BY <1>2 DEF WinningPromo
  <2>6. (CHOOSE k \in C : best(k)) \in C
    <3> HIDE DEF C, best
    <3> QED
      BY <2>4
  <2> QED
    BY <1>0, <2>5, <2>6
<1> QED
  BY <1>1, <1>2

\* The discount applied to an attempt is a percentage.
LEMMA PercentOffType ==
  ASSUME NEW alias, NEW route, NEW worst
  PROVE  PercentOff(alias, route, worst) \in 0..100
<1> DEFINE i == WinningPromo(alias, route, worst)
<1>1. i \in 0..Len(Promotions)
  BY WinningPromoType
<1> HIDE DEF i
<1>2. i # 0 => Promotions[i].percent \in 0..100
  BY <1>1, PromotionsAssumption
<1> QED
  BY <1>2 DEF PercentOff, i

\* A row before its dispatch.
LEMMA NoAttemptType ==
  /\ NoAttempt \in AttemptRow
  /\ NoAttempt.settled = 0 /\ NoAttempt.promoSettled = 0
  BY DEF NoAttempt, AttemptRow, NatOrNull

\* What a dispatched row holds at a given price: a free row its worst case in
\* the promotion's column, any other its discounted worst case in credits.
Priced(row) ==
    /\ row.funded => row.reserved = 0 /\ row.promoReserved = row.worst
    /\ ~ row.funded =>
          row.reserved = Discounted(row.worst, row.percent) /\ row.promoReserved = 0

\* A dispatched platform-funded row.
LEMMA HostRowType ==
  ASSUME NEW alias, NEW route \in Routes, NEW worst \in Nat, now \in Nat
  PROVE  /\ HostRow(alias, route, worst) \in AttemptRow
         /\ HostRow(alias, route, worst).state = "dispatched"
         /\ HostRow(alias, route, worst).route = route
         /\ HostRow(alias, route, worst).worst = worst
         /\ HostRow(alias, route, worst).settled = 0
         /\ HostRow(alias, route, worst).promoSettled = 0
         /\ HostRow(alias, route, worst).funded = Funded(alias, route, worst)
         /\ Priced(HostRow(alias, route, worst))
         /\ HostRow(alias, route, worst).started = now
         /\ HostRow(alias, route, worst).percent =
               IF Funded(alias, route, worst) THEN 0 ELSE PercentOff(alias, route, worst)
         /\ HostRow(alias, route, worst).promo =
               IF Funded(alias, route, worst) \/ PercentOff(alias, route, worst) > 0
               THEN WinningPromo(alias, route, worst) ELSE 0
<1>1. PercentOff(alias, route, worst) \in 0..100
  BY PercentOffType
<1>2. WinningPromo(alias, route, worst) \in Nat
  BY WinningPromoType, PromotionsAssumption
<1>3. ChargeWorst(alias, route, worst) \in Nat
  BY <1>1, DiscountedType DEF ChargeWorst
<1>4. PICK funded \in BOOLEAN : funded = Funded(alias, route, worst)
  BY DEF Funded
<1>5. PICK reserved \in Nat : reserved = IF funded THEN 0 ELSE ChargeWorst(alias, route, worst)
  BY <1>3
<1>6. PICK promoReserved \in Nat : promoReserved = IF funded THEN worst ELSE 0
  OBVIOUS
<1>7. PICK percent \in 0..100 : percent = IF funded THEN 0 ELSE PercentOff(alias, route, worst)
  BY <1>1
<1>8. PICK promo \in Nat :
        promo = IF funded \/ PercentOff(alias, route, worst) > 0
                THEN WinningPromo(alias, route, worst) ELSE 0
  BY <1>2
<1> DEFINE row ==
        [NoAttempt EXCEPT
           !.state = "dispatched", !.route = route, !.worst = worst, !.started = now,
           !.reserved = reserved, !.funded = funded, !.promoReserved = promoReserved,
           !.percent = percent, !.promo = promo]
<1>9. HostRow(alias, route, worst) = row
  BY <1>4, <1>5, <1>6, <1>7, <1>8 DEF HostRow
<1>10. funded \in BOOLEAN /\ reserved \in Nat /\ promoReserved \in Nat
       /\ percent \in 0..100 /\ promo \in Nat
  BY <1>4, <1>5, <1>6, <1>7, <1>8
<1>11. /\ row \in AttemptRow
       /\ row.state = "dispatched" /\ row.route = route /\ row.worst = worst
       /\ row.settled = 0 /\ row.promoSettled = 0
  BY <1>10, NoAttemptType DEF AttemptRow
<1>12. /\ row.reserved = reserved /\ row.funded = funded
       /\ row.promoReserved = promoReserved /\ row.percent = percent
       /\ row.started = now /\ row.promo = promo
  BY NoAttemptType DEF AttemptRow
<1> HIDE DEF row
<1>13. Priced(row)
  BY <1>4, <1>5, <1>6, <1>7, <1>11, <1>12 DEF Priced, ChargeWorst
<1> QED
  BY <1>4, <1>7, <1>8, <1>9, <1>11, <1>12, <1>13

\* A dispatched customer-funded row.
LEMMA CustomerRowType ==
  ASSUME NEW route \in Routes, NEW max \in NatOrNull, now \in Nat
  PROVE  /\ CustomerRow(route, max) \in AttemptRow
         /\ CustomerRow(route, max).state = "dispatched"
         /\ CustomerRow(route, max).route = route
<1> DEFINE worst == IF max = Null THEN 0 ELSE max
<1>1. worst \in Nat
  BY DEF NatOrNull
<1>2. CustomerRow(route, max) =
        [NoAttempt EXCEPT !.state = "dispatched", !.route = route, !.worst = worst,
                          !.started = now, !.reserved = worst]
  BY DEF CustomerRow
<1> HIDE DEF worst
<1> QED
  BY ZenonT(60), <1>1, <1>2, NoAttemptType DEF AttemptRow

\* A settled row.
LEMMA SettledRowType ==
  ASSUME NEW row \in AttemptRow, NEW state \in SettleStates, NEW output \in Nat,
         NEW cost \in NatOrNull, now \in Nat
  PROVE  /\ SettledRow(row, state, output, cost) \in AttemptRow
         /\ SettledRow(row, state, output, cost).state = state
<1> DEFINE list == ListSettlement(row, state, output, cost)
           net == IF row.funded THEN 0 ELSE Discounted(list, row.percent)
           free == IF row.funded THEN list ELSE 0
<1>1. list \in Nat
  BY DEF ListSettlement, NatOrNull, AttemptRow
<1>2. Discounted(list, row.percent) \in Nat
  <2>1. row.percent \in 0..100
    BY DEF AttemptRow
  <2> HIDE DEF list
  <2> QED
    BY <1>1, <2>1, DiscountedType
<1>3. net \in Nat /\ free \in Nat
  BY <1>1, <1>2
<1>4. SettledRow(row, state, output, cost) =
        [row EXCEPT !.state = state, !.ended = now, !.output = output,
                    !.estimated = cost, !.settled = net, !.promoSettled = free]
  BY DEF SettledRow
<1> HIDE DEF net, free
<1> QED
  BY ZenonT(60), <1>3, <1>4 DEF AttemptRow

\* A row that the reconciler settled.
LEMMA CrashedRowType ==
  ASSUME NEW row \in AttemptRow, now \in Nat
  PROVE  /\ CrashedRow(row) \in AttemptRow
         /\ CrashedRow(row).state = "unknown_after_crash"
<1> DEFINE keep == IF Lane[row.route] = "host_managed" THEN 0 ELSE row.reserved
           estimate == IF Lane[row.route] = "host_managed" THEN Null ELSE keep
<1>1. keep \in Nat /\ estimate \in NatOrNull
  BY DEF AttemptRow, NatOrNull
<1>2. CrashedRow(row) = [row EXCEPT !.state = "unknown_after_crash", !.ended = now,
                                    !.estimated = estimate, !.settled = keep]
  BY DEF CrashedRow
<1> HIDE DEF keep, estimate
<1> QED
  BY ZenonT(60), <1>1, <1>2 DEF AttemptRow

-----------------------------------------------------------------------------
(* Requests, events and the daily rollup.                                  *)

\* A request row closes with the state it is given, and only when open.
LEMMA ClosingType ==
  ASSUME requests \in [Requests -> RequestRow], now \in Nat,
         NEW R \in SUBSET Requests, NEW s \in TerminalStates
  PROVE  /\ Closing(R, s) \in [Requests -> RequestRow]
         /\ \A r \in R : requests[r].state # "absent" =>
               Closing(R, s)[r].state \in TerminalStates
         /\ \A r \in Requests : requests[r].state # "absent" =>
               Closing(R, s)[r].state # "absent"
<1>1. ASSUME NEW r \in Requests
      PROVE  /\ Closing(R, s)[r] \in RequestRow
             /\ requests[r].state # "absent" => Closing(R, s)[r].state # "absent"
             /\ r \in R /\ requests[r].state # "absent" =>
                   Closing(R, s)[r].state \in TerminalStates
  <2>1. requests[r] \in RequestRow
    OBVIOUS
  <2>2. CASE r \in R /\ requests[r].state = "open"
    <3> DEFINE new == [requests[r] EXCEPT !.state = s, !.closedAt = now]
    <3>1. Closing(R, s)[r] = new
      BY <2>2 DEF Closing
    <3>2. new \in RequestRow /\ new.state = s
      BY <2>1 DEF RequestRow
    <3>3. s # "absent"
      BY DEF TerminalStates, SettleStates, CrashStates
    <3> HIDE DEF new
    <3> QED
      BY <3>1, <3>2, <3>3
  <2>3. CASE ~ (r \in R /\ requests[r].state = "open")
    <3>1. Closing(R, s)[r] = requests[r]
      BY <2>3 DEF Closing
    <3> QED
      BY <2>1, <2>3, <3>1 DEF RequestRow
  <2> QED
    BY <2>2, <2>3
<1>2. Closing(R, s) \in [Requests -> RequestRow]
  BY <1>1 DEF Closing
<1> QED
  BY <1>1, <1>2

\* The usage event of a closed request.
LEMMA UsageEventType ==
  ASSUME NEW r \in Requests, NEW reqs, NEW rows,
         reqs[r].state \in TerminalStates, reqs[r].closedAt \in Nat,
         \A a \in Attempts : rows[a] \in AttemptRow
  PROVE  UsageEvent(r, reqs, rows) \in EventRow
<1> DEFINE dispatched == {a \in AttemptsOf(r) : rows[a].state # "none"}
           host == {a \in dispatched : Lane[rows[a].route] = "host_managed"}
           customer == dispatched \ host
           estimate == [a \in customer |->
                          IF rows[a].estimated # Null THEN rows[a].estimated
                          ELSE rows[a].settled]
           charge == [a \in host |-> rows[a].settled]
<1>1. /\ dispatched \in SUBSET Attempts
      /\ host \in SUBSET Attempts /\ customer \in SUBSET Attempts
  BY DEF AttemptsOf
<1>2. IsFiniteSet(dispatched) /\ IsFiniteSet(host) /\ IsFiniteSet(customer)
  BY <1>1, AttemptsFinite
<1>3. /\ \A a \in host : charge[a] \in Nat
      /\ \A a \in customer : estimate[a] \in Nat
  BY <1>1 DEF AttemptRow, NatOrNull
<1>4. Cardinality(dispatched) \in Nat
  BY <1>2, FS_CardinalityType
<1>5. UsageEvent(r, reqs, rows) =
        [status |-> reqs[r].state, cost |-> Total(charge, host),
         estimated |-> Total(estimate, customer), attempts |-> Cardinality(dispatched),
         day |-> Day(reqs[r].closedAt)]
  BY DEF UsageEvent
<1> HIDE DEF dispatched, host, customer, estimate, charge
<1>6. Total(charge, host) \in Nat /\ Total(estimate, customer) \in Nat
  BY <1>2, <1>3, TotalType
<1>7. Day(reqs[r].closedAt) \in Nat
  BY PeriodsNat
<1> QED
  BY <1>4, <1>5, <1>6, <1>7 DEF EventRow

\* Inserting events of the right type keeps both tables typed.
LEMMA FinalizeType ==
  ASSUME events \in [Requests -> EventRow],
         daily \in [0..Day(MaxTime) -> [requests : Nat, spend : Nat]],
         NEW R \in SUBSET Requests, NEW event, \A r \in R : event[r] \in EventRow,
         FinalizeUsage(R, event)
  PROVE  /\ events' \in [Requests -> EventRow]
         /\ daily' \in [0..Day(MaxTime) -> [requests : Nat, spend : Nat]]
<1>1. events' \in [Requests -> EventRow]
  BY DEF FinalizeUsage, Inserted
<1>2. ASSUME NEW d \in 0..Day(MaxTime)
      PROVE  daily'[d] \in [requests : Nat, spend : Nat]
  <2> DEFINE new == {r \in Inserted(R) : event[r].day = d}
             spent == [r \in new |-> event[r].cost + event[r].estimated]
  <2>1. daily'[d] = [requests |-> daily[d].requests + Cardinality(new),
                     spend |-> daily[d].spend + Total(spent, new)]
    BY DEF FinalizeUsage
  <2>2. new \in SUBSET R /\ new \in SUBSET Requests
    BY DEF Inserted
  <2>3. IsFiniteSet(new)
    BY <2>2, FS_Subset, SetsAssumption
  <2>4. \A r \in new : spent[r] \in Nat
    BY <2>2 DEF EventRow
  <2>5. Cardinality(new) \in Nat
    BY <2>3, FS_CardinalityType
  <2> HIDE DEF new, spent
  <2>6. Total(spent, new) \in Nat
    BY <2>3, <2>4, TotalType
  <2> QED
    BY <2>1, <2>5, <2>6
<1>3. daily' = [d \in 0..Day(MaxTime) |-> daily'[d]]
  BY DEF FinalizeUsage
<1> QED
  BY <1>1, <1>2, <1>3

-----------------------------------------------------------------------------
(* Type correctness.  The status of a usage event has its type only        *)
(* because no attempt exists for a request that was never accepted.        *)

Attached ==
    \A a \in Attempts : attempts[a].state # "none" => requests[a[1]].state # "absent"

LedgerTyped == TypeOK /\ Attached

\* An attempt is keyed by its request and its ordinal (gateway_attempts' key).
LEMMA AttemptsPairs ==
  /\ \A a \in Attempts : a[1] \in Requests /\ a[2] \in Ordinals /\ a = <<a[1], a[2]>>
  /\ \A r \in Requests, n \in Ordinals : <<r, n>> \in Attempts /\ <<r, n>>[1] = r
  BY DEF Attempts

\* gateway_accept_request inserts one typed request row.
LEMMA AcceptedType ==
  ASSUME LedgerTyped,
         NEW r \in Requests, NEW k \in Keys, NEW alias \in Aliases,
         NEW op \in Operations \cup {Null}, NEW content \in Contents, NEW life \in Nat,
         Accepted(r, k, alias, op, content, life)
  PROVE  /\ requests' \in [Requests -> RequestRow]
         /\ accepted' \in Seq(Requests)
         /\ requests'[r].state = "open"
         /\ \A q \in Requests : q # r => requests'[q] = requests[q]
<1> DEFINE row == [state |-> "open", key |-> k, alias |-> alias, op |-> op,
                   content |-> content, deadline |-> now + life, closedAt |-> 0]
<1>0. /\ now \in Nat /\ requests \in [Requests -> RequestRow] /\ accepted \in Seq(Requests)
  BY InputsAssumption DEF LedgerTyped, TypeOK
<1>1. row \in RequestRow /\ row.state = "open"
  BY <1>0 DEF RequestRow
<1>2. requests' = [requests EXCEPT ![r] = row]
  BY DEF Accepted
<1>3. accepted' \in Seq(Requests)
  BY <1>0 DEF Accepted
<1> HIDE DEF row
<1> QED
  BY <1>0, <1>1, <1>2, <1>3

\* gateway_start_attempt inserts one typed attempt row.
LEMMA DispatchType ==
  ASSUME LedgerTyped, NEW r \in Requests, NEW n \in Ordinals, NEW k, NEW alias,
         NEW route \in Routes, NEW max \in WorstCases,
         Dispatch(r, n, k, alias, route, max)
  PROVE  /\ attempts' \in [Attempts -> AttemptRow]
         /\ \A a \in Attempts : a # <<r, n>> => attempts'[a] = attempts[a]
<1>0. /\ now \in Nat /\ attempts \in [Attempts -> AttemptRow]
      /\ max \in NatOrNull /\ <<r, n>> \in Attempts
  BY InputsAssumption, AttemptsPairs DEF LedgerTyped, TypeOK
<1>1. PICK row \in AttemptRow : attempts' = [attempts EXCEPT ![<<r, n>>] = row]
  <2>1. CASE /\ HostAdmits(k, alias, route, max)
             /\ attempts' = [attempts EXCEPT ![<<r, n>>] = HostRow(alias, route, max)]
    <3>1. max \in Nat
      BY <1>0, <2>1 DEF HostAdmits, HostGuards, NatOrNull
    <3> QED
      BY <1>0, <2>1, <3>1, HostRowType
  <2>2. CASE attempts' = [attempts EXCEPT ![<<r, n>>] = CustomerRow(route, max)]
    BY <1>0, <2>2, CustomerRowType
  <2> QED
    BY <2>1, <2>2 DEF Dispatch
<1> QED
  BY <1>0, <1>1

\* gateway_accept_request keeps the ledger typed.
LEMMA AcceptStep == ASSUME LedgerTyped, Accept PROVE LedgerTyped'
<1>1. PICK r \in Requests, k \in Keys, alias \in Aliases, op \in CallerOps,
           content \in Contents, life \in Lifetimes :
             AcceptRequest(r, k, alias, op, content, life)
  BY DEF Accept
<1>2. op \in Operations \cup {Null} /\ life \in Nat
  BY InputsAssumption
<1>3. /\ Accepted(r, k, alias, op, content, life)
      /\ UNCHANGED <<now, attempts, events, daily, org, revoked, notices, pendingNotices>>
  BY <1>1 DEF AcceptRequest
<1>4. /\ requests' \in [Requests -> RequestRow]
      /\ accepted' \in Seq(Requests)
      /\ requests'[r].state = "open"
      /\ \A q \in Requests : q # r => requests'[q] = requests[q]
  BY <1>2, <1>3, AcceptedType
<1>5. Attached'
  BY <1>3, <1>4, AttemptsPairs DEF LedgerTyped, Attached
<1> QED
  BY <1>3, <1>4, <1>5 DEF LedgerTyped, TypeOK

\* gateway_start_attempt keeps the ledger typed; it needs an open request.
LEMMA StartStep == ASSUME LedgerTyped, Start PROVE LedgerTyped'
<1>1. PICK r \in Requests, n \in Ordinals, route \in Routes, max \in WorstCases :
             StartAttempt(r, n, route, max)
  BY DEF Start
<1>2. /\ requests[r].state = "open"
      /\ Dispatch(r, n, requests[r].key, requests[r].alias, route, max)
      /\ UNCHANGED <<now, requests, accepted, events, daily, org, revoked, notices,
                     pendingNotices>>
  BY <1>1 DEF StartAttempt
<1>3. /\ attempts' \in [Attempts -> AttemptRow]
      /\ \A a \in Attempts : a # <<r, n>> => attempts'[a] = attempts[a]
  BY <1>2, DispatchType
<1>4. Attached'
  BY <1>2, <1>3, AttemptsPairs DEF LedgerTyped, Attached
<1> QED
  BY <1>2, <1>3, <1>4 DEF LedgerTyped, TypeOK

\* gateway_accept_and_start_attempt keeps the ledger typed.
LEMMA AcceptAndStartStep == ASSUME LedgerTyped, AcceptAndStart PROVE LedgerTyped'
<1>1. PICK r \in Requests, k \in Keys, alias \in Aliases, content \in Contents,
           life \in Lifetimes, n \in Ordinals, route \in Routes, max \in WorstCases :
             AcceptAndStartAttempt(r, k, alias, content, life, n, route, max)
  BY DEF AcceptAndStart
<1>2. /\ Accepted(r, k, alias, Null, content, life)
      /\ Dispatch(r, n, k, alias, route, max)
      /\ UNCHANGED <<now, events, daily, org, revoked, notices, pendingNotices>>
  BY <1>1 DEF AcceptAndStartAttempt
<1>3. life \in Nat /\ Null \in Operations \cup {Null}
  BY InputsAssumption
<1>4. /\ requests' \in [Requests -> RequestRow]
      /\ accepted' \in Seq(Requests)
      /\ requests'[r].state = "open"
      /\ \A q \in Requests : q # r => requests'[q] = requests[q]
  BY <1>2, <1>3, AcceptedType
<1>5. /\ attempts' \in [Attempts -> AttemptRow]
      /\ \A a \in Attempts : a # <<r, n>> => attempts'[a] = attempts[a]
  BY <1>2, DispatchType
<1>6. Attached'
  BY <1>4, <1>5, AttemptsPairs DEF LedgerTyped, Attached
<1> QED
  BY <1>2, <1>4, <1>5, <1>6 DEF LedgerTyped, TypeOK

\* The debit of gateway_settle_billing keeps the organization row typed.
LEMMA BillingType ==
  ASSUME org \in OrgRow, NEW row \in AttemptRow
  PROVE  SettleBilling(row) \in OrgRow
<1>1. [org EXCEPT !.unknownCost = @ + 1] \in OrgRow
  BY DEF OrgRow
<1>2. row.settled \in Nat
  BY DEF AttemptRow
<1>3. [org EXCEPT !.billable = @ + row.settled] \in OrgRow
  BY <1>2 DEF OrgRow
<1> QED
  BY <1>1, <1>3 DEF SettleBilling

\* Closing requests that exist and offering their events keeps the ledger typed.
LEMMA CloseType ==
  ASSUME LedgerTyped, NEW R \in SUBSET Requests, NEW rows,
         \A r \in R : requests[r].state # "absent",
         \A r \in R : \A a \in Attempts : rows[r][a] \in AttemptRow,
         requests' \in [Requests -> RequestRow],
         \A r \in R : requests'[r].state \in TerminalStates,
         FinalizeUsage(R, [r \in R |-> UsageEvent(r, requests', rows[r])])
  PROVE  /\ events' \in [Requests -> EventRow]
         /\ daily' \in [0..Day(MaxTime) -> [requests : Nat, spend : Nat]]
<1> DEFINE event == [r \in R |-> UsageEvent(r, requests', rows[r])]
<1>1. ASSUME NEW r \in R PROVE event[r] \in EventRow
  <2>1. requests'[r].closedAt \in Nat
    BY DEF RequestRow
  <2>2. UsageEvent(r, requests', rows[r]) \in EventRow
    BY <2>1, UsageEventType
  <2> QED
    BY <2>2
<1>2. FinalizeUsage(R, event)
  OBVIOUS
<1> HIDE DEF event
<1> QED
  BY <1>1, <1>2, FinalizeType DEF LedgerTyped, TypeOK

\* gateway_settle_attempt, with or without its finalize, keeps the ledger typed.
LEMMA SettleStep == ASSUME LedgerTyped, Settle PROVE LedgerTyped'
<1>1. PICK a \in Attempts, state \in Outcomes, output \in Outputs, finalize \in Finalizes :
         \E cost \in (0..attempts[a].worst) \cup {Null} :
            SettleAttempt(a, state, output, cost, finalize)
  BY DEF Settle
<1>2. PICK cost \in (0..attempts[a].worst) \cup {Null} :
         SettleAttempt(a, state, output, cost, finalize)
  BY <1>1
<1> DEFINE row == SettledRow(attempts[a], state, output, cost)
           rows == [attempts EXCEPT ![a] = row]
           R == IF finalize THEN {a[1]} ELSE {}
<1>3. /\ attempts[a].state = "dispatched"
      /\ attempts' = rows
      /\ org' = IF Lane[row.route] = "host_managed" /\ ~ row.funded
                THEN SettleBilling(row) ELSE org
      /\ requests' = Closing(R, state)
      /\ FinalizeUsage(R, [r \in R |-> UsageEvent(r, requests', rows)])
      /\ UNCHANGED <<now, accepted, revoked, notices, pendingNotices>>
  BY <1>2 DEF SettleAttempt, Dispatched
<1>4. /\ now \in Nat /\ attempts \in [Attempts -> AttemptRow] /\ org \in OrgRow
      /\ requests \in [Requests -> RequestRow] /\ a[1] \in Requests
      /\ state \in SettleStates /\ state \in TerminalStates /\ output \in Nat
  BY InputsAssumption, AttemptsPairs DEF LedgerTyped, TypeOK, TerminalStates
<1>5. attempts[a] \in AttemptRow /\ cost \in NatOrNull
  BY <1>4 DEF AttemptRow, NatOrNull
<1>6. row \in AttemptRow /\ row.state = state
  BY <1>4, <1>5, SettledRowType
<1> HIDE DEF row
<1>7. /\ rows \in [Attempts -> AttemptRow]
      /\ \A b \in Attempts : b # a => rows[b] = attempts[b]
  BY <1>4, <1>6
<1>8. org' \in OrgRow
  BY <1>3, <1>4, <1>6, BillingType
<1>9. R \in SUBSET Requests /\ \A r \in R : requests[r].state # "absent"
  BY <1>3, <1>4 DEF LedgerTyped, Attached
<1> HIDE DEF R
<1>10. /\ requests' \in [Requests -> RequestRow]
       /\ \A r \in R : requests'[r].state \in TerminalStates
       /\ \A r \in Requests : requests[r].state # "absent" => requests'[r].state # "absent"
  BY <1>3, <1>4, <1>9, ClosingType
<1>11. /\ events' \in [Requests -> EventRow]
       /\ daily' \in [0..Day(MaxTime) -> [requests : Nat, spend : Nat]]
  <2> DEFINE seen == [r \in R |-> rows]
  <2>1. [r \in R |-> UsageEvent(r, requests', rows)]
          = [r \in R |-> UsageEvent(r, requests', seen[r])]
    OBVIOUS
  <2>2. \A r \in R : \A b \in Attempts : seen[r][b] \in AttemptRow
    BY <1>7
  <2>3. FinalizeUsage(R, [r \in R |-> UsageEvent(r, requests', seen[r])])
    BY <1>3, <2>1
  <2> HIDE DEF seen
  <2> QED
    BY <1>9, <1>10, <2>2, <2>3, CloseType
<1>12. Attached'
  BY <1>3, <1>7, <1>10, AttemptsPairs DEF LedgerTyped, Attached
<1> HIDE DEF rows
<1> QED
  BY <1>3, <1>7, <1>8, <1>10, <1>11, <1>12 DEF LedgerTyped, TypeOK

\* Closing one request on the rows as they stand: finish_request, and the late
\* finalize of a settle replay.
LEMMA CloseOneStep ==
  ASSUME LedgerTyped, NEW r \in Requests, NEW state \in SettleStates,
         requests[r].state = "open",
         requests' = Closing({r}, state),
         FinalizeUsage({r}, [q \in {r} |-> UsageEvent(q, requests', attempts)]),
         UNCHANGED <<now, accepted, attempts, org, revoked, notices, pendingNotices>>
  PROVE  LedgerTyped'
<1>1. /\ now \in Nat /\ attempts \in [Attempts -> AttemptRow]
      /\ requests \in [Requests -> RequestRow] /\ state \in TerminalStates
  BY InputsAssumption DEF LedgerTyped, TypeOK, TerminalStates
<1> DEFINE R == {r}
<1>2. R \in SUBSET Requests /\ \A q \in R : requests[q].state # "absent"
  OBVIOUS
<1>3. requests' = Closing(R, state)
  OBVIOUS
<1> DEFINE seen == [q \in R |-> attempts]
<1>4. \A q \in R : \A b \in Attempts : seen[q][b] \in AttemptRow
  BY <1>1
<1>5. [q \in {r} |-> UsageEvent(q, requests', attempts)]
          = [q \in R |-> UsageEvent(q, requests', seen[q])]
  OBVIOUS
<1>6. FinalizeUsage(R, [q \in R |-> UsageEvent(q, requests', seen[q])])
  BY <1>5
<1> HIDE DEF R, seen
<1>7. /\ requests' \in [Requests -> RequestRow]
      /\ \A q \in R : requests'[q].state \in TerminalStates
      /\ \A q \in Requests : requests[q].state # "absent" => requests'[q].state # "absent"
  BY <1>1, <1>2, <1>3, ClosingType
<1>8. /\ events' \in [Requests -> EventRow]
      /\ daily' \in [0..Day(MaxTime) -> [requests : Nat, spend : Nat]]
  BY <1>2, <1>4, <1>6, <1>7, CloseType
<1>9. Attached'
  BY <1>7, AttemptsPairs DEF LedgerTyped, Attached
<1> QED
  BY <1>7, <1>8, <1>9 DEF LedgerTyped, TypeOK

\* gateway_finish_request and a late finalize keep the ledger typed.
LEMMA FinishStep == ASSUME LedgerTyped, Finish \/ FinalizeLate PROVE LedgerTyped'
<1>1. CASE Finish
  <2>1. PICK r \in Requests, state \in FinishStates : FinishRequest(r, state)
    BY <1>1 DEF Finish
  <2>2. state \in SettleStates
    BY InputsAssumption
  <2> QED
    BY <2>1, <2>2, CloseOneStep DEF FinishRequest
<1>2. CASE FinalizeLate
  <2>1. PICK a \in Attempts : FinalizeSettled(a)
    BY <1>2 DEF FinalizeLate
  <2>2. a[1] \in Requests
    BY AttemptsPairs
  <2> QED
    BY <2>1, <2>2, CloseOneStep DEF FinalizeSettled
<1> QED
  BY <1>1, <1>2

\* What one pass of the reconciler closes and settles.
LEMMA ReconcileFacts ==
  ASSUME LedgerTyped
  PROVE  /\ Expired \in SUBSET Requests
         /\ {a[1] : a \in Crashed} \in SUBSET Requests
         /\ \A r \in Expired \cup {a[1] : a \in Crashed} : requests[r].state # "absent"
         /\ \A r \in Expired : requests[r].state = "open"
  BY AttemptsPairs DEF Expired, Crashed, Dispatched, LedgerTyped, Attached

\* gateway_reconcile_crashed keeps the ledger typed over both its loops.
LEMMA ReconcileStep == ASSUME LedgerTyped, Reconcile PROVE LedgerTyped'
<1> DEFINE orphaned == {a[1] : a \in Crashed}
           R == Expired \cup orphaned
<1>1. PICK first \in [orphaned -> Attempts] : ReconcileCrashed(first)
  BY DEF Reconcile
<1> DEFINE seen(r) == IF r \in orphaned
                      THEN [attempts EXCEPT ![first[r]] = CrashedRow(@)] ELSE attempts
           views == [r \in R |-> seen(r)]
<1>2. /\ attempts' = [a \in Attempts |->
                        IF a \in Crashed THEN CrashedRow(attempts[a]) ELSE attempts[a]]
      /\ requests' = [r \in Requests |->
                        IF r \in Expired THEN Closing(Expired, "expired_before_dispatch")[r]
                        ELSE Closing(orphaned, "unknown_after_crash")[r]]
      /\ FinalizeUsage(R, [r \in R |-> UsageEvent(r, requests', seen(r))])
      /\ UNCHANGED <<now, accepted, org, revoked, notices, pendingNotices>>
  BY <1>1 DEF ReconcileCrashed
<1>3. /\ now \in Nat /\ attempts \in [Attempts -> AttemptRow]
      /\ requests \in [Requests -> RequestRow]
      /\ "expired_before_dispatch" \in TerminalStates
      /\ "unknown_after_crash" \in TerminalStates
  BY InputsAssumption DEF LedgerTyped, TypeOK, TerminalStates, CrashStates
<1>4. \A a \in Attempts : CrashedRow(attempts[a]) \in AttemptRow
  BY <1>3, CrashedRowType
<1>5. /\ attempts' \in [Attempts -> AttemptRow]
      /\ \A a \in Attempts : attempts'[a].state # "none" => attempts[a].state # "none"
  BY <1>2, <1>3, <1>4 DEF Crashed, Dispatched
<1>6. \A r \in R : \A a \in Attempts : views[r][a] \in AttemptRow
  BY <1>1, <1>3, <1>4
<1>7. [r \in R |-> UsageEvent(r, requests', seen(r))]
        = [r \in R |-> UsageEvent(r, requests', views[r])]
  OBVIOUS
<1>8. FinalizeUsage(R, [r \in R |-> UsageEvent(r, requests', views[r])])
  BY <1>2, <1>7
<1> HIDE DEF views, seen
<1>9. /\ Expired \in SUBSET Requests /\ orphaned \in SUBSET Requests
      /\ R \in SUBSET Requests
      /\ \A r \in R : requests[r].state # "absent"
  BY ReconcileFacts
<1>10. /\ requests' \in [Requests -> RequestRow]
       /\ \A r \in R : requests'[r].state \in TerminalStates
       /\ \A r \in Requests : requests[r].state # "absent" => requests'[r].state # "absent"
  <2> HIDE DEF orphaned
  <2>1. /\ Closing(Expired, "expired_before_dispatch") \in [Requests -> RequestRow]
        /\ \A r \in Expired : requests[r].state # "absent" =>
              Closing(Expired, "expired_before_dispatch")[r].state \in TerminalStates
        /\ \A r \in Requests : requests[r].state # "absent" =>
              Closing(Expired, "expired_before_dispatch")[r].state # "absent"
    BY <1>3, <1>9, ClosingType
  <2>2. /\ Closing(orphaned, "unknown_after_crash") \in [Requests -> RequestRow]
        /\ \A r \in orphaned : requests[r].state # "absent" =>
              Closing(orphaned, "unknown_after_crash")[r].state \in TerminalStates
        /\ \A r \in Requests : requests[r].state # "absent" =>
              Closing(orphaned, "unknown_after_crash")[r].state # "absent"
    BY <1>3, <1>9, ClosingType
  <2> QED
    BY <1>2, <1>9, <2>1, <2>2
<1> HIDE DEF orphaned, R
<1>11. /\ events' \in [Requests -> EventRow]
       /\ daily' \in [0..Day(MaxTime) -> [requests : Nat, spend : Nat]]
  BY <1>6, <1>8, <1>9, <1>10, CloseType
<1>12. Attached'
  BY <1>5, <1>10, AttemptsPairs DEF LedgerTyped, Attached
<1> QED
  BY <1>2, <1>5, <1>10, <1>11, <1>12 DEF LedgerTyped, TypeOK

\* A refusal, its marker or its loss, as gateway_mark_promo_notified keys them.
LEMMA PromoNoticeStep == ASSUME LedgerTyped, PromoNotice PROVE LedgerTyped'
<1>0. now \in Nat /\ Len(Promotions) \in Nat
  BY InputsAssumption, PromotionsAssumption DEF LedgerTyped, TypeOK
<1>1. \A i \in 1..Len(Promotions) : PeriodKey(Promotions[i], now) \in NatOrNull
  BY <1>0, PeriodsNat DEF PeriodKey, NatOrNull
<1>2. ASSUME NEW k \in Keys, NEW alias \in Aliases, NEW route \in Routes,
             NEW max \in WorstCases, RefuseExhausted(k, alias, route, max)
      PROVE  LedgerTyped'
  <2> DEFINE i == WinningPromo(alias, route, max)
  <2>1. i \in 1..Len(Promotions)
    <3>1. i \in 0..Len(Promotions)
      BY WinningPromoType
    <3>2. i # 0
      BY <1>2 DEF RefuseExhausted, PromoExhausted
    <3> HIDE DEF i
    <3> QED
      BY <1>0, <3>1, <3>2
  <2>2. /\ pendingNotices' = pendingNotices \cup {<<i, PeriodKey(Promotions[i], now)>>}
        /\ UNCHANGED <<now, requests, accepted, attempts, events, daily, org, revoked, notices>>
    BY <1>2 DEF RefuseExhausted
  <2> HIDE DEF i
  <2> QED
    BY <1>1, <2>1, <2>2 DEF LedgerTyped, TypeOK, Attached
<1>3. ASSUME NEW x \in pendingNotices, MarkPromoNotified(x) \/ LoseNotice(x)
      PROVE  LedgerTyped'
  <2>1. x[1] \in 1..Len(Promotions)
    BY DEF LedgerTyped, TypeOK
  <2>2. /\ notices' \subseteq notices \cup {<<x[1], PeriodKey(Promotions[x[1]], now)>>}
        /\ pendingNotices' \subseteq pendingNotices
        /\ UNCHANGED <<now, requests, accepted, attempts, events, daily, org, revoked>>
    BY <1>3 DEF MarkPromoNotified, LoseNotice
  <2> QED
    BY <1>1, <2>1, <2>2 DEF LedgerTyped, TypeOK, Attached
<1> QED
  BY <1>2, <1>3 DEF PromoNotice

\* Revocations, top-ups, verification and the clock keep the ledger typed.
LEMMA PlatformStep == ASSUME LedgerTyped, Platform \/ Tick PROVE LedgerTyped'
<1>1. ASSUME NEW k \in RevocableKeys, RevokeKey(k) PROVE LedgerTyped'
  BY <1>1, InputsAssumption DEF RevokeKey, LedgerTyped, TypeOK, Attached
<1>2. ASSUME NEW amount \in TopUps, TopUp(amount) PROVE LedgerTyped'
  <2>1. org' \in OrgRow
    <3>1. org \in OrgRow /\ amount \in Nat
      BY InputsAssumption DEF LedgerTyped, TypeOK
    <3> DEFINE raised == [org EXCEPT !.granted = @ + amount]
    <3>2. raised \in OrgRow
      BY <3>1 DEF OrgRow
    <3>3. org' = [raised EXCEPT !.toppedUp = TRUE]
      BY <1>2 DEF TopUp
    <3> HIDE DEF raised
    <3>4. [raised EXCEPT !.toppedUp = TRUE] \in OrgRow
      BY <3>2 DEF OrgRow
    <3> QED
      BY <3>3, <3>4
  <2> QED
    BY <1>2, <2>1 DEF TopUp, LedgerTyped, TypeOK, Attached
<1>3. CASE UnlockSpend
  <2>1. org' \in OrgRow
    BY <1>3 DEF UnlockSpend, LedgerTyped, TypeOK, OrgRow
  <2> QED
    BY <1>3, <2>1 DEF UnlockSpend, LedgerTyped, TypeOK, Attached
<1>4. CASE Tick
  BY <1>4, InputsAssumption DEF Tick, LedgerTyped, TypeOK, Attached
<1> QED
  BY <1>1, <1>2, <1>3, <1>4 DEF Platform

\* The empty tables are typed.
LEMMA LedgerInit == Init => LedgerTyped
<1> SUFFICES ASSUME Init PROVE LedgerTyped
  OBVIOUS
<1>1. NoRequest \in RequestRow
  BY DEF NoRequest, RequestRow
<1>2. NoAttempt \in AttemptRow /\ NoAttempt.state = "none"
  BY NoAttemptType DEF NoAttempt
<1>3. NoEvent \in EventRow
  BY DEF NoEvent, EventRow
<1>4. org \in OrgRow
  BY OrgAssumption DEF Init, OrgRow
<1>5. accepted \in Seq(Requests)
  BY DEF Init
<1>6. Day(MaxTime) \in Nat /\ MaxTime \in Nat
  BY PeriodsNat, InputsAssumption
<1> QED
  BY <1>1, <1>2, <1>3, <1>4, <1>5, <1>6 DEF Init, LedgerTyped, TypeOK, Attached

\* LedgerTyped is inductive over every call of the ledger's functions.
LEMMA LedgerStep == LedgerTyped /\ [Next]_vars => LedgerTyped'
<1> SUFFICES ASSUME LedgerTyped, [Next]_vars PROVE LedgerTyped'
  OBVIOUS
<1>1. CASE UNCHANGED vars
  BY <1>1 DEF vars, LedgerTyped, TypeOK, Attached
<1> QED
  BY <1>1, AcceptStep, StartStep, AcceptAndStartStep, SettleStep, FinishStep,
     ReconcileStep, PromoNoticeStep, PlatformStep DEF Next

\* Every table always holds rows of its type, whatever is retried, reconciled,
\* rounded or called late, and no attempt belongs to an unaccepted request.
THEOREM LedgerTypeCorrect == Spec => []TypeOK
<1>1. LedgerTyped => TypeOK
  BY DEF LedgerTyped
<1> QED
  BY <1>1, LedgerInit, LedgerStep, PTL DEF Spec

-----------------------------------------------------------------------------
(* Finality.                                                               *)

\* gateway_finalize_usage never overwrites an event (on conflict do nothing).
LEMMA FinalizeKeeps ==
  ASSUME LedgerTyped, NEW R, NEW event, FinalizeUsage(R, event),
         NEW r \in Requests, events[r].status # "none"
  PROVE  events'[r] = events[r]
  BY DEF FinalizeUsage, Inserted

\* A request that is not open is not closed (where state = 'open').
LEMMA ClosingKeeps ==
  ASSUME NEW R, NEW s, NEW r \in Requests, requests[r].state # "open"
  PROVE  Closing(R, s)[r] = requests[r]
  BY DEF Closing

\* A settled attempt, a finished request and a usage event are never changed
\* again by any call, in any order (LedgerIsFinal of the runs).
THEOREM HistoryIsFinal == Spec => LedgerIsFinal
<1> DEFINE Final ==
        /\ \A a \in Attempts : ~ Dispatched(a) /\ attempts[a].state # "none" =>
              attempts'[a] = attempts[a]
        /\ \A r \in Requests :
              /\ requests[r].state \in TerminalStates => requests'[r] = requests[r]
              /\ events[r].status # "none" => events'[r] = events[r]
<1>1. ASSUME LedgerTyped, [Next]_vars PROVE [Final]_vars
  <2>0. /\ attempts \in [Attempts -> AttemptRow] /\ requests \in [Requests -> RequestRow]
        /\ \A s \in TerminalStates : s \notin {"open", "absent"}
    BY <1>1 DEF LedgerTyped, TypeOK, TerminalStates, SettleStates, CrashStates
  <2>1. CASE Accept
    BY <2>0, <2>1 DEF Accept, AcceptRequest, Accepted
  <2>2. CASE Start
    BY <2>0, <2>2, AttemptsPairs DEF Start, StartAttempt, Dispatch
  <2>3. CASE AcceptAndStart
    <3>1. PICK r \in Requests, k \in Keys, alias \in Aliases, content \in Contents,
               life \in Lifetimes, n \in Ordinals, route \in Routes, max \in WorstCases :
                 AcceptAndStartAttempt(r, k, alias, content, life, n, route, max)
      BY <2>3 DEF AcceptAndStart
    <3>2. \A q \in Requests : requests[q].state # "absent" => requests'[q] = requests[q]
      BY <2>0, <3>1 DEF AcceptAndStartAttempt, Accepted
    <3>3. \A a \in Attempts : attempts[a].state # "none" => attempts'[a] = attempts[a]
      BY <2>0, <3>1, AttemptsPairs DEF AcceptAndStartAttempt, Dispatch
    <3> QED
      BY <2>0, <3>1, <3>2, <3>3 DEF AcceptAndStartAttempt
  <2>4. CASE Settle
    BY <1>1, <2>0, <2>4, FinalizeKeeps, ClosingKeeps DEF Settle, SettleAttempt, Dispatched
  <2>5. CASE FinalizeLate
    BY <1>1, <2>0, <2>5, FinalizeKeeps, ClosingKeeps DEF FinalizeLate, FinalizeSettled
  <2>6. CASE Finish
    BY <1>1, <2>0, <2>6, FinalizeKeeps, ClosingKeeps DEF Finish, FinishRequest
  <2>7. CASE Reconcile
    <3>1. PICK first \in [{a[1] : a \in Crashed} -> Attempts] : ReconcileCrashed(first)
      BY <2>7 DEF Reconcile
    <3>2. \A r \in Requests : requests[r].state \in TerminalStates => requests'[r] = requests[r]
      BY <2>0, <3>1, ClosingKeeps DEF ReconcileCrashed
    <3>3. \A r \in Requests : events[r].status # "none" => events'[r] = events[r]
      BY <1>1, <3>1, FinalizeKeeps DEF ReconcileCrashed
    <3>4. \A a \in Attempts : ~ Dispatched(a) => attempts'[a] = attempts[a]
      BY <3>1 DEF ReconcileCrashed, Crashed
    <3> QED
      BY <3>2, <3>3, <3>4
  <2>8. CASE PromoNotice
    BY <2>8 DEF PromoNotice, RefuseExhausted, MarkPromoNotified, LoseNotice
  <2>9. CASE Platform \/ Tick
    BY <2>9 DEF Platform, RevokeKey, TopUp, UnlockSpend, Tick
  <2> QED
    BY <1>1, <2>1, <2>2, <2>3, <2>4, <2>5, <2>6, <2>7, <2>8, <2>9 DEF Next
<1> QED
  BY <1>1, LedgerInit, LedgerStep, PTL DEF Spec, LedgerIsFinal

-----------------------------------------------------------------------------
(* Usage events and the daily rollup.                                      *)

\* What gateway_settle_attempt, gateway_finish_request and the reconciler have in
\* common: requests of R are closed unless they were, and their events offered
\* from rows that show the attempts the request has.
Finalized(R, rows) ==
    /\ FinalizeUsage(R, [r \in R |-> UsageEvent(r, requests', rows[r])])
    /\ \A r \in R : requests'[r].state \in TerminalStates
    /\ \A r \in Requests : r \notin R \/ requests[r].state \in TerminalStates =>
          requests'[r].state = requests[r].state
    /\ \A r \in R : \A a \in Attempts :
          rows[r][a] \in AttemptRow /\ (rows[r][a].state = "none" <=> attempts[a].state = "none")
    /\ \A a \in Attempts : attempts'[a].state = "none" <=> attempts[a].state = "none"

\* A request outside R, or one that is terminal, is not closed.
LEMMA ClosingOthers ==
  ASSUME NEW R, NEW s, NEW r \in Requests, r \notin R \/ requests[r].state \in TerminalStates
  PROVE  Closing(R, s)[r] = requests[r]
  BY DEF Closing, TerminalStates, SettleStates, CrashStates

\* Every call that emits usage events is of that form.
LEMMA FinalizedStep ==
  ASSUME LedgerTyped, Settle \/ FinalizeLate \/ Finish \/ Reconcile
  PROVE  \E R \in SUBSET Requests : \E rows : Finalized(R, rows)
<1>0. /\ now \in Nat /\ attempts \in [Attempts -> AttemptRow]
      /\ requests \in [Requests -> RequestRow]
  BY InputsAssumption DEF LedgerTyped, TypeOK
<1>1. CASE Settle
  <2>1. PICK a \in Attempts, state \in Outcomes, output \in Outputs, finalize \in Finalizes :
         \E cost \in (0..attempts[a].worst) \cup {Null} :
            SettleAttempt(a, state, output, cost, finalize)
    BY <1>1 DEF Settle
  <2>2. PICK cost \in (0..attempts[a].worst) \cup {Null} :
         SettleAttempt(a, state, output, cost, finalize)
    BY <2>1
  <2> DEFINE row == SettledRow(attempts[a], state, output, cost)
             after == [attempts EXCEPT ![a] = row]
             R == IF finalize THEN {a[1]} ELSE {}
             rows == [r \in R |-> after]
  <2>3. /\ attempts[a].state = "dispatched" /\ attempts' = after
        /\ requests' = Closing(R, state)
        /\ FinalizeUsage(R, [r \in R |-> UsageEvent(r, requests', after)])
    BY <2>2 DEF SettleAttempt, Dispatched
  <2>4. /\ attempts[a] \in AttemptRow /\ cost \in NatOrNull /\ a[1] \in Requests
        /\ state \in SettleStates /\ state \in TerminalStates /\ output \in Nat
    BY <1>0, InputsAssumption, AttemptsPairs DEF AttemptRow, NatOrNull, TerminalStates
  <2>5. row \in AttemptRow /\ row.state = state
    BY <1>0, <2>4, SettledRowType
  <2>6. row.state # "none"
    BY <2>4, <2>5 DEF SettleStates
  <2> HIDE DEF row
  <2>7. /\ after \in [Attempts -> AttemptRow]
        /\ \A b \in Attempts : after[b].state = "none" <=> attempts[b].state = "none"
    BY <1>0, <2>3, <2>5, <2>6
  <2>8. [r \in R |-> UsageEvent(r, requests', after)]
          = [r \in R |-> UsageEvent(r, requests', rows[r])]
    OBVIOUS
  <2>9. R \in SUBSET Requests /\ \A r \in R : requests[r].state # "absent"
    BY <2>3, <2>4 DEF LedgerTyped, Attached
  <2>10. \A r \in R : rows[r] = after
    OBVIOUS
  <2> HIDE DEF R, rows, after
  <2>11. /\ \A r \in R : requests'[r].state \in TerminalStates
         /\ \A r \in Requests : r \notin R \/ requests[r].state \in TerminalStates =>
               requests'[r].state = requests[r].state
    BY <1>0, <2>3, <2>4, <2>9, ClosingType, ClosingOthers
  <2>12. Finalized(R, rows)
    BY <2>3, <2>7, <2>8, <2>10, <2>11 DEF Finalized
  <2> QED
    BY <2>9, <2>12
<1>2. ASSUME NEW q \in Requests, NEW state \in SettleStates, requests[q].state = "open",
             requests' = Closing({q}, state), attempts' = attempts,
             FinalizeUsage({q}, [r \in {q} |-> UsageEvent(r, requests', attempts)])
      PROVE  \E R \in SUBSET Requests : \E rows : Finalized(R, rows)
  <2> DEFINE R == {q}
             rows == [r \in R |-> attempts]
  <2>1. [r \in {q} |-> UsageEvent(r, requests', attempts)]
          = [r \in R |-> UsageEvent(r, requests', rows[r])]
    OBVIOUS
  <2>2. /\ R \in SUBSET Requests /\ \A r \in R : requests[r].state # "absent"
        /\ state \in TerminalStates /\ \A r \in R : rows[r] = attempts
        /\ FinalizeUsage(R, [r \in R |-> UsageEvent(r, requests', rows[r])])
        /\ requests' = Closing(R, state)
    BY <1>2, <2>1 DEF TerminalStates
  <2> HIDE DEF R, rows
  <2>3. /\ \A r \in R : requests'[r].state \in TerminalStates
        /\ \A r \in Requests : r \notin R \/ requests[r].state \in TerminalStates =>
              requests'[r].state = requests[r].state
    BY <1>0, <2>2, ClosingType, ClosingOthers
  <2>4. Finalized(R, rows)
    BY <1>0, <1>2, <2>2, <2>3 DEF Finalized
  <2> QED
    BY <2>2, <2>4
<1>3. CASE Finish
  <2>1. PICK r \in Requests, state \in FinishStates : FinishRequest(r, state)
    BY <1>3 DEF Finish
  <2> QED
    BY <1>2, <2>1, InputsAssumption DEF FinishRequest
<1>4. CASE FinalizeLate
  <2>1. PICK a \in Attempts : FinalizeSettled(a)
    BY <1>4 DEF FinalizeLate
  <2>2. a[1] \in Requests
    BY AttemptsPairs
  <2> QED
    BY <1>2, <2>1, <2>2 DEF FinalizeSettled
<1>5. CASE Reconcile
  <2> DEFINE orphaned == {a[1] : a \in Crashed}
             R == Expired \cup orphaned
  <2>1. PICK first \in [orphaned -> Attempts] : ReconcileCrashed(first)
    BY <1>5 DEF Reconcile
  <2> DEFINE seen(r) == IF r \in orphaned
                        THEN [attempts EXCEPT ![first[r]] = CrashedRow(@)] ELSE attempts
             rows == [r \in R |-> seen(r)]
  <2>2. /\ attempts' = [a \in Attempts |->
                          IF a \in Crashed THEN CrashedRow(attempts[a]) ELSE attempts[a]]
        /\ requests' = [r \in Requests |->
                          IF r \in Expired THEN Closing(Expired, "expired_before_dispatch")[r]
                          ELSE Closing(orphaned, "unknown_after_crash")[r]]
        /\ FinalizeUsage(R, [r \in R |-> UsageEvent(r, requests', seen(r))])
        /\ \A r \in orphaned : first[r] \in Crashed
    BY <2>1 DEF ReconcileCrashed
  <2>3. \A a \in Attempts : /\ CrashedRow(attempts[a]) \in AttemptRow
                            /\ CrashedRow(attempts[a]).state # "none"
    BY <1>0, CrashedRowType
  <2>4. \A a \in Crashed : a \in Attempts /\ attempts[a].state # "none"
    BY DEF Crashed, Dispatched
  <2>5. \A a \in Attempts : attempts'[a].state = "none" <=> attempts[a].state = "none"
    BY <2>2, <2>3, <2>4
  <2>6. ASSUME NEW r \in R, NEW a \in Attempts
        PROVE  /\ rows[r][a] \in AttemptRow
               /\ rows[r][a].state = "none" <=> attempts[a].state = "none"
    <3>1. CASE r \in orphaned
      <4>1. rows[r] = [attempts EXCEPT ![first[r]] = CrashedRow(attempts[first[r]])]
        BY <3>1
      <4>2. first[r] \in Attempts /\ attempts[first[r]].state # "none"
        BY <2>2, <2>4, <3>1
      <4> QED
        BY <1>0, <2>3, <4>1, <4>2
    <3>2. CASE r \notin orphaned
      BY <1>0, <3>2
    <3> QED
      BY <3>1, <3>2
  <2>7. [r \in R |-> UsageEvent(r, requests', seen(r))]
          = [r \in R |-> UsageEvent(r, requests', rows[r])]
    OBVIOUS
  <2>8. FinalizeUsage(R, [r \in R |-> UsageEvent(r, requests', rows[r])])
    BY <2>2, <2>7
  <2> HIDE DEF rows, seen
  <2>9. /\ Expired \in SUBSET Requests /\ orphaned \in SUBSET Requests
        /\ R \in SUBSET Requests /\ \A r \in R : requests[r].state # "absent"
        /\ "expired_before_dispatch" \in TerminalStates
        /\ "unknown_after_crash" \in TerminalStates
    BY ReconcileFacts DEF TerminalStates, CrashStates
  <2>10. /\ \A r \in R : requests'[r].state \in TerminalStates
         /\ \A r \in Requests : r \notin R \/ requests[r].state \in TerminalStates =>
               requests'[r].state = requests[r].state
    <3> HIDE DEF orphaned
    <3>1. /\ \A r \in Expired :
                Closing(Expired, "expired_before_dispatch")[r].state \in TerminalStates
          /\ \A r \in orphaned :
                Closing(orphaned, "unknown_after_crash")[r].state \in TerminalStates
      BY <1>0, <2>9, ClosingType
    <3>2. ASSUME NEW r \in Requests, r \notin R \/ requests[r].state \in TerminalStates
          PROVE  requests'[r].state = requests[r].state
      <4>1. r \in Expired => requests[r].state \in TerminalStates
        BY <3>2
      <4>2. r \notin orphaned \/ requests[r].state \in TerminalStates
        BY <3>2
      <4>3. Closing(orphaned, "unknown_after_crash")[r] = requests[r]
        BY <4>2, ClosingOthers
      <4>4. r \in Expired => Closing(Expired, "expired_before_dispatch")[r] = requests[r]
        BY <4>1, ClosingOthers
      <4> QED
        BY <2>2, <4>3, <4>4
    <3> QED
      BY <2>2, <2>9, <3>1, <3>2
  <2> HIDE DEF R, orphaned
  <2>11. Finalized(R, rows)
    BY <2>5, <2>6, <2>8, <2>10 DEF Finalized
  <2> QED
    BY <2>9, <2>11
<1> QED
  BY <1>1, <1>3, <1>4, <1>5

\* The attempts of a request that the rows of a table show.
Shown(r, rows) == {a \in AttemptsOf(r) : rows[a].state # "none"}

\* What an event says of its request.
LEMMA EventSays ==
  ASSUME NEW r, NEW reqs, NEW rows
  PROVE  /\ UsageEvent(r, reqs, rows).status = reqs[r].state
         /\ UsageEvent(r, reqs, rows).attempts = Cardinality(Shown(r, rows))
  BY DEF UsageEvent, Shown

\* Emitting events keeps one event per finished request, of the attempts it has.
LEMMA FinalizedMatch ==
  ASSUME LedgerTyped, UsageEventsMatch, NEW R \in SUBSET Requests, NEW rows,
         Finalized(R, rows)
  PROVE  UsageEventsMatch'
<1> SUFFICES ASSUME NEW r \in Requests
             PROVE  /\ events'[r].status =
                         IF requests'[r].state \in TerminalStates THEN requests'[r].state
                         ELSE "none"
                    /\ events'[r].status # "none" =>
                         events'[r].attempts = Cardinality(Shown(r, attempts'))
  BY DEF UsageEventsMatch, Shown
<1>0. /\ "none" \notin TerminalStates
      /\ events[r].status =
            IF requests[r].state \in TerminalStates THEN requests[r].state ELSE "none"
      /\ events[r].status # "none" => events[r].attempts = Cardinality(Shown(r, attempts))
  BY DEF UsageEventsMatch, Shown, TerminalStates, SettleStates, CrashStates
<1>1. Shown(r, attempts') = Shown(r, attempts)
  BY DEF Finalized, Shown, AttemptsOf
<1>2. CASE r \in R /\ events[r].status = "none"
  <2>1. events'[r] = UsageEvent(r, requests', rows[r])
    BY <1>2 DEF Finalized, FinalizeUsage, Inserted
  <2>2. Shown(r, rows[r]) = Shown(r, attempts)
    BY <1>2 DEF Finalized, Shown, AttemptsOf
  <2>3. requests'[r].state \in TerminalStates
    BY <1>2 DEF Finalized
  <2> QED
    BY <1>1, <2>1, <2>2, <2>3, EventSays
<1>3. CASE ~ (r \in R /\ events[r].status = "none")
  <2>1. events'[r] = events[r]
    BY <1>3 DEF Finalized, FinalizeUsage, Inserted
  <2>2. requests'[r].state = requests[r].state
    BY <1>0, <1>3 DEF Finalized
  <2> QED
    BY <1>0, <1>1, <2>1, <2>2
<1> QED
  BY <1>2, <1>3

\* No call separates a request from its usage event, or adds an attempt to a
\* request whose event was emitted.
LEMMA EventsStep ==
  ASSUME LedgerTyped, UsageEventsMatch, [Next]_vars PROVE UsageEventsMatch'
<1>0. /\ attempts \in [Attempts -> AttemptRow] /\ requests \in [Requests -> RequestRow]
      /\ \A s \in {"absent", "open", "none"} : s \notin TerminalStates
  BY DEF LedgerTyped, TypeOK, TerminalStates, SettleStates, CrashStates
<1>1. CASE Settle \/ FinalizeLate \/ Finish \/ Reconcile
  BY <1>1, FinalizedStep, FinalizedMatch
<1>2. ASSUME events' = events,
             \A r \in Requests :
                \/ requests'[r].state = requests[r].state
                \/ requests[r].state \notin TerminalStates /\ requests'[r].state \notin TerminalStates,
             \A r \in Requests : requests[r].state \in TerminalStates =>
                \A a \in AttemptsOf(r) : attempts'[a] = attempts[a]
      PROVE  UsageEventsMatch'
  <2> SUFFICES ASSUME NEW r \in Requests
               PROVE  /\ events'[r].status =
                           IF requests'[r].state \in TerminalStates THEN requests'[r].state
                           ELSE "none"
                      /\ events'[r].status # "none" =>
                           events'[r].attempts = Cardinality(Shown(r, attempts'))
    BY DEF UsageEventsMatch, Shown
  <2>1. /\ events[r].status =
             IF requests[r].state \in TerminalStates THEN requests[r].state ELSE "none"
        /\ events[r].status # "none" => events[r].attempts = Cardinality(Shown(r, attempts))
    BY DEF UsageEventsMatch, Shown
  <2>2. requests[r].state \in TerminalStates => Shown(r, attempts') = Shown(r, attempts)
    BY <1>2 DEF Shown
  <2> QED
    BY <1>0, <1>2, <2>1, <2>2
<1>3. CASE Accept
  <2>1. /\ attempts' = attempts /\ events' = events
        /\ \A r \in Requests : \/ requests'[r].state = requests[r].state
                               \/ requests[r].state = "absent" /\ requests'[r].state = "open"
    BY <1>0, <1>3 DEF Accept, AcceptRequest, Accepted
  <2> QED
    BY <1>0, <1>2, <2>1
<1>4. CASE Start
  <2>1. PICK r \in Requests, n \in Ordinals, route \in Routes, max \in WorstCases :
               StartAttempt(r, n, route, max)
    BY <1>4 DEF Start
  <2>2. /\ requests[r].state = "open" /\ requests' = requests /\ events' = events
        /\ Dispatch(r, n, requests[r].key, requests[r].alias, route, max)
    BY <2>1 DEF StartAttempt
  <2>3. \A a \in Attempts : a # <<r, n>> => attempts'[a] = attempts[a]
    BY <2>2, DispatchType
  <2>4. \A q \in Requests : requests[q].state \in TerminalStates =>
           \A a \in AttemptsOf(q) : attempts'[a] = attempts[a]
    BY <1>0, <2>2, <2>3, AttemptsPairs DEF AttemptsOf
  <2> QED
    BY <1>2, <2>2, <2>4
<1>5. CASE AcceptAndStart
  <2>1. PICK r \in Requests, k \in Keys, alias \in Aliases, content \in Contents,
             life \in Lifetimes, n \in Ordinals, route \in Routes, max \in WorstCases :
               AcceptAndStartAttempt(r, k, alias, content, life, n, route, max)
    BY <1>5 DEF AcceptAndStart
  <2>2. /\ requests[r].state = "absent" /\ events' = events
        /\ Accepted(r, k, alias, Null, content, life)
        /\ Dispatch(r, n, k, alias, route, max)
    BY <2>1 DEF AcceptAndStartAttempt
  <2>3. \A q \in Requests : \/ requests'[q].state = requests[q].state
                            \/ requests[q].state = "absent" /\ requests'[q].state = "open"
    BY <1>0, <2>2 DEF Accepted
  <2>4. \A a \in Attempts : a # <<r, n>> => attempts'[a] = attempts[a]
    BY <2>2, DispatchType
  <2>5. \A q \in Requests : requests[q].state \in TerminalStates =>
           \A a \in AttemptsOf(q) : attempts'[a] = attempts[a]
    BY <1>0, <2>2, <2>4, AttemptsPairs DEF AttemptsOf
  <2> QED
    BY <1>0, <1>2, <2>2, <2>3, <2>5
<1>6. CASE UNCHANGED <<requests, attempts, events>>
  BY <1>2, <1>6
<1>7. CASE PromoNotice \/ Platform \/ Tick \/ UNCHANGED vars
  BY <1>6, <1>7 DEF PromoNotice, RefuseExhausted, MarkPromoNotified, LoseNotice,
                    Platform, RevokeKey, TopUp, UnlockSpend, Tick, vars
<1> QED
  BY <1>1, <1>3, <1>4, <1>5, <1>7 DEF Next

\* The event table starts empty beside requests that were never accepted.
LEMMA EventsInit == Init => UsageEventsMatch
  BY DEF Init, UsageEventsMatch, NoRequest, NoEvent, TerminalStates, SettleStates, CrashStates

\* Exactly one usage event per finished request and none before, with the
\* request's own state and all of its attempts (gateway_finalize_usage), however
\* settlements, finishes and reconciliations overlap.
THEOREM EventsMatch == Spec => []UsageEventsMatch
<1>1. Init => LedgerTyped /\ UsageEventsMatch
  BY LedgerInit, EventsInit
<1>2. LedgerTyped /\ UsageEventsMatch /\ [Next]_vars => LedgerTyped' /\ UsageEventsMatch'
  BY LedgerStep, EventsStep
<1> QED
  BY <1>1, <1>2, PTL DEF Spec

\* The rollup of the events that an insert really made.
LEMMA FinalizedDaily ==
  ASSUME LedgerTyped, LedgerTyped', DailyMatchesEvents, NEW R \in SUBSET Requests,
         NEW event, FinalizeUsage(R, event),
         \A r \in R : event[r] \in EventRow /\ event[r].status # "none"
  PROVE  DailyMatchesEvents'
<1>0. /\ events \in [Requests -> EventRow]
      /\ daily \in [0..Day(MaxTime) -> [requests : Nat, spend : Nat]]
  BY DEF LedgerTyped, TypeOK
<1> SUFFICES ASSUME NEW d \in 0..Day(MaxTime)
             PROVE  LET rs == {r \in Requests : events'[r].status # "none" /\ events'[r].day = d}
                    IN /\ daily'[d].requests = Cardinality(rs)
                       /\ daily'[d].spend =
                            Total([r \in rs |-> events'[r].cost + events'[r].estimated], rs)
  BY DEF DailyMatchesEvents
<1> DEFINE old == {r \in Requests : events[r].status # "none" /\ events[r].day = d}
           all == {r \in Requests : events'[r].status # "none" /\ events'[r].day = d}
           new == {r \in Inserted(R) : event[r].day = d}
           f == [r \in old |-> events[r].cost + events[r].estimated]
           g == [r \in new |-> event[r].cost + event[r].estimated]
           h == [r \in all |-> events'[r].cost + events'[r].estimated]
<1>1. /\ \A r \in Inserted(R) : events'[r] = event[r]
      /\ \A r \in Requests \ Inserted(R) : events'[r] = events[r]
      /\ Inserted(R) \in SUBSET Requests
      /\ \A r \in Inserted(R) : events[r].status = "none" /\ r \in R
  BY DEF FinalizeUsage, Inserted
<1>2. all = old \cup new /\ old \cap new = {}
  BY <1>1
<1>3. IsFiniteSet(old) /\ IsFiniteSet(new)
  <2>1. old \in SUBSET Requests /\ new \in SUBSET Requests
    BY <1>1
  <2> QED
    BY <2>1, SetsAssumption, FS_Subset
<1>4. /\ \A r \in old : h[r] = f[r] /\ f[r] \in Nat
      /\ \A r \in new : h[r] = g[r] /\ g[r] \in Nat
  <2>1. \A r \in old : r \in all /\ events'[r] = events[r] /\ events[r] \in EventRow
    BY <1>0, <1>1, <1>2
  <2>2. \A r \in new : r \in all /\ events'[r] = event[r] /\ event[r] \in EventRow
    BY <1>1, <1>2
  <2>3. \A e \in EventRow : e.cost + e.estimated \in Nat
    BY DEF EventRow
  <2> QED
    BY <2>1, <2>2, <2>3
<1>5. /\ daily'[d].requests = daily[d].requests + Cardinality(new)
      /\ daily'[d].spend = daily[d].spend + Total(g, new)
  BY <1>0 DEF FinalizeUsage
<1>6. daily[d].requests = Cardinality(old) /\ daily[d].spend = Total(f, old)
  BY DEF DailyMatchesEvents
<1>7. daily'[d].requests = Cardinality(all) /\ daily'[d].spend = Total(h, all)
  <2> HIDE DEF old, all, new, f, g, h
  <2>1. Cardinality(all) = Cardinality(old) + Cardinality(new)
    <3>1. Cardinality(old \cup new)
            = Cardinality(old) + Cardinality(new) - Cardinality(old \cap new)
      BY <1>3, FS_Union
    <3>2. Cardinality(old \cap new) = 0
      BY <1>2, FS_EmptySet
    <3>3. Cardinality(old) \in Nat /\ Cardinality(new) \in Nat
      BY <1>3, FS_CardinalityType
    <3> QED
      BY <1>2, <3>1, <3>2, <3>3
  <2>2. Total(h, all) = Total(h, old) + Total(h, new)
    <3>1. \A r \in old \cup new : h[r] \in Nat
      BY <1>4
    <3> QED
      BY <1>2, <1>3, <3>1, TotalUnion
  <2>3. Total(h, old) = Total(f, old) /\ Total(h, new) = Total(g, new)
    BY <1>4, TotalSame
  <2> QED
    BY <1>5, <1>6, <2>1, <2>2, <2>3
<1> QED
  BY <1>7

\* The rollup moves with the events, and with nothing else.
LEMMA DailyStep ==
  ASSUME LedgerTyped, DailyMatchesEvents, [Next]_vars PROVE DailyMatchesEvents'
<1>1. CASE Settle \/ FinalizeLate \/ Finish \/ Reconcile
  <2>1. PICK R \in SUBSET Requests : \E rows : Finalized(R, rows)
    BY <1>1, FinalizedStep
  <2>2. PICK rows : Finalized(R, rows)
    BY <2>1
  <2> DEFINE event == [r \in R |-> UsageEvent(r, requests', rows[r])]
  <2>3. LedgerTyped'
    BY LedgerStep
  <2>4. ASSUME NEW r \in R PROVE event[r] \in EventRow /\ event[r].status # "none"
    <3>1. requests'[r].state \in TerminalStates /\ \A a \in Attempts : rows[r][a] \in AttemptRow
      BY <2>2 DEF Finalized
    <3>2. requests'[r].closedAt \in Nat
      BY <2>3 DEF LedgerTyped, TypeOK, RequestRow
    <3>3. UsageEvent(r, requests', rows[r]) \in EventRow
      BY <3>1, <3>2, UsageEventType
    <3>4. UsageEvent(r, requests', rows[r]).status # "none"
      BY <3>1, EventSays DEF TerminalStates, SettleStates, CrashStates
    <3> QED
      BY <3>3, <3>4
  <2>5. FinalizeUsage(R, event)
    BY <2>2 DEF Finalized
  <2> HIDE DEF event
  <2> QED
    BY <2>3, <2>4, <2>5, FinalizedDaily
<1>2. CASE UNCHANGED <<events, daily>>
  BY <1>2 DEF DailyMatchesEvents
<1>3. CASE Accept \/ Start
  BY <1>2, <1>3 DEF Accept, AcceptRequest, Start, StartAttempt
<1>4. CASE AcceptAndStart
  BY <1>2, <1>4 DEF AcceptAndStart, AcceptAndStartAttempt
<1>5. CASE PromoNotice \/ Platform \/ Tick \/ UNCHANGED vars
  BY <1>2, <1>5 DEF PromoNotice, RefuseExhausted, MarkPromoNotified, LoseNotice,
                    Platform, RevokeKey, TopUp, UnlockSpend, Tick, vars
<1> QED
  BY <1>1, <1>3, <1>4, <1>5 DEF Next

\* The daily rollup is always the sum of the day's events: it never lags and never
\* counts an event twice, also when a late finalize offers one again.
THEOREM RollupMatches == Spec => []DailyMatchesEvents
<1>1. Init => LedgerTyped /\ DailyMatchesEvents
  <2> SUFFICES ASSUME Init PROVE DailyMatchesEvents
    BY LedgerInit
  <2>1. \A r \in Requests : events[r].status = "none"
    BY DEF Init, NoEvent
  <2>2. ASSUME NEW d \in 0..Day(MaxTime)
        PROVE  LET rs == {r \in Requests : events[r].status # "none" /\ events[r].day = d}
               IN /\ daily[d].requests = Cardinality(rs)
                  /\ daily[d].spend =
                       Total([r \in rs |-> events[r].cost + events[r].estimated], rs)
    <3> DEFINE rs == {r \in Requests : events[r].status # "none" /\ events[r].day = d}
               f == [r \in rs |-> events[r].cost + events[r].estimated]
    <3>1. rs = {} /\ daily[d].requests = 0 /\ daily[d].spend = 0
      BY <2>1 DEF Init
    <3>2. daily[d].requests = Cardinality(rs) /\ daily[d].spend = Total(f, rs)
      <4> HIDE DEF rs, f
      <4> QED
        BY <3>1, TotalEmpty, FS_EmptySet
    <3> QED
      BY <3>2
  <2> QED
    BY <2>2 DEF DailyMatchesEvents
<1>2. LedgerTyped /\ DailyMatchesEvents /\ [Next]_vars => LedgerTyped' /\ DailyMatchesEvents'
  BY LedgerStep, DailyStep
<1> QED
  BY <1>1, <1>2, PTL DEF Spec

-----------------------------------------------------------------------------
(* One live owner of a caller operation.                                   *)

\* A request that no longer shields its operation from the next accept.
Superseded(r) == requests[r].state # "open" \/ requests[r].deadline < now

\* accepted_at lists every keyed request, and of two of one operation the earlier
\* is superseded: the probe looks at the latest only and relies on that.
Owners ==
    /\ \A r \in Requests : requests[r].state # "absent" /\ requests[r].op # Null =>
          \E i \in 1..Len(accepted) : accepted[i] = r
    /\ \A i \in 1..Len(accepted) : requests[accepted[i]].state # "absent"
    /\ \A i, j \in 1..Len(accepted) :
          (/\ i < j
           /\ requests[accepted[i]].op = requests[accepted[j]].op
           /\ requests[accepted[i]].alias = requests[accepted[j]].alias)
          => Superseded(accepted[i])

\* Closing keeps what the probe identifies a request by, and opens nothing.
LEMMA ClosingIdentity ==
  ASSUME requests \in [Requests -> RequestRow], NEW R, NEW s \in TerminalStates,
         NEW r \in Requests
  PROVE  /\ Closing(R, s)[r].op = requests[r].op
         /\ Closing(R, s)[r].alias = requests[r].alias
         /\ Closing(R, s)[r].deadline = requests[r].deadline
         /\ Closing(R, s)[r].state = "open" => requests[r].state = "open"
         /\ Closing(R, s)[r].state = "absent" <=> requests[r].state = "absent"
<1>1. requests[r] \in RequestRow /\ s \notin {"open", "absent"}
  BY DEF TerminalStates, SettleStates, CrashStates
<1> QED
  BY <1>1 DEF Closing, RequestRow

\* An accepted request keeps its identity and its deadline, and never reopens.
SameRequest(r) ==
    /\ requests'[r].op = requests[r].op /\ requests'[r].alias = requests[r].alias
    /\ requests'[r].deadline = requests[r].deadline
    /\ requests'[r].state = "open" => requests[r].state = "open"
    /\ requests'[r].state = "absent" <=> requests[r].state = "absent"

\* A step that accepts no keyed request keeps every accepted request, in order;
\* a request it accepts carries no operation.
LEMMA IdentityStep ==
  ASSUME LedgerTyped, [Next]_vars, ~ Accept
  PROVE  /\ accepted' = accepted /\ now' >= now
         /\ \A r \in Requests :
               \/ SameRequest(r)
               \/ requests[r].state = "absent" /\ requests'[r].op = Null
<1>0. requests \in [Requests -> RequestRow] /\ now \in Nat
  BY InputsAssumption DEF LedgerTyped, TypeOK
<1>1. CASE AcceptAndStart
  <2>1. PICK r \in Requests, k \in Keys, alias \in Aliases, content \in Contents,
             life \in Lifetimes, n \in Ordinals, route \in Routes, max \in WorstCases :
               AcceptAndStartAttempt(r, k, alias, content, life, n, route, max)
    BY <1>1 DEF AcceptAndStart
  <2>2. /\ Accepted(r, k, alias, Null, content, life) /\ requests[r].state = "absent"
        /\ now' = now
    BY <2>1 DEF AcceptAndStartAttempt
  <2>3. /\ accepted' = accepted /\ requests'[r].op = Null
        /\ \A q \in Requests : q # r => requests'[q] = requests[q]
    BY <1>0, <2>2 DEF Accepted
  <2> QED
    BY <1>0, <2>2, <2>3 DEF SameRequest
<1>2. ASSUME NEW R, NEW s \in TerminalStates, requests' = Closing(R, s)
      PROVE  \A r \in Requests : SameRequest(r)
  BY <1>0, <1>2, ClosingIdentity DEF SameRequest
<1>3. CASE Settle
  <2>1. PICK a \in Attempts, state \in Outcomes, output \in Outputs, finalize \in Finalizes :
         \E cost \in (0..attempts[a].worst) \cup {Null} :
            SettleAttempt(a, state, output, cost, finalize)
    BY <1>3 DEF Settle
  <2>2. /\ accepted' = accepted /\ now' = now /\ state \in TerminalStates
        /\ \E R : requests' = Closing(R, state)
    BY <2>1, InputsAssumption DEF SettleAttempt, TerminalStates
  <2> QED
    BY <1>0, <1>2, <2>2
<1>4. CASE FinalizeLate
  <2>1. PICK a \in Attempts : FinalizeSettled(a)
    BY <1>4 DEF FinalizeLate
  <2>2. /\ accepted' = accepted /\ now' = now /\ attempts[a].state \in TerminalStates
        /\ requests' = Closing({a[1]}, attempts[a].state)
    BY <2>1 DEF FinalizeSettled, TerminalStates
  <2> QED
    BY <1>0, <1>2, <2>2
<1>5. CASE Finish
  <2>1. PICK r \in Requests, state \in FinishStates : FinishRequest(r, state)
    BY <1>5 DEF Finish
  <2>2. /\ accepted' = accepted /\ now' = now /\ state \in TerminalStates
        /\ requests' = Closing({r}, state)
    BY <2>1, InputsAssumption DEF FinishRequest, TerminalStates
  <2> QED
    BY <1>0, <1>2, <2>2
<1>6. CASE Reconcile
  <2>1. PICK first \in [{x[1] : x \in Crashed} -> Attempts] : ReconcileCrashed(first)
    BY <1>6 DEF Reconcile
  <2>2. accepted' = accepted /\ now' = now
    BY <2>1 DEF ReconcileCrashed
  <2>3. ASSUME NEW r \in Requests PROVE SameRequest(r)
    <3>1. \/ requests'[r] = Closing(Expired, "expired_before_dispatch")[r]
          \/ requests'[r] = Closing({x[1] : x \in Crashed}, "unknown_after_crash")[r]
      BY <2>1 DEF ReconcileCrashed
    <3>2. {"expired_before_dispatch", "unknown_after_crash"} \subseteq TerminalStates
      BY DEF TerminalStates, CrashStates
    <3> QED
      BY <1>0, <3>1, <3>2, ClosingIdentity DEF SameRequest
  <2> QED
    BY <1>0, <2>2, <2>3
<1>7. CASE accepted' = accepted /\ requests' = requests /\ now' >= now
  BY <1>7 DEF SameRequest
<1>8. CASE Start \/ PromoNotice \/ Platform \/ UNCHANGED vars
  <2>1. accepted' = accepted /\ requests' = requests /\ now' = now
    BY <1>8 DEF Start, StartAttempt, PromoNotice, RefuseExhausted, MarkPromoNotified,
                LoseNotice, Platform, RevokeKey, TopUp, UnlockSpend, vars
  <2> QED
    BY <1>0, <1>7, <2>1
<1>9. CASE Tick
  BY <1>0, <1>7, <1>9 DEF Tick
<1> QED
  BY <1>1, <1>3, <1>4, <1>5, <1>6, <1>8, <1>9 DEF Next

\* The probe under the advisory lock keeps Owners: the latest prior is reclaimable,
\* and every earlier one is already superseded.
LEMMA AcceptOwners == ASSUME LedgerTyped, Owners, Accept PROVE Owners'
<1>1. PICK r \in Requests, k \in Keys, alias \in Aliases, op \in CallerOps,
           content \in Contents, life \in Lifetimes :
             AcceptRequest(r, k, alias, op, content, life)
  BY DEF Accept
<1>2. /\ requests[r].state = "absent" /\ OperationFree(alias, op, content)
      /\ Accepted(r, k, alias, op, content, life) /\ now' = now
  BY <1>1 DEF AcceptRequest
<1>3. /\ requests \in [Requests -> RequestRow] /\ accepted \in Seq(Requests)
      /\ Len(accepted) \in Nat
      /\ \A i \in 1..Len(accepted) : accepted[i] \in Requests
  BY DEF LedgerTyped, TypeOK
<1>4. /\ requests'[r].op = op /\ requests'[r].alias = alias /\ requests'[r].state = "open"
      /\ \A q \in Requests : q # r => requests'[q] = requests[q]
      /\ accepted' = IF op = Null THEN accepted ELSE Append(accepted, r)
  BY <1>2, <1>3 DEF Accepted
<1>5. \A i \in 1..Len(accepted) :
         /\ accepted[i] # r /\ requests'[accepted[i]] = requests[accepted[i]]
  BY <1>2, <1>3, <1>4 DEF Owners
<1>6. CASE op = Null
  <2>1. accepted' = accepted
    BY <1>4, <1>6
  <2>2. \A q \in Requests : requests'[q].state # "absent" /\ requests'[q].op # Null =>
          \E i \in 1..Len(accepted) : accepted[i] = q
    BY <1>4, <1>6 DEF Owners
  <2>3. \A i \in 1..Len(accepted) : requests'[accepted[i]].state # "absent"
    BY <1>5 DEF Owners
  <2>4. \A i, j \in 1..Len(accepted) :
          (/\ i < j
           /\ requests'[accepted[i]].op = requests'[accepted[j]].op
           /\ requests'[accepted[i]].alias = requests'[accepted[j]].alias)
          => (\/ requests'[accepted[i]].state # "open"
              \/ requests'[accepted[i]].deadline < now')
    BY <1>2, <1>5 DEF Owners, Superseded
  <2> QED
    BY <2>1, <2>2, <2>3, <2>4 DEF Owners, Superseded
<1>7. CASE op # Null
  <2> DEFINE n == Len(accepted) + 1
  <2>1. /\ Len(accepted') = n /\ n \in Nat /\ accepted'[n] = r
        /\ \A i \in 1..n : i # n => i \in 1..Len(accepted) /\ accepted'[i] = accepted[i]
        /\ \A i \in 1..Len(accepted) : i \in 1..n /\ accepted'[i] = accepted[i]
    BY <1>3, <1>4, <1>7
  <2>2. ASSUME NEW i \in 1..Len(accepted), requests[accepted[i]].op = op,
               requests[accepted[i]].alias = alias
        PROVE  Superseded(accepted[i])
    <3>1. i \in Priors(alias, op)
      BY <2>2 DEF Priors
    <3>2. CASE \A j \in Priors(alias, op) : j <= i
      <4>1. Reclaimable(accepted[i])
        BY <1>2, <1>7, <3>1, <3>2 DEF OperationFree
      <4> QED
        BY <4>1 DEF Reclaimable, Superseded, CrashStates
    <3>3. CASE ~ (\A j \in Priors(alias, op) : j <= i)
      <4>1. PICK j \in Priors(alias, op) : ~ (j <= i)
        BY <3>3
      <4>2. /\ j \in 1..Len(accepted) /\ i < j
            /\ requests[accepted[j]].op = op /\ requests[accepted[j]].alias = alias
        BY <1>3, <4>1 DEF Priors
      <4> QED
        BY <2>2, <4>2 DEF Owners
    <3> QED
      BY <3>2, <3>3
  <2> HIDE DEF n
  <2>3. \A q \in Requests : requests'[q].state # "absent" /\ requests'[q].op # Null =>
          \E i \in 1..n : accepted'[i] = q
    <3> SUFFICES ASSUME NEW q \in Requests, requests'[q].state # "absent",
                        requests'[q].op # Null
                 PROVE  \E i \in 1..n : accepted'[i] = q
      OBVIOUS
    <3>1. CASE q = r
      <4>1. n \in 1..n
        BY <1>3 DEF n
      <4> QED
        BY <2>1, <3>1, <4>1
    <3>2. CASE q # r
      <4>1. PICK i \in 1..Len(accepted) : accepted[i] = q
        BY <1>4, <3>2 DEF Owners
      <4> QED
        BY <2>1, <4>1
    <3> QED
      BY <3>1, <3>2
  <2>4. \A i \in 1..n : requests'[accepted'[i]].state # "absent"
    <3> SUFFICES ASSUME NEW i \in 1..n PROVE requests'[accepted'[i]].state # "absent"
      OBVIOUS
    <3>1. CASE i = n
      BY <1>4, <2>1, <3>1
    <3>2. CASE i # n
      BY <1>5, <2>1, <3>2 DEF Owners
    <3> QED
      BY <3>1, <3>2
  <2>5. ASSUME NEW i \in 1..n, NEW j \in 1..n, i < j,
               requests'[accepted'[i]].op = requests'[accepted'[j]].op,
               requests'[accepted'[i]].alias = requests'[accepted'[j]].alias
        PROVE  \/ requests'[accepted'[i]].state # "open"
               \/ requests'[accepted'[i]].deadline < now'
    <3>1. i \in 1..Len(accepted) /\ accepted'[i] = accepted[i]
      <4>1. i # n
        BY <2>1, <2>5
      <4> QED
        BY <2>1, <4>1
    <3>2. requests'[accepted[i]] = requests[accepted[i]]
      BY <1>5, <3>1
    <3>3. Superseded(accepted[i])
      <4>1. CASE j = n
        <5>1. requests[accepted[i]].op = op /\ requests[accepted[i]].alias = alias
          BY <1>4, <2>1, <2>5, <3>1, <3>2, <4>1
        <5> QED
          BY <2>2, <3>1, <5>1
      <4>2. CASE j # n
        <5>1. j \in 1..Len(accepted) /\ accepted'[j] = accepted[j]
          BY <2>1, <4>2
        <5>2. requests'[accepted[j]] = requests[accepted[j]]
          BY <1>5, <5>1
        <5> QED
          BY <2>5, <3>1, <3>2, <5>1, <5>2 DEF Owners
      <4> QED
        BY <4>1, <4>2
    <3> QED
      BY <1>2, <3>1, <3>2, <3>3 DEF Superseded
  <2> QED
    BY <2>1, <2>3, <2>4, <2>5 DEF Owners, Superseded
<1> QED
  BY <1>6, <1>7

\* Owners is inductive over every call.
LEMMA OwnersStep == ASSUME LedgerTyped, Owners, [Next]_vars PROVE Owners'
<1>1. CASE Accept
  BY <1>1, AcceptOwners
<1>2. CASE ~ Accept
  <2>1. /\ accepted' = accepted /\ now' >= now
        /\ \A r \in Requests : \/ SameRequest(r)
                               \/ requests[r].state = "absent" /\ requests'[r].op = Null
    BY <1>2, IdentityStep
  <2>2. /\ \A i \in 1..Len(accepted) : accepted[i] \in Requests
        /\ requests \in [Requests -> RequestRow] /\ now \in Nat /\ now' \in Nat
        /\ \A r \in Requests : requests[r].deadline \in Nat
    <3>1. LedgerTyped'
      BY LedgerStep
    <3> QED
      BY <3>1, InputsAssumption DEF LedgerTyped, TypeOK, RequestRow
  <2>3. \A i \in 1..Len(accepted) : SameRequest(accepted[i])
    BY <2>1, <2>2 DEF Owners
  <2>4. \A q \in Requests : requests'[q].state # "absent" /\ requests'[q].op # Null =>
          \E i \in 1..Len(accepted) : accepted[i] = q
    <3> SUFFICES ASSUME NEW q \in Requests, requests'[q].state # "absent",
                        requests'[q].op # Null
                 PROVE  \E i \in 1..Len(accepted) : accepted[i] = q
      OBVIOUS
    <3>1. SameRequest(q)
      BY <2>1
    <3>2. CASE requests[q].state # "absent"
      BY <3>1, <3>2 DEF SameRequest, Owners
    <3>3. CASE requests[q].state = "absent"
      BY <3>1, <3>3 DEF SameRequest
    <3> QED
      BY <3>2, <3>3
  <2>5. \A i \in 1..Len(accepted) : requests'[accepted[i]].state # "absent"
    BY <2>2, <2>3 DEF SameRequest, Owners
  <2>6. ASSUME NEW i \in 1..Len(accepted), NEW j \in 1..Len(accepted), i < j,
               requests'[accepted[i]].op = requests'[accepted[j]].op,
               requests'[accepted[i]].alias = requests'[accepted[j]].alias
        PROVE  \/ requests'[accepted[i]].state # "open"
               \/ requests'[accepted[i]].deadline < now'
    <3>1. SameRequest(accepted[i]) /\ SameRequest(accepted[j])
      BY <2>3
    <3>2. Superseded(accepted[i])
      BY <2>6, <3>1 DEF SameRequest, Owners
    <3>3. requests[accepted[i]].deadline \in Nat
      BY <2>2
    <3> QED
      BY <2>1, <2>2, <3>1, <3>2, <3>3 DEF SameRequest, Superseded
  <2> QED
    BY <2>1, <2>4, <2>5, <2>6 DEF Owners, Superseded
<1> QED
  BY <1>1, <1>2

\* Nothing is accepted at first.
LEMMA OwnersInit == ASSUME Init PROVE Owners
<1>1. \A r \in Requests : requests[r].state = "absent"
  BY DEF Init, NoRequest
<1>2. Len(accepted) = 0
  BY DEF Init
<1> QED
  BY <1>1, <1>2 DEF Owners

\* At most one accepted request of a caller operation is inside its deadline:
\* gateway_accept_request's probe, which reads the latest prior only, suffices.
THEOREM OneOwner == Spec => []OneLiveOwner
<1>1. Init => LedgerTyped /\ Owners
  BY LedgerInit, OwnersInit
<1>2. LedgerTyped /\ Owners /\ [Next]_vars => LedgerTyped' /\ Owners'
  BY LedgerStep, OwnersStep
<1>3. LedgerTyped /\ Owners => OneLiveOwner
  <2> SUFFICES ASSUME LedgerTyped, Owners, NEW r \in Requests, NEW q \in Requests,
                      r # q, requests[r].op # Null,
                      requests[r].op = requests[q].op, requests[r].alias = requests[q].alias,
                      requests[r].state = "open", requests[q].state = "open"
               PROVE  requests[r].deadline < now \/ requests[q].deadline < now
    BY DEF OneLiveOwner
  <2>1. PICK i \in 1..Len(accepted) : accepted[i] = r
    BY DEF Owners
  <2>2. PICK j \in 1..Len(accepted) : accepted[j] = q
    BY DEF Owners
  <2>3. i < j \/ j < i
    <3>1. Len(accepted) \in Nat
      BY DEF LedgerTyped, TypeOK
    <3> QED
      BY <2>1, <2>2, <3>1
  <2>4. CASE i < j
    BY <2>1, <2>2, <2>4 DEF Owners, Superseded
  <2>5. CASE j < i
    BY <2>1, <2>2, <2>5 DEF Owners, Superseded
  <2> QED
    BY <2>3, <2>4, <2>5
<1> QED
  BY <1>1, <1>2, <1>3, PTL DEF Spec

-----------------------------------------------------------------------------
(* Money.                                                                  *)

\* Steps that touch no attempt row and no debit.
Quiet ==
    /\ attempts' = attempts
    /\ org'.billable = org.billable
    /\ org'.granted >= org.granted

\* A dispatch, folded with the accept or after it.
Dispatching ==
    /\ \E r \in Requests, n \in Ordinals, k \in Keys \cup {Null},
          alias \in Aliases \cup {Null}, route \in Routes, max \in WorstCases :
          Dispatch(r, n, k, alias, route, max)
    /\ org' = org

\* Money moves only when an attempt is dispatched, settled or reconciled.
LEMMA MoneySteps ==
  ASSUME LedgerTyped, [Next]_vars
  PROVE  Quiet \/ Dispatching \/ Settle \/ Reconcile
<1>0. /\ org \in OrgRow /\ org.granted \in Nat
      /\ requests \in [Requests -> RequestRow]
  BY DEF LedgerTyped, TypeOK, OrgRow
<1>1. CASE Accept
  BY <1>0, <1>1 DEF Accept, AcceptRequest, Quiet
<1>2. CASE Start
  <2>1. PICK r \in Requests, n \in Ordinals, route \in Routes, max \in WorstCases :
               StartAttempt(r, n, route, max)
    BY <1>2 DEF Start
  <2>2. requests[r].key \in Keys \cup {Null} /\ requests[r].alias \in Aliases \cup {Null}
    BY <1>0 DEF RequestRow
  <2> QED
    BY <2>1, <2>2 DEF StartAttempt, Dispatching
<1>3. CASE AcceptAndStart
  <2>1. PICK r \in Requests, k \in Keys, alias \in Aliases, content \in Contents,
             life \in Lifetimes, n \in Ordinals, route \in Routes, max \in WorstCases :
               AcceptAndStartAttempt(r, k, alias, content, life, n, route, max)
    BY <1>3 DEF AcceptAndStart
  <2>2. Dispatch(r, n, k, alias, route, max) /\ org' = org
    BY <2>1 DEF AcceptAndStartAttempt
  <2> QED
    BY <2>2 DEF Dispatching
<1>4. CASE FinalizeLate \/ Finish
  <2>1. attempts' = attempts /\ org' = org
    BY <1>4 DEF FinalizeLate, FinalizeSettled, Finish, FinishRequest
  <2> QED
    BY <1>0, <2>1 DEF Quiet
<1>5. CASE PromoNotice
  BY <1>0, <1>5 DEF PromoNotice, RefuseExhausted, MarkPromoNotified, LoseNotice, Quiet
<1>6. ASSUME NEW amount \in TopUps, TopUp(amount) PROVE Quiet
  <2>1. amount \in Nat
    BY InputsAssumption
  <2>2. org'.granted = org.granted + amount /\ org'.billable = org.billable
    BY <1>0, <1>6 DEF TopUp, OrgRow
  <2> QED
    BY <1>0, <1>6, <2>1, <2>2 DEF TopUp, Quiet
<1>7. CASE UnlockSpend
  BY <1>0, <1>7 DEF UnlockSpend, Quiet, OrgRow
<1>8. ASSUME NEW k \in RevocableKeys, RevokeKey(k) PROVE Quiet
  BY <1>0, <1>8 DEF RevokeKey, Quiet
<1>9. CASE Tick \/ UNCHANGED vars
  BY <1>0, <1>9 DEF Tick, vars, Quiet
<1> QED
  BY <1>1, <1>2, <1>3, <1>4, <1>5, <1>6, <1>7, <1>8, <1>9 DEF Next, Platform

-----------------------------------------------------------------------------
(* The three kinds of money step, row by row.                              *)

IsHost(row) == row.state # "none" /\ Lane[row.route] = "host_managed"

\* A dispatch writes one fresh row; a platform-funded one is priced, holds no
\* settlement and passed the credit gate unless it is free.
LEMMA DispatchRow ==
  ASSUME LedgerTyped, Dispatching
  PROVE  \E b \in Attempts, row \in AttemptRow :
            /\ attempts[b].state = "none"
            /\ attempts' = [attempts EXCEPT ![b] = row]
            /\ row.state = "dispatched"
            /\ IsHost(row) =>
                 /\ Priced(row) /\ row.settled = 0 /\ row.promoSettled = 0
                 /\ row.worst \in WorstCases \ {Null}
                 /\ ~ row.funded => ~ InsufficientCredits
<1>1. PICK r \in Requests, n \in Ordinals, k \in Keys \cup {Null},
           alias \in Aliases \cup {Null}, route \in Routes, max \in WorstCases :
             Dispatch(r, n, k, alias, route, max)
  BY DEF Dispatching
<1>2. now \in Nat /\ max \in NatOrNull /\ <<r, n>> \in Attempts
  BY InputsAssumption, AttemptsPairs DEF LedgerTyped, TypeOK
<1>3. attempts[<<r, n>>].state = "none"
  BY <1>1 DEF Dispatch
<1>4. CASE /\ HostAdmits(k, alias, route, max)
           /\ attempts' = [attempts EXCEPT ![<<r, n>>] = HostRow(alias, route, max)]
  <2>1. max \in Nat /\ max # Null
    BY <1>2, <1>4 DEF HostAdmits, HostGuards, NatOrNull
  <2>2. Funded(alias, route, max) \/ ~ InsufficientCredits
    BY <1>4 DEF HostAdmits, CreditGates
  <2> DEFINE row == HostRow(alias, route, max)
  <2>3. /\ row \in AttemptRow /\ row.state = "dispatched" /\ row.worst = max
        /\ row.settled = 0 /\ row.promoSettled = 0
        /\ row.funded = Funded(alias, route, max) /\ Priced(row)
    BY <1>2, <2>1, HostRowType
  <2> HIDE DEF row
  <2> QED
    BY <1>2, <1>3, <1>4, <2>1, <2>2, <2>3 DEF row
<1>5. CASE /\ Lane[route] = "customer_managed"
           /\ attempts' = [attempts EXCEPT ![<<r, n>>] = CustomerRow(route, max)]
  <2> DEFINE row == CustomerRow(route, max)
  <2>1. row \in AttemptRow /\ row.state = "dispatched" /\ row.route = route
    BY <1>2, CustomerRowType
  <2>2. ~ IsHost(row)
    BY <1>5, <2>1 DEF IsHost
  <2> HIDE DEF row
  <2> QED
    BY <1>2, <1>3, <1>5, <2>1, <2>2 DEF row
<1> QED
  BY <1>1, <1>4, <1>5 DEF Dispatch

\* A settlement moves one row out of "dispatched", keeps its price and route,
\* and debits exactly what a credit-funded platform row settled at.
LEMMA SettlementRow ==
  ASSUME LedgerTyped, Settle
  PROVE  \E b \in Attempts, row \in AttemptRow :
            /\ Dispatched(b) /\ attempts' = [attempts EXCEPT ![b] = row]
            /\ row.state \notin {"none", "dispatched"}
            /\ row.route = attempts[b].route /\ row.worst = attempts[b].worst
            /\ row.funded = attempts[b].funded /\ row.percent = attempts[b].percent
            /\ row.reserved = attempts[b].reserved
            /\ row.promoReserved = attempts[b].promoReserved
            /\ IsHost(row) => \E list \in 0..row.worst :
                 /\ row.settled = IF row.funded THEN 0 ELSE Discounted(list, row.percent)
                 /\ row.promoSettled = IF row.funded THEN list ELSE 0
            /\ org'.granted = org.granted
            /\ org'.billable = org.billable + IF IsHost(row) THEN row.settled ELSE 0
<1>1. PICK b \in Attempts, state \in Outcomes, output \in Outputs, finalize \in Finalizes :
         \E cost \in (0..attempts[b].worst) \cup {Null} :
            SettleAttempt(b, state, output, cost, finalize)
  BY DEF Settle
<1>2. PICK cost \in (0..attempts[b].worst) \cup {Null} :
         SettleAttempt(b, state, output, cost, finalize)
  BY <1>1
<1>3. /\ now \in Nat /\ attempts[b] \in AttemptRow /\ attempts[b].worst \in Nat
      /\ org \in OrgRow /\ org.billable \in Nat
      /\ state \in SettleStates /\ output \in Nat
  BY InputsAssumption DEF LedgerTyped, TypeOK, AttemptRow, OrgRow
<1>4. cost \in NatOrNull
  BY <1>3 DEF NatOrNull
<1> DEFINE list == ListSettlement(attempts[b], state, output, cost)
           row == SettledRow(attempts[b], state, output, cost)
<1>5. row \in AttemptRow /\ row.state = state
  BY <1>3, <1>4, SettledRowType
<1>6. /\ row.route = attempts[b].route /\ row.worst = attempts[b].worst
      /\ row.funded = attempts[b].funded /\ row.percent = attempts[b].percent
      /\ row.reserved = attempts[b].reserved
      /\ row.promoReserved = attempts[b].promoReserved
      /\ row.settled = IF attempts[b].funded THEN 0
                       ELSE Discounted(list, attempts[b].percent)
      /\ row.promoSettled = IF attempts[b].funded THEN list ELSE 0
  BY <1>3 DEF SettledRow, AttemptRow
<1>7. Lane[attempts[b].route] = "host_managed" => list \in 0..attempts[b].worst
  BY <1>2, <1>3 DEF ListSettlement
<1>8. /\ Dispatched(b) /\ attempts' = [attempts EXCEPT ![b] = row]
      /\ org' = IF Lane[row.route] = "host_managed" /\ ~ row.funded
                THEN SettleBilling(row) ELSE org
  BY <1>2 DEF SettleAttempt
<1> HIDE DEF row, list
<1>9. row.state \notin {"none", "dispatched"}
  BY <1>3, <1>5 DEF SettleStates
<1>10. /\ org'.granted = org.granted
       /\ org'.billable = org.billable + IF IsHost(row) THEN row.settled ELSE 0
  <2>1. row.settled \in Nat
    BY <1>5 DEF AttemptRow
  <2>2. CASE Lane[row.route] = "host_managed" /\ ~ row.funded
    <3>1. IsHost(row)
      BY <1>9, <2>2 DEF IsHost
    <3>2. org' = SettleBilling(row)
      BY <1>8, <2>2
    <3>3. CASE row.settled = 0
      BY <1>3, <3>1, <3>2, <3>3 DEF SettleBilling, OrgRow
    <3>4. CASE row.settled # 0
      BY <1>3, <2>1, <3>1, <3>2, <3>4 DEF SettleBilling, OrgRow
    <3> QED
      BY <3>3, <3>4
  <2>3. CASE ~ (Lane[row.route] = "host_managed" /\ ~ row.funded)
    <3>1. org' = org
      BY <1>8, <2>3
    <3>2. IsHost(row) => row.settled = 0
      BY <1>6, <2>3 DEF IsHost
    <3> QED
      BY <1>3, <3>1, <3>2
  <2> QED
    BY <2>2, <2>3
<1>11. IsHost(row) => \E x \in 0..row.worst :
                 /\ row.settled = IF row.funded THEN 0 ELSE Discounted(x, row.percent)
                 /\ row.promoSettled = IF row.funded THEN x ELSE 0
  BY <1>6, <1>7 DEF IsHost
<1> QED
  BY <1>5, <1>6, <1>8, <1>9, <1>10, <1>11

\* A reconciled platform row keeps its price and is settled at zero; no other
\* platform row changes, and nothing is debited.
LEMMA ReconciledRows ==
  ASSUME LedgerTyped, Reconcile
  PROVE  /\ org' = org
         /\ \A a \in Attempts :
              /\ IsHost(attempts'[a]) <=> IsHost(attempts[a])
              /\ attempts'[a].state = "dispatched" => attempts'[a] = attempts[a]
              /\ IsHost(attempts[a]) =>
                   \/ attempts'[a] = attempts[a]
                   \/ /\ Dispatched(a)
                      /\ attempts'[a].settled = 0
                      /\ attempts'[a].promoSettled = attempts[a].promoSettled
                      /\ attempts'[a].reserved = attempts[a].reserved
                      /\ attempts'[a].promoReserved = attempts[a].promoReserved
                      /\ attempts'[a].worst = attempts[a].worst
                      /\ attempts'[a].funded = attempts[a].funded
                      /\ attempts'[a].percent = attempts[a].percent
<1>1. PICK first \in [{a[1] : a \in Crashed} -> Attempts] : ReconcileCrashed(first)
  BY DEF Reconcile
<1>2. /\ org' = org
      /\ attempts' = [a \in Attempts |->
                        IF a \in Crashed THEN CrashedRow(attempts[a]) ELSE attempts[a]]
  BY <1>1 DEF ReconcileCrashed
<1>3. ASSUME NEW a \in Attempts, a \in Crashed
      PROVE  LET row == attempts[a]
                 new == CrashedRow(row)
             IN /\ new.state = "unknown_after_crash" /\ new.route = row.route
                /\ Lane[row.route] = "host_managed" => new.settled = 0
                /\ new.promoSettled = row.promoSettled
                /\ new.reserved = row.reserved /\ new.promoReserved = row.promoReserved
                /\ new.worst = row.worst /\ new.funded = row.funded
                /\ new.percent = row.percent
  <2>1. attempts[a] \in AttemptRow
    BY DEF LedgerTyped, TypeOK
  <2> QED
    BY <2>1 DEF CrashedRow, AttemptRow
<1>4. \A a \in Crashed : a \in Attempts /\ attempts[a].state = "dispatched"
  BY DEF Crashed, Dispatched
<1> QED
  BY <1>2, <1>3, <1>4 DEF IsHost, Dispatched

-----------------------------------------------------------------------------
(* Settlements within reservations.                                        *)

\* The price of every platform row bounds its settlement, which is zero until
\* it leaves "dispatched".
WithinPrice(row) ==
    /\ Priced(row)
    /\ row.settled <= row.reserved /\ row.promoSettled <= row.promoReserved
    /\ row.state = "dispatched" => row.settled = 0 /\ row.promoSettled = 0

RowsPriced == \A a \in Attempts : IsHost(attempts[a]) => WithinPrice(attempts[a])

\* A settlement at a list price within the worst case stays under the price,
\* because the discount is rounded monotonically.
LEMMA SettledWithinPrice ==
  ASSUME NEW row \in AttemptRow, Priced(row), row.state # "dispatched",
         NEW list \in 0..row.worst,
         row.settled = IF row.funded THEN 0 ELSE Discounted(list, row.percent),
         row.promoSettled = IF row.funded THEN list ELSE 0
  PROVE  WithinPrice(row)
<1>1. /\ row.worst \in Nat /\ row.percent \in 0..100 /\ row.funded \in BOOLEAN
      /\ list \in Nat /\ list <= row.worst
  BY DEF AttemptRow
<1>2. Discounted(list, row.percent) <= Discounted(row.worst, row.percent)
  BY <1>1, DiscountedBounds
<1>3. CASE row.funded
  BY <1>1, <1>3 DEF WithinPrice, Priced
<1>4. CASE ~ row.funded
  BY <1>2, <1>4 DEF WithinPrice, Priced
<1> QED
  BY <1>1, <1>3, <1>4

\* RowsPriced is inductive over dispatch, settlement and reconciliation.
LEMMA PricedStep ==
  ASSUME LedgerTyped, RowsPriced, [Next]_vars PROVE RowsPriced'
<1>0. /\ attempts \in [Attempts -> AttemptRow]
      /\ \A a \in Attempts : attempts[a].reserved \in Nat /\ attempts[a].promoReserved \in Nat
  BY DEF LedgerTyped, TypeOK, AttemptRow
<1>1. CASE Quiet
  BY <1>1 DEF Quiet, RowsPriced
<1>2. CASE Dispatching
  <2>1. PICK b \in Attempts, row \in AttemptRow :
            /\ attempts' = [attempts EXCEPT ![b] = row]
            /\ row.state = "dispatched"
            /\ IsHost(row) => Priced(row) /\ row.settled = 0 /\ row.promoSettled = 0
    BY <1>2, DispatchRow
  <2>2. IsHost(row) => WithinPrice(row)
    <3>1. row.reserved \in Nat /\ row.promoReserved \in Nat
      BY DEF AttemptRow
    <3> QED
      BY <2>1, <3>1 DEF WithinPrice
  <2> QED
    BY <1>0, <2>1, <2>2 DEF RowsPriced
<1>3. CASE Settle
  <2>1. PICK b \in Attempts, row \in AttemptRow :
            /\ Dispatched(b) /\ attempts' = [attempts EXCEPT ![b] = row]
            /\ row.state \notin {"none", "dispatched"}
            /\ row.route = attempts[b].route /\ row.worst = attempts[b].worst
            /\ row.funded = attempts[b].funded /\ row.percent = attempts[b].percent
            /\ row.reserved = attempts[b].reserved
            /\ row.promoReserved = attempts[b].promoReserved
            /\ IsHost(row) => \E list \in 0..row.worst :
                 /\ row.settled = IF row.funded THEN 0 ELSE Discounted(list, row.percent)
                 /\ row.promoSettled = IF row.funded THEN list ELSE 0
    BY <1>3, SettlementRow
  <2>2. IsHost(row) => WithinPrice(row)
    <3> SUFFICES ASSUME IsHost(row) PROVE WithinPrice(row)
      OBVIOUS
    <3>1. IsHost(attempts[b])
      BY <2>1 DEF IsHost, Dispatched
    <3>2. Priced(row)
      BY <2>1, <3>1 DEF RowsPriced, WithinPrice, Priced
    <3> QED
      BY <2>1, <3>2, SettledWithinPrice
  <2> QED
    BY <1>0, <2>1, <2>2 DEF RowsPriced
<1>4. CASE Reconcile
  <2>1. ASSUME NEW a \in Attempts, IsHost(attempts'[a]) PROVE WithinPrice(attempts'[a])
    <3>1. IsHost(attempts[a]) /\ WithinPrice(attempts[a])
      BY <1>4, <2>1, ReconciledRows DEF RowsPriced
    <3>2. attempts'[a].state = "dispatched" => attempts'[a] = attempts[a]
      BY <1>4, ReconciledRows
    <3>3. CASE attempts'[a] = attempts[a]
      BY <3>1, <3>3
    <3>4. CASE attempts'[a] # attempts[a]
      <4>1. /\ attempts'[a].settled = 0
            /\ attempts'[a].promoSettled = attempts[a].promoSettled
            /\ attempts'[a].reserved = attempts[a].reserved
            /\ attempts'[a].promoReserved = attempts[a].promoReserved
            /\ attempts'[a].worst = attempts[a].worst
            /\ attempts'[a].funded = attempts[a].funded
            /\ attempts'[a].percent = attempts[a].percent
        BY <1>4, <3>1, <3>4, ReconciledRows
      <4> QED
        BY <1>0, <3>1, <3>2, <3>4, <4>1 DEF WithinPrice, Priced
    <3> QED
      BY <3>3, <3>4
  <2> QED
    BY <2>1 DEF RowsPriced
<1> QED
  BY <1>1, <1>2, <1>3, <1>4, MoneySteps

\* Before the first dispatch there is no row to price.
LEMMA PricedInit == Init => RowsPriced
  BY DEF Init, RowsPriced, IsHost, NoAttempt

\* No platform-funded attempt ever settles above what was reserved for it: the
\* figure every gate was passed on bounds the charge, with the discount rounded
\* independently at dispatch and at settlement.
THEOREM SettlementsBounded == Spec => []SettledWithinReserved
<1>1. RowsPriced => SettledWithinReserved
  BY DEF RowsPriced, WithinPrice, IsHost, SettledWithinReserved, HostAttempts
<1>2. Init => LedgerTyped /\ RowsPriced
  BY LedgerInit, PricedInit
<1>3. LedgerTyped /\ RowsPriced /\ [Next]_vars => LedgerTyped' /\ RowsPriced'
  BY LedgerStep, PricedStep
<1> QED
  BY <1>1, <1>2, <1>3, PTL DEF Spec

-----------------------------------------------------------------------------
(* Exactly-once billing.                                                   *)

\* The platform-funded rows are finitely many, with natural amounts.
LEMMA HostAttemptsType ==
  /\ HostAttempts \in SUBSET Attempts /\ IsFiniteSet(HostAttempts)
  /\ TypeOK => \A a \in Attempts : Settled[a] \in Nat /\ Reserved[a] \in Nat
<1>1. HostAttempts \in SUBSET Attempts
  BY DEF HostAttempts
<1> QED
  BY <1>1, AttemptsFinite DEF TypeOK, Settled, Reserved, AttemptRow

\* Changing the amount of one row of S moves the sum by the difference.
LEMMA TotalChange ==
  ASSUME NEW S, IsFiniteSet(S), NEW f, NEW g, NEW b \in S,
         \A a \in S : f[a] \in Nat /\ g[a] \in Nat,
         \A a \in S \ {b} : g[a] = f[a]
  PROVE  /\ Total(f, S) \in Nat /\ Total(g, S) \in Nat
         /\ Total(g, S) + f[b] = Total(f, S) + g[b]
<1>1. IsFiniteSet(S \ {b})
  BY FS_RemoveElement
<1>2. Total(f, S) = Total(f, S \ {b}) + f[b] /\ Total(g, S) = Total(g, S \ {b}) + g[b]
  BY TotalSplit
<1>3. Total(g, S \ {b}) = Total(f, S \ {b})
  BY TotalSame
<1>4. Total(f, S \ {b}) \in Nat
  BY <1>1, TotalType
<1>5. f[b] \in Nat /\ g[b] \in Nat
  OBVIOUS
<1> QED
  BY <1>2, <1>3, <1>4, <1>5

\* No step separates the organization's debit from the rows it stands for: a
\* dispatch settles nothing, a settlement debits its own row, a reconciliation
\* settles platform rows at the zero they already had.
LEMMA BilledStep ==
  ASSUME LedgerTyped, RowsPriced, BillableIsSettled, [Next]_vars
  PROVE  BillableIsSettled'
<1>0. /\ TypeOK /\ TypeOK' /\ attempts \in [Attempts -> AttemptRow]
      /\ org.billable \in Nat
  BY LedgerStep DEF LedgerTyped, TypeOK, OrgRow
<1>1. /\ HostAttempts \in SUBSET Attempts /\ IsFiniteSet(HostAttempts)
      /\ \A a \in Attempts : Settled[a] \in Nat /\ Settled'[a] \in Nat
      /\ \A a \in Attempts : Settled[a] = attempts[a].settled
      /\ \A a \in Attempts : Settled'[a] = attempts'[a].settled
  BY <1>0, HostAttemptsType DEF Settled, TypeOK, AttemptRow
<1>2. \A a \in Attempts : /\ a \in HostAttempts <=> IsHost(attempts[a])
                          /\ a \in HostAttempts' <=> IsHost(attempts'[a])
  BY DEF HostAttempts, IsHost
<1>3. HostAttempts' \in SUBSET Attempts
  BY DEF HostAttempts
<1> SUFFICES org'.billable = Total(Settled', HostAttempts')
  BY DEF BillableIsSettled
<1>4. org.billable = Total(Settled, HostAttempts)
  BY DEF BillableIsSettled
<1> DEFINE H == HostAttempts
           Hn == HostAttempts'
           f == Settled
           g == Settled'
<1> HIDE DEF H, Hn, f, g
<1>5. /\ H \in SUBSET Attempts /\ Hn \in SUBSET Attempts /\ IsFiniteSet(H)
      /\ \A a \in Attempts : f[a] \in Nat /\ g[a] \in Nat
      /\ \A a \in Attempts : f[a] = attempts[a].settled /\ g[a] = attempts'[a].settled
      /\ \A a \in Attempts : a \in H <=> IsHost(attempts[a])
      /\ \A a \in Attempts : a \in Hn <=> IsHost(attempts'[a])
      /\ org.billable = Total(f, H)
  BY <1>1, <1>2, <1>3, <1>4 DEF H, Hn, f, g
<1> SUFFICES org'.billable = Total(g, Hn)
  BY DEF g, Hn
<1>6. CASE Quiet
  <2>1. Hn = H /\ \A a \in H : g[a] = f[a]
    BY <1>5, <1>6 DEF Quiet
  <2>2. Total(g, H) = Total(f, H)
    BY <2>1, TotalSame
  <2> QED
    BY <1>5, <1>6, <2>1, <2>2 DEF Quiet
<1>7. CASE Dispatching
  <2>1. PICK b \in Attempts, row \in AttemptRow :
            /\ attempts[b].state = "none"
            /\ attempts' = [attempts EXCEPT ![b] = row]
            /\ row.state = "dispatched"
            /\ IsHost(row) => row.settled = 0
    BY <1>7, DispatchRow
  <2>2. b \notin H
    BY <1>5, <2>1 DEF IsHost
  <2>3. \A a \in Attempts : a # b => attempts'[a] = attempts[a]
    BY <1>0, <2>1
  <2>4. attempts'[b] = row
    BY <1>0, <2>1
  <2>5. \A a \in H : g[a] = f[a]
    BY <1>5, <2>2, <2>3
  <2>6. Total(g, H) = Total(f, H)
    BY <2>5, TotalSame
  <2>7. org'.billable = org.billable
    BY <1>7 DEF Dispatching
  <2>8. CASE IsHost(row)
    <3>1. Hn = H \cup {b} /\ g[b] = 0
      BY <1>5, <2>1, <2>3, <2>4, <2>8
    <3>2. Total(g, H \cup {b}) = Total(g, H) + g[b]
      BY <1>5, <2>2, TotalAdd
    <3>3. Total(g, H) \in Nat
      BY <1>5, TotalType
    <3> QED
      BY <1>5, <2>6, <2>7, <3>1, <3>2, <3>3
  <2>9. CASE ~ IsHost(row)
    <3>1. Hn = H
      BY <1>5, <2>2, <2>3, <2>4, <2>9
    <3> QED
      BY <1>5, <2>6, <2>7, <3>1
  <2> QED
    BY <2>8, <2>9
<1>8. CASE Settle
  <2>1. PICK b \in Attempts, row \in AttemptRow :
            /\ Dispatched(b) /\ attempts' = [attempts EXCEPT ![b] = row]
            /\ row.state \notin {"none", "dispatched"}
            /\ row.route = attempts[b].route
            /\ org'.billable = org.billable + IF IsHost(row) THEN row.settled ELSE 0
    BY <1>8, SettlementRow
  <2>2. \A a \in Attempts : a # b => attempts'[a] = attempts[a]
    BY <1>0, <2>1
  <2>3. attempts'[b] = row /\ (IsHost(row) <=> IsHost(attempts[b]))
    BY <1>0, <2>1 DEF IsHost, Dispatched
  <2>4. Hn = H
    BY <1>5, <2>2, <2>3
  <2>5. CASE IsHost(row)
    <3>1. b \in H /\ f[b] = 0 /\ g[b] = row.settled
      BY <1>5, <2>1, <2>3, <2>5 DEF RowsPriced, WithinPrice, Dispatched
    <3>2. \A a \in H \ {b} : g[a] = f[a]
      BY <1>5, <2>2
    <3>3. /\ Total(f, H) \in Nat /\ Total(g, H) \in Nat
          /\ Total(g, H) + f[b] = Total(f, H) + g[b]
      BY <1>5, <3>1, <3>2, TotalChange
    <3> QED
      BY <1>5, <2>1, <2>4, <2>5, <3>1, <3>3
  <2>6. CASE ~ IsHost(row)
    <3>1. \A a \in H : g[a] = f[a]
      BY <1>5, <2>2, <2>3, <2>6
    <3>2. Total(g, H) = Total(f, H)
      BY <3>1, TotalSame
    <3> QED
      BY <1>0, <1>5, <2>1, <2>4, <2>6, <3>2
  <2> QED
    BY <2>5, <2>6
<1>9. CASE Reconcile
  <2>1. Hn = H
    BY <1>5, <1>9, ReconciledRows
  <2>2. \A a \in H : g[a] = f[a]
    <3> SUFFICES ASSUME NEW a \in H PROVE g[a] = f[a]
      OBVIOUS
    <3>1. IsHost(attempts[a]) /\ a \in Attempts
      BY <1>5
    <3>2. attempts'[a] = attempts[a] \/ (Dispatched(a) /\ attempts'[a].settled = 0)
      BY <1>9, <3>1, ReconciledRows
    <3>3. Dispatched(a) => attempts[a].settled = 0
      BY <3>1 DEF RowsPriced, WithinPrice, Dispatched
    <3> QED
      BY <1>5, <3>1, <3>2, <3>3
  <2>3. Total(g, H) = Total(f, H)
    BY <2>2, TotalSame
  <2> QED
    BY <1>5, <1>9, <2>1, <2>3, ReconciledRows
<1> QED
  BY <1>6, <1>7, <1>8, <1>9, MoneySteps

\* The ledger starts without platform-funded rows.
LEMMA NoHostInit == Init => HostAttempts = {}
  BY DEF Init, HostAttempts, NoAttempt

\* Exactly-once billing: the organization's billable spend always equals the
\* sum of its platform-funded attempts' settlements (gateway_settle_billing).
THEOREM BilledExactlyOnce == Spec => []BillableIsSettled
<1>1. Init => LedgerTyped /\ RowsPriced /\ BillableIsSettled
  <2> SUFFICES ASSUME Init PROVE BillableIsSettled
    BY LedgerInit, PricedInit
  <2>1. HostAttempts = {} /\ org.billable = 0
    BY NoHostInit DEF Init
  <2> QED
    BY <2>1, TotalEmpty DEF BillableIsSettled
<1>2. LedgerTyped /\ RowsPriced /\ BillableIsSettled /\ [Next]_vars
        => LedgerTyped' /\ RowsPriced' /\ BillableIsSettled'
  BY LedgerStep, PricedStep, BilledStep
<1> QED
  BY <1>1, <1>2, PTL DEF Spec

-----------------------------------------------------------------------------
(* One overdraft.                                                          *)

InFlight == {a \in HostAttempts : Dispatched(a)}

\* The reservations gateway_spend_policy_check counts are of finitely many rows.
LEMMA InFlightType ==
  /\ InFlight \in SUBSET Attempts /\ IsFiniteSet(InFlight)
  /\ \A a \in Attempts : a \in InFlight <=> IsHost(attempts[a]) /\ Dispatched(a)
<1>1. InFlight \in SUBSET Attempts
  BY DEF InFlight, HostAttempts
<1> QED
  BY <1>1, AttemptsFinite DEF InFlight, HostAttempts, IsHost

\* A free attempt reserves nothing; any other reserves at most its worst case.
LEMMA ReservedBound ==
  ASSUME NEW row \in AttemptRow, Priced(row)
  PROVE  /\ row.reserved \in Nat /\ row.reserved <= row.worst
         /\ row.funded => row.reserved = 0
<1>1. /\ row.worst \in Nat /\ row.percent \in 0..100 /\ row.funded \in BOOLEAN
      /\ row.reserved \in Nat
  BY DEF AttemptRow
<1>2. Discounted(row.worst, row.percent) <= row.worst
  <2>1. row.worst <= row.worst
    BY <1>1
  <2> QED
    BY <1>1, <2>1, DiscountedBounds
<1> QED
  BY <1>1, <1>2 DEF Priced

\* Every step leaves the reservation-aware balance where it was or higher, but
\* for a credit-funded dispatch, which needs a positive balance and takes at
\* most its worst case.
LEMMA BalanceStep ==
  ASSUME LedgerTyped, RowsPriced, [Next]_vars
  PROVE  /\ Available \in Int /\ Available' \in Int
         /\ \/ Available' >= Available
            \/ \E w \in WorstCases \ {Null} : Available > 0 /\ Available' >= Available - w
<1>0. /\ LedgerTyped' /\ attempts \in [Attempts -> AttemptRow]
      /\ org.billable \in Nat /\ org'.billable \in Nat
      /\ org.granted \in Nat /\ org'.granted \in Nat
      /\ \A a \in Attempts : attempts[a].reserved \in Nat /\ attempts'[a].reserved \in Nat
  BY LedgerStep DEF LedgerTyped, TypeOK, OrgRow, AttemptRow
<1> DEFINE D == InFlight
           Dn == InFlight'
           f == Reserved
           g == Reserved'
<1>1. /\ D \in SUBSET Attempts /\ Dn \in SUBSET Attempts
      /\ IsFiniteSet(D) /\ IsFiniteSet(Dn)
      /\ \A a \in Attempts : a \in D <=> IsHost(attempts[a]) /\ attempts[a].state = "dispatched"
      /\ \A a \in Attempts : a \in Dn <=> IsHost(attempts'[a]) /\ attempts'[a].state = "dispatched"
  <2>1. Dn \in SUBSET Attempts
    BY DEF InFlight, HostAttempts
  <2> QED
    BY <2>1, AttemptsFinite, InFlightType DEF InFlight, HostAttempts, IsHost, Dispatched
<1>2. \A a \in Attempts : f[a] = attempts[a].reserved /\ g[a] = attempts'[a].reserved
  BY DEF Reserved
<1>3. /\ Available = org.granted - org.billable - Total(f, D)
      /\ Available' = org'.granted - org'.billable - Total(g, Dn)
  BY DEF Available, Outstanding, InFlight
<1> HIDE DEF D, Dn, f, g
<1>4. Total(f, D) \in Nat /\ Total(g, Dn) \in Nat
  <2>1. /\ \A a \in D : f[a] \in Nat
        /\ \A a \in Dn : g[a] \in Nat
    BY <1>0, <1>1, <1>2
  <2> QED
    BY <1>1, <2>1, TotalType
<1>5. Available \in Int /\ Available' \in Int
  BY <1>0, <1>3, <1>4
<1> SUFFICES \/ Available' >= Available
             \/ \E w \in WorstCases \ {Null} : Available > 0 /\ Available' >= Available - w
  BY <1>5
<1>6. CASE Quiet
  <2>1. Dn = D /\ \A a \in D : g[a] = f[a]
    BY <1>1, <1>2, <1>6 DEF Quiet
  <2>2. Total(g, D) = Total(f, D)
    BY <2>1, TotalSame
  <2> QED
    BY <1>0, <1>3, <1>4, <1>6, <2>1, <2>2 DEF Quiet
<1>7. CASE Dispatching
  <2>1. PICK b \in Attempts, row \in AttemptRow :
            /\ attempts[b].state = "none"
            /\ attempts' = [attempts EXCEPT ![b] = row]
            /\ row.state = "dispatched"
            /\ IsHost(row) => /\ Priced(row) /\ row.worst \in WorstCases \ {Null}
                              /\ ~ row.funded => ~ InsufficientCredits
    BY <1>7, DispatchRow
  <2>2. /\ b \notin D /\ attempts'[b] = row
        /\ \A a \in Attempts : a # b => attempts'[a] = attempts[a]
    BY <1>0, <1>1, <2>1
  <2>3. \A a \in D : g[a] = f[a]
    BY <1>1, <1>2, <2>2
  <2>4. Total(g, D) = Total(f, D)
    BY <2>3, TotalSame
  <2>5. org' = org
    BY <1>7 DEF Dispatching
  <2>6. CASE IsHost(row)
    <3>1. Dn = D \cup {b} /\ g[b] = row.reserved
      BY <1>1, <1>2, <2>1, <2>2, <2>6
    <3>2. \A a \in D : g[a] \in Nat
      BY <1>0, <1>1, <1>2
    <3>3. /\ row.reserved \in Nat /\ row.reserved <= row.worst
          /\ row.funded => row.reserved = 0
      BY <2>1, <2>6, ReservedBound
    <3>4. Total(g, D \cup {b}) = Total(g, D) + g[b]
      BY <1>1, <2>2, <3>1, <3>2, <3>3, TotalAdd
    <3>5. Available' = Available - row.reserved
      BY <1>0, <1>3, <1>4, <2>4, <2>5, <3>1, <3>3, <3>4
    <3>6. CASE row.funded
      BY <1>5, <3>3, <3>5, <3>6
    <3>7. CASE ~ row.funded
      <4>1. Available > 0
        BY <1>5, <2>1, <2>6, <3>7 DEF InsufficientCredits
      <4>2. row.worst \in Nat
        BY DEF AttemptRow
      <4>3. Available' >= Available - row.worst
        BY <1>5, <3>3, <3>5, <4>2
      <4> QED
        BY <2>1, <2>6, <4>1, <4>3
    <3> QED
      BY <3>6, <3>7
  <2>7. CASE ~ IsHost(row)
    <3>1. Dn = D
      BY <1>1, <2>2, <2>7
    <3> QED
      BY <1>0, <1>3, <1>4, <2>4, <2>5, <3>1
  <2> QED
    BY <2>6, <2>7
<1>8. CASE Settle
  <2>1. PICK b \in Attempts, row \in AttemptRow :
            /\ Dispatched(b) /\ attempts' = [attempts EXCEPT ![b] = row]
            /\ row.state \notin {"none", "dispatched"}
            /\ row.route = attempts[b].route /\ row.reserved = attempts[b].reserved
            /\ org'.granted = org.granted
            /\ org'.billable = org.billable + IF IsHost(row) THEN row.settled ELSE 0
    BY <1>8, SettlementRow
  <2>2. /\ attempts'[b] = row
        /\ \A a \in Attempts : a # b => attempts'[a] = attempts[a]
    BY <1>0, <2>1
  <2>3. Dn = D \ {b}
    BY <1>1, <2>1, <2>2
  <2>4. Total(g, Dn) = Total(f, Dn)
    <3>1. \A a \in Dn : g[a] = f[a]
      BY <1>1, <1>2, <2>2, <2>3
    <3> QED
      BY <3>1, TotalSame
  <2>5. \A a \in D : f[a] \in Nat
    BY <1>0, <1>1, <1>2
  <2>6. CASE IsHost(row)
    <3>1. b \in D
      BY <1>1, <2>1, <2>6 DEF IsHost, Dispatched
    <3>2. Total(f, D) = Total(f, D \ {b}) + f[b]
      BY <1>1, <2>5, <3>1, TotalSplit
    <3>3. row.settled <= f[b] /\ row.settled \in Nat /\ f[b] \in Nat
      <4>1. RowsPriced'
        BY PricedStep
      <4>2. row.settled <= row.reserved
        BY <2>2, <2>6, <4>1 DEF RowsPriced, WithinPrice
      <4> QED
        BY <1>0, <1>2, <2>1, <4>2 DEF AttemptRow
    <3> QED
      BY <1>0, <1>3, <1>4, <2>1, <2>3, <2>4, <2>6, <3>2, <3>3
  <2>7. CASE ~ IsHost(row)
    <3>1. Total(f, D \ {b}) <= Total(f, D)
      BY <1>1, <2>5, TotalSubset
    <3> QED
      BY <1>0, <1>3, <1>4, <2>1, <2>3, <2>4, <2>7, <3>1
  <2> QED
    BY <2>6, <2>7
<1>9. CASE Reconcile
  <2>1. Dn \in SUBSET D /\ \A a \in Dn : g[a] = f[a]
    BY <1>1, <1>2, <1>9, ReconciledRows
  <2>2. Total(g, Dn) = Total(f, Dn)
    BY <2>1, TotalSame
  <2>3. \A a \in D : f[a] \in Nat
    BY <1>0, <1>1, <1>2
  <2>4. Total(f, Dn) <= Total(f, D)
    BY <1>1, <2>1, <2>3, TotalSubset
  <2>5. org' = org
    BY <1>9, ReconciledRows
  <2> QED
    BY <1>0, <1>3, <1>4, <2>2, <2>4, <2>5
<1> QED
  BY <1>6, <1>7, <1>8, <1>9, MoneySteps

\* One honest overdraft: with every reservation counted, the balance is never
\* below zero by as much as the worst case of one attempt, however many workers
\* dispatch at once (gateway_spend_policy_check's positive-balance rule).
THEOREM OverdraftBounded == Spec => []OneOverdraft
<1>1. Init => LedgerTyped /\ RowsPriced /\ OneOverdraft
  <2> SUFFICES ASSUME Init PROVE OneOverdraft
    BY LedgerInit, PricedInit
  <2>1. HostAttempts = {} /\ org.billable = 0 /\ org.granted = InitialGrant
    BY NoHostInit DEF Init
  <2>2. {a \in HostAttempts : Dispatched(a)} = {}
    BY <2>1
  <2>3. Outstanding = 0
    BY <2>2, TotalEmpty DEF Outstanding
  <2> QED
    BY <2>1, <2>3, OrgAssumption DEF OneOverdraft, Available
<1>2. ASSUME LedgerTyped, RowsPriced, OneOverdraft, [Next]_vars PROVE OneOverdraft'
  <2>1. /\ Available \in Int /\ Available' \in Int
        /\ \/ Available' >= Available
           \/ \E w \in WorstCases \ {Null} : Available > 0 /\ Available' >= Available - w
    BY <1>2, BalanceStep
  <2>2. \A w \in WorstCases \ {Null} : w \in Nat
    BY InputsAssumption DEF NatOrNull
  <2>3. CASE Available' >= Available
    BY <1>2, <2>1, <2>2, <2>3 DEF OneOverdraft
  <2>4. CASE \E w \in WorstCases \ {Null} : Available > 0 /\ Available' >= Available - w
    <3>1. PICK w \in WorstCases \ {Null} : Available > 0 /\ Available' >= Available - w
      BY <2>4
    <3>2. Available' > - w
      BY <2>1, <2>2, <3>1
    <3> QED
      BY <3>2 DEF OneOverdraft
  <2> QED
    BY <2>1, <2>3, <2>4
<1>3. LedgerTyped /\ RowsPriced /\ OneOverdraft /\ [Next]_vars
        => LedgerTyped' /\ RowsPriced' /\ OneOverdraft'
  BY <1>2, LedgerStep, PricedStep
<1> QED
  BY <1>1, <1>3, PTL DEF Spec

-----------------------------------------------------------------------------
(* Ceilings.  A gate compares what is charged or reserved with a limit at  *)
(* the dispatch; these lemmas carry the comparison through every later     *)
(* settlement, reconciliation and finalize.                                *)

\* What a ceiling counts a row under.
SameScope(a) ==
    /\ attempts'[a].route = attempts[a].route
    /\ attempts'[a].started = attempts[a].started
    /\ attempts'[a].promo = attempts[a].promo
    /\ attempts'[a].funded = attempts[a].funded
    /\ attempts'[a].percent = attempts[a].percent
    /\ requests'[a[1]].key = requests[a[1]].key
    /\ requests'[a[1]].alias = requests[a[1]].alias

\* Closing a request keeps its key and its alias.
LEMMA ClosingScope ==
  ASSUME requests \in [Requests -> RequestRow], NEW R, NEW s, NEW r \in Requests
  PROVE  /\ Closing(R, s)[r].key = requests[r].key
         /\ Closing(R, s)[r].alias = requests[r].alias
<1>1. requests[r] \in RequestRow
  OBVIOUS
<1> QED
  BY <1>1 DEF Closing, RequestRow

\* The scope of a dispatched row is frozen: settlement, reconciliation and the
\* closing of its request leave it.
LEMMA ScopeStep ==
  ASSUME LedgerTyped, [Next]_vars, NEW a \in Attempts, attempts[a].state # "none"
  PROVE  attempts'[a].state # "none" /\ SameScope(a)
<1>0. /\ attempts \in [Attempts -> AttemptRow] /\ requests \in [Requests -> RequestRow]
      /\ a[1] \in Requests /\ requests[a[1]].state # "absent"
  BY AttemptsPairs DEF LedgerTyped, TypeOK, Attached
<1>1. CASE Accept
  <2>1. PICK r \in Requests, k \in Keys, alias \in Aliases, op \in CallerOps,
             content \in Contents, life \in Lifetimes :
               AcceptRequest(r, k, alias, op, content, life)
    BY <1>1 DEF Accept
  <2>2. requests'[a[1]] = requests[a[1]] /\ attempts' = attempts
    BY <1>0, <2>1 DEF AcceptRequest, Accepted
  <2> QED
    BY <2>2 DEF SameScope
<1>2. CASE Start
  <2>1. requests' = requests /\ attempts'[a] = attempts[a]
    BY <1>0, <1>2, AttemptsPairs DEF Start, StartAttempt, Dispatch
  <2> QED
    BY <2>1 DEF SameScope
<1>3. CASE AcceptAndStart
  <2>1. PICK r \in Requests, k \in Keys, alias \in Aliases, content \in Contents,
             life \in Lifetimes, n \in Ordinals, route \in Routes, max \in WorstCases :
               AcceptAndStartAttempt(r, k, alias, content, life, n, route, max)
    BY <1>3 DEF AcceptAndStart
  <2>2. requests'[a[1]] = requests[a[1]]
    BY <1>0, <2>1 DEF AcceptAndStartAttempt, Accepted
  <2>3. attempts'[a] = attempts[a]
    BY <1>0, <2>1, AttemptsPairs DEF AcceptAndStartAttempt, Dispatch
  <2> QED
    BY <2>2, <2>3 DEF SameScope
<1>4. CASE Settle
  <2>1. PICK b \in Attempts, state \in Outcomes, output \in Outputs, finalize \in Finalizes :
         \E cost \in (0..attempts[b].worst) \cup {Null} :
            SettleAttempt(b, state, output, cost, finalize)
    BY <1>4 DEF Settle
  <2>2. PICK cost \in (0..attempts[b].worst) \cup {Null} :
         SettleAttempt(b, state, output, cost, finalize)
    BY <2>1
  <2> DEFINE row == SettledRow(attempts[b], state, output, cost)
             R == IF finalize THEN {b[1]} ELSE {}
  <2>3. attempts' = [attempts EXCEPT ![b] = row] /\ requests' = Closing(R, state)
    BY <2>2 DEF SettleAttempt
  <2>4. attempts[b] \in AttemptRow /\ state \in SettleStates
    BY <1>0, InputsAssumption
  <2>5. /\ row.route = attempts[b].route /\ row.started = attempts[b].started
        /\ row.promo = attempts[b].promo /\ row.funded = attempts[b].funded
        /\ row.percent = attempts[b].percent /\ row.state # "none"
    BY <2>4 DEF SettledRow, AttemptRow, SettleStates
  <2> HIDE DEF row, R
  <2>6. /\ attempts'[a].route = attempts[a].route
        /\ attempts'[a].started = attempts[a].started
        /\ attempts'[a].promo = attempts[a].promo
        /\ attempts'[a].funded = attempts[a].funded
        /\ attempts'[a].percent = attempts[a].percent
        /\ attempts'[a].state # "none"
    BY <1>0, <2>3, <2>5
  <2>7. /\ requests'[a[1]].key = requests[a[1]].key
        /\ requests'[a[1]].alias = requests[a[1]].alias
    BY <1>0, <2>3, ClosingScope
  <2> QED
    BY <2>6, <2>7 DEF SameScope
<1>5. CASE FinalizeLate \/ Finish
  <2>1. PICK R, s : requests' = Closing(R, s) /\ attempts' = attempts
    BY <1>5 DEF FinalizeLate, FinalizeSettled, Finish, FinishRequest
  <2>2. /\ requests'[a[1]].key = requests[a[1]].key
        /\ requests'[a[1]].alias = requests[a[1]].alias
    BY <1>0, <2>1, ClosingScope
  <2> QED
    BY <2>1, <2>2 DEF SameScope
<1>6. CASE Reconcile
  <2>1. PICK first \in [{x[1] : x \in Crashed} -> Attempts] : ReconcileCrashed(first)
    BY <1>6 DEF Reconcile
  <2>2. \/ attempts'[a] = CrashedRow(attempts[a])
        \/ attempts'[a] = attempts[a]
    BY <2>1 DEF ReconcileCrashed
  <2>3. \/ requests'[a[1]] = Closing(Expired, "expired_before_dispatch")[a[1]]
        \/ requests'[a[1]] = Closing({x[1] : x \in Crashed}, "unknown_after_crash")[a[1]]
    BY <1>0, <2>1 DEF ReconcileCrashed
  <2>4. /\ requests'[a[1]].key = requests[a[1]].key
        /\ requests'[a[1]].alias = requests[a[1]].alias
    BY <1>0, <2>3, ClosingScope
  <2>5. attempts[a] \in AttemptRow
    BY <1>0
  <2>6. /\ CrashedRow(attempts[a]).route = attempts[a].route
        /\ CrashedRow(attempts[a]).started = attempts[a].started
        /\ CrashedRow(attempts[a]).promo = attempts[a].promo
        /\ CrashedRow(attempts[a]).funded = attempts[a].funded
        /\ CrashedRow(attempts[a]).percent = attempts[a].percent
        /\ CrashedRow(attempts[a]).state # "none"
    BY <2>5 DEF CrashedRow, AttemptRow
  <2> QED
    BY <2>2, <2>4, <2>6 DEF SameScope
<1>7. CASE PromoNotice
  <2>1. attempts' = attempts /\ requests' = requests
    BY <1>7 DEF PromoNotice, RefuseExhausted, MarkPromoNotified, LoseNotice
  <2> QED
    BY <2>1 DEF SameScope
<1>8. CASE Platform \/ Tick \/ UNCHANGED vars
  <2>1. attempts' = attempts /\ requests' = requests
    BY <1>8 DEF Platform, RevokeKey, TopUp, UnlockSpend, Tick, vars
  <2> QED
    BY <2>1 DEF SameScope
<1> QED
  BY <1>1, <1>2, <1>3, <1>4, <1>5, <1>6, <1>7, <1>8 DEF Next

\* What a row counts for never grows: a settlement replaces the reservation by
\* at most as much, in credits and in the promotion's column.
LEMMA ChargesEase ==
  ASSUME LedgerTyped, RowsPriced, [Next]_vars, NEW a \in HostAttempts
  PROVE  /\ a \in Attempts /\ a \in HostAttempts'
         /\ ChargedOrReserved[a] \in Nat /\ ChargedOrReserved'[a] \in Nat
         /\ ChargedOrReserved'[a] <= ChargedOrReserved[a]
         /\ PromoChargedOrReserved[a] \in Nat /\ PromoChargedOrReserved'[a] \in Nat
         /\ PromoChargedOrReserved'[a] <= PromoChargedOrReserved[a]
<1>0. a \in Attempts /\ IsHost(attempts[a])
  BY DEF HostAttempts, IsHost
<1>1. LedgerTyped' /\ RowsPriced'
  BY LedgerStep, PricedStep
<1>2. IsHost(attempts'[a])
  BY <1>0, ScopeStep DEF IsHost, SameScope
<1>3. WithinPrice(attempts[a]) /\ WithinPrice(attempts'[a])
  BY <1>0, <1>1, <1>2 DEF RowsPriced
<1>4. attempts[a] \in AttemptRow /\ attempts'[a] \in AttemptRow
  BY <1>0, <1>1 DEF LedgerTyped, TypeOK
<1>5. /\ ChargedOrReserved[a] = IF attempts[a].state = "dispatched"
                                THEN attempts[a].reserved ELSE attempts[a].settled
      /\ PromoChargedOrReserved[a] = IF attempts[a].state = "dispatched"
                                     THEN attempts[a].promoReserved
                                     ELSE attempts[a].promoSettled
      /\ ChargedOrReserved'[a] = IF attempts'[a].state = "dispatched"
                                 THEN attempts'[a].reserved ELSE attempts'[a].settled
      /\ PromoChargedOrReserved'[a] = IF attempts'[a].state = "dispatched"
                                      THEN attempts'[a].promoReserved
                                      ELSE attempts'[a].promoSettled
  BY <1>0 DEF ChargedOrReserved, PromoChargedOrReserved, Dispatched
<1>6. \/ attempts'[a] = attempts[a]
      \/ /\ attempts[a].state = "dispatched" /\ attempts'[a].state # "dispatched"
         /\ attempts'[a].reserved = attempts[a].reserved
         /\ attempts'[a].promoReserved = attempts[a].promoReserved
  <2>0. attempts \in [Attempts -> AttemptRow]
    BY DEF LedgerTyped, TypeOK
  <2>1. CASE Quiet
    BY <2>1 DEF Quiet
  <2>2. CASE Dispatching
    <3>1. PICK b \in Attempts, row \in AttemptRow :
              attempts[b].state = "none" /\ attempts' = [attempts EXCEPT ![b] = row]
      BY <2>2, DispatchRow
    <3> QED
      BY <1>0, <2>0, <3>1 DEF IsHost
  <2>3. CASE Settle
    <3>1. PICK b \in Attempts, row \in AttemptRow :
            /\ Dispatched(b) /\ attempts' = [attempts EXCEPT ![b] = row]
            /\ row.state \notin {"none", "dispatched"}
            /\ row.reserved = attempts[b].reserved
            /\ row.promoReserved = attempts[b].promoReserved
      BY <2>3, SettlementRow
    <3> QED
      BY <1>0, <2>0, <3>1 DEF Dispatched
  <2>4. CASE Reconcile
    BY <1>0, <2>4, ReconciledRows DEF Dispatched
  <2> QED
    BY <2>1, <2>2, <2>3, <2>4, MoneySteps
<1>7. a \in HostAttempts'
  BY <1>0, <1>2 DEF HostAttempts, IsHost
<1> QED
  BY <1>0, <1>3, <1>4, <1>5, <1>6, <1>7 DEF WithinPrice, AttemptRow

\* A platform row that was not there before: it is the step's only new row, of a
\* request that now carries the key and the alias every gate was asked about.
Admission(b, k, alias, route, worst) ==
    /\ HostAttempts' = HostAttempts \cup {b}
    /\ now' = now /\ org' = org /\ notices' = notices
    /\ requests'[b[1]].key = k /\ requests'[b[1]].alias = alias
    /\ attempts[b].state = "none"
    /\ \A a \in Attempts \ {b} : attempts'[a] = attempts[a]
    /\ attempts'[b] = HostRow(alias, route, worst)
    /\ HostAdmits(k, alias, route, worst)

\* gateway_start_attempt, and its fold with the accept, admit one row at a time.
LEMMA AdmissionStep ==
  ASSUME LedgerTyped, [Next]_vars, NEW b \in HostAttempts', b \notin HostAttempts
  PROVE  \E k \in Keys \cup {Null}, alias \in Aliases \cup {Null}, route \in Routes,
            worst \in Nat \cap WorstCases :
            b \in Attempts /\ Admission(b, k, alias, route, worst)
<1>0. /\ attempts \in [Attempts -> AttemptRow] /\ requests \in [Requests -> RequestRow]
      /\ b \in Attempts /\ ~ IsHost(attempts[b]) /\ IsHost(attempts'[b]) /\ now \in Nat
  BY InputsAssumption DEF LedgerTyped, TypeOK, HostAttempts, IsHost
<1>1. attempts[b].state = "none"
  BY <1>0, ScopeStep DEF IsHost, SameScope
<1>2. ASSUME NEW r \in Requests, NEW n \in Ordinals, NEW k, NEW alias, NEW route \in Routes,
             NEW max \in WorstCases, Dispatch(r, n, k, alias, route, max),
             requests'[r].key = k, requests'[r].alias = alias,
             UNCHANGED <<now, org, notices>>
      PROVE  max \in Nat \cap WorstCases /\ Admission(b, k, alias, route, max)
  <2>1. <<r, n>> \in Attempts /\ <<r, n>>[1] = r
    BY AttemptsPairs
  <2>2. PICK row : attempts' = [attempts EXCEPT ![<<r, n>>] = row]
    BY <1>2 DEF Dispatch
  <2>3. b = <<r, n>>
    BY <1>0, <1>1, <2>1, <2>2 DEF IsHost
  <2>4. CASE /\ HostAdmits(k, alias, route, max)
             /\ attempts' = [attempts EXCEPT ![<<r, n>>] = HostRow(alias, route, max)]
    <3>1. max \in Nat
      BY <2>4, InputsAssumption DEF HostAdmits, HostGuards, NatOrNull
    <3>2. attempts'[b] = HostRow(alias, route, max)
      BY <1>0, <2>3, <2>4
    <3>3. \A a \in Attempts \ {b} : attempts'[a] = attempts[a]
      BY <1>0, <2>2, <2>3
    <3>4. HostAttempts' = HostAttempts \cup {b}
      BY <1>0, <3>3 DEF HostAttempts, IsHost
    <3> QED
      BY <1>1, <1>2, <2>1, <2>3, <2>4, <3>1, <3>2, <3>3, <3>4 DEF Admission
  <2>5. CASE /\ Lane[route] = "customer_managed"
             /\ attempts' = [attempts EXCEPT ![<<r, n>>] = CustomerRow(route, max)]
    <3>1. attempts'[b] = CustomerRow(route, max)
      BY <1>0, <2>3, <2>5
    <3>2. CustomerRow(route, max).route = route
      BY <1>0, InputsAssumption, CustomerRowType
    <3> QED
      BY <1>0, <2>5, <3>1, <3>2 DEF IsHost
  <2> QED
    BY <1>2, <2>4, <2>5 DEF Dispatch
<1>3. CASE Start
  <2>1. PICK r \in Requests, n \in Ordinals, route \in Routes, max \in WorstCases :
               StartAttempt(r, n, route, max)
    BY <1>3 DEF Start
  <2>2. /\ Dispatch(r, n, requests[r].key, requests[r].alias, route, max)
        /\ requests' = requests /\ UNCHANGED <<now, org, notices>>
    BY <2>1 DEF StartAttempt
  <2>3. /\ max \in Nat \cap WorstCases
        /\ Admission(b, requests[r].key, requests[r].alias, route, max)
    BY <1>2, <2>2
  <2>4. requests[r].key \in Keys \cup {Null} /\ requests[r].alias \in Aliases \cup {Null}
    BY <1>0 DEF RequestRow
  <2> QED
    BY <1>0, <2>3, <2>4
<1>4. CASE AcceptAndStart
  <2>1. PICK r \in Requests, k \in Keys, alias \in Aliases, content \in Contents,
             life \in Lifetimes, n \in Ordinals, route \in Routes, max \in WorstCases :
               AcceptAndStartAttempt(r, k, alias, content, life, n, route, max)
    BY <1>4 DEF AcceptAndStart
  <2>2. /\ Dispatch(r, n, k, alias, route, max) /\ UNCHANGED <<now, org, notices>>
        /\ Accepted(r, k, alias, Null, content, life)
    BY <2>1 DEF AcceptAndStartAttempt
  <2>3. requests'[r].key = k /\ requests'[r].alias = alias
    BY <1>0, <2>2 DEF Accepted
  <2>4. max \in Nat \cap WorstCases /\ Admission(b, k, alias, route, max)
    BY <1>2, <2>2, <2>3
  <2> QED
    BY <1>0, <2>4
<1>5. ASSUME attempts' = attempts PROVE FALSE
  BY <1>0, <1>5
<1>6. CASE Settle
  <2>1. PICK c \in Attempts, row \in AttemptRow :
            Dispatched(c) /\ attempts' = [attempts EXCEPT ![c] = row]
    BY <1>6, SettlementRow
  <2> QED
    BY <1>0, <1>1, <2>1 DEF Dispatched
<1>7. CASE Reconcile
  BY <1>0, <1>7, ReconciledRows
<1>8. CASE Accept \/ FinalizeLate \/ Finish
  BY <1>5, <1>8 DEF Accept, AcceptRequest, FinalizeLate, FinalizeSettled, Finish, FinishRequest
<1>9. CASE PromoNotice
  BY <1>5, <1>9 DEF PromoNotice, RefuseExhausted, MarkPromoNotified, LoseNotice
<1>10. CASE Platform \/ Tick \/ UNCHANGED vars
  BY <1>5, <1>10 DEF Platform, RevokeKey, TopUp, UnlockSpend, Tick, vars
<1> QED
  BY <1>3, <1>4, <1>6, <1>7, <1>8, <1>9, <1>10 DEF Next

\* What an admitted row is counted for: nothing in credits when a promotion pays,
\* and otherwise the charge every credit gate was asked about.
LEMMA AdmittedCharge ==
  ASSUME LedgerTyped, NEW b \in Attempts, NEW k, NEW alias, NEW route \in Routes,
         NEW worst \in Nat, Admission(b, k, alias, route, worst)
  PROVE  /\ attempts'[b].route = route /\ attempts'[b].started = now
         /\ attempts'[b].funded = Funded(alias, route, worst)
         /\ ChargedOrReserved'[b] \in Nat /\ PromoChargedOrReserved'[b] \in Nat
         /\ Funded(alias, route, worst) => ChargedOrReserved'[b] = 0
         /\ ~ Funded(alias, route, worst) =>
              /\ ChargedOrReserved'[b] = ChargeWorst(alias, route, worst)
              /\ CreditGates(k, alias, route, ChargedOrReserved'[b])
         /\ PromoChargedOrReserved'[b] = IF Funded(alias, route, worst) THEN worst ELSE 0
         /\ ~ KeyRateLimited(k)
<1>0. now \in Nat
  BY InputsAssumption DEF LedgerTyped, TypeOK
<1> DEFINE row == HostRow(alias, route, worst)
<1>1. /\ row \in AttemptRow /\ row.state = "dispatched" /\ row.route = route
      /\ row.worst = worst /\ row.funded = Funded(alias, route, worst)
      /\ Priced(row) /\ row.started = now
      /\ row.percent = IF Funded(alias, route, worst) THEN 0
                       ELSE PercentOff(alias, route, worst)
  BY <1>0, HostRowType
<1>2. /\ attempts'[b] = row /\ HostAdmits(k, alias, route, worst)
  BY DEF Admission
<1> HIDE DEF row
<1>3. /\ ChargedOrReserved'[b] = row.reserved
      /\ PromoChargedOrReserved'[b] = row.promoReserved
  BY <1>1, <1>2 DEF ChargedOrReserved, PromoChargedOrReserved, Dispatched
<1>4. row.reserved \in Nat /\ row.promoReserved \in Nat
  BY <1>1 DEF AttemptRow
<1>5. Funded(alias, route, worst) => row.reserved = 0 /\ row.promoReserved = worst
  BY <1>1 DEF Priced
<1>6. ~ Funded(alias, route, worst) =>
         row.reserved = ChargeWorst(alias, route, worst) /\ row.promoReserved = 0
  BY <1>1 DEF Priced, ChargeWorst
<1>7. ~ KeyRateLimited(k)
  BY <1>2 DEF HostAdmits, HostGuards
<1>8. ~ Funded(alias, route, worst) =>
         CreditGates(k, alias, route, ChargeWorst(alias, route, worst))
  BY <1>2 DEF HostAdmits
<1> QED
  BY <1>1, <1>2, <1>3, <1>4, <1>5, <1>6, <1>7, <1>8

\* A sum over one step: S are the rows it counted before at the amounts f, T those
\* it counts after at the amounts g.  Either it has not grown, or the step admitted
\* one row of T and the sum grew by at most that row's amount.
LEMMA GrowthStep ==
  ASSUME LedgerTyped, RowsPriced, [Next]_vars, NEW f, NEW g,
         NEW S \in SUBSET HostAttempts, NEW T \in SUBSET (HostAttempts'),
         T \cap HostAttempts \subseteq S,
         \A a \in HostAttempts : f[a] \in Nat /\ g[a] \in Nat /\ g[a] <= f[a],
         \A a \in HostAttempts' : g[a] \in Nat
  PROVE  /\ Total(f, S) \in Nat /\ Total(g, T) \in Nat
         /\ \/ Total(g, T) <= Total(f, S)
            \/ \E b \in T, k \in Keys \cup {Null}, alias \in Aliases \cup {Null},
                  route \in Routes, worst \in Nat :
                  /\ b \in Attempts /\ Admission(b, k, alias, route, worst)
                  /\ Total(g, T) <= Total(f, S) + g[b]
<1>1. S \in SUBSET Attempts /\ IsFiniteSet(S)
  BY AttemptsFinite DEF HostAttempts
<1>2. \A a \in S : f[a] \in Nat /\ g[a] \in Nat /\ g[a] <= f[a]
  OBVIOUS
<1>3. CASE T \subseteq HostAttempts
  <2>1. PICK z : z \notin S
    BY NoSetContainsEverything
  <2> DEFINE h == [a \in S \cup {z} |-> IF a \in S THEN g[a] ELSE 0]
  <2>2. /\ h[z] \in Nat
        /\ \A a \in S : f[a] \in Nat /\ h[a] \in Nat /\ h[a] <= f[a]
        /\ T \in SUBSET (S \cup {z}) /\ z \notin T
    BY <1>2, <1>3, <2>1
  <2>3. \A a \in T : h[a] = g[a]
    BY <1>3
  <2> HIDE DEF h
  <2>4. /\ Total(f, S) \in Nat /\ Total(h, T) \in Nat
        /\ Total(h, T) <= Total(f, S)
    BY <1>1, <2>1, <2>2, TotalGrows
  <2>5. Total(h, T) = Total(g, T)
    BY <2>3, TotalSame
  <2> QED
    BY <2>4, <2>5
<1>4. CASE ~ (T \subseteq HostAttempts)
  <2>1. PICK b \in T : b \in HostAttempts' /\ b \notin HostAttempts
    BY <1>4
  <2>2. PICK k \in Keys \cup {Null}, alias \in Aliases \cup {Null}, route \in Routes,
             worst \in Nat \cap WorstCases :
             b \in Attempts /\ Admission(b, k, alias, route, worst)
    BY <2>1, AdmissionStep
  <2>3. T \in SUBSET (S \cup {b}) /\ b \notin S /\ g[b] \in Nat
    BY <2>1, <2>2 DEF Admission
  <2>4. /\ Total(f, S) \in Nat /\ Total(g, T) \in Nat
        /\ Total(g, T) <= Total(f, S) + g[b]
    BY <1>1, <1>2, <2>3, TotalGrows
  <2> QED
    BY <2>2, <2>4
<1> QED
  BY <1>3, <1>4

\* What every platform row counts for after a step is a natural number.
LEMMA AmountsType ==
  ASSUME LedgerTyped, [Next]_vars, NEW a \in HostAttempts'
  PROVE  ChargedOrReserved'[a] \in Nat /\ PromoChargedOrReserved'[a] \in Nat
<1>1. a \in Attempts /\ LedgerTyped'
  BY LedgerStep DEF HostAttempts
<1>2. attempts'[a] \in AttemptRow
  BY <1>1 DEF LedgerTyped, TypeOK
<1> QED
  BY <1>1, <1>2 DEF ChargedOrReserved, PromoChargedOrReserved, AttemptRow

\* One credit ceiling over one step: the sum grows only by the charge of a
\* credit-funded row that passed all the credit gates.
LEMMA CeilingStep ==
  ASSUME LedgerTyped, RowsPriced, [Next]_vars,
         NEW S \in SUBSET HostAttempts, NEW T \in SUBSET (HostAttempts'),
         T \cap HostAttempts \subseteq S
  PROVE  /\ Total(ChargedOrReserved, S) \in Nat /\ Total(ChargedOrReserved', T) \in Nat
         /\ \/ Total(ChargedOrReserved', T) <= Total(ChargedOrReserved, S)
            \/ \E b \in T, k \in Keys \cup {Null}, alias \in Aliases \cup {Null},
                  route \in Routes, worst \in Nat, c \in Nat :
                  /\ b \in Attempts /\ Admission(b, k, alias, route, worst)
                  /\ attempts'[b].route = route /\ attempts'[b].started = now
                  /\ CreditGates(k, alias, route, c)
                  /\ Total(ChargedOrReserved', T) <= Total(ChargedOrReserved, S) + c
<1> DEFINE f == ChargedOrReserved
           g == ChargedOrReserved'
<1>1. \A a \in HostAttempts : f[a] \in Nat /\ g[a] \in Nat /\ g[a] <= f[a]
  BY ChargesEase
<1>2. \A a \in HostAttempts' : g[a] \in Nat
  BY AmountsType
<1>3. ASSUME NEW b \in T, NEW k, NEW alias, NEW route \in Routes, NEW worst \in Nat,
             b \in Attempts, Admission(b, k, alias, route, worst)
      PROVE  /\ attempts'[b].route = route /\ attempts'[b].started = now /\ g[b] \in Nat
             /\ g[b] = 0 \/ CreditGates(k, alias, route, g[b])
  BY <1>3, AdmittedCharge
<1> HIDE DEF f, g
<1>4. /\ Total(f, S) \in Nat /\ Total(g, T) \in Nat
      /\ \/ Total(g, T) <= Total(f, S)
         \/ \E b \in T, k \in Keys \cup {Null}, alias \in Aliases \cup {Null},
               route \in Routes, worst \in Nat :
               /\ b \in Attempts /\ Admission(b, k, alias, route, worst)
               /\ Total(g, T) <= Total(f, S) + g[b]
  BY <1>1, <1>2, GrowthStep
<1>5. CASE Total(g, T) <= Total(f, S)
  BY <1>4, <1>5 DEF f, g
<1>6. CASE ~ (Total(g, T) <= Total(f, S))
  <2>1. PICK b \in T, k \in Keys \cup {Null}, alias \in Aliases \cup {Null},
             route \in Routes, worst \in Nat :
               /\ b \in Attempts /\ Admission(b, k, alias, route, worst)
               /\ Total(g, T) <= Total(f, S) + g[b]
    BY <1>4, <1>6
  <2>2. CreditGates(k, alias, route, g[b])
    BY <1>3, <1>4, <1>6, <2>1
  <2> QED
    BY <1>3, <1>4, <2>1, <2>2 DEF f, g
<1> QED
  BY <1>5, <1>6

\* A ceiling whose gate refuses every charge that would exceed it stays held.
LEMMA CeilingHeld ==
  ASSUME LedgerTyped, RowsPriced, [Next]_vars,
         NEW S \in SUBSET HostAttempts, NEW T \in SUBSET (HostAttempts'),
         T \cap HostAttempts \subseteq S,
         NEW cap \in Nat, Total(ChargedOrReserved, S) <= cap,
         \A b \in T, k \in Keys \cup {Null}, alias \in Aliases \cup {Null},
            route \in Routes, worst \in Nat, c \in Nat :
            /\ Admission(b, k, alias, route, worst)
            /\ attempts'[b].route = route /\ attempts'[b].started = now
            /\ CreditGates(k, alias, route, c)
            /\ Total(ChargedOrReserved, S) \in Nat
            => Total(ChargedOrReserved, S) + c <= cap
  PROVE  Total(ChargedOrReserved', T) <= cap
<1>1. /\ Total(ChargedOrReserved, S) \in Nat /\ Total(ChargedOrReserved', T) \in Nat
      /\ \/ Total(ChargedOrReserved', T) <= Total(ChargedOrReserved, S)
         \/ \E b \in T, k \in Keys \cup {Null}, alias \in Aliases \cup {Null},
                  route \in Routes, worst \in Nat, c \in Nat :
                  /\ Admission(b, k, alias, route, worst)
                  /\ attempts'[b].route = route /\ attempts'[b].started = now
                  /\ CreditGates(k, alias, route, c)
                  /\ Total(ChargedOrReserved', T) <= Total(ChargedOrReserved, S) + c
  BY CeilingStep
<1>2. CASE Total(ChargedOrReserved', T) <= Total(ChargedOrReserved, S)
  BY <1>1, <1>2
<1>3. ASSUME NEW c \in Nat, Total(ChargedOrReserved, S) + c <= cap,
             Total(ChargedOrReserved', T) <= Total(ChargedOrReserved, S) + c
      PROVE  Total(ChargedOrReserved', T) <= cap
  BY <1>1, <1>3
<1> QED
  BY <1>1, <1>2, <1>3

\* What a ceiling over no rows sums to.
LEMMA NothingCharged ==
  ASSUME Init PROVE \A S \in SUBSET HostAttempts : Total(ChargedOrReserved, S) = 0
<1> SUFFICES ASSUME NEW S \in SUBSET HostAttempts PROVE Total(ChargedOrReserved, S) = 0
  OBVIOUS
<1>1. S = {}
  BY NoHostInit
<1> QED
  BY <1>1, TotalEmpty

\* P1011: the key's daily cap.
LEMMA KeyCapsStep ==
  ASSUME LedgerTyped, RowsPriced, KeyCapsHeld, [Next]_vars PROVE KeyCapsHeld'
<1> SUFFICES ASSUME NEW k \in Keys, NEW d \in 0..Day(MaxTime),
                    KeyLimits[k] # Null, KeyLimits[k].cap # Null
             PROVE  SpentOn({a \in HostAttempts : KeyOf(a) = k}, d)' <= KeyLimits[k].cap
  BY DEF KeyCapsHeld
<1>0. KeyLimits[k].cap \in Nat
  BY LimitsAssumption
<1> DEFINE S == {a \in {x \in HostAttempts : KeyOf(x) = k} : Day(attempts[a].started) = d}
           T == {a \in {x \in HostAttempts' : requests'[x[1]].key = k} :
                   Day(attempts'[a].started) = d}
<1>1. Total(ChargedOrReserved, S) <= KeyLimits[k].cap
  BY DEF KeyCapsHeld, SpentOn
<1>2. S \in SUBSET HostAttempts /\ T \in SUBSET (HostAttempts')
  OBVIOUS
<1>3. T \cap HostAttempts \subseteq S
  BY ScopeStep DEF SameScope, HostAttempts, KeyOf
<1>4. SpentOn({a \in HostAttempts : KeyOf(a) = k}, d)' = Total(ChargedOrReserved', T)
  BY DEF SpentOn, KeyOf
<1>5. ASSUME NEW b \in T, NEW q \in Keys \cup {Null}, NEW alias \in Aliases \cup {Null},
             NEW route \in Routes, NEW worst \in Nat, NEW c \in Nat,
             Admission(b, q, alias, route, worst), attempts'[b].started = now,
             CreditGates(q, alias, route, c), Total(ChargedOrReserved, S) \in Nat
      PROVE  Total(ChargedOrReserved, S) + c <= KeyLimits[k].cap
  <2>1. q = k /\ Day(now) = d
    BY <1>5 DEF Admission
  <2>2. ~ KeyCapped(k, c)
    BY <1>5, <2>1 DEF CreditGates
  <2>3. KeySpentToday(k) = Total(ChargedOrReserved, S)
    BY <2>1 DEF KeySpentToday, Today
  <2>4. DailyCap(k) = KeyLimits[k].cap
    BY DEF DailyCap
  <2> HIDE DEF S
  <2> QED
    BY <1>0, <1>5, <2>2, <2>3, <2>4 DEF KeyCapped
<1> HIDE DEF S, T
<1> QED
  BY ZenonT(60), <1>0, <1>1, <1>2, <1>3, <1>4, <1>5, CeilingHeld

\* Verification and the first top-up are never undone, and only a settlement
\* counts an unknown cost.
LEMMA OrgFlags ==
  ASSUME LedgerTyped, [Next]_vars
  PROVE  /\ org.unlocked => org'.unlocked
         /\ org.toppedUp => org'.toppedUp
         /\ ~ Settle => org'.unknownCost = org.unknownCost
<1>0. org \in OrgRow
  BY DEF LedgerTyped, TypeOK
<1>1. ASSUME NEW a \in Attempts, NEW state, NEW output, NEW cost, NEW finalize,
             SettleAttempt(a, state, output, cost, finalize)
      PROVE  org'.unlocked = org.unlocked /\ org'.toppedUp = org.toppedUp
  <2>1. PICK row : org' = SettleBilling(row) \/ org' = org
    BY <1>1 DEF SettleAttempt
  <2> QED
    BY <1>0, <2>1 DEF SettleBilling, OrgRow
<1>2. CASE Settle
  BY <1>1, <1>2 DEF Settle
<1>3. ASSUME NEW amount \in TopUps, TopUp(amount)
      PROVE  /\ org'.toppedUp /\ org'.unlocked = org.unlocked
             /\ org'.unknownCost = org.unknownCost
  BY <1>0, <1>3 DEF TopUp, OrgRow
<1>4. CASE UnlockSpend
  BY <1>0, <1>4 DEF UnlockSpend, OrgRow
<1>5. CASE ~ (Settle \/ UnlockSpend \/ \E amount \in TopUps : TopUp(amount))
  <2>1. CASE Accept \/ Start
    BY <2>1 DEF Accept, AcceptRequest, Start, StartAttempt
  <2>2. CASE AcceptAndStart
    BY <2>2 DEF AcceptAndStart, AcceptAndStartAttempt
  <2>3. CASE FinalizeLate \/ Finish \/ Reconcile
    BY <2>3 DEF FinalizeLate, FinalizeSettled, Finish, FinishRequest, Reconcile,
                ReconcileCrashed
  <2>4. CASE PromoNotice \/ Tick \/ UNCHANGED vars
    BY <2>4 DEF PromoNotice, RefuseExhausted, MarkPromoNotified, LoseNotice, Tick, vars
  <2>5. CASE Platform
    BY <1>5, <2>5 DEF Platform, RevokeKey
  <2> QED
    BY <1>5, <2>1, <2>2, <2>3, <2>4, <2>5 DEF Next
<1> QED
  BY <1>2, <1>3, <1>4, <1>5

\* P1025: the allowance of an unverified owner.
LEMMA AllowanceStep ==
  ASSUME LedgerTyped, RowsPriced, AllowanceHeld, [Next]_vars PROVE AllowanceHeld'
<1> SUFFICES ASSUME ~ org'.unlocked
             PROVE  Total(ChargedOrReserved', HostAttempts') <= Allowance
  BY DEF AllowanceHeld
<1>1. ~ org.unlocked /\ Allowance \in Nat
  BY OrgFlags, LimitsAssumption
<1>2. Total(ChargedOrReserved, HostAttempts) <= Allowance
  BY <1>1 DEF AllowanceHeld
<1>3. ASSUME NEW k, NEW alias, NEW route, NEW c \in Nat, CreditGates(k, alias, route, c),
             Total(ChargedOrReserved, HostAttempts) \in Nat
      PROVE  Total(ChargedOrReserved, HostAttempts) + c <= Allowance
  BY <1>1, <1>3 DEF CreditGates, OwnerUnverified
<1> DEFINE S == HostAttempts
           T == HostAttempts'
<1>4. S \in SUBSET HostAttempts /\ T \in SUBSET (HostAttempts') /\ T \cap HostAttempts \subseteq S
  OBVIOUS
<1>5. Total(ChargedOrReserved', T) <= Allowance
  <2> HIDE DEF T
  <2> QED
    BY <1>1, <1>2, <1>3, <1>4, CeilingHeld
<1> QED
  BY <1>5

\* P1014 and P1015: the free-credit ceilings of the organization and the model.
LEMMA FreeCreditStep ==
  ASSUME LedgerTyped, RowsPriced, FreeCreditCapsHeld, [Next]_vars
  PROVE  FreeCreditCapsHeld'
<1> SUFFICES ASSUME FreeCreditFunded', NEW d \in 0..Day(MaxTime)
             PROVE  /\ SpentOn(HostAttempts, d)' <= FreeOrgCap
                    /\ \A m \in Routes :
                          SpentOn({a \in HostAttempts :
                                     Model[attempts[a].route] = Model[m]}, d)'
                            <= FreeModelCap
  BY DEF FreeCreditCapsHeld
<1>0. FreeCreditFunded /\ FreeOrgCap \in Nat /\ FreeModelCap \in Nat
  BY OrgFlags, LimitsAssumption DEF FreeCreditFunded
<1>1. SpentOn(HostAttempts, d)' <= FreeOrgCap
  <2> DEFINE S == {a \in HostAttempts : Day(attempts[a].started) = d}
             T == {a \in HostAttempts' : Day(attempts'[a].started) = d}
  <2>1. Total(ChargedOrReserved, S) <= FreeOrgCap
    BY <1>0 DEF FreeCreditCapsHeld, SpentOn
  <2>2. /\ S \in SUBSET HostAttempts /\ T \in SUBSET (HostAttempts')
        /\ T \cap HostAttempts \subseteq S
    BY ScopeStep DEF SameScope, HostAttempts
  <2>3. SpentOn(HostAttempts, d)' = Total(ChargedOrReserved', T)
    BY DEF SpentOn
  <2>4. ASSUME NEW b \in T, NEW k, NEW alias, NEW route, NEW c \in Nat,
               attempts'[b].started = now, CreditGates(k, alias, route, c),
               Total(ChargedOrReserved, S) \in Nat
        PROVE  Total(ChargedOrReserved, S) + c <= FreeOrgCap
    <3>1. OrgSpentToday = Total(ChargedOrReserved, S)
      BY <2>4 DEF OrgSpentToday, Today
    <3> HIDE DEF S
    <3> QED
      BY <1>0, <2>4, <3>1 DEF CreditGates, FreeCreditCapped
  <2> HIDE DEF S, T
  <2> QED
    BY <1>0, <2>1, <2>2, <2>3, <2>4, CeilingHeld
<1>2. ASSUME NEW m \in Routes
      PROVE  SpentOn({a \in HostAttempts : Model[attempts[a].route] = Model[m]}, d)'
               <= FreeModelCap
  <2> DEFINE S == {a \in {x \in HostAttempts : Model[attempts[x].route] = Model[m]} :
                     Day(attempts[a].started) = d}
             T == {a \in {x \in HostAttempts' : Model[attempts'[x].route] = Model[m]} :
                     Day(attempts'[a].started) = d}
  <2>1. Total(ChargedOrReserved, S) <= FreeModelCap
    BY <1>0 DEF FreeCreditCapsHeld, SpentOn
  <2>2. /\ S \in SUBSET HostAttempts /\ T \in SUBSET (HostAttempts')
        /\ T \cap HostAttempts \subseteq S
    BY ScopeStep DEF SameScope, HostAttempts
  <2>3. SpentOn({a \in HostAttempts : Model[attempts[a].route] = Model[m]}, d)'
          = Total(ChargedOrReserved', T)
    BY DEF SpentOn
  <2>4. ASSUME NEW b \in T, NEW k, NEW alias, NEW route, NEW c \in Nat,
               attempts'[b].route = route, attempts'[b].started = now,
               CreditGates(k, alias, route, c), Total(ChargedOrReserved, S) \in Nat
        PROVE  Total(ChargedOrReserved, S) + c <= FreeModelCap
    <3>1. ModelSpentToday(Model[route]) = Total(ChargedOrReserved, S)
      BY <2>4 DEF ModelSpentToday, Today
    <3> HIDE DEF S
    <3> QED
      BY <1>0, <2>4, <3>1 DEF CreditGates, FreeCreditCapped
  <2> HIDE DEF S, T
  <2> QED
    BY <1>0, <2>1, <2>2, <2>3, <2>4, CeilingHeld
<1> QED
  BY <1>1, <1>2

\* The spend ceilings of gateway_start_attempt hold in every reachable state: the
\* key's day, the free credit's day and model, the unverified owner's allowance
\* (P1011, P1014, P1015, P1025).
THEOREM SpendCapsKept == Spec => []SpendCapsHeld
<1>1. Init => LedgerTyped /\ RowsPriced /\ SpendCapsHeld
  <2> SUFFICES ASSUME Init PROVE SpendCapsHeld
    BY LedgerInit, PricedInit
  <2>1. \A S \in SUBSET HostAttempts, d \in 0..Day(MaxTime) : SpentOn(S, d) = 0
    BY NothingCharged DEF SpentOn
  <2>2. KeyCapsHeld
    BY <2>1, LimitsAssumption DEF KeyCapsHeld
  <2>3. FreeCreditCapsHeld
    BY <2>1, LimitsAssumption DEF FreeCreditCapsHeld
  <2>4. AllowanceHeld
    BY NothingCharged, LimitsAssumption DEF AllowanceHeld
  <2> QED
    BY <2>2, <2>3, <2>4 DEF SpendCapsHeld
<1>2. LedgerTyped /\ RowsPriced /\ SpendCapsHeld /\ [Next]_vars
        => LedgerTyped' /\ RowsPriced' /\ SpendCapsHeld'
  BY LedgerStep, PricedStep, KeyCapsStep, FreeCreditStep, AllowanceStep DEF SpendCapsHeld
<1> QED
  BY <1>1, <1>2, PTL DEF Spec

\* P1016 to P1019, P1023 and P1024: a budget over a month it governs.
LEMMA BudgetsStep ==
  ASSUME LedgerTyped, RowsPriced, BudgetsHeld, [Next]_vars PROVE BudgetsHeld'
<1> SUFFICES ASSUME NEW x \in Budgets, NEW m \in 0..Month(MaxTime), x.period \in {m, Null}
             PROVE  Total(ChargedOrReserved,
                          {a \in HostAttempts :
                             /\ Month(attempts[a].started) = m
                             /\ Scope(KeyOf(a), requests[a[1]].alias,
                                      attempts[a].route)[x.kind] = x.scope})'
                      <= x.limit
  BY DEF BudgetsHeld
<1>0. x.limit \in Nat
  BY LimitsAssumption
<1> DEFINE S == {a \in HostAttempts :
                   /\ Month(attempts[a].started) = m
                   /\ Scope(requests[a[1]].key, requests[a[1]].alias,
                            attempts[a].route)[x.kind] = x.scope}
           T == {a \in HostAttempts' :
                   /\ Month(attempts'[a].started) = m
                   /\ Scope(requests'[a[1]].key, requests'[a[1]].alias,
                            attempts'[a].route)[x.kind] = x.scope}
<1>1. Total(ChargedOrReserved, S) <= x.limit
  BY DEF BudgetsHeld, KeyOf
<1>2. /\ S \in SUBSET HostAttempts /\ T \in SUBSET (HostAttempts')
      /\ T \cap HostAttempts \subseteq S
  BY ScopeStep DEF SameScope, HostAttempts
<1>3. Total(ChargedOrReserved,
            {a \in HostAttempts :
               /\ Month(attempts[a].started) = m
               /\ Scope(KeyOf(a), requests[a[1]].alias,
                        attempts[a].route)[x.kind] = x.scope})'
        = Total(ChargedOrReserved', T)
  BY DEF KeyOf, Scope
<1>4. ASSUME NEW b \in T, NEW k, NEW alias, NEW route, NEW worst, NEW c \in Nat,
             Admission(b, k, alias, route, worst),
             attempts'[b].route = route, attempts'[b].started = now,
             CreditGates(k, alias, route, c), Total(ChargedOrReserved, S) \in Nat
      PROVE  Total(ChargedOrReserved, S) + c <= x.limit
  <2>1. Month(now) = m /\ Scope(k, alias, route)[x.kind] = x.scope
    BY <1>4 DEF Admission
  <2>2. ScopeSpent(x) = Total(ChargedOrReserved, S)
    BY <2>1 DEF ScopeSpent, KeyOf
  <2> HIDE DEF S
  <2> QED
    BY <1>0, <1>4, <2>1, <2>2 DEF CreditGates, OverBudget
<1> HIDE DEF S, T
<1> QED
  BY ZenonT(60), <1>0, <1>1, <1>2, <1>3, <1>4, CeilingHeld

\* No budget is exceeded in any month it governs, whichever key, alias or route
\* the spend came through (gateway_budget_reservation_check).
THEOREM BudgetsKept == Spec => []BudgetsHeld
<1>1. Init => LedgerTyped /\ RowsPriced /\ BudgetsHeld
  <2> SUFFICES ASSUME Init PROVE BudgetsHeld
    BY LedgerInit, PricedInit
  <2> QED
    BY NothingCharged, LimitsAssumption DEF BudgetsHeld
<1>2. LedgerTyped /\ RowsPriced /\ BudgetsHeld /\ [Next]_vars
        => LedgerTyped' /\ RowsPriced' /\ BudgetsHeld'
  BY LedgerStep, PricedStep, BudgetsStep
<1> QED
  BY <1>1, <1>2, PTL DEF Spec

-----------------------------------------------------------------------------
(* Rate limits.                                                            *)

\* P1012: the window that ends at a dispatch holds every other window it is in.
LEMMA RatesStep == ASSUME LedgerTyped, RatesHeld, [Next]_vars PROVE RatesHeld'
<1> SUFFICES ASSUME NEW k \in Keys, NEW t \in 0..MaxTime, Rpm(k) # Null
             PROVE  Cardinality({a \in HostAttempts :
                                   /\ KeyOf(a) = k
                                   /\ attempts[a].started \in (t - WindowTicks)..t})'
                      <= Rpm(k)
  BY DEF RatesHeld, Rpm
<1>0. /\ Rpm(k) \in Nat /\ now \in Nat /\ WindowTicks \in Nat /\ t \in Nat
      /\ \A a \in Attempts : attempts[a].started \in Nat
  BY LimitsAssumption, TicksAssumption, InputsAssumption
     DEF Rpm, LedgerTyped, TypeOK, AttemptRow
<1> DEFINE S == {a \in HostAttempts : /\ requests[a[1]].key = k
                                      /\ attempts[a].started \in (t - WindowTicks)..t}
           T == {a \in HostAttempts' : /\ requests'[a[1]].key = k
                                       /\ attempts'[a].started \in (t - WindowTicks)..t}
           W == {a \in HostAttempts : /\ requests[a[1]].key = k
                                      /\ attempts[a].started >= now - WindowTicks}
<1>1. Cardinality(S) <= Rpm(k)
  BY DEF RatesHeld, KeyOf
<1>2. /\ S \in SUBSET Attempts /\ W \in SUBSET Attempts
      /\ IsFiniteSet(S) /\ IsFiniteSet(W)
  BY AttemptsFinite DEF HostAttempts
<1>3. Cardinality(S) \in Nat /\ Cardinality(W) \in Nat
  BY <1>2, FS_CardinalityType
<1>4. T \cap HostAttempts \subseteq S
  BY ScopeStep DEF SameScope, HostAttempts
<1>5. CASE T \subseteq HostAttempts
  <2>1. T \subseteq S
    BY <1>4, <1>5
  <2>2. Cardinality(T) \in Nat /\ Cardinality(T) <= Cardinality(S)
    <3> HIDE DEF S, T
    <3> QED
      BY <1>2, <2>1, FS_Subset, FS_CardinalityType
  <2>3. Cardinality(T) <= Rpm(k)
    <3> HIDE DEF S, T
    <3> QED
      BY <1>0, <1>1, <1>3, <2>2
  <2> QED
    BY <2>3 DEF KeyOf
<1>6. CASE ~ (T \subseteq HostAttempts)
  <2>1. PICK b \in T : b \in HostAttempts' /\ b \notin HostAttempts
    BY <1>6
  <2>2. PICK q \in Keys \cup {Null}, alias \in Aliases \cup {Null}, route \in Routes,
             worst \in Nat \cap WorstCases :
             b \in Attempts /\ Admission(b, q, alias, route, worst)
    BY <2>1, AdmissionStep
  <2>3. attempts'[b].started = now /\ ~ KeyRateLimited(q) /\ q = k
    BY <2>1, <2>2, AdmittedCharge DEF Admission
  <2>4. Cardinality(W) < Rpm(k)
    <3>1. ~ (Cardinality(W) >= Rpm(k))
      BY <2>3 DEF KeyRateLimited, KeyOf
    <3> HIDE DEF W
    <3> QED
      BY <1>0, <1>3, <3>1
  <2>5. t >= now
    BY <1>0, <2>1, <2>3
  <2>6. S \subseteq W
    BY <1>0, <1>2, <2>5
  <2>7. T \subseteq W \cup {b} /\ b \notin W
    BY <1>4, <2>1, <2>2, <2>6 DEF Admission
  <2> HIDE DEF S, T, W
  <2>8. IsFiniteSet(W \cup {b}) /\ Cardinality(W \cup {b}) = Cardinality(W) + 1
    BY <1>2, <2>7, FS_AddElement
  <2>9. Cardinality(T) <= Cardinality(W) + 1 /\ Cardinality(T) \in Nat
    BY <2>7, <2>8, FS_Subset, FS_CardinalityType
  <2>10. Cardinality(T) <= Rpm(k)
    BY <1>0, <1>3, <2>4, <2>9
  <2> QED
    BY <2>10 DEF T, KeyOf
<1> QED
  BY <1>5, <1>6

\* In no window of the limit's length does a key start more platform-funded
\* dispatches than its limit, whatever finished or failed meanwhile.
THEOREM RatesKept == Spec => []RatesHeld
<1>1. Init => LedgerTyped /\ RatesHeld
  <2> SUFFICES ASSUME Init PROVE RatesHeld
    BY LedgerInit
  <2>1. ASSUME NEW k \in Keys, NEW t \in 0..MaxTime, Rpm(k) # Null
        PROVE  Cardinality({a \in HostAttempts :
                              /\ KeyOf(a) = k
                              /\ attempts[a].started \in (t - WindowTicks)..t}) <= Rpm(k)
    <3> DEFINE S == {a \in HostAttempts :
                       /\ KeyOf(a) = k
                       /\ attempts[a].started \in (t - WindowTicks)..t}
    <3>1. S = {}
      BY NoHostInit
    <3>2. Rpm(k) \in Nat
      BY <2>1, LimitsAssumption DEF Rpm
    <3> HIDE DEF S
    <3>3. Cardinality(S) <= Rpm(k)
      BY <3>1, <3>2, FS_EmptySet
    <3> QED
      BY <3>3 DEF S
  <2> QED
    BY <2>1 DEF RatesHeld
<1>2. LedgerTyped /\ RatesHeld /\ [Next]_vars => LedgerTyped' /\ RatesHeld'
  BY LedgerStep, RatesStep
<1> QED
  BY <1>1, <1>2, PTL DEF Spec

-----------------------------------------------------------------------------
(* The review counter.                                                     *)

\* A row gateway_settle_billing counts for review.
ForReview(row) ==
    /\ ~ row.funded
    /\ row.state \in {"completed", "incomplete", "cancelled"}
    /\ row.output > 0
    /\ row.estimated = Null

\* The settlement counts its own row for review exactly when the row is one of a
\* platform attempt that delivered output at an unknown cost: such a row settles
\* at zero, discount or not.
LEMMA SettlementCounts ==
  ASSUME LedgerTyped, Settle
  PROVE  \E b \in Attempts, row \in AttemptRow :
            /\ Dispatched(b) /\ attempts' = [attempts EXCEPT ![b] = row]
            /\ org'.unknownCost = org.unknownCost + IF IsHost(row) /\ ForReview(row) THEN 1 ELSE 0
<1>1. PICK b \in Attempts, state \in Outcomes, output \in Outputs, finalize \in Finalizes :
         \E cost \in (0..attempts[b].worst) \cup {Null} :
            SettleAttempt(b, state, output, cost, finalize)
  BY DEF Settle
<1>2. PICK cost \in (0..attempts[b].worst) \cup {Null} :
         SettleAttempt(b, state, output, cost, finalize)
  BY <1>1
<1>3. /\ now \in Nat /\ attempts[b] \in AttemptRow /\ attempts[b].worst \in Nat
      /\ attempts[b].percent \in 0..100 /\ org \in OrgRow /\ org.unknownCost \in Nat
      /\ state \in SettleStates /\ output \in Nat
  <2>1. now \in Nat /\ state \in SettleStates /\ output \in Nat
    BY InputsAssumption DEF LedgerTyped, TypeOK
  <2>2. attempts[b] \in AttemptRow /\ org \in OrgRow
    BY DEF LedgerTyped, TypeOK
  <2> QED
    BY <2>1, <2>2 DEF AttemptRow, OrgRow
<1>4. cost \in NatOrNull
  BY <1>3 DEF NatOrNull
<1> DEFINE list == ListSettlement(attempts[b], state, output, cost)
           row == SettledRow(attempts[b], state, output, cost)
<1>5. row \in AttemptRow /\ row.state = state
  BY <1>3, <1>4, SettledRowType
<1>6. /\ row.route = attempts[b].route /\ row.funded = attempts[b].funded
      /\ row.output = output /\ row.estimated = cost
      /\ ~ row.funded => row.settled = Discounted(list, attempts[b].percent)
  BY <1>3 DEF SettledRow, AttemptRow
<1>7. Lane[row.route] = "host_managed" /\ cost = Null => list = 0
  BY <1>6 DEF ListSettlement
<1>8. /\ Dispatched(b) /\ attempts' = [attempts EXCEPT ![b] = row]
      /\ org' = IF Lane[row.route] = "host_managed" /\ ~ row.funded
                THEN SettleBilling(row) ELSE org
  BY <1>2 DEF SettleAttempt
<1>9. Discounted(0, attempts[b].percent) = 0
  BY <1>3 DEF Discounted
<1> HIDE DEF row, list
<1>10. row.state # "none"
  BY <1>3, <1>5 DEF SettleStates
<1>11. CASE IsHost(row) /\ ForReview(row)
  <2>1. row.settled = 0 /\ org' = SettleBilling(row)
    BY <1>6, <1>7, <1>8, <1>9, <1>11 DEF IsHost, ForReview
  <2>2. org' = [org EXCEPT !.unknownCost = @ + 1]
    BY <1>11, <2>1 DEF SettleBilling, ForReview
  <2>3. org'.unknownCost = org.unknownCost + 1
    BY <1>3, <2>2 DEF OrgRow
  <2> QED
    BY <1>5, <1>8, <1>11, <2>3
<1>12. CASE ~ (IsHost(row) /\ ForReview(row))
  <2>1. org' = org \/ org' = [org EXCEPT !.billable = @ + row.settled]
    BY <1>8, <1>10, <1>12 DEF SettleBilling, IsHost, ForReview
  <2>2. org'.unknownCost = org.unknownCost
    BY <1>3, <2>1 DEF OrgRow
  <2>3. org'.unknownCost =
          org.unknownCost + IF IsHost(row) /\ ForReview(row) THEN 1 ELSE 0
    BY <1>3, <1>12, <2>2
  <2> QED
    BY <1>5, <1>8, <2>3
<1> QED
  BY <1>11, <1>12

\* The counter and the rows it counts move together.
LEMMA ReviewStep ==
  ASSUME LedgerTyped, UnknownCostCounted, [Next]_vars PROVE UnknownCostCounted'
<1> DEFINE U == {a \in Attempts : IsHost(attempts[a]) /\ ForReview(attempts[a])}
           Un == {a \in Attempts : IsHost(attempts'[a]) /\ ForReview(attempts'[a])}
<1>0. attempts \in [Attempts -> AttemptRow] /\ org.unknownCost \in Nat
  BY DEF LedgerTyped, TypeOK, OrgRow
<1>1. org.unknownCost = Cardinality(U)
  <2>1. U = {a \in HostAttempts :
                     /\ ~ attempts[a].funded
                     /\ attempts[a].state \in {"completed", "incomplete", "cancelled"}
                     /\ attempts[a].output > 0
                     /\ attempts[a].estimated = Null}
    BY DEF HostAttempts, IsHost, ForReview
  <2> HIDE DEF U
  <2> QED
    BY <2>1 DEF UnknownCostCounted
<1>2. Un = {a \in HostAttempts' :
                     /\ ~ attempts'[a].funded
                     /\ attempts'[a].state \in {"completed", "incomplete", "cancelled"}
                     /\ attempts'[a].output > 0
                     /\ attempts'[a].estimated = Null}
  BY DEF HostAttempts, IsHost, ForReview
<1>3. org'.unknownCost = Cardinality(Un)
  <2>1. CASE ~ Settle /\ Un = U
    BY <1>1, <2>1, OrgFlags
  <2>2. CASE Settle
    <3>1. PICK b \in Attempts, row \in AttemptRow :
            /\ Dispatched(b) /\ attempts' = [attempts EXCEPT ![b] = row]
            /\ org'.unknownCost = org.unknownCost + IF IsHost(row) /\ ForReview(row) THEN 1 ELSE 0
      BY <2>2, SettlementCounts
    <3>2. b \notin U
      BY <3>1 DEF ForReview, Dispatched
    <3>3. CASE IsHost(row) /\ ForReview(row)
      <4>1. Un = U \cup {b}
        BY <1>0, <3>1, <3>3
      <4>2. IsFiniteSet(U)
        BY AttemptsFinite
      <4> HIDE DEF U, Un
      <4>3. Cardinality(U \cup {b}) = Cardinality(U) + 1
        BY <3>2, <4>2, FS_AddElement
      <4> QED
        BY <1>1, <3>1, <3>3, <4>1, <4>3
    <3>4. CASE ~ (IsHost(row) /\ ForReview(row))
      <4>1. Un = U
        BY <1>0, <3>1, <3>2, <3>4
      <4> HIDE DEF U, Un
      <4> QED
        BY <1>0, <1>1, <3>1, <3>4, <4>1
    <3> QED
      BY <3>3, <3>4
  <2>3. CASE Quiet
    BY <2>1, <2>2, <2>3 DEF Quiet
  <2>4. CASE Dispatching
    <3>1. PICK b \in Attempts, row \in AttemptRow :
            /\ attempts[b].state = "none" /\ attempts' = [attempts EXCEPT ![b] = row]
            /\ row.state = "dispatched"
      BY <2>4, DispatchRow
    <3>2. Un = U
      BY <1>0, <3>1 DEF ForReview
    <3> QED
      BY <2>1, <2>2, <3>2
  <2>5. CASE Reconcile
    <3>1. PICK first \in [{a[1] : a \in Crashed} -> Attempts] : ReconcileCrashed(first)
      BY <2>5 DEF Reconcile
    <3>2. ASSUME NEW a \in Attempts
          PROVE  (IsHost(attempts'[a]) /\ ForReview(attempts'[a]))
                   <=> (IsHost(attempts[a]) /\ ForReview(attempts[a]))
      <4>1. CASE a \in Crashed
        <5>1. attempts'[a] = CrashedRow(attempts[a]) /\ attempts[a].state = "dispatched"
          BY <3>1, <4>1 DEF ReconcileCrashed, Crashed, Dispatched
        <5>2. CrashedRow(attempts[a]).state = "unknown_after_crash"
          BY <1>0, InputsAssumption, CrashedRowType DEF LedgerTyped, TypeOK
        <5> QED
          BY <5>1, <5>2 DEF ForReview
      <4>2. CASE a \notin Crashed
        BY <3>1, <4>2 DEF ReconcileCrashed
      <4> QED
        BY <4>1, <4>2
    <3>3. Un = U
      BY <3>2
    <3> QED
      BY <2>1, <2>2, <3>3
  <2> QED
    BY <2>2, <2>3, <2>4, <2>5, MoneySteps
<1> QED
  BY <1>2, <1>3 DEF UnknownCostCounted

\* The review counter counts each credit-funded attempt that delivered output at
\* an unknown cost exactly once, and nothing else.
THEOREM ReviewsCounted == Spec => []UnknownCostCounted
<1>1. Init => LedgerTyped /\ UnknownCostCounted
  <2> SUFFICES ASSUME Init PROVE UnknownCostCounted
    BY LedgerInit
  <2>1. HostAttempts = {} /\ org.unknownCost = 0
    BY NoHostInit DEF Init
  <2> QED
    BY <2>1, FS_EmptySet DEF UnknownCostCounted
<1>2. LedgerTyped /\ UnknownCostCounted /\ [Next]_vars => LedgerTyped' /\ UnknownCostCounted'
  BY LedgerStep, ReviewStep
<1> QED
  BY <1>1, <1>2, PTL DEF Spec

-----------------------------------------------------------------------------
(* Promotion caps.                                                         *)

\* A row attributed to a promotion is a platform row that the promotion pays for
\* or discounts: the caps sum over exactly those.
Attribution(row) == row.promo # 0 => IsHost(row) /\ (~ row.funded => row.percent > 0)

RowsAttributed == \A a \in Attempts : Attribution(attempts[a])

\* A dispatch is the only step that touches a row before its dispatch.
LEMMA FreshRows ==
  ASSUME LedgerTyped, [Next]_vars, NEW a \in Attempts, attempts[a].state = "none",
         attempts'[a] # attempts[a]
  PROVE  \E alias, route, max :
            /\ route \in Routes /\ max \in WorstCases
            /\ \/ attempts'[a] = HostRow(alias, route, max) /\ max # Null
                  /\ Lane[route] = "host_managed"
               \/ attempts'[a] = CustomerRow(route, max)
<1>0. attempts \in [Attempts -> AttemptRow]
  BY DEF LedgerTyped, TypeOK
<1>1. CASE Quiet
  BY <1>1 DEF Quiet
<1>2. CASE Dispatching
  <2>1. PICK r \in Requests, n \in Ordinals, k \in Keys \cup {Null},
             alias \in Aliases \cup {Null}, route \in Routes, max \in WorstCases :
               Dispatch(r, n, k, alias, route, max)
    BY <1>2 DEF Dispatching
  <2>2. \/ /\ attempts' = [attempts EXCEPT ![<<r, n>>] = HostRow(alias, route, max)]
           /\ max # Null /\ Lane[route] = "host_managed"
        \/ attempts' = [attempts EXCEPT ![<<r, n>>] = CustomerRow(route, max)]
    BY <2>1 DEF Dispatch, HostAdmits, HostGuards
  <2>3. a = <<r, n>>
    BY <1>0, <2>2
  <2>4. \/ attempts'[a] = HostRow(alias, route, max) /\ max # Null
           /\ Lane[route] = "host_managed"
        \/ attempts'[a] = CustomerRow(route, max)
    BY <1>0, <2>2, <2>3
  <2> QED
    BY <2>4
<1>3. CASE Settle
  <2>1. PICK b \in Attempts, row \in AttemptRow :
            Dispatched(b) /\ attempts' = [attempts EXCEPT ![b] = row]
    BY SMTT(30), <1>3, SettlementRow
  <2> QED
    BY <1>0, <2>1 DEF Dispatched
<1>4. CASE Reconcile
  BY <1>4 DEF Reconcile, ReconcileCrashed, Crashed, Dispatched
<1> QED
  BY <1>1, <1>2, <1>3, <1>4, MoneySteps

\* The attribution is decided at the dispatch and stays.
LEMMA AttributionStep ==
  ASSUME LedgerTyped, RowsAttributed, [Next]_vars PROVE RowsAttributed'
<1> SUFFICES ASSUME NEW a \in Attempts PROVE Attribution(attempts'[a])
  BY DEF RowsAttributed
<1>0. now \in Nat /\ Attribution(attempts[a])
  BY InputsAssumption DEF LedgerTyped, TypeOK, RowsAttributed
<1>1. CASE attempts[a].state # "none"
  BY <1>0, <1>1, ScopeStep DEF SameScope, Attribution, IsHost
<1>2. CASE attempts'[a] = attempts[a]
  BY <1>0, <1>2
<1>3. CASE attempts[a].state = "none" /\ attempts'[a] # attempts[a]
  <2>1. PICK alias, route, max :
            /\ route \in Routes /\ max \in WorstCases
            /\ \/ attempts'[a] = HostRow(alias, route, max) /\ max # Null
                  /\ Lane[route] = "host_managed"
               \/ attempts'[a] = CustomerRow(route, max)
    BY <1>3, FreshRows
  <2>2. max \in NatOrNull
    BY <2>1, InputsAssumption
  <2>3. CASE attempts'[a] = CustomerRow(route, max)
    <3>1. CustomerRow(route, max).promo = 0
      BY NoAttemptType DEF CustomerRow, NoAttempt
    <3> QED
      BY <2>3, <3>1 DEF Attribution
  <2>4. CASE /\ attempts'[a] = HostRow(alias, route, max) /\ max # Null
             /\ Lane[route] = "host_managed"
    <3>1. max \in Nat
      BY <2>2, <2>4 DEF NatOrNull
    <3> DEFINE row == HostRow(alias, route, max)
    <3>2. /\ row.state = "dispatched" /\ row.route = route
          /\ row.funded = Funded(alias, route, max)
          /\ row.percent = IF Funded(alias, route, max) THEN 0
                           ELSE PercentOff(alias, route, max)
          /\ row.promo = IF Funded(alias, route, max) \/ PercentOff(alias, route, max) > 0
                         THEN WinningPromo(alias, route, max) ELSE 0
      BY <1>0, <2>1, <3>1, HostRowType
    <3> HIDE DEF row
    <3>3. Attribution(row)
      BY <2>4, <3>2 DEF Attribution, IsHost
    <3> QED
      BY <2>4, <3>3 DEF row
  <2> QED
    BY <2>1, <2>3, <2>4
<1> QED
  BY <1>1, <1>2, <1>3

\* A free row holds nothing in credits, reserved or settled.
LEMMA FreeRow ==
  ASSUME NEW row \in AttemptRow, WithinPrice(row), row.funded
  PROVE  row.reserved = 0 /\ row.settled = 0
<1>1. row.settled \in Nat
  BY DEF AttemptRow
<1> QED
  BY <1>1 DEF WithinPrice, Priced

\* P1030's accounting, at one promotion and one month: a free attempt was admitted
\* within the cap with every reservation counted, a discounted one within the
\* charged-spend ceiling.
LEMMA PromoCapsStep ==
  ASSUME LedgerTyped, RowsPriced, RowsAttributed, PromoCapsHeld, [Next]_vars
  PROVE  PromoCapsHeld'
<1> SUFFICES ASSUME NEW i \in 1..Len(Promotions), NEW m \in 0..Month(MaxTime)
             PROVE  LET free == {a \in Attributed(i, m) : attempts[a].funded}
                        discounted == Attributed(i, m) \ free
                    IN (/\ Total(PromoChargedOrReserved, free) <= Promotions[i].cap
                        /\ Promotions[i].discountCap > 0 =>
                              Total(ChargedOrReserved, discounted) <= Promotions[i].discountCap
                        /\ Total(ChargedOrReserved, free) = 0)'
  BY DEF PromoCapsHeld
<1>0. /\ Promotions[i].cap \in Nat /\ Promotions[i].discountCap \in Nat
      /\ Promotions[i].percent \in 0..100 /\ i # 0
      /\ LedgerTyped' /\ RowsPriced' /\ RowsAttributed'
  BY PromotionsAssumption, LedgerStep, PricedStep, AttributionStep
<1> DEFINE S == {a \in Attributed(i, m) : attempts[a].funded}
           D == Attributed(i, m) \ S
           inPeriod(t) == Promotions[i].recurring => Month(t) = m
           T == {a \in {x \in Attempts : /\ attempts'[x].promo = i
                                         /\ inPeriod(attempts'[x].started)} :
                   attempts'[a].funded}
           E == {x \in Attempts : /\ attempts'[x].promo = i
                                  /\ inPeriod(attempts'[x].started)} \ T
<1>1. /\ S \in SUBSET HostAttempts /\ D \in SUBSET HostAttempts
      /\ T \in SUBSET (HostAttempts') /\ E \in SUBSET (HostAttempts')
  BY <1>0 DEF RowsAttributed, Attribution, Attributed, HostAttempts, IsHost
<1>2. T \cap HostAttempts \subseteq S /\ E \cap HostAttempts \subseteq D
  BY ScopeStep DEF SameScope, Attributed, HostAttempts
<1>3. /\ Total(PromoChargedOrReserved, S) <= Promotions[i].cap
      /\ Promotions[i].discountCap > 0 =>
            Total(ChargedOrReserved, D) <= Promotions[i].discountCap
  BY DEF PromoCapsHeld
<1>4. \A a \in HostAttempts :
         /\ ChargedOrReserved[a] \in Nat /\ ChargedOrReserved'[a] \in Nat
         /\ ChargedOrReserved'[a] <= ChargedOrReserved[a]
         /\ PromoChargedOrReserved[a] \in Nat /\ PromoChargedOrReserved'[a] \in Nat
         /\ PromoChargedOrReserved'[a] <= PromoChargedOrReserved[a]
  BY ChargesEase
<1>5. \A a \in HostAttempts' : ChargedOrReserved'[a] \in Nat /\ PromoChargedOrReserved'[a] \in Nat
  BY AmountsType
<1>6. ASSUME NEW b \in T \cup E, b \in Attempts, NEW k, NEW alias, NEW route \in Routes,
             NEW worst \in Nat, Admission(b, k, alias, route, worst)
      PROVE  /\ WinningPromo(alias, route, worst) = i
             /\ attempts'[b].funded = Funded(alias, route, worst)
             /\ ~ Funded(alias, route, worst) => PercentOff(alias, route, worst) > 0
             /\ Promotions[i].recurring => Month(now) = m
             /\ PromoChargedOrReserved'[b] = IF Funded(alias, route, worst) THEN worst ELSE 0
             /\ ~ Funded(alias, route, worst) =>
                   ChargedOrReserved'[b] = ChargeWorst(alias, route, worst)
  <2>1. now \in Nat /\ attempts'[b] = HostRow(alias, route, worst)
    BY <1>6, InputsAssumption DEF LedgerTyped, TypeOK, Admission
  <2>2. attempts'[b].promo =
           IF Funded(alias, route, worst) \/ PercentOff(alias, route, worst) > 0
           THEN WinningPromo(alias, route, worst) ELSE 0
    BY <2>1, HostRowType
  <2>3. attempts'[b].promo = i /\ inPeriod(attempts'[b].started)
    OBVIOUS
  <2>4. /\ attempts'[b].started = now
        /\ attempts'[b].funded = Funded(alias, route, worst)
        /\ PromoChargedOrReserved'[b] = IF Funded(alias, route, worst) THEN worst ELSE 0
        /\ ~ Funded(alias, route, worst) =>
              ChargedOrReserved'[b] = ChargeWorst(alias, route, worst)
    BY <1>6, AdmittedCharge
  <2> QED
    BY <1>0, <2>2, <2>3, <2>4
<1>7. Total(PromoChargedOrReserved', T) <= Promotions[i].cap
  <2>1. /\ Total(PromoChargedOrReserved, S) \in Nat
        /\ Total(PromoChargedOrReserved', T) \in Nat
        /\ \/ Total(PromoChargedOrReserved', T) <= Total(PromoChargedOrReserved, S)
           \/ \E b \in T, k \in Keys \cup {Null}, alias \in Aliases \cup {Null},
                 route \in Routes, worst \in Nat :
                 /\ b \in Attempts /\ Admission(b, k, alias, route, worst)
                 /\ Total(PromoChargedOrReserved', T)
                      <= Total(PromoChargedOrReserved, S) + PromoChargedOrReserved'[b]
    <3> HIDE DEF S, T
    <3> QED
      BY <1>1, <1>2, <1>4, <1>5, GrowthStep
  <2>2. CASE Total(PromoChargedOrReserved', T) <= Total(PromoChargedOrReserved, S)
    <3> HIDE DEF S, T
    <3> QED
      BY <1>0, <1>3, <2>1, <2>2
  <2>3. ASSUME NEW b \in T, b \in Attempts, NEW k, NEW alias, NEW route \in Routes,
               NEW worst \in Nat, Admission(b, k, alias, route, worst),
               Total(PromoChargedOrReserved', T)
                 <= Total(PromoChargedOrReserved, S) + PromoChargedOrReserved'[b]
        PROVE  Total(PromoChargedOrReserved', T) <= Promotions[i].cap
    <3>1. attempts'[b].funded
      OBVIOUS
    <3>2. /\ WinningPromo(alias, route, worst) = i /\ Funded(alias, route, worst)
          /\ Promotions[i].recurring => Month(now) = m
          /\ PromoChargedOrReserved'[b] = worst
      BY <1>6, <2>3, <3>1
    <3>3. FreeSpent(i) + worst <= Promotions[i].cap
      BY <3>2 DEF Funded, WithinFree
    <3>4. FreeSpent(i) = Total(PromoChargedOrReserved, S)
      <4>1. S = {a \in Attempts : Counts(Promotions[i], i, a) /\ attempts[a].funded}
        BY <3>2 DEF Attributed, Counts
      <4> HIDE DEF S
      <4> QED
        BY <4>1 DEF FreeSpent
    <3> HIDE DEF S, T
    <3> QED
      BY <1>0, <2>1, <2>3, <3>2, <3>3, <3>4
  <2> QED
    BY <2>1, <2>2, <2>3
<1>8. ASSUME Promotions[i].discountCap > 0
      PROVE  Total(ChargedOrReserved', E) <= Promotions[i].discountCap
  <2>1. /\ Total(ChargedOrReserved, D) \in Nat
        /\ Total(ChargedOrReserved', E) \in Nat
        /\ \/ Total(ChargedOrReserved', E) <= Total(ChargedOrReserved, D)
           \/ \E b \in E, k \in Keys \cup {Null}, alias \in Aliases \cup {Null},
                 route \in Routes, worst \in Nat :
                 /\ b \in Attempts /\ Admission(b, k, alias, route, worst)
                 /\ Total(ChargedOrReserved', E)
                      <= Total(ChargedOrReserved, D) + ChargedOrReserved'[b]
    <3> HIDE DEF D, E
    <3> QED
      BY <1>1, <1>2, <1>4, <1>5, GrowthStep
  <2>2. CASE Total(ChargedOrReserved', E) <= Total(ChargedOrReserved, D)
    <3> HIDE DEF D, E
    <3> QED
      BY <1>0, <1>3, <1>8, <2>1, <2>2
  <2>3. ASSUME NEW b \in E, b \in Attempts, NEW k, NEW alias, NEW route \in Routes,
               NEW worst \in Nat, Admission(b, k, alias, route, worst),
               Total(ChargedOrReserved', E)
                 <= Total(ChargedOrReserved, D) + ChargedOrReserved'[b]
        PROVE  Total(ChargedOrReserved', E) <= Promotions[i].discountCap
    <3>1. ~ attempts'[b].funded
      OBVIOUS
    <3>2. /\ WinningPromo(alias, route, worst) = i /\ ~ Funded(alias, route, worst)
          /\ PercentOff(alias, route, worst) > 0
          /\ Promotions[i].recurring => Month(now) = m
          /\ ChargedOrReserved'[b] = ChargeWorst(alias, route, worst)
      BY <1>6, <2>3, <3>1
    <3>3. /\ DiscountActive(i, worst)
          /\ PercentOff(alias, route, worst) = Promotions[i].percent
      BY <1>0, <3>2 DEF PercentOff
    <3>4. ChargedOrReserved'[b] = Discounted(worst, Promotions[i].percent)
      BY <3>2, <3>3 DEF ChargeWorst
    <3>5. DiscountedSpent(i) + Discounted(worst, Promotions[i].percent)
            <= Promotions[i].discountCap
      BY <1>0, <1>8, <3>3 DEF DiscountActive
    <3>6. DiscountedSpent(i) = Total(ChargedOrReserved, D)
      <4>1. D = {a \in Attempts : /\ Counts(Promotions[i], i, a)
                                  /\ ~ attempts[a].funded
                                  /\ attempts[a].percent > 0}
        BY <1>0, <3>2 DEF Attributed, Counts, RowsAttributed, Attribution
      <4> HIDE DEF D
      <4> QED
        BY <4>1 DEF DiscountedSpent
    <3>7. Discounted(worst, Promotions[i].percent) \in Nat
      BY <1>0, DiscountedType
    <3> HIDE DEF D, E
    <3> QED
      BY <1>0, <2>1, <2>3, <3>4, <3>5, <3>6, <3>7
  <2> QED
    BY <2>1, <2>2, <2>3
<1>9. Total(ChargedOrReserved', T) = 0
  <2>1. \A a \in T : ChargedOrReserved'[a] = 0
    <3> SUFFICES ASSUME NEW a \in T PROVE ChargedOrReserved'[a] = 0
      OBVIOUS
    <3>1. a \in Attempts /\ IsHost(attempts'[a]) /\ attempts'[a].funded
      BY <1>0 DEF RowsAttributed, Attribution
    <3>2. WithinPrice(attempts'[a]) /\ attempts'[a] \in AttemptRow
      BY <1>0, <3>1 DEF RowsPriced, LedgerTyped, TypeOK
    <3>3. attempts'[a].reserved = 0 /\ attempts'[a].settled = 0
      BY <3>1, <3>2, FreeRow
    <3> QED
      BY <3>1, <3>3 DEF ChargedOrReserved
  <2> HIDE DEF T
  <2> QED
    BY <2>1, TotalZero
<1> QED
  BY <1>7, <1>8, <1>9 DEF Attributed

\* A promotion gives away at most its free cap and discounts at most its
\* charged-spend ceiling in every period, and a free attempt never draws credits
\* (gateway_promo_state under the organizations row lock).
THEOREM PromoCapsKept == Spec => []PromoCapsHeld
<1>1. Init => LedgerTyped /\ RowsPriced /\ RowsAttributed /\ PromoCapsHeld
  <2> SUFFICES ASSUME Init PROVE RowsAttributed /\ PromoCapsHeld
    BY LedgerInit, PricedInit
  <2>1. \A a \in Attempts : attempts[a].promo = 0
    BY DEF Init, NoAttempt
  <2>2. \A i \in 1..Len(Promotions), m \in 0..Month(MaxTime) : Attributed(i, m) = {}
    BY <2>1, PromotionsAssumption DEF Attributed
  <2>3. \A f : Total(f, {}) = 0
    BY TotalEmpty
  <2>4. PromoCapsHeld
    <3> SUFFICES ASSUME NEW i \in 1..Len(Promotions), NEW m \in 0..Month(MaxTime)
                 PROVE  LET free == {a \in Attributed(i, m) : attempts[a].funded}
                            discounted == Attributed(i, m) \ free
                        IN /\ Total(PromoChargedOrReserved, free) <= Promotions[i].cap
                           /\ Promotions[i].discountCap > 0 =>
                                 Total(ChargedOrReserved, discounted)
                                   <= Promotions[i].discountCap
                           /\ Total(ChargedOrReserved, free) = 0
      BY DEF PromoCapsHeld
    <3> DEFINE free == {a \in Attributed(i, m) : attempts[a].funded}
               discounted == Attributed(i, m) \ free
    <3>1. free = {} /\ discounted = {}
      BY <2>2
    <3> HIDE DEF free, discounted
    <3>2. /\ Total(PromoChargedOrReserved, free) = 0
          /\ Total(ChargedOrReserved, free) = 0
          /\ Total(ChargedOrReserved, discounted) = 0
      BY <2>3, <3>1
    <3>3. Promotions[i].cap \in Nat /\ Promotions[i].discountCap \in Nat
      BY PromotionsAssumption
    <3> QED
      BY <3>2, <3>3 DEF free, discounted
  <2> QED
    BY <2>1, <2>4 DEF RowsAttributed, Attribution
<1>2. LedgerTyped /\ RowsPriced /\ RowsAttributed /\ PromoCapsHeld /\ [Next]_vars
        => LedgerTyped' /\ RowsPriced' /\ RowsAttributed' /\ PromoCapsHeld'
  BY LedgerStep, PricedStep, AttributionStep, PromoCapsStep
<1> QED
  BY <1>1, <1>2, PTL DEF Spec
=============================================================================
