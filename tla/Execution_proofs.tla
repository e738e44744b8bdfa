--------------------------- MODULE Execution_proofs ---------------------------
(***************************************************************************)
(* The money of Execution, for every fraction, deposit, price and size:    *)
(* its type correctness; that no run of trades takes a tracked balance     *)
(* below zero; what both orders can cost; and that a hedge sells, of the   *)
(* pairs, half a hundredth of a contract at most.  The first, the second   *)
(* and the third rest on SizeIsCovered: until the fills are deducted, the  *)
(* fraction of either tracked balance pays for both legs of the order.     *)
(***************************************************************************)
EXTENDS Execution, TLAPS

(* From the sizing until the deduction, the fraction of each platform's     *)
(* balance alone could pay for both legs.                                   *)
SizeIsCovered ==
    at \in {"orders", "deduct"} =>
        /\ request \in Requests /\ WorthIt(request)
        /\ \A p \in Platforms :
              fraction.den * (size * PairCost(request)) <= fraction.num * tracked[p]

(* A request is taken, and its orders placed, on a clean sheet, and nothing *)
(* is sold before the hedge.                                                *)
CleanSheet ==
    /\ at \in {"recv", "orders"} =>
          \A amount \in {reported, filled, resting} : amount = Nothing
    /\ at \in {"deduct", "hedge"} => resting = Nothing

(* What is sold leaves, of what the executor believes to have, every pair   *)
(* but for the rounding to hundredths.                                      *)
PairsKept ==
    \A leg \in LegNames :
        2 * (resting[leg] + Least(reported["anchor"], reported["match"]))
            <= 2 * reported[leg] + Hundredth

MoneyInv ==
    TypeOK /\ TrackedNonNegative /\ SizeIsCovered /\ CleanSheet /\ PairsKept

-------------------------------------------------------------------------------
(* A whole number of divisors is no more than what was divided.             *)
LEMMA DivisionRoundsDown ==
    ASSUME NEW n \in Nat, NEW d \in Nat, d > 0
    PROVE  /\ n \div d \in Nat
           /\ d * (n \div d) <= n
  BY SMT

(* A product grows with its factors.                                        *)
LEMMA ProductGrows ==
    ASSUME NEW x \in Nat, NEW y \in Nat, NEW c \in Nat, x <= y
    PROVE  /\ x * c \in Nat
           /\ x * c <= y * c
           /\ c * x <= c * y
  BY SMT

(* What holds of the multiples holds of the numbers.                        *)
LEMMA FactorCancels ==
    ASSUME NEW d \in Nat, d > 0, NEW x \in Nat, NEW y \in Nat, d * x <= d * y
    PROVE  x <= y
<1> SUFFICES ASSUME y + 1 <= x PROVE FALSE
  OBVIOUS
<1>1. d * (y + 1) <= d * x /\ d * (y + 1) = d * y + d /\ d * y \in Nat /\ d * x \in Nat
  BY ProductGrows
<1> QED  BY <1>1

(* Every amount is counted in whole grains, and there are some.             *)
LEMMA GrainIsPositive ==
    /\ Hundredth \in Nat /\ Hundredth > 0
    /\ Grain \in Nat /\ Grain > 0
    /\ Dollar \in Nat /\ Dollar > 0
    /\ Deposit * Dollar \in Nat
    /\ \A n \in Nat : n * Grain \in Nat
<1>1. Hundredth \in Nat /\ Hundredth > 0 /\ Deposit \in Nat
  BY ExecutionAssumption
<1>2. Grain \in Nat /\ Grain > 0
  BY <1>1 DEF Grain
<1>3. Dollar \in Nat /\ Dollar > 0
  BY <1>2 DEF Dollar
<1> QED  BY <1>1, <1>2, <1>3

(* TRADE_FRACTION is strictly between 0 and 1.                              *)
LEMMA FractionIsProper ==
    ASSUME TypeOK
    PROVE  /\ fraction.num \in Nat /\ fraction.den \in Nat
           /\ 0 < fraction.num /\ fraction.num < fraction.den
  BY ExecutionAssumption DEF TypeOK

(* What is within a proper fraction of some money is within the money.      *)
LEMMA ShareIsBelow ==
    ASSUME NEW n \in Nat, NEW d \in Nat, n < d, NEW cost \in Nat, NEW money \in Nat,
           d * cost <= n * money
    PROVE  cost <= money
<1>1. n * money <= d * money /\ n * money \in Nat /\ d * money \in Nat /\ d * cost \in Nat
  BY ProductGrows
<1>2. d * cost <= d * money
  BY <1>1
<1> QED  BY <1>2, FactorCancels

(* The smaller of two numbers is one of them and below both.                *)
LEMMA LeastIsBelow ==
    ASSUME NEW x \in Int, NEW y \in Int
    PROVE  /\ Least(x, y) \in {x, y}
           /\ Least(x, y) <= x /\ Least(x, y) <= y
  BY DEF Least

(* What a request holds, and what it costs.                                 *)
LEMMA RequestIsTyped ==
    ASSUME NEW r \in Requests \cup {NoRequest}
    PROVE  /\ r.liquidity \in Nat
           /\ \A leg \in LegNames : r.price[leg] \in Nat
           /\ r.price["anchor"] \in Nat /\ r.price["match"] \in Nat
           /\ TotalMills(r) \in Nat
           /\ PairCost(r) \in Nat
<1>1. /\ Liquidity \subseteq Nat
      /\ \A mills \in Prices : mills \in Nat
      /\ Grain \in Nat
  BY ExecutionAssumption, GrainIsPositive
<1>2. r.liquidity \in Nat /\ \A leg \in LegNames : r.price[leg] \in Nat
  <2>1. CASE r = NoRequest
    BY <2>1 DEF NoRequest
  <2>2. CASE r \in Requests
    <3>1. r.liquidity \in Liquidity /\ r.price \in [LegNames -> Prices]
      BY <2>2 DEF Requests
    <3> QED  BY <1>1, <3>1
  <2> QED  BY <2>1, <2>2
<1>3. r.price["anchor"] \in Nat /\ r.price["match"] \in Nat
  BY <1>2 DEF LegNames
<1>4. TotalMills(r) \in Nat
  BY <1>3 DEF TotalMills
<1>5. PairCost(r) \in Nat
  BY <1>1, <1>4 DEF PairCost
<1> QED  BY <1>2, <1>3, <1>4, <1>5

(* max_trade_dollars is within the fraction of both tracked balances.       *)
LEMMA BudgetIsCovered ==
    ASSUME TypeOK, TrackedNonNegative
    PROVE  /\ Budget \in Nat
           /\ \A p \in Platforms : fraction.den * Budget <= fraction.num * tracked[p]
<1> DEFINE low == Least(tracked["kalshi"], tracked["poly"])
           n == fraction.num
           d == fraction.den
           dollars == (n * low) \div (d * Dollar)
<1>1. tracked["kalshi"] \in Nat /\ tracked["poly"] \in Nat
  BY DEF TypeOK, TrackedNonNegative, Platforms
<1>2. low \in Nat /\ low <= tracked["kalshi"] /\ low <= tracked["poly"]
  BY <1>1, LeastIsBelow
<1>3. Dollar \in Nat /\ Dollar > 0 /\ n \in Nat /\ d \in Nat /\ d > 0
  BY GrainIsPositive, FractionIsProper
<1>4. Budget = Dollar * dollars
  BY DEF Budget, Share
<1> HIDE DEF n, d, low
<1>5. d * Dollar \in Nat /\ d * Dollar > 0 /\ n * low \in Nat
  BY <1>2, <1>3, ProductGrows, 1 * Dollar = Dollar
<1>6. dollars \in Nat /\ (d * Dollar) * dollars <= n * low
  BY <1>5, DivisionRoundsDown
<1> HIDE DEF dollars
<1>7. Dollar * dollars \in Nat
  BY <1>3, <1>6, ProductGrows
<1>8. d * (Dollar * dollars) \in Nat /\ d * (Dollar * dollars) <= n * low
  BY <1>3, <1>6, <1>7
<1>9. ASSUME NEW p \in Platforms PROVE d * Budget <= n * tracked[p]
  <2>1. tracked[p] \in Nat /\ low <= tracked[p]
    BY <1>1, <1>2 DEF Platforms
  <2>2. n * low <= n * tracked[p] /\ n * tracked[p] \in Nat
    BY <1>2, <1>3, <2>1, ProductGrows
  <2> QED  BY <1>4, <1>5, <1>8, <2>2
<1> QED  BY <1>4, <1>7, <1>9 DEF n, d

(* What compute_size returns for a request worth an order: no more than the *)
(* books offer, and a cost within the fraction of both tracked balances.    *)
LEMMA SizeIsBought ==
    ASSUME TypeOK, TrackedNonNegative, NEW r \in Requests, WorthIt(r)
    PROVE  /\ ComputeSize(r) \in 0 .. r.liquidity
           /\ \A p \in Platforms :
                 fraction.den * (ComputeSize(r) * PairCost(r)) <= fraction.num * tracked[p]
<1> DEFINE pairs == Budget \div PairCost(r)
<1>1. TotalMills(r) \in Nat /\ TotalMills(r) > 0 /\ r.liquidity \in Nat
  BY RequestIsTyped DEF WorthIt
<1>2. PairCost(r) \in Nat /\ PairCost(r) > 0
  BY <1>1, GrainIsPositive, ProductGrows, 1 * TotalMills(r) = TotalMills(r)
     DEF PairCost
<1>3. Budget \in Nat /\ \A p \in Platforms : fraction.den * Budget <= fraction.num * tracked[p]
  BY BudgetIsCovered
<1>4. pairs \in Nat /\ PairCost(r) * pairs <= Budget
  BY <1>2, <1>3, DivisionRoundsDown
<1> HIDE DEF pairs
<1>5. ComputeSize(r) = Least(pairs, r.liquidity)
  BY DEF ComputeSize, pairs
<1>6. ComputeSize(r) \in Nat /\ ComputeSize(r) <= pairs /\ ComputeSize(r) <= r.liquidity
  BY <1>1, <1>4, <1>5, LeastIsBelow
<1>7. ComputeSize(r) * PairCost(r) \in Nat /\ ComputeSize(r) * PairCost(r) <= pairs * PairCost(r)
  BY <1>2, <1>4, <1>6, ProductGrows
<1>8. pairs * PairCost(r) = PairCost(r) * pairs /\ PairCost(r) * pairs \in Nat
  BY <1>2, <1>4
<1>9. ComputeSize(r) * PairCost(r) <= Budget
  BY <1>3, <1>4, <1>7, <1>8
<1>10. fraction.den \in Nat /\ fraction.num \in Nat
  BY FractionIsProper
<1>11. fraction.den * (ComputeSize(r) * PairCost(r)) <= fraction.den * Budget
  BY <1>3, <1>7, <1>9, <1>10, ProductGrows
<1>12. ASSUME NEW p \in Platforms
       PROVE  fraction.den * (ComputeSize(r) * PairCost(r)) <= fraction.num * tracked[p]
  <2>1. fraction.num * tracked[p] \in Int /\ fraction.den * Budget <= fraction.num * tracked[p]
    BY <1>3, <1>10 DEF TypeOK
  <2>2. fraction.den * Budget \in Int /\ fraction.den * (ComputeSize(r) * PairCost(r)) \in Int
    BY <1>3, <1>7, <1>10
  <2> QED  BY <2>1, <2>2, <1>11
<1> QED  BY <1>1, <1>6, <1>12

(* What two legs cost on a platform, when as many grains of both are bought *)
(* as fit in the size, is within what the size was sized for.               *)
LEMMA BillIsCovered ==
    ASSUME TypeOK, WorthIt(request), request \in Requests,
           NEW g \in 0 .. size * Grain, NEW p \in Platforms
    PROVE  /\ Bill([leg \in LegNames |-> g], request.price, p) \in Nat
           /\ Bill([leg \in LegNames |-> g], request.price, p) <= size * PairCost(request)
<1> DEFINE pa == request.price["anchor"]
           pm == request.price["match"]
           bill == Bill([leg \in LegNames |-> g], request.price, p)
<1>1. pa \in Nat /\ pm \in Nat /\ TotalMills(request) = pa + pm
  BY RequestIsTyped DEF TotalMills
<1>2. size \in Nat /\ Grain \in Nat /\ size * Grain \in Nat /\ g \in Nat /\ g <= size * Grain
  BY GrainIsPositive, RequestIsTyped DEF TypeOK
<1>3. bill = (IF request.platform["anchor"] = p THEN pa * g ELSE 0)
             + (IF request.platform["match"] = p THEN pm * g ELSE 0)
  BY DEF Bill, LegNames
<1> HIDE DEF pa, pm, bill
<1>4. pa * g \in Nat /\ pm * g \in Nat /\ (pa + pm) * g = pa * g + pm * g
  BY <1>1, <1>2
<1>5. bill \in Nat /\ bill <= (pa + pm) * g
  BY <1>3, <1>4
<1>6. g * (pa + pm) <= (size * Grain) * (pa + pm)
  BY <1>1, <1>2, ProductGrows
<1>7. (size * Grain) * (pa + pm) = size * (Grain * (pa + pm))
  BY <1>1, <1>2
<1>8. PairCost(request) = Grain * (pa + pm)
  BY <1>1 DEF PairCost
<1>9. (pa + pm) * g = g * (pa + pm) /\ g * (pa + pm) \in Nat
      /\ (size * Grain) * (pa + pm) \in Nat
  BY <1>1, <1>2
<1>10. bill <= size * PairCost(request)
  BY <1>5, <1>6, <1>7, <1>8, <1>9
<1> QED  BY <1>5, <1>10 DEF bill

(* The orders take money from a platform and never bring any.               *)
LEMMA PaidIsNatural ==
    ASSUME TypeOK, NEW f \in [LegNames -> Nat], NEW p \in Platforms
    PROVE  Paid(f, p) \in Nat
<1>1. \A leg \in LegNames : request.price[leg] \in Nat
  BY GrainIsPositive, RequestIsTyped DEF TypeOK
<1>2. \A leg \in LegNames : Limit(leg) \in Nat
  BY <1>1 DEF Limit
<1>3. \A leg \in LegNames : Limit(leg) * f[leg] \in Nat
  BY <1>2
<1>4. Paid(f, p) = (IF request.platform["anchor"] = p THEN Limit("anchor") * f["anchor"] ELSE 0)
                   + (IF request.platform["match"] = p THEN Limit("match") * f["match"] ELSE 0)
  BY DEF Paid, Bill, LegNames
<1> QED  BY <1>3, <1>4 DEF LegNames

(* round_dp(2) is off by half a hundredth at most, and passes no amount of  *)
(* whole hundredths.                                                        *)
LEMMA RoundIsNear ==
    ASSUME NEW g \in Nat
    PROVE  /\ RoundToHundredths(g) \in Nat
           /\ 2 * RoundToHundredths(g) <= 2 * g + Hundredth
           /\ \A n \in Nat : g <= Hundredth * n => RoundToHundredths(g) <= Hundredth * n
<1> DEFINE q == g \div Hundredth
           rest == g % Hundredth
           up == 2 * rest > Hundredth \/ (2 * rest = Hundredth /\ q % 2 = 1)
<1>1. Hundredth \in Nat /\ Hundredth > 0
  BY GrainIsPositive
<1>2. /\ q \in Nat /\ rest \in Nat /\ rest < Hundredth
      /\ g = Hundredth * q + rest
  BY <1>1
<1>3. RoundToHundredths(g) = Hundredth * (IF up THEN q + 1 ELSE q)
  BY DEF RoundToHundredths
<1>4. up => 2 * rest >= Hundredth
  <2> HIDE DEF q, rest
  <2> QED  BY <1>1, <1>2
<1> HIDE DEF q, rest, up
<1>5. Hundredth * q \in Nat /\ Hundredth * (q + 1) = Hundredth * q + Hundredth
  BY <1>1, <1>2
<1>6. CASE up
  <2>1. RoundToHundredths(g) = Hundredth * q + Hundredth
    BY <1>3, <1>5, <1>6
  <2>2. ASSUME NEW n \in Nat, g <= Hundredth * n
        PROVE  RoundToHundredths(g) <= Hundredth * n
    <3>1. Hundredth * q < Hundredth * n
      BY <1>1, <1>2, <1>4, <1>5, <1>6, <2>2
    <3>2. q < n
      <4> SUFFICES ASSUME n <= q PROVE FALSE
        BY <1>2
      <4>1. Hundredth * n <= Hundredth * q /\ Hundredth * n \in Nat
        BY <1>1, <1>2, ProductGrows
      <4> QED  BY <4>1, <3>1, <1>5
    <3>3. Hundredth * (q + 1) <= Hundredth * n
      BY <1>1, <1>2, <3>2, ProductGrows
    <3> QED  BY <1>5, <2>1, <3>3
  <2> QED  BY <1>1, <1>2, <1>4, <1>5, <1>6, <2>1, <2>2
<1>7. CASE ~up
  <2>1. RoundToHundredths(g) = Hundredth * q
    BY <1>3, <1>7
  <2>2. ASSUME NEW n \in Nat, g <= Hundredth * n
        PROVE  RoundToHundredths(g) <= Hundredth * n
    BY <1>1, <1>2, <1>5, <2>1, <2>2
  <2> QED  BY <1>1, <1>2, <1>5, <2>1, <2>2
<1> QED  BY <1>6, <1>7

(* The hedge sells no more than was ordered, and of what the other leg      *)
(* filled as well half a hundredth at most.                                 *)
LEMMA HedgeIsWithinSize ==
    ASSUME TypeOK
    PROVE  /\ ExcessLeg \in LegNames /\ HedgeSize \in 0 .. size * Grain
           /\ 2 * (HedgeSize + Least(reported["anchor"], reported["match"]))
                  <= 2 * reported[ExcessLeg] + Hundredth
<1>1. ExcessLeg \in LegNames /\ Other(ExcessLeg) \in LegNames
  BY DEF ExcessLeg, Other, LegNames
<1>2. size \in Nat /\ Grain \in Nat /\ Grain > 0 /\ size * Grain \in Nat /\ Hundredth \in Nat
  BY GrainIsPositive, RequestIsTyped DEF TypeOK
<1>3. reported["anchor"] \in 0 .. size * Grain /\ reported["match"] \in 0 .. size * Grain
  BY DEF TypeOK, LegNames
<1>4. Excess \in Nat /\ Excess <= size * Grain
  BY <1>2, <1>3 DEF Excess, ExcessLeg, Other
<1>5. Grain * (Excess \div Grain) \in Nat /\ Grain * (Excess \div Grain) <= Excess
  <2>1. Excess \div Grain \in Nat /\ Grain * (Excess \div Grain) <= Excess
    BY <1>2, <1>4, DivisionRoundsDown
  <2> QED  BY <1>2, <2>1
<1>6. /\ RoundToHundredths(Excess) \in Nat
      /\ 2 * RoundToHundredths(Excess) <= 2 * Excess + Hundredth
      /\ RoundToHundredths(Excess) <= size * Grain
  <2>1. size * Grain = Hundredth * (100 * size) /\ 100 * size \in Nat
    BY <1>2 DEF Grain
  <2> QED  BY <1>4, <2>1, RoundIsNear
<1>7. /\ HedgeSize \in Nat /\ HedgeSize <= size * Grain
      /\ 2 * HedgeSize <= 2 * Excess + Hundredth
  <2>1. HedgeSize \in {Grain * (Excess \div Grain), RoundToHundredths(Excess)}
    BY DEF HedgeSize
  <2> QED  BY <1>2, <1>4, <1>5, <1>6, <2>1
<1>8. Excess + Least(reported["anchor"], reported["match"]) = reported[ExcessLeg]
  BY <1>3 DEF Excess, ExcessLeg, Other, Least
<1>9. Least(reported["anchor"], reported["match"]) \in Int
  BY <1>3 DEF Least
<1> QED  BY <1>1, <1>2, <1>4, <1>7, <1>8, <1>9

(* An order fills between nothing and the size.                             *)
LEMMA FillsAreWithinSize ==
    ASSUME NEW leg \in LegNames, NEW g \in Fills(leg), TypeOK
    PROVE  g \in 0 .. size * Grain
<1>1. g <= size * Grain
  BY DEF Fills
<1>2. PICK n \in 0 .. size, rest \in Parts \cup {0} : g = Grain * n + rest
  BY DEF Fills
<1>3. size \in Nat /\ Grain \in Nat /\ rest \in Nat
  <2>1. \A x \in Parts : x \in Nat
    BY ExecutionAssumption
  <2> QED  BY <2>1, GrainIsPositive, RequestIsTyped DEF TypeOK
<1>4. g \in Nat
  BY <1>2, <1>3
<1> QED  BY <1>1, <1>3, <1>4

-------------------------------------------------------------------------------
LEMMA MoneyStarts == Init => MoneyInv
<1> SUFFICES ASSUME Init PROVE MoneyInv  OBVIOUS
<1>1. Deposit * Dollar \in Nat
  BY GrainIsPositive
<1>2. TypeOK
  <2>1. size * Grain = 0 /\ 0 \in 0 .. size * Grain
    BY GrainIsPositive DEF Init
  <2>2. \A amount \in {reported, filled, resting} :
           amount \in [LegNames -> 0 .. size * Grain]
    BY <2>1 DEF Init, Nothing
  <2> QED  BY <1>1, <2>2, ExecutionAssumption DEF Init, TypeOK, NoRequest
<1>3. TrackedNonNegative /\ SizeIsCovered /\ CleanSheet
  BY DEF Init, TrackedNonNegative, SizeIsCovered, CleanSheet
<1>4. PairsKept
  BY GrainIsPositive DEF Init, PairsKept, Nothing, Least, LegNames
<1> QED  BY <1>2, <1>3, <1>4 DEF MoneyInv

LEMMA ReceiveKeepsMoney ==
    ASSUME MoneyInv, NEW r \in Requests, Receive(r)
    PROVE  MoneyInv'
<1> USE DEF MoneyInv
<1>1. \A amount \in {reported, filled, resting} : amount = Nothing
  BY DEF Receive, CleanSheet
<1>2. UNCHANGED <<fraction, reported, filled, resting, tracked, balance>>
  BY DEF Receive
<1>3. CASE WorthIt(r) /\ at' = "orders" /\ size' = ComputeSize(r)
  <2>1. /\ size' \in 0 .. r.liquidity
        /\ \A p \in Platforms :
              fraction.den * (size' * PairCost(r)) <= fraction.num * tracked[p]
    BY <1>3, SizeIsBought
  <2>2. request' = r /\ at = "recv" /\ trades' \in 0 .. MaxTrades
    BY ExecutionAssumption DEF Receive, TypeOK
  <2>3. SizeIsCovered'
    <3>1. request' \in Requests /\ WorthIt(request')
      BY <1>3, <2>2
    <3>2. \A p \in Platforms :
             fraction'.den * (size' * PairCost(request')) <= fraction'.num * tracked'[p]
      BY <1>2, <2>1, <2>2
    <3> QED  BY <3>1, <3>2 DEF SizeIsCovered
  <2>4. size' \in Nat /\ 0 \in 0 .. size' * Grain
    <3>1. size' \in Nat
      BY <2>1, RequestIsTyped
    <3>2. size' * Grain \in Nat
      BY <3>1, GrainIsPositive
    <3> QED  BY <3>1, <3>2
  <2>5. Nothing \in [LegNames -> 0 .. size' * Grain]
    BY <2>4 DEF Nothing
  <2>6. TypeOK'
    BY <1>1, <1>2, <1>3, <2>1, <2>2, <2>5 DEF TypeOK
  <2> QED  BY <1>1, <1>2, <1>3, <2>3, <2>6 DEF TrackedNonNegative, CleanSheet, PairsKept
<1>4. CASE at' = "refresh" /\ size' = 0
  <2>1. request' = r /\ trades' \in 0 .. MaxTrades /\ r.liquidity \in Nat
    BY RequestIsTyped, ExecutionAssumption DEF Receive, TypeOK
  <2>2. 0 \in 0 .. size' * Grain
    BY <1>4, GrainIsPositive
  <2>3. Nothing \in [LegNames -> 0 .. size' * Grain]
    BY <2>2 DEF Nothing
  <2>4. TypeOK'
    BY <1>1, <1>2, <1>4, <2>1, <2>3 DEF TypeOK
  <2> QED  BY <1>2, <1>4, <2>4 DEF TrackedNonNegative, SizeIsCovered, CleanSheet, PairsKept
<1> QED  BY <1>3, <1>4 DEF Receive

LEMMA OrdersKeepMoney ==
    ASSUME MoneyInv, NEW a \in Fills("anchor"), NEW m \in Fills("match"),
           NEW lost \in SUBSET LegNames,
           PlaceOrders([anchor |-> a, match |-> m], lost)
    PROVE  MoneyInv'
<1> USE DEF MoneyInv
<1> DEFINE f == [anchor |-> a, match |-> m]
<1>1. /\ at = "orders" /\ at' = "deduct" /\ filled' = f
      /\ reported' = [leg \in LegNames |-> IF leg \in lost THEN 0 ELSE f[leg]]
      /\ balance' = [p \in Platforms |-> balance[p] - Paid(f, p)]
      /\ \A p \in Platforms : Paid(f, p) <= balance[p]
      /\ UNCHANGED <<fraction, request, size, resting, tracked, trades>>
  BY DEF PlaceOrders
<1>2. size \in Nat /\ size * Grain \in Nat /\ 0 \in 0 .. size * Grain
  BY GrainIsPositive, RequestIsTyped DEF TypeOK
<1>3. f \in [LegNames -> 0 .. size * Grain]
  BY FillsAreWithinSize DEF LegNames
<1> HIDE DEF f
<1>4. reported' \in [LegNames -> 0 .. size * Grain]
  BY <1>1, <1>2, <1>3
<1>5. f \in [LegNames -> Nat]
  BY <1>2, <1>3
<1>6. balance' \in [Platforms -> 0 .. Deposit * Dollar]
  <2> SUFFICES ASSUME NEW p \in Platforms
               PROVE  balance[p] - Paid(f, p) \in 0 .. Deposit * Dollar
    BY <1>1
  <2>1. Paid(f, p) \in Nat
    BY <1>5, PaidIsNatural
  <2> QED  BY <2>1, <1>1, GrainIsPositive DEF TypeOK
<1>7. TypeOK'
  BY <1>1, <1>3, <1>4, <1>6 DEF TypeOK
<1>8. TrackedNonNegative' /\ CleanSheet'
  BY <1>1 DEF TrackedNonNegative, CleanSheet
<1>9. SizeIsCovered'
  BY <1>1 DEF SizeIsCovered, WorthIt, PairCost, TotalMills
<1>10. PairsKept'
  <2>1. resting' = Nothing
    BY <1>1 DEF CleanSheet
  <2>2. \A leg \in LegNames : reported'[leg] \in Int
    BY <1>2, <1>4
  <2> QED  BY <2>1, <2>2, GrainIsPositive DEF PairsKept, Nothing, Least, LegNames
<1> QED  BY <1>7, <1>8, <1>9, <1>10

LEMMA DeductKeepsMoney == ASSUME MoneyInv, Deduct PROVE MoneyInv'
<1> USE DEF MoneyInv
<1> DEFINE paired == Least(reported["anchor"], reported["match"])
           both == [leg \in LegNames |-> paired]
<1>1. /\ at = "deduct" /\ at' \in {"refresh", "hedge"}
      /\ tracked' = [p \in Platforms |-> tracked[p] - Bill(both, request.price, p)]
      /\ UNCHANGED <<fraction, request, size, reported, filled, resting, balance, trades>>
  BY DEF Deduct
<1>2. paired \in 0 .. size * Grain
  <2>1. reported["anchor"] \in 0 .. size * Grain /\ reported["match"] \in 0 .. size * Grain
    BY DEF TypeOK, LegNames
  <2> QED  BY <2>1, LeastIsBelow
<1> HIDE DEF paired
<1>3. request \in Requests /\ WorthIt(request)
      /\ \A p \in Platforms :
            fraction.den * (size * PairCost(request)) <= fraction.num * tracked[p]
  BY <1>1 DEF SizeIsCovered
<1>4. ASSUME NEW p \in Platforms
      PROVE  tracked[p] - Bill(both, request.price, p) \in Nat
  <2>1. /\ Bill(both, request.price, p) \in Nat
        /\ Bill(both, request.price, p) <= size * PairCost(request)
    BY <1>2, <1>3, BillIsCovered
  <2>2. size * PairCost(request) \in Nat
    <3>1. PairCost(request) \in Nat /\ request.liquidity \in Nat
      BY <1>3, RequestIsTyped
    <3>2. size \in Nat
      BY <3>1 DEF TypeOK
    <3> QED  BY <3>1, <3>2
  <2>3. tracked[p] \in Nat
    BY DEF TypeOK, TrackedNonNegative
  <2>4. size * PairCost(request) <= tracked[p]
    BY <1>3, <2>2, <2>3, FractionIsProper, ShareIsBelow
  <2> QED  BY <2>1, <2>2, <2>3, <2>4
<1>5. tracked' \in [Platforms -> Int] /\ TrackedNonNegative'
  BY <1>1, <1>4 DEF TrackedNonNegative
<1>6. TypeOK'
  BY <1>1, <1>5 DEF TypeOK
<1> QED  BY <1>1, <1>5, <1>6 DEF SizeIsCovered, CleanSheet, PairsKept

LEMMA HedgeKeepsMoney == ASSUME MoneyInv, Hedge PROVE MoneyInv'
<1> USE DEF MoneyInv
<1>1. /\ at = "hedge" /\ at' = "refresh"
      /\ UNCHANGED <<fraction, request, size, reported, filled, tracked, balance, trades>>
      /\ \/ resting' = [resting EXCEPT ![ExcessLeg] = HedgeSize]
         \/ UNCHANGED resting
  BY DEF Hedge
<1>2. resting' \in [LegNames -> 0 .. size * Grain]
  BY <1>1, HedgeIsWithinSize DEF TypeOK
<1>3. TypeOK'
  BY <1>1, <1>2 DEF TypeOK
<1>4. PairsKept'
  <2>1. CASE resting' = resting
    BY <1>1, <2>1 DEF PairsKept
  <2>2. CASE resting' = [resting EXCEPT ![ExcessLeg] = HedgeSize]
    <3>1. /\ HedgeSize \in Int
          /\ 2 * (HedgeSize + Least(reported["anchor"], reported["match"]))
                 <= 2 * reported[ExcessLeg] + Hundredth
      BY HedgeIsWithinSize
    <3>2. \A leg \in LegNames : leg # ExcessLeg => resting'[leg] = resting[leg]
      BY <2>2 DEF TypeOK
    <3>3. resting'[ExcessLeg] = HedgeSize
      BY <2>2, HedgeIsWithinSize DEF TypeOK
    <3> QED  BY <1>1, <3>1, <3>2, <3>3 DEF PairsKept
  <2> QED  BY <1>1, <2>1, <2>2
<1> QED  BY <1>1, <1>3, <1>4 DEF TrackedNonNegative, SizeIsCovered, CleanSheet

LEMMA RefreshKeepsMoney ==
    ASSUME MoneyInv, NEW known \in SUBSET Platforms, Refresh(known)
    PROVE  MoneyInv'
<1> USE DEF MoneyInv
<1>1. /\ at = "refresh" /\ at' = "recv" /\ request' = NoRequest /\ size' = 0
      /\ reported' = Nothing /\ filled' = Nothing /\ resting' = Nothing
      /\ tracked' = [p \in Platforms |-> IF p \in known THEN balance[p] ELSE tracked[p]]
      /\ UNCHANGED <<fraction, balance, trades>>
  BY DEF Refresh
<1>2. tracked' \in [Platforms -> Int] /\ TrackedNonNegative'
  BY <1>1, GrainIsPositive DEF TypeOK, TrackedNonNegative
<1>3. Nothing \in [LegNames -> 0 .. size' * Grain]
  <2>1. 0 \in 0 .. size' * Grain
    BY <1>1, GrainIsPositive
  <2> QED  BY <2>1 DEF Nothing
<1>4. TypeOK'
  BY <1>1, <1>2, <1>3 DEF TypeOK, NoRequest
<1>5. PairsKept'
  BY <1>1, GrainIsPositive DEF PairsKept, Nothing, Least, LegNames
<1> QED  BY <1>1, <1>2, <1>4, <1>5 DEF SizeIsCovered, CleanSheet

LEMMA MoneyInvIsInvariant == Spec => []MoneyInv
<1>1. MoneyInv /\ [Next]_vars => MoneyInv'
  <2> SUFFICES ASSUME MoneyInv, [Next]_vars PROVE MoneyInv'
    OBVIOUS
  <2>1. CASE \E r \in Requests : Receive(r)
    BY <2>1, ReceiveKeepsMoney
  <2>2. CASE \E a \in Fills("anchor"), m \in Fills("match"), lost \in SUBSET LegNames :
                PlaceOrders([anchor |-> a, match |-> m], lost)
    BY <2>2, OrdersKeepMoney
  <2>3. CASE Deduct
    BY <2>3, DeductKeepsMoney
  <2>4. CASE Hedge
    BY <2>4, HedgeKeepsMoney
  <2>5. CASE \E known \in SUBSET Platforms : Refresh(known)
    BY <2>5, RefreshKeepsMoney
  <2>6. CASE UNCHANGED vars
    <3>1. UNCHANGED <<fraction, at, request, size, reported, filled, resting, tracked,
                      balance, trades>>
      BY <2>6 DEF vars
    <3>2. TypeOK' /\ TrackedNonNegative' /\ CleanSheet'
      BY <3>1 DEF MoneyInv, TypeOK, TrackedNonNegative, CleanSheet
    <3>3. SizeIsCovered' /\ PairsKept'
      BY <3>1 DEF MoneyInv, SizeIsCovered, WorthIt, PairCost, TotalMills, PairsKept
    <3> QED  BY <3>2, <3>3 DEF MoneyInv
  <2> QED  BY <2>1, <2>2, <2>3, <2>4, <2>5, <2>6 DEF Next
<1> QED  BY MoneyStarts, <1>1, PTL DEF Spec

(* Every variable of the executor's money keeps its type, whatever the      *)
(* exchanges fill and whichever answers and refreshes are lost.             *)
THEOREM MoneyTypeCorrect == Spec => []TypeOK
<1>1. MoneyInv => TypeOK
  BY DEF MoneyInv
<1> QED  BY <1>1, MoneyInvIsInvariant, PTL

(* deduct_fill never takes a tracked balance below zero, for every          *)
(* fraction, price, size and number of trades without a refresh.            *)
THEOREM TrackedStaysNonNegative == Spec => []TrackedNonNegative
<1>1. MoneyInv => TrackedNonNegative
  BY DEF MoneyInv
<1> QED  BY <1>1, MoneyInvIsInvariant, PTL
-------------------------------------------------------------------------------
(* The limit of an order is at most half a cent above the price, and only   *)
(* on Polymarket, and never more than twice the price.                      *)
LEMMA LimitIsNear ==
    ASSUME TypeOK, NEW leg \in LegNames
    PROVE  /\ Limit(leg) \in Nat /\ request.price[leg] \in Nat
           /\ Limit(leg) <= request.price[leg]
                            + (IF request.platform[leg] = "poly" THEN 5 ELSE 0)
           /\ Limit(leg) <= 2 * request.price[leg]
<1> DEFINE mills == request.price[leg]
           cents == mills \div 10
           up == mills % 10 > 5 \/ (mills % 10 = 5 /\ cents % 2 = 1)
<1>1. mills \in Nat
  BY RequestIsTyped DEF TypeOK
<1>2. Limit(leg) = 10 * (IF request.platform[leg] = "poly" /\ up THEN cents + 1 ELSE cents)
  BY DEF Limit
<1> HIDE DEF mills
<1>3. cents \in Nat /\ mills % 10 \in 0..9 /\ mills = 10 * cents + (mills % 10)
  BY <1>1
<1>4. up => 10 * (cents + 1) <= mills + 5 /\ 10 * (cents + 1) <= 2 * mills
  BY <1>1, <1>3
<1>5. /\ Limit(leg) \in Nat
      /\ Limit(leg) <= mills + (IF request.platform[leg] = "poly" THEN 5 ELSE 0)
      /\ Limit(leg) <= 2 * mills
  <2> HIDE DEF up
  <2>1. CASE request.platform[leg] = "poly" /\ up
    BY <1>1, <1>2, <1>3, <1>4, <2>1
  <2>2. CASE ~(request.platform[leg] = "poly" /\ up)
    <3>1. Limit(leg) = 10 * cents
      BY <1>2, <2>2
    <3> QED  BY <1>1, <1>3, <3>1
  <2> QED  BY <2>1, <2>2
<1> QED  BY <1>1, <1>5 DEF mills

(* Twice what the size was sized for pays both orders at their limits, on   *)
(* whatever platforms they are; and all but the rounding of the Polymarket  *)
(* limits is paid by what it was sized for.                                 *)
LEMMA OrdersCost ==
    ASSUME TypeOK, request \in Requests, NEW p \in Platforms
    PROVE  LET all == [leg \in LegNames |-> size * Grain]
               slack == [leg \in LegNames |-> 5]
           IN  /\ size * PairCost(request) \in Nat
               /\ Paid(all, p) \in Nat
               /\ Paid(all, p) <= 2 * (size * PairCost(request))
               /\ Bill(all, slack, "poly") \in Nat
               /\ Paid(all, "kalshi") + Paid(all, "poly")
                      <= size * PairCost(request) + Bill(all, slack, "poly")
<1> DEFINE all == [leg \in LegNames |-> size * Grain]
           slack == [leg \in LegNames |-> 5]
           g == size * Grain
           pa == request.price["anchor"]
           pm == request.price["match"]
           la == Limit("anchor")
           lm == Limit("match")
           onA == request.platform["anchor"]
           onM == request.platform["match"]
<1>1. size \in Nat /\ Grain \in Nat /\ g \in Nat
  BY GrainIsPositive, RequestIsTyped DEF TypeOK
<1>2. /\ pa \in Nat /\ la \in Nat /\ la <= 2 * pa
      /\ la <= pa + (IF onA = "poly" THEN 5 ELSE 0)
  BY LimitIsNear DEF LegNames
<1>3. /\ pm \in Nat /\ lm \in Nat /\ lm <= 2 * pm
      /\ lm <= pm + (IF onM = "poly" THEN 5 ELSE 0)
  BY LimitIsNear DEF LegNames
<1>4. onA \in Platforms /\ onM \in Platforms
  <2>1. request.platform \in Routes
    BY DEF Requests
  <2>2. request.platform \in [LegNames -> Platforms]
    BY <2>1, ExecutionAssumption
  <2> QED  BY <2>2 DEF LegNames
<1>5. \A q \in Platforms :
         Paid(all, q) = (IF onA = q THEN la * g ELSE 0) + (IF onM = q THEN lm * g ELSE 0)
  BY DEF Paid, Bill, LegNames
<1>6. Bill(all, slack, "poly") = (IF onA = "poly" THEN 5 * g ELSE 0)
                                 + (IF onM = "poly" THEN 5 * g ELSE 0)
  BY DEF Bill, LegNames
<1>7. size * PairCost(request) = (pa + pm) * g
  <2>1. PairCost(request) = Grain * (pa + pm)
    BY DEF PairCost, TotalMills
  <2> HIDE DEF pa, pm
  <2> QED  BY <2>1, <1>1, <1>2, <1>3
<1> HIDE DEF all, slack, g, pa, pm, la, lm, onA, onM
<1>8. (pa + pm) * g \in Nat /\ (pa + pm) * g = pa * g + pm * g
      /\ pa * g \in Nat /\ pm * g \in Nat /\ la * g \in Nat /\ lm * g \in Nat
  BY <1>1, <1>2, <1>3
<1>9. la * g <= 2 * (pa * g) /\ la * g <= pa * g + (IF onA = "poly" THEN 5 * g ELSE 0)
  <2>1. la * g <= (2 * pa) * g /\ (2 * pa) * g = 2 * (pa * g)
    BY <1>1, <1>2, ProductGrows
  <2>2. la * g <= (pa + (IF onA = "poly" THEN 5 ELSE 0)) * g
    BY <1>1, <1>2, ProductGrows
  <2> QED  BY <1>1, <1>2, <1>8, <2>1, <2>2
<1>10. lm * g <= 2 * (pm * g) /\ lm * g <= pm * g + (IF onM = "poly" THEN 5 * g ELSE 0)
  <2>1. lm * g <= (2 * pm) * g /\ (2 * pm) * g = 2 * (pm * g)
    BY <1>1, <1>3, ProductGrows
  <2>2. lm * g <= (pm + (IF onM = "poly" THEN 5 ELSE 0)) * g
    BY <1>1, <1>3, ProductGrows
  <2> QED  BY <1>1, <1>3, <1>8, <2>1, <2>2
<1>11. Paid(all, p) \in Nat /\ Paid(all, p) <= 2 * ((pa + pm) * g)
  BY <1>5, <1>8, <1>9, <1>10
<1>12. Bill(all, slack, "poly") \in Nat
  BY <1>1, <1>6
<1>13. Paid(all, "kalshi") + Paid(all, "poly") = la * g + lm * g
  BY <1>4, <1>5, <1>8 DEF Platforms
<1>14. Paid(all, "kalshi") + Paid(all, "poly")
           <= size * PairCost(request) + Bill(all, slack, "poly")
  BY <1>1, <1>6, <1>7, <1>8, <1>9, <1>10, <1>13
<1> QED  BY <1>7, <1>8, <1>11, <1>12, <1>14 DEF all, slack

(* For every fraction of at most a half, both orders can fill completely on *)
(* either platform, if the tracker does not overstate what is there.        *)
THEOREM OrdersStayAffordable == Spec => []OrdersAffordable
<1>1. MoneyInv => OrdersAffordable
  <2> DEFINE all == [leg \in LegNames |-> size * Grain]
             cost == size * PairCost(request)
             n == fraction.num
             d == fraction.den
  <2> SUFFICES ASSUME MoneyInv, at = "orders", 2 * fraction.num <= fraction.den,
                      NEW p \in Platforms, tracked[p] <= balance[p]
               PROVE  Paid(all, p) <= balance[p]
    BY DEF OrdersAffordable
  <2>1. request \in Requests /\ d * cost <= n * tracked[p]
    BY DEF MoneyInv, SizeIsCovered
  <2>2. cost \in Nat /\ Paid(all, p) \in Nat /\ Paid(all, p) <= 2 * cost
    BY <2>1, OrdersCost DEF MoneyInv
  <2>3. n \in Nat /\ d \in Nat /\ d > 0 /\ 2 * n <= d
    BY FractionIsProper DEF MoneyInv
  <2>4. tracked[p] \in Nat /\ balance[p] \in Int
    BY GrainIsPositive DEF MoneyInv, TypeOK, TrackedNonNegative
  <2> HIDE DEF all, cost, n, d
  <2>5. (2 * n) * tracked[p] <= d * tracked[p]
    BY <2>3, <2>4, ProductGrows
  <2>6. /\ (2 * n) * tracked[p] = 2 * (n * tracked[p]) /\ n * tracked[p] \in Nat
        /\ d * (2 * cost) = 2 * (d * cost) /\ d * cost \in Nat
        /\ d * tracked[p] \in Nat
    BY <2>2, <2>3, <2>4
  <2>7. d * (2 * cost) <= d * tracked[p]
    BY <2>1, <2>5, <2>6
  <2>8. 2 * cost <= tracked[p]
    BY <2>2, <2>3, <2>4, <2>7, FactorCancels
  <2> QED  BY <2>2, <2>4, <2>8
<1> QED  BY <1>1, MoneyInvIsInvariant, PTL

(* What a trade can cost exceeds TRADE_FRACTION of the smaller balance by   *)
(* half a cent for each Polymarket contract, at most.                       *)
THEOREM RiskStaysNear == Spec => []RiskNearFraction
<1>1. MoneyInv => RiskNearFraction
  <2> DEFINE all == [leg \in LegNames |-> size * Grain]
             slack == [leg \in LegNames |-> 5]
             cost == size * PairCost(request)
             paid == Paid(all, "kalshi") + Paid(all, "poly")
             over == Bill(all, slack, "poly")
             low == Least(tracked["kalshi"], tracked["poly"])
             n == fraction.num
             d == fraction.den
  <2> SUFFICES ASSUME MoneyInv, at = "orders"
               PROVE  d * paid <= n * low + d * over
    BY DEF RiskNearFraction
  <2>1. request \in Requests
    BY DEF MoneyInv, SizeIsCovered
  <2>2. d * cost <= n * tracked["kalshi"] /\ d * cost <= n * tracked["poly"]
    BY DEF MoneyInv, SizeIsCovered, Platforms
  <2>3. tracked["kalshi"] \in Int /\ tracked["poly"] \in Int
    BY DEF MoneyInv, TypeOK, Platforms
  <2>4. d * cost <= n * low /\ low \in Int
    BY <2>2, <2>3, LeastIsBelow
  <2>5. /\ cost \in Nat /\ over \in Nat /\ paid <= cost + over
        /\ Paid(all, "kalshi") \in Nat /\ Paid(all, "poly") \in Nat
    BY <2>1, OrdersCost DEF MoneyInv, Platforms
  <2>6. paid \in Nat
    BY <2>5
  <2>7. d \in Nat /\ n \in Nat
    BY FractionIsProper DEF MoneyInv
  <2> HIDE DEF all, slack, cost, paid, over, low, n, d
  <2>8. d * paid <= d * (cost + over)
    BY <2>5, <2>6, <2>7, ProductGrows
  <2>9. /\ d * (cost + over) = d * cost + d * over
        /\ d * cost \in Nat /\ d * over \in Nat /\ d * paid \in Nat
        /\ n * low \in Int
    BY <2>4, <2>5, <2>6, <2>7
  <2> QED  BY <2>4, <2>8, <2>9
<1> QED  BY <1>1, MoneyInvIsInvariant, PTL

(* When both answers told the truth, the hedge sells, of the contracts that *)
(* complete a pair, half a hundredth at most: what round_dp(2) may add.     *)
THEOREM HedgeKeepsEveryPair == Spec => []HedgeKeepsPairs
<1>1. MoneyInv => HedgeKeepsPairs
  <2> DEFINE low == Least(filled["anchor"], filled["match"])
  <2> SUFFICES ASSUME MoneyInv, reported = filled, NEW leg \in LegNames
               PROVE  2 * (low - (filled[leg] - resting[leg])) <= Hundredth
    BY DEF HedgeKeepsPairs
  <2>1. 2 * (resting[leg] + low) <= 2 * filled[leg] + Hundredth
    BY DEF MoneyInv, PairsKept
  <2>2. size \in Nat /\ size * Grain \in Nat /\ Hundredth \in Nat
    BY GrainIsPositive, RequestIsTyped DEF MoneyInv, TypeOK
  <2>3. resting[leg] \in Int /\ \A l \in LegNames : filled[l] \in Int
    BY <2>2 DEF MoneyInv, TypeOK
  <2>4. low \in Int
    BY <2>3 DEF Least, LegNames
  <2> HIDE DEF low
  <2> QED  BY <2>1, <2>2, <2>3, <2>4
<1> QED  BY <1>1, MoneyInvIsInvariant, PTL
===============================================================================
