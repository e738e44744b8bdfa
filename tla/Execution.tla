------------------------------- MODULE Execution -------------------------------
(***************************************************************************)
(* The money of one executor: what handle_execution_request and its        *)
(* BalanceTracker (src/src/picker.rs, `mod exec`) do with the balances of  *)
(* the two platforms, with what the orders fill, and with the excess of a  *)
(* leg that fills more than the other.  Which arb is executed, and when,   *)
(* is in Picker; here a request is the platforms, prices and liquidity     *)
(* that the executor sees.                                                 *)
(*                                                                         *)
(* Units: contracts are counted in grains, of which Polymarket fills any   *)
(* number and Kalshi whole contracts only (the code has six decimals, that *)
(* is ten thousand grains to a hundredth of a contract); prices are in     *)
(* mills, a tenth of a cent, and money is counted so that a grain costs    *)
(* its price.                                                              *)
(*                                                                         *)
(* The exchanges are external: an order fills at its limit, in full, in    *)
(* part or not at all, never beyond the money that is there, and the       *)
(* answer may be lost after the order was executed, which the code takes   *)
(* for an order that filled nothing.                                       *)
(***************************************************************************)
EXTENDS Integers

CONSTANTS
    Hundredth,     \* grains in a hundredth of a contract
    Parts,         \* the parts of a contract explored in Polymarket's fills
    Fractions,     \* the values of TRADE_FRACTION explored, as [num, den]
    MinTrade,      \* MIN_TRADE_SIZE, in dollars
    Deposit,       \* the dollars on each platform at the start
    Routes,        \* the platforms of the two legs explored
    Prices,        \* the prices of a contract explored, in mills
    Liquidity,     \* the sizes at the top of both books explored, in contracts
    MaxTrades      \* bound on the requests handled

Platforms == {"kalshi", "poly"}

LegNames == {"anchor", "match"}

(* The grains of a contract.                                               *)
Grain == 100 * Hundredth

(* parse_env_decimal takes a TRADE_FRACTION strictly between 0 and 1.      *)
ASSUME ExecutionAssumption ==
    /\ Hundredth \in Nat \ {0}
    /\ Parts \subseteq 0 .. Grain - 1
    /\ Fractions \subseteq [num : Nat, den : Nat]
    /\ \A f \in Fractions : 0 < f.num /\ f.num < f.den
    /\ MinTrade \in Nat
    /\ Deposit \in Nat
    /\ Routes \subseteq [LegNames -> Platforms]
    /\ Prices \subseteq 0..1000
    /\ Liquidity \subseteq Nat
    /\ MaxTrades \in Nat

VARIABLES
    fraction,  \* TRADE_FRACTION, read when the executor starts
    at,        \* where run_picker_exe is
    request,   \* the platforms, prices and liquidity of the request in hand
    size,      \* the contracts ordered on both legs
    reported,  \* per leg: the grains the executor believes were filled
    filled,    \* per leg: the grains that were filled
    resting,   \* per leg: the grains of the hedge sell placed
    tracked,   \* BalanceTracker: the balance of each platform
    balance,   \* the balance on each platform
    trades     \* requests taken so far

vars ==
    <<fraction, at, request, size, reported, filled, resting, tracked, balance, trades>>

-------------------------------------------------------------------------------
Requests ==
    [platform : Routes, price : [LegNames -> Prices], liquidity : Liquidity]

NoRequest ==
    [platform |-> [leg \in LegNames |-> "kalshi"],
     price |-> [leg \in LegNames |-> 0], liquidity |-> 0]

Nothing == [leg \in LegNames |-> 0]

Other(leg) == IF leg = "anchor" THEN "match" ELSE "anchor"

Least(x, y) == IF x <= y THEN x ELSE y

Dollar == 1000 * Grain

(* Mills of the two legs together, and the money of a contract of each.     *)
TotalMills(r) == r.price["anchor"] + r.price["match"]

PairCost(r) == Grain * TotalMills(r)

(* The price check: a total of nothing, or above 98.5 cents, is not worth   *)
(* an order.                                                                *)
WorthIt(r) == TotalMills(r) \in 1..985

(* So much money, times the fraction, in whole dollars.                     *)
Share(money) == Dollar * ((fraction.num * money) \div (fraction.den * Dollar))

(* Mistake: take the larger balance.                                        *)
BudgetOfLarger ==
    Share(IF tracked["kalshi"] >= tracked["poly"] THEN tracked["kalshi"] ELSE tracked["poly"])

(* max_trade_dollars: a fraction of the smaller balance.                    *)
Budget == Share(Least(tracked["kalshi"], tracked["poly"]))

(* Mistake: order all that the books offer.                                 *)
SizeByLiquidity(r) == r.liquidity

(* compute_size, before the test for a trade that is too small.             *)
ComputeSize(r) == Least(Budget \div PairCost(r), r.liquidity)

BigEnough(r) == ComputeSize(r) * PairCost(r) >= MinTrade * Dollar

(* The limit of an order: cents, rounded down for Kalshi and to the nearest *)
(* cent, the even one of two, for Polymarket (round_dp).                    *)
Limit(leg) ==
    LET mills == request.price[leg]
        cents == mills \div 10
        up == mills % 10 > 5 \/ (mills % 10 = 5 /\ cents % 2 = 1)
    IN  10 * (IF request.platform[leg] = "poly" /\ up THEN cents + 1 ELSE cents)

(* What the grains f of the two legs cost on a platform, at some prices.    *)
Bill(f, price, p) ==
    (IF request.platform["anchor"] = p THEN price["anchor"] * f["anchor"] ELSE 0)
    + (IF request.platform["match"] = p THEN price["match"] * f["match"] ELSE 0)

(* What leaves a platform when both orders fill so much at their limits.    *)
Paid(f, p) == Bill(f, [leg \in LegNames |-> Limit(leg)], p)

-------------------------------------------------------------------------------
Init ==
    /\ fraction \in Fractions
    /\ at = "refresh"
    /\ request = NoRequest
    /\ size = 0
    /\ reported = Nothing
    /\ filled = Nothing
    /\ resting = Nothing
    /\ tracked = [p \in Platforms |-> 0]
    /\ balance = [p \in Platforms |-> Deposit * Dollar]
    /\ trades = 0

(* Take a request; refuse it by its prices or its size, or order both legs. *)
(* A failure to fetch the order books ends like a refusal, whatever r is.   *)
Receive(r) ==
    /\ at = "recv" /\ trades < MaxTrades
    /\ trades' = trades + 1
    /\ request' = r
    /\ \/ WorthIt(r) /\ BigEnough(r) /\ at' = "orders" /\ size' = ComputeSize(r)
       \/ at' = "refresh" /\ size' = 0
    /\ UNCHANGED <<fraction, reported, filled, resting, tracked, balance>>

(* The fills an order for the size can have on a leg.                       *)
Fills(leg) ==
    LET rests == IF request.platform[leg] = "kalshi" THEN {0} ELSE Parts
    IN  {g \in {Grain * n + rest : n \in 0..size, rest \in rests} : g <= size * Grain}

(* make_fak_order on both legs at once, awaited together.  An order that    *)
(* errs, or whose answer cannot be read, is reported as filling nothing.    *)
PlaceOrders(f, lost) ==
    /\ at = "orders"
    /\ \A p \in Platforms : Paid(f, p) <= balance[p]
    /\ filled' = f
    /\ reported' = [leg \in LegNames |-> IF leg \in lost THEN 0 ELSE f[leg]]
    /\ balance' = [p \in Platforms |-> balance[p] - Paid(f, p)]
    /\ at' = "deduct"
    /\ UNCHANGED <<fraction, request, size, resting, tracked, trades>>

(* deduct_fill on what both legs filled, each leg from its own platform;    *)
(* equal fills are done and an excess is hedged.                            *)
Deduct ==
    LET paired == Least(reported["anchor"], reported["match"])
        both == [leg \in LegNames |-> paired]
    IN  /\ at = "deduct"
        /\ tracked' = [p \in Platforms |-> tracked[p] - Bill(both, request.price, p)]
        /\ at' = IF reported["anchor"] = reported["match"] THEN "refresh" ELSE "hedge"
        /\ UNCHANGED <<fraction, request, size, reported, filled, resting, balance,
                       trades>>

ExcessLeg == IF reported["anchor"] > reported["match"] THEN "anchor" ELSE "match"

(* Mistake: add the other leg instead of subtracting it.                    *)
ExcessAdded == reported[ExcessLeg] + reported[Other(ExcessLeg)]

Excess == reported[ExcessLeg] - reported[Other(ExcessLeg)]

(* Mistake: hedge all that the leg filled, not the excess.                  *)
HedgeTheFill == reported[ExcessLeg]

(* round_dp(2): to the nearest hundredth of a contract, up or down, and to  *)
(* the even one of two.                                                     *)
RoundToHundredths(g) ==
    LET hundredths == g \div Hundredth
        rest == g % Hundredth
        up == 2 * rest > Hundredth \/ (2 * rest = Hundredth /\ hundredths % 2 = 1)
    IN  Hundredth * (IF up THEN hundredths + 1 ELSE hundredths)

(* Kalshi sells whole contracts only, Polymarket hundredths of one.         *)
HedgeSize ==
    IF request.platform[ExcessLeg] = "kalshi"
    THEN Grain * (Excess \div Grain)
    ELSE RoundToHundredths(Excess)

(* hedge_sell_order: a limit sell two cents above cost that rests in the    *)
(* book until somebody takes it, unless it is too small or refused.         *)
Hedge ==
    /\ at = "hedge"
    /\ \/ HedgeSize > 0 /\ resting' = [resting EXCEPT ![ExcessLeg] = HedgeSize]
       \/ UNCHANGED resting
    /\ at' = "refresh"
    /\ UNCHANGED <<fraction, request, size, reported, filled, tracked, balance, trades>>

(* refresh_and_set_balances, after which the locals of the handler are      *)
(* gone.  A failure of Kalshi gives up before Polymarket is asked; a        *)
(* failure of Polymarket keeps its last balance.                            *)
Refresh(known) ==
    /\ at = "refresh"
    /\ "poly" \in known => "kalshi" \in known
    /\ tracked' = [p \in Platforms |-> IF p \in known THEN balance[p] ELSE tracked[p]]
    /\ at' = "recv"
    /\ request' = NoRequest /\ size' = 0
    /\ reported' = Nothing /\ filled' = Nothing /\ resting' = Nothing
    /\ UNCHANGED <<fraction, balance, trades>>

Next ==
    \/ \E r \in Requests : Receive(r)
    \/ \E a \in Fills("anchor"), m \in Fills("match"), lost \in SUBSET LegNames :
          PlaceOrders([anchor |-> a, match |-> m], lost)
    \/ Deduct
    \/ Hedge
    \/ \E known \in SUBSET Platforms : Refresh(known)

Spec == Init /\ [][Next]_vars

-------------------------------------------------------------------------------
(* Every variable stays in its type; the tracked balances may be any number.*)
TypeOK ==
    /\ fraction \in Fractions
    /\ at \in {"refresh", "recv", "orders", "deduct", "hedge"}
    /\ request \in Requests \cup {NoRequest}
    /\ size \in 0 .. request.liquidity
    /\ \A amount \in {reported, filled, resting} :
          amount \in [LegNames -> 0 .. size * Grain]
    /\ tracked \in [Platforms -> Int]
    /\ balance \in [Platforms -> 0 .. Deposit * Dollar]
    /\ trades \in 0..MaxTrades

(* However many trades run on balances that could not be refreshed, and     *)
(* whatever their orders fill, deduct_fill never takes a tracked balance    *)
(* below zero: the size is computed from what is tracked, on the smaller    *)
(* platform, and pays for both legs even when both are on one platform.     *)
TrackedNonNegative == \A p \in Platforms : tracked[p] >= 0

(* With a fraction of at most a half, and a tracker that does not overstate *)
(* what is there, both orders can fill completely, even both on one         *)
(* platform, although the limits of Polymarket are rounded, perhaps up,     *)
(* after the size was computed.  A larger fraction has no such promise:     *)
(* README.md, section 5.                                                    *)
OrdersAffordable ==
    /\ 2 * fraction.num <= fraction.den
    /\ at = "orders"
    /\ \A p \in Platforms : tracked[p] <= balance[p]
    => \A p \in Platforms : Paid([leg \in LegNames |-> size * Grain], p) <= balance[p]

(* The hedge sells what has no counterpart, and at most half a hundredth of *)
(* a contract more: as long as both answers told the truth, all but that of *)
(* the contracts that complete a pair is kept.  The rest is the rounding of *)
(* an excess on Polymarket to hundredths (picker.rs:1817), which may go up. *)
HedgeKeepsPairs ==
    reported = filled =>
        \A leg \in LegNames :
            2 * (Least(filled["anchor"], filled["match"]) - (filled[leg] - resting[leg]))
                <= Hundredth

(* README.md:142, of TRADE_FRACTION: "Fraction of the smaller balance to    *)
(* risk per arb".  What both orders can cost is within that fraction of the *)
(* smaller tracked balance, but for the rounding of the limits of the       *)
(* Polymarket orders, of half a cent a contract at most: the size is        *)
(* computed from the prices as quoted (picker.rs:1107 and 1696).            *)
RiskNearFraction ==
    at = "orders" =>
        LET all == [leg \in LegNames |-> size * Grain]
            slack == [leg \in LegNames |-> 5]
        IN  fraction.den * (Paid(all, "kalshi") + Paid(all, "poly"))
                <= fraction.num * Least(tracked["kalshi"], tracked["poly"])
                   + fraction.den * Bill(all, slack, "poly")
===============================================================================
