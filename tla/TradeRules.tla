----------------------------- MODULE TradeRules -----------------------------
(***************************************************************************)
(* The pure rules of the back-test domain: exchange lots, orders, trading  *)
(* cost, marking a portfolio to market, and when a strategy triggers.      *)
(*                                                                         *)
(* Money is an integer number of cents (the code's NUMERIC(20,2) quantum), *)
(* a rate an integer number of basis points, a weight an integer percent,  *)
(* a day the ordinal of a calendar date.  A portfolio is a cash amount     *)
(* and a function from tickers to shares; a ticker the code does not hold  *)
(* (no key in the dict) and one it holds flat both have 0 shares, which is *)
(* how every reader in the code treats them.                               *)
(***************************************************************************)
EXTENDS Integers, FiniteSets, FiniteSetsExt

\* A bar the price repository does not have for that day.
NoPrice == 0

\* No rebalance has been executed yet (last_rebalance_date is None).
Never == 0

Priced(prices) == {t \in DOMAIN prices : prices[t] # NoPrice}

------------------------------------------------------------------------------
(* Lots.  A rule is [lot, from, to]; LotRulesOn is the rules that apply.    *)

AppliesOn(rule, day) == rule.from <= day /\ day <= rule.to

LotRulesOn(rules, day) == {r \in rules : AppliesOn(r, day)}

\* get_lot_size raises when no rule covers the day; ask HasLotRule first.
HasLotRule(rules, day) == LotRulesOn(rules, day) # {}

GetLotSize(rules, day) == (CHOOSE r \in LotRulesOn(rules, day) : TRUE).lot

\* Mutant: rounds up to a full lot.
RoundUpToLot(target, lot) ==
    IF target <= 0 THEN 0 ELSE ((target + lot - 1) \div lot) * lot

RoundToLot(target, lot) == IF target <= 0 THEN 0 ELSE (target \div lot) * lot

------------------------------------------------------------------------------
(* Orders: [ticker, side, shares, price]; at most one per ticker.           *)

GrossAmount(o) == o.shares * o.price

\* Mutant: orders below one lot stay, with no shares.
EnforceLotSizesKeepingZeros(orders, lot) ==
    {[o EXCEPT !.shares = RoundToLot(o.shares, lot)] : o \in orders}

\* Order.enforce_lot_size over a decision's orders: round down, drop zeros.
EnforceLotSizes(orders, lot) ==
    {[o EXCEPT !.shares = RoundToLot(o.shares, lot)] :
        o \in {x \in orders : RoundToLot(x.shares, lot) # 0}}

------------------------------------------------------------------------------
(* Cost of a batch of orders.                                               *)

MaxBrokerageBps == 100
MaxImpactBps    == 500
MaxTaxBps       == 100

RatesInRange(fees) ==
    /\ fees.brokerage \in 0..MaxBrokerageBps
    /\ fees.impact \in 0..MaxImpactBps
    /\ fees.tax \in 0..MaxTaxBps

\* Decimal.quantize(0.01, ROUND_HALF_UP) of a non-negative n/d.
HalfUp(n, d) == (2 * n + d) \div (2 * d)

Gross(orders) == MapThenSumSet(GrossAmount, orders)

Sells(orders) == {o \in orders : o.side = "SELL"}

\* Each component is summed over the batch and only then rounded.
TradingCost(fees, orders) ==
    HalfUp(Gross(orders) * fees.brokerage, 10000)
      + HalfUp(Gross(orders) * fees.impact, 10000)
      + HalfUp(Gross(Sells(orders)) * fees.tax, 10000)

------------------------------------------------------------------------------
(* Marking to market, target shares and the orders that close the gap.      *)

\* A held ticker without a price that day counts as worth nothing.
TotalValue(cash, shares, prices) ==
    cash + MapThenSumSet(LAMBDA t : shares[t] * prices[t], Priced(prices))

TargetShares(weight, total, price) == (weight * total) \div (100 * price)

DeltaShares(weights, cash, shares, prices, t) ==
    TargetShares(weights[t], TotalValue(cash, shares, prices), prices[t])
      - shares[t]

ComputeOrders(weights, cash, shares, prices) ==
    LET delta(t) == DeltaShares(weights, cash, shares, prices, t)
    IN  {[ticker |-> t, side |-> "BUY", shares |-> delta(t), price |-> prices[t]] :
            t \in {u \in Priced(prices) : delta(u) \in Nat \ {0}}}
        \cup
        {[ticker |-> t, side |-> "SELL", shares |-> -delta(t), price |-> prices[t]] :
            t \in {u \in Priced(prices) : -delta(u) \in Nat \ {0}}}

------------------------------------------------------------------------------
(* Triggers of the three strategies.                                        *)

AbsDiff(a, b) == IF a > b THEN a - b ELSE b - a

\* |current weight - target weight| > band, without dividing.  An empty
\* portfolio has no weights at all, so its drift is the target itself.
DriftExceeds(band, weight, worth, total) ==
    IF total = 0
    THEN weight * 100 > band
    ELSE AbsDiff(100 * worth, weight * total) * 100 > band * total

BandTriggers(band, weights, cash, shares, prices) ==
    LET total    == TotalValue(cash, shares, prices)
        worth(t) == IF prices[t] = NoPrice THEN 0 ELSE shares[t] * prices[t]
    IN  \E t \in DOMAIN weights : DriftExceeds(band, weights[t], worth(t), total)

\* Only the month number is compared; month is a function from days.
MonthTriggers(month, last, day) ==
    IF last = Never THEN TRUE ELSE month[day] # month[last]

WindowTriggers(window, last, day) ==
    IF last = Never THEN TRUE ELSE day - last >= window
=============================================================================
