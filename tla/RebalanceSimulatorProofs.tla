----------------------- MODULE RebalanceSimulatorProofs -----------------------
(***************************************************************************)
(* Theorems of RebalanceSimulator, for every universe, calendar, set of    *)
(* lot rules, price history and request: its state is well typed; the     *)
(* portfolio never owes money, not even between two orders of a batch;    *)
(* the tables behave as RunLifecycle; a batch always holds what the       *)
(* strategy still wants, so no order can fail and a rebalance settles;    *)
(* rebalances keep their cadence; and what a caller reads back is what    *)
(* the daily loop did.                                                     *)
(***************************************************************************)
EXTENDS RebalanceSimulator, FiniteSetTheorems, SequenceTheorems,
        WellFoundedInduction, TLAPS

-------------------------------------------------------------------------------
(* Orders.                                                                  *)

\* Rounding a positive number of shares to a lot gives a natural number.
LEMMA RoundToLotType ==
    ASSUME NEW target \in Nat \ {0}, NEW lot \in Nat \ {0}
    PROVE  RoundToLot(target, lot) \in Nat
<1>1. target \div lot \in Nat
  OBVIOUS
<1> DEFINE q == target \div lot
<1> HIDE DEF q
<1>2. q \in Nat => q * lot \in Nat
  OBVIOUS
<1> QED BY <1>1, <1>2 DEF RoundToLot, q

\* The orders of a strategy are well formed, one at most for each ticker.
LEMMA ComputeOrdersType ==
    ASSUME NEW weights, NEW c, NEW sh, NEW prices,
           DOMAIN prices = Tickers, \A t \in Tickers : prices[t] \in Nat
    PROVE  LET orders == ComputeOrders(weights, c, sh, prices)
           IN  /\ orders \subseteq Order
               /\ \A o, p \in orders : o.ticker = p.ticker => o = p
<1> DEFINE delta(t) == DeltaShares(weights, c, sh, prices, t)
           buys  == {[ticker |-> t, side |-> "BUY", shares |-> delta(t),
                      price |-> prices[t]] :
                       t \in {u \in Priced(prices) : delta(u) \in Nat \ {0}}}
           sells == {[ticker |-> t, side |-> "SELL", shares |-> -delta(t),
                      price |-> prices[t]] :
                       t \in {u \in Priced(prices) : -delta(u) \in Nat \ {0}}}
<1>1. ComputeOrders(weights, c, sh, prices) = buys \cup sells
  BY DEF ComputeOrders
<1> HIDE DEF delta
<1>2. \A t \in Priced(prices) : t \in Tickers /\ prices[t] \in Nat \ {0}
  BY DEF Priced, NoPrice
<1>3. \A t : ~(delta(t) \in Nat \ {0} /\ -delta(t) \in Nat \ {0})
  OBVIOUS
<1>4. buys \subseteq Order /\ sells \subseteq Order
  BY <1>2 DEF Order
<1>5. ASSUME NEW o \in buys \cup sells, NEW p \in buys \cup sells,
             o.ticker = p.ticker
      PROVE  o = p
  BY <1>3, <1>5
<1> QED BY <1>1, <1>4, <1>5

\* Lots keep orders well formed and keep one order for each ticker.
LEMMA EnforceLotSizesType ==
    ASSUME NEW orders \in SUBSET Order, NEW lot \in Nat \ {0},
           \A o, p \in orders : o.ticker = p.ticker => o = p
    PROVE  /\ EnforceLotSizes(orders, lot) \subseteq Order
           /\ \A o, p \in EnforceLotSizes(orders, lot) : o.ticker = p.ticker => o = p
<1> DEFINE cut(o) == [o EXCEPT !.shares = RoundToLot(o.shares, lot)]
<1>1. ASSUME NEW o \in orders
      PROVE  /\ RoundToLot(o.shares, lot) # 0 => cut(o) \in Order
             /\ cut(o).ticker = o.ticker
  <2>1. o.shares \in Nat \ {0}
    BY DEF Order
  <2>2. RoundToLot(o.shares, lot) \in Nat
    BY <2>1, RoundToLotType
  <2> QED BY <2>2 DEF Order
<1> DEFINE kept == {x \in orders : RoundToLot(x.shares, lot) # 0}
<1>2. EnforceLotSizes(orders, lot) = {cut(o) : o \in kept}
  BY DEF EnforceLotSizes
<1> HIDE DEF cut
<1>3. \A o \in kept : o \in orders /\ cut(o) \in Order /\ cut(o).ticker = o.ticker
  BY <1>1
<1> HIDE DEF kept
<1> QED BY <1>2, <1>3

\* A set of orders with one for each ticker is finite.
LEMMA OrdersFinite ==
    ASSUME NEW orders \in SUBSET Order,
           \A o, p \in orders : o.ticker = p.ticker => o = p
    PROVE  IsFiniteSet(orders) /\ Cardinality(orders) \in Nat
<1> DEFINE f == [o \in orders |-> o.ticker]
<1>1. f \in Injection(orders, Tickers)
  BY DEF Injection, IsInjective, Order
<1>2. IsFiniteSet(orders)
  BY <1>1, FS_Injection, TickersAssumption
<1> QED BY <1>2, FS_CardinalityType

\* Sorting a batch gives a sequence of its orders, every SELL before any BUY.
LEMMA SellFirstType ==
    ASSUME NEW orders \in SUBSET Order, Cardinality(orders) \in Nat,
           NEW s \in SellFirst(orders)
    PROVE  /\ s \in Seq(Order)
           /\ \A i, j \in 1..Len(s) :
                  i < j => ~(s[i].side = "BUY" /\ s[j].side = "SELL")
<1>1. s \in [1..Cardinality(orders) -> Order]
  BY DEF SellFirst
<1>2. s \in Seq(Order) /\ DOMAIN s = 1..Len(s)
  BY <1>1
<1> QED BY <1>2 DEF SellFirst

\* An order that is bought takes cash, an order that is sold brings cash.
LEMMA CashDeltaSign ==
    ASSUME NEW o \in Order
    PROVE  /\ CashDelta(o) \in Int
           /\ GrossAmount(o) \in Nat
           /\ o.side = "SELL" => CashDelta(o) >= 0
           /\ o.side = "BUY" => CashDelta(o) <= 0
           /\ o.side = "BUY" => CashDelta(o) = -GrossAmount(o)
           /\ o.side = "SELL" => CashDelta(o) = GrossAmount(o)
           /\ o.side \in {"BUY", "SELL"}
<1>1. o.shares \in Nat /\ o.price \in Nat /\ o.side \in {"BUY", "SELL"}
  BY DEF Order
<1>2. GrossAmount(o) \in Nat
  BY <1>1 DEF GrossAmount
<1> QED BY <1>1, <1>2 DEF CashDelta

-------------------------------------------------------------------------------
(* Type correctness.                                                        *)

\* What the types of a step rest on besides the types: the loop only runs a
\* strategy the factory knows, and a batch belongs to a decision of a day.
StrategyKnown ==
    pc \in {"loop", "precheck", "apply", "persist"} => request.strategy \in Strategies

BatchHasDecision ==
    pc \in {"precheck", "apply"} =>
        decision \in Decision /\ day \in Days /\ Len(trail) >= 1

TypeInv == TypeOK /\ StrategyKnown /\ BatchHasDecision

LEMMA TypeInit == Init => TypeInv
<1> SUFFICES ASSUME Init PROVE TypeInv
  OBVIOUS
<1>1. request.capital \in Nat
  BY RequestsAssumption DEF Init
<1>2. run \in [status : {"none", "running", "completed", "failed"},
               error : BOOLEAN, stamped : BOOLEAN, kpi : SUBSET Nat]
  BY DEF Init, NoRun
<1>3. StrategyKnown /\ BatchHasDecision
  BY DEF Init, StrategyKnown, BatchHasDecision
<1> QED BY <1>1, <1>2, <1>3 DEF Init, TypeInv, TypeOK

\* The decision of a day that wants orders is well formed after the lots.
LEMMA EnforcedType ==
    ASSUME TypeInv, NEW d \in Days, WantsOrders(d), HasLotRule(LotRules, d)
    PROVE  /\ Enforced(d) \subseteq Order
           /\ Cardinality(Enforced(d)) \in Nat
           /\ Enforce(d) \in Decision
<1>1. DOMAIN bars[d] = Tickers /\ \A t \in Tickers : bars[d][t] \in Nat
  BY HistoriesAssumption DEF TypeInv, TypeOK
<1>2. /\ Intent(d) \subseteq Order
      /\ \A o, p \in Intent(d) : o.ticker = p.ticker => o = p
  BY <1>1, ComputeOrdersType DEF Intent
<1>3. GetLotSize(LotRules, d) \in Nat \ {0}
  BY LotRulesAssumption DEF HasLotRule, GetLotSize, LotRulesOn
<1>4. /\ Enforced(d) \subseteq Order
      /\ \A o, p \in Enforced(d) : o.ticker = p.ticker => o = p
  BY <1>2, <1>3, EnforceLotSizesType DEF Enforced
<1>5. Cardinality(Enforced(d)) \in Nat
  BY <1>4, OrdersFinite
<1>6. TradeReason \in Reasons
  BY DEF TypeInv, StrategyKnown, WantsOrders, Strategies, TradeReason,
         Reasons, TradeReasons
<1>7. IntentCost(d) \in Nat
  BY DEF WantsOrders
<1> QED BY <1>4, <1>5, <1>6, <1>7 DEF Enforce, Decision

\* A day without trades keeps the types.
LEMMA QuietDayType ==
    ASSUME TypeInv, NEW d \in Days, NEW dec \in Decision, pc = "loop", QuietDay(d, dec)
    PROVE  TypeInv'
<1>1. decisions' \in Seq(Decision)
  BY DEF QuietDay, Record, TypeInv, TypeOK
<1>2. StrategyKnown' /\ BatchHasDecision'
  BY DEF QuietDay, TypeInv, StrategyKnown, BatchHasDecision, request_vars
<1> QED BY <1>1, <1>2 DEF QuietDay, TypeInv, TypeOK, request_vars, db_vars,
                          book_vars, batch_vars

\* The run row stays well typed however simulate() writes it.
LEMMA UpdateStatusType ==
    ASSUME TypeOK, NEW status \in {"completed", "failed"}, NEW error \in BOOLEAN,
           NEW kpi \in SUBSET Nat, UpdateStatus(status, error, kpi)
    PROVE  run' \in [status : {"none", "running", "completed", "failed"},
                     error : BOOLEAN, stamped : BOOLEAN, kpi : SUBSET Nat]
BY DEF UpdateStatus, TypeOK

LEMMA MarkFailedType ==
    ASSUME TypeOK, MarkFailedAndRaise
    PROVE  /\ run' \in [status : {"none", "running", "completed", "failed"},
                        error : BOOLEAN, stamped : BOOLEAN, kpi : SUBSET Nat]
           /\ pc' = "raised"
<1>1. run.kpi \in SUBSET Nat
  BY DEF TypeOK
<1>2. UpdateStatus("failed", TRUE, run.kpi) /\ pc' = "raised"
  BY DEF MarkFailedAndRaise
<1> QED BY <1>1, <1>2, UpdateStatusType

\* Every step of the call, and a crash, keeps the types.
LEMMA TypeStep == TypeInv /\ [Next]_vars => TypeInv'
<1> SUFFICES ASSUME TypeInv, [Next]_vars PROVE TypeInv'
  OBVIOUS
<1> USE DEF TypeInv, request_vars, db_vars, book_vars, log_vars, batch_vars
<1>1. CASE SaveRun
  <2>1. run' \in [status : {"none", "running", "completed", "failed"},
                  error : BOOLEAN, stamped : BOOLEAN, kpi : SUBSET Nat]
    BY <1>1 DEF SaveRun, NoRun
  <2> QED BY <1>1, <2>1 DEF SaveRun, TypeOK, StrategyKnown, BatchHasDecision
<1>2. CASE LoadPrices
  BY <1>2 DEF LoadPrices, TypeOK, StrategyKnown, BatchHasDecision
<1>3. CASE NoPriceData
  BY <1>3, MarkFailedType
  DEF NoPriceData, TypeOK, StrategyKnown, BatchHasDecision, Ended
<1>4. CASE CostModelRaises
  BY <1>4 DEF CostModelRaises, RaiseUnmarked, TypeOK, StrategyKnown,
              BatchHasDecision, Ended
<1>5. CASE StrategyFactoryRaises
  BY <1>5, MarkFailedType
  DEF StrategyFactoryRaises, TypeOK, StrategyKnown, BatchHasDecision, Ended
<1>6. CASE Configure
  BY <1>6 DEF Configure, TypeOK, StrategyKnown, BatchHasDecision
<1>7. ASSUME NEW d \in Days, DayStep(d)
      PROVE  TypeInv'
  <2>1. CASE NoTrigger(d)
    <3>1. [day |-> d, reason |-> "no_trigger", orders |-> {}, cost |-> 0] \in Decision
      BY DEF Decision, Reasons
    <3> QED BY <2>1, <3>1, QuietDayType DEF NoTrigger
  <2>2. CASE ZeroShares(d)
    <3>1. [day |-> d, reason |-> "zero_shares_after_rounding",
           orders |-> {}, cost |-> 0] \in Decision
      BY DEF Decision, Reasons
    <3> QED BY <2>2, <3>1, QuietDayType DEF ZeroShares
  <2>3. CASE StrategyRaises(d)
    BY <2>3, MarkFailedType
    DEF StrategyRaises, TypeOK, StrategyKnown, BatchHasDecision, Ended
  <2>4. CASE LotRuleMissing(d)
    BY <2>4 DEF LotRuleMissing, RaiseUnmarked, TypeOK, StrategyKnown,
                BatchHasDecision, Ended
  <2>5. CASE AllBelowOneLot(d)
    <3>1. Enforce(d) \in Decision
      BY <2>5, EnforcedType DEF AllBelowOneLot
    <3> QED BY <2>5, <3>1, QuietDayType DEF AllBelowOneLot, WantsOrders
  <2>6. CASE ProposeBatch(d)
    <3>1. /\ Enforced(d) \subseteq Order
          /\ Cardinality(Enforced(d)) \in Nat
          /\ Enforce(d) \in Decision
      BY <2>6, EnforcedType DEF ProposeBatch
    <3>2. batch' \in Seq(Order)
      BY <2>6, <3>1, SellFirstType DEF ProposeBatch
    <3>3. trail' \in Seq(Int)
      BY <2>6 DEF ProposeBatch, TypeOK
    <3>4. pc = "loop"
      BY <2>6 DEF ProposeBatch, WantsOrders
    <3> QED BY <2>6, <3>1, <3>2, <3>3, <3>4
            DEF ProposeBatch, TypeOK, StrategyKnown, BatchHasDecision
  <2> QED BY <1>7, <2>1, <2>2, <2>3, <2>4, <2>5, <2>6 DEF DayStep
<1>8. CASE PreCheckOrder
  <2>1. Len(trail) \in Nat /\ Len(batch) \in Nat
    BY DEF TypeOK
  <2>2. Len(trail) \in 1..Len(batch)
    BY <1>8, <2>1 DEF PreCheckOrder, BatchHasDecision
  <2>3. Projected \in Int /\ batch[Len(trail)] \in Order
    BY <2>2 DEF Projected, TypeOK
  <2>4. CashDelta(batch[Len(trail)]) \in Int
    BY <2>3, CashDeltaSign
  <2>5. trail' \in Seq(Int) /\ Len(trail') >= 1
    BY <1>8, <2>1, <2>3, <2>4 DEF PreCheckOrder, TypeOK
  <2> QED BY <1>8, <2>5 DEF PreCheckOrder, TypeOK, StrategyKnown, BatchHasDecision
<1>9. CASE DowngradeBatch
  <2>1. [decision EXCEPT !.reason = "no_trigger", !.orders = {}, !.cost = 0] \in Decision
    BY <1>9 DEF DowngradeBatch, BatchHasDecision, Decision, Reasons
  <2>2. decisions' \in Seq(Decision)
    BY <1>9, <2>1 DEF DowngradeBatch, Record, TypeOK
  <2> QED BY <1>9, <2>2
          DEF DowngradeBatch, ClearBatch, TypeOK, StrategyKnown, BatchHasDecision
<1>10. CASE AcceptBatch
  BY <1>10 DEF AcceptBatch, TypeOK, StrategyKnown, BatchHasDecision
<1>11. CASE ApplyBuy
  <2>1. batch[k] \in Order
    BY <1>11 DEF ApplyBuy, TypeOK
  <2>2. GrossAmount(batch[k]) \in Int
    BY <2>1, CashDeltaSign
  <2>3. batch[k].ticker \in Tickers /\ batch[k].shares \in Nat
    BY <2>1 DEF Order
  <2>4. cash' \in Int /\ shares' \in [Tickers -> Nat] /\ k' \in Nat \ {0}
    BY <1>11, <2>2, <2>3, SMTT(30) DEF ApplyBuy, TypeOK
  <2> QED BY <1>11, <2>4 DEF ApplyBuy, TypeOK, StrategyKnown, BatchHasDecision
<1>12. CASE ApplySell
  <2>1. batch[k] \in Order
    BY <1>12 DEF ApplySell, TypeOK
  <2>2. GrossAmount(batch[k]) \in Int
    BY <2>1, CashDeltaSign
  <2>3. batch[k].ticker \in Tickers /\ batch[k].shares \in Nat
    BY <2>1 DEF Order
  <2>4. CASE shares[batch[k].ticker] < batch[k].shares
    BY <1>12, <2>4, MarkFailedType
    DEF ApplySell, TypeOK, StrategyKnown, BatchHasDecision, Ended
  <2>5. CASE ~(shares[batch[k].ticker] < batch[k].shares)
    <3>1. shares[batch[k].ticker] - batch[k].shares \in Nat
      BY <2>3, <2>5 DEF TypeOK
    <3>2. cash' \in Int /\ shares' \in [Tickers -> Nat] /\ k' \in Nat \ {0}
      <4>1. /\ cash' = cash + GrossAmount(batch[k])
            /\ shares' = [shares EXCEPT ![batch[k].ticker] = @ - batch[k].shares]
            /\ k' = k + 1
        BY <1>12, <2>5 DEF ApplySell
      <4>2. cash' \in Int /\ k' \in Nat \ {0}
        BY <4>1, <2>2 DEF TypeOK
      <4>3. shares' \in [Tickers -> Nat]
        BY <4>1, <2>3, <3>1 DEF TypeOK
      <4> QED BY <4>2, <4>3
    <3>3. UNCHANGED <<run, pc, saved, day, last, cumCost, decisions, decision,
                      batch, trail, request, bars>>
      BY <1>12, <2>5 DEF ApplySell
    <3>4. TypeOK'
      BY <3>2, <3>3 DEF TypeOK
    <3> QED BY <3>3, <3>4 DEF StrategyKnown, BatchHasDecision
  <2> QED BY <2>4, <2>5
<1>13. CASE SettleBatch
  <2>1. CASE cash < 0
    BY <1>13, <2>1, MarkFailedType
    DEF SettleBatch, TypeOK, StrategyKnown, BatchHasDecision, Ended
  <2>2. CASE ~(cash < 0)
    <3>1. decision \in Decision /\ decision.cost \in Nat /\ day \in Days
      BY <1>13 DEF SettleBatch, BatchHasDecision, Decision
    <3>2. cumCost' \in Nat /\ decisions' \in Seq(Decision)
      <4>1. cumCost' = cumCost + decision.cost /\ decisions' = Append(decisions, decision)
        BY <1>13, <2>2 DEF SettleBatch, Record
      <4>2. cumCost \in Nat /\ decisions \in Seq(Decision)
        BY DEF TypeOK
      <4> QED BY <4>1, <4>2, <3>1
    <3> QED BY <1>13, <2>2, <3>1, <3>2
            DEF SettleBatch, ClearBatch, TypeOK, StrategyKnown, BatchHasDecision
  <2> QED BY <2>1, <2>2
<1>14. CASE KpisRaise
  BY <1>14 DEF KpisRaise, RaiseUnmarked, TypeOK, StrategyKnown, BatchHasDecision, Ended
<1>15. CASE CompleteRun
  <2>1. IsFiniteSet(Executed)
    <3>1. Executed \subseteq 1..Len(decisions) /\ Len(decisions) \in Nat
      BY DEF Executed, TypeOK
    <3>2. IsFiniteSet(1..Len(decisions))
      BY <3>1, FS_Interval
    <3> QED BY <3>1, <3>2, FS_Subset
  <2>2. {Cardinality(Executed)} \in SUBSET Nat
    BY <2>1, FS_CardinalityType
  <2>3. UpdateStatus("completed", FALSE, {Cardinality(Executed)})
    BY <1>15 DEF CompleteRun
  <2>4. run' \in [status : {"none", "running", "completed", "failed"},
                  error : BOOLEAN, stamped : BOOLEAN, kpi : SUBSET Nat]
    BY <2>2, <2>3, UpdateStatusType
  <2> QED BY <1>15, <2>4 DEF CompleteRun, TypeOK, StrategyKnown, BatchHasDecision
<1>16. CASE SaveDecisions
  <2>1. Actionable \subseteq Decision
    BY DEF Actionable, TypeOK
  <2> QED BY <1>16, <2>1
          DEF SaveDecisions, TypeOK, StrategyKnown, BatchHasDecision, Ended
<1>17. CASE CheckViolation
  BY <1>17 DEF CheckViolation, RaiseUnmarked, TypeOK, StrategyKnown,
               BatchHasDecision, Ended
<1>18. CASE Crash
  BY <1>18 DEF Crash, TypeOK, StrategyKnown, BatchHasDecision, Ended
<1>19. CASE UNCHANGED vars
  BY <1>19 DEF vars, TypeOK, StrategyKnown, BatchHasDecision
<1> QED BY <1>1, <1>2, <1>3, <1>4, <1>5, <1>6, <1>7, <1>8, <1>9, <1>10, <1>11,
           <1>12, <1>13, <1>14, <1>15, <1>16, <1>17, <1>18, <1>19
        DEF Next, SimulateStep

\* The state of a back-test is well typed for every universe, calendar, price
\* history and request: shares are never negative, whatever the strategy
\* orders, and every decision carries well-formed orders and a cost.
THEOREM TypeCorrect == Spec => []TypeOK
<1>1. TypeInv => TypeOK
  BY DEF TypeInv
<1> QED BY TypeInit, TypeStep, <1>1, PTL DEF Spec

-------------------------------------------------------------------------------
(* The cash.                                                                *)

\* With every SELL before any BUY and the last projected value affordable, no
\* projected value is negative: one reached by SELLs alone is above the cash
\* the batch started with, any other one is above the last.
LEMMA TrailNonNegative ==
    ASSUME TypeOK, SellsFirst, Follows(trail, batch),
           Len(trail) = Len(batch) + 1, Projected >= 0,
           NEW i \in 1..Len(trail)
    PROVE  trail[i] >= 0
<1>1. Len(batch) \in Nat /\ Len(trail) \in Nat
  BY DEF TypeOK
<1>2. \A m \in 1..Len(batch) : batch[m].side \in {"BUY", "SELL"}
  <2>1. \A m \in 1..Len(batch) : batch[m] \in Order
    BY DEF TypeOK
  <2> QED BY <2>1 DEF Order
<1>3. CASE \A m \in 1..(i - 1) : batch[m].side = "SELL"
  BY <1>3 DEF Follows
<1>4. CASE ~\A m \in 1..(i - 1) : batch[m].side = "SELL"
  <2>1. PICK m \in 1..(i - 1) : batch[m].side = "BUY"
    BY <1>1, <1>2, <1>4
  <2>2. \A n \in i..(Len(trail) - 1) : batch[n].side = "BUY"
    <3> SUFFICES ASSUME NEW n \in i..(Len(trail) - 1) PROVE batch[n].side = "BUY"
      OBVIOUS
    <3>1. m \in 1..Len(batch) /\ n \in 1..Len(batch) /\ m < n
      BY <1>1, <2>1
    <3> QED BY <1>2, <2>1, <3>1 DEF SellsFirst
  <2>3. Len(trail) \in 1..Len(trail) /\ i <= Len(trail)
    BY <1>1
  <2>4. trail[Len(trail)] <= trail[i]
    BY <2>2, <2>3 DEF Follows
  <2>5. trail[i] \in Int /\ trail[Len(trail)] \in Int
    BY <2>3 DEF TypeOK
  <2> QED BY <2>4, <2>5 DEF Projected
<1> QED BY <1>3, <1>4

\* Projecting one more order keeps the shape of the trail.
LEMMA TrailGrows ==
    ASSUME NEW b \in Seq(Order), NEW tr \in Seq(Int), NEW n \in Nat, NEW tr2,
           Follows(tr, b), n = Len(tr), n <= Len(b),
           tr2 = Append(tr, tr[n] + CashDelta(b[n]))
    PROVE  Follows(tr2, b)
<1>1. n >= 1 /\ Len(b) \in Nat
  BY DEF Follows
<1>2. b[n] \in Order /\ tr[n] \in Int
  BY <1>1
<1>3. /\ CashDelta(b[n]) \in Int
      /\ b[n].side = "SELL" => CashDelta(b[n]) >= 0
      /\ b[n].side = "BUY" => CashDelta(b[n]) <= 0
  BY <1>2, CashDeltaSign
<1>4. /\ Len(tr2) = n + 1
      /\ \A i \in 1..n : tr2[i] = tr[i]
      /\ tr2[n + 1] = tr[n] + CashDelta(b[n])
  BY <1>1, <1>2, <1>3
<1>rising. \A i \in 1..n :
               (\A m \in 1..(i - 1) : b[m].side = "SELL") => tr[i] >= 0
  BY DEF Follows
<1>falling. \A i, j \in 1..n :
                i <= j /\ (\A m \in i..(j - 1) : b[m].side = "BUY") => tr[j] <= tr[i]
  BY DEF Follows
<1>5. ASSUME NEW i \in 1..(n + 1), \A m \in 1..(i - 1) : b[m].side = "SELL"
      PROVE  tr2[i] >= 0
  <2>1. CASE i <= n
    <3>1. tr[i] >= 0
      BY <1>1, <1>5, <1>rising, <2>1
    <3> QED BY <1>4, <2>1, <3>1
  <2>2. CASE i = n + 1
    <3>1. tr[n] >= 0
      BY <1>1, <1>5, <2>2 DEF Follows
    <3>2. b[n].side = "SELL"
      BY <1>1, <1>5, <2>2
    <3> QED BY <1>2, <1>3, <1>4, <2>2, <3>1, <3>2
  <2> QED BY <2>1, <2>2
<1>6. ASSUME NEW i \in 1..(n + 1), NEW j \in 1..(n + 1), i <= j,
             \A m \in i..(j - 1) : b[m].side = "BUY"
      PROVE  tr2[j] <= tr2[i]
  <2>1. CASE j <= n
    <3>1. tr[j] <= tr[i]
      <4>1. i \in 1..n /\ j \in 1..n
        BY <1>6, <2>1
      <4> QED BY <4>1, <1>6, <1>falling
    <3> QED BY <1>4, <1>6, <2>1, <3>1
  <2>2. CASE i = n + 1
    <3>1. i = j /\ tr2[i] = tr[n] + CashDelta(b[n])
      BY <1>4, <1>6, <2>2
    <3> QED BY <1>2, <1>3, <3>1
  <2>3. CASE j = n + 1 /\ i <= n
    <3>1. \A m \in i..(n - 1) : b[m].side = "BUY"
      BY <1>6, <2>3
    <3>2. tr[n] <= tr[i]
      <4>1. i \in 1..n /\ n \in 1..n
        BY <1>1, <2>3
      <4> QED BY <4>1, <2>3, <3>1, <1>falling
    <3>3. b[n].side = "BUY"
      BY <1>1, <1>6, <2>3
    <3>4. tr[i] \in Int
      BY <1>1, <2>3
    <3> QED BY <1>2, <1>3, <1>4, <2>3, <3>2, <3>3, <3>4
  <2> QED BY <1>6, <2>1, <2>2, <2>3
<1>7. ASSUME NEW i \in 1..n
      PROVE  tr2[i + 1] = tr2[i] + CashDelta(b[i])
  <2>1. CASE i = n
    BY <1>1, <1>4, <2>1
  <2>2. CASE i < n
    <3>1. tr[i + 1] = tr[i] + CashDelta(b[i])
      BY <2>2 DEF Follows
    <3> QED BY <1>4, <2>2, <3>1
  <2> QED BY <2>1, <2>2
<1>8. Len(tr2) \in 1..(Len(b) + 1)
  BY <1>1, <1>4
<1> QED BY <1>4, <1>5, <1>6, <1>7, <1>8 DEF Follows

LEMMA BudgetInit == Init => BatchWithinBudget
<1> SUFFICES ASSUME Init PROVE BatchWithinBudget
  OBVIOUS
<1>1. cash >= 0
  BY RequestsAssumption DEF Init
<1> QED BY <1>1 DEF Init, BatchWithinBudget

\* A step that leaves the book and the batch alone, and does not enter the
\* batch phases, keeps the budget.
LEMMA BudgetIdle ==
    ASSUME BatchWithinBudget, UNCHANGED <<cash, k>>,
           \/ pc' \in Ended \cup {"persist"}
           \/ pc' = "loop" /\ pc \in {"loop", "configure"}
           \/ pc' \in {"load", "configure"} /\ pc \in {"start", "load"}
    PROVE  BatchWithinBudget'
BY DEF BatchWithinBudget, Ended

LEMMA BudgetStep == TypeInv /\ BatchWithinBudget /\ [Next]_vars => BatchWithinBudget'
<1> SUFFICES ASSUME TypeInv, BatchWithinBudget, [Next]_vars
             PROVE  BatchWithinBudget'
  OBVIOUS
<1> USE DEF request_vars, db_vars, book_vars, log_vars, batch_vars
<1>1. CASE SaveRun
  BY <1>1, BudgetIdle DEF SaveRun
<1>2. CASE LoadPrices
  BY <1>2, BudgetIdle DEF LoadPrices
<1>3. CASE NoPriceData
  BY <1>3, BudgetIdle DEF NoPriceData, MarkFailedAndRaise, Ended
<1>4. CASE CostModelRaises
  BY <1>4, BudgetIdle DEF CostModelRaises, RaiseUnmarked, Ended
<1>5. CASE StrategyFactoryRaises
  BY <1>5, BudgetIdle DEF StrategyFactoryRaises, MarkFailedAndRaise, Ended
<1>6. CASE Configure
  BY <1>6, BudgetIdle DEF Configure
<1>7. ASSUME NEW d \in Days, DayStep(d)
      PROVE  BatchWithinBudget'
  <2>1. CASE NoTrigger(d)
    BY <2>1, BudgetIdle DEF NoTrigger, QuietDay
  <2>2. CASE ZeroShares(d)
    BY <2>2, BudgetIdle DEF ZeroShares, QuietDay
  <2>3. CASE StrategyRaises(d)
    BY <2>3, BudgetIdle DEF StrategyRaises, MarkFailedAndRaise, Ended
  <2>4. CASE LotRuleMissing(d)
    BY <2>4, BudgetIdle DEF LotRuleMissing, RaiseUnmarked, Ended
  <2>5. CASE AllBelowOneLot(d)
    BY <2>5, BudgetIdle DEF AllBelowOneLot, WantsOrders, QuietDay
  <2>6. CASE ProposeBatch(d)
    <3>1. /\ batch' \in SellFirst(Enforced(d)) /\ trail' = <<cash>>
          /\ pc = "loop" /\ pc' = "precheck" /\ UNCHANGED <<cash, k>>
      BY <2>6 DEF ProposeBatch, WantsOrders
    <3>2. Enforced(d) \subseteq Order /\ Cardinality(Enforced(d)) \in Nat
      BY <2>6, EnforcedType DEF ProposeBatch
    <3>3. batch' \in Seq(Order) /\ SellsFirst'
      BY <3>1, <3>2, SellFirstType DEF SellsFirst
    <3>4. cash \in Int /\ cash >= 0
      BY DEF TypeInv, TypeOK, BatchWithinBudget
    <3>5. Len(trail') = 1 /\ trail'[1] = cash /\ Len(batch') \in Nat
      BY <3>1, <3>3
    <3>6. Follows(trail', batch')
      BY <3>4, <3>5 DEF Follows
    <3> QED BY <3>1, <3>3, <3>4, <3>5, <3>6 DEF BatchWithinBudget
  <2> QED BY <1>7, <2>1, <2>2, <2>3, <2>4, <2>5, <2>6 DEF DayStep
<1>8. CASE PreCheckOrder
  <2>1. /\ batch \in Seq(Order) /\ trail \in Seq(Int) /\ Len(trail) \in Nat
        /\ Len(trail) <= Len(batch) /\ pc = "precheck" /\ pc' = "precheck"
        /\ trail' = Append(trail, trail[Len(trail)] + CashDelta(batch[Len(trail)]))
        /\ UNCHANGED <<cash, k, batch>>
    BY <1>8 DEF PreCheckOrder, Projected, TypeInv, TypeOK
  <2>2. Follows(trail, batch)
    BY <2>1 DEF BatchWithinBudget
  <2>3. Follows(trail', batch)
    BY <2>1, <2>2, TrailGrows
  <2>4. SellsFirst'
    BY <2>1 DEF SellsFirst, BatchWithinBudget
  <2>5. trail'[1] = trail[1]
    <3>1. Len(trail) >= 1
      BY <2>2 DEF Follows
    <3>2. batch[Len(trail)] \in Order /\ trail[Len(trail)] \in Int
      BY <2>1, <3>1
    <3>3. trail[Len(trail)] + CashDelta(batch[Len(trail)]) \in Int
      BY <3>2, CashDeltaSign
    <3> QED BY <2>1, <3>1, <3>3
  <2> QED BY <2>1, <2>3, <2>4, <2>5 DEF BatchWithinBudget
<1>9. CASE DowngradeBatch
  BY <1>9 DEF DowngradeBatch, ClearBatch, BatchWithinBudget
<1>10. CASE AcceptBatch
  <2>1. /\ pc = "precheck" /\ pc' = "apply" /\ Len(trail) > Len(batch)
        /\ Projected >= 0 /\ UNCHANGED <<cash, k, batch, trail>>
    BY <1>10 DEF AcceptBatch
  <2>2. Follows(trail, batch) /\ SellsFirst /\ k = 1 /\ cash = trail[1]
    BY <2>1 DEF BatchWithinBudget
  <2>3. Len(batch) \in Nat /\ Len(trail) = Len(batch) + 1
    BY <2>1, <2>2 DEF Follows, TypeInv, TypeOK
  <2>4. /\ SellsFirst' /\ Follows(trail', batch') /\ Projected' >= 0
    BY <2>1, <2>2 DEF SellsFirst, Projected
  <2> QED BY <2>1, <2>2, <2>3, <2>4 DEF BatchWithinBudget
<1>11. ASSUME pc = "apply", pc' = "apply", k <= Len(batch),
              cash' = cash + CashDelta(batch[k]), k' = k + 1,
              UNCHANGED <<batch, trail>>
       PROVE  BatchWithinBudget'
  <2>1. /\ SellsFirst /\ Follows(trail, batch) /\ Len(trail) = Len(batch) + 1
        /\ Projected >= 0 /\ k \in 1..Len(trail) /\ cash = trail[k]
    BY <1>11 DEF BatchWithinBudget
  <2>2. Len(batch) \in Nat /\ k \in 1..(Len(trail) - 1) /\ k' \in 1..Len(trail)
    BY <1>11, <2>1 DEF TypeInv, TypeOK
  <2>3. trail[k + 1] = trail[k] + CashDelta(batch[k])
    BY <2>2, <2>1 DEF Follows
  <2>4. cash' = trail[k']
    BY <1>11, <2>1, <2>3
  <2>5. trail[k'] >= 0
    BY <2>1, <2>2, TrailNonNegative DEF TypeInv
  <2>6. SellsFirst' /\ Follows(trail', batch') /\ Projected' >= 0
    BY <1>11, <2>1 DEF SellsFirst, Projected
  <2> QED BY <1>11, <2>1, <2>2, <2>4, <2>5, <2>6 DEF BatchWithinBudget
<1>12. CASE ApplyBuy
  <2>1. batch[k] \in Order
    BY <1>12 DEF ApplyBuy, TypeInv, TypeOK
  <2>2. cash - GrossAmount(batch[k]) = cash + CashDelta(batch[k])
    BY <1>12, <2>1, CashDeltaSign DEF ApplyBuy, TypeInv, TypeOK
  <2> QED BY <1>11, <1>12, <2>2 DEF ApplyBuy
<1>13. CASE ApplySell
  <2>1. CASE shares[batch[k].ticker] < batch[k].shares
    BY <1>13, <2>1, BudgetIdle DEF ApplySell, MarkFailedAndRaise, Ended
  <2>2. CASE ~(shares[batch[k].ticker] < batch[k].shares)
    <3>1. batch[k] \in Order
      BY <1>13 DEF ApplySell, TypeInv, TypeOK
    <3>2. cash + GrossAmount(batch[k]) = cash + CashDelta(batch[k])
      BY <1>13, <3>1, CashDeltaSign DEF ApplySell
    <3> QED BY <1>11, <1>13, <2>2, <3>2 DEF ApplySell
  <2> QED BY <2>1, <2>2
<1>14. CASE SettleBatch
  <2>1. CASE cash < 0
    BY <1>14, <2>1, BudgetIdle DEF SettleBatch, MarkFailedAndRaise, Ended
  <2>2. CASE ~(cash < 0)
    BY <1>14, <2>2 DEF SettleBatch, ClearBatch, BatchWithinBudget
  <2> QED BY <2>1, <2>2
<1>15. CASE KpisRaise
  BY <1>15, BudgetIdle DEF KpisRaise, RaiseUnmarked, Ended
<1>16. CASE CompleteRun
  BY <1>16, BudgetIdle DEF CompleteRun
<1>17. CASE SaveDecisions
  BY <1>17, BudgetIdle DEF SaveDecisions, Ended
<1>18. CASE CheckViolation
  BY <1>18, BudgetIdle DEF CheckViolation, RaiseUnmarked, Ended
<1>19. CASE Crash
  BY <1>19, BudgetIdle DEF Crash, Ended
<1>20. CASE UNCHANGED vars
  BY <1>20 DEF vars, BatchWithinBudget, SellsFirst, Projected
<1> QED BY <1>1, <1>2, <1>3, <1>4, <1>5, <1>6, <1>7, <1>8, <1>9, <1>10, <1>12,
           <1>13, <1>14, <1>15, <1>16, <1>17, <1>18, <1>19, <1>20
        DEF Next, SimulateStep

\* The budget check and the SELL-first sort are enough: for every request and
\* price history the inductive invariant that ties cash to the projected
\* values holds.
THEOREM BudgetInvariant == Spec => [](TypeInv /\ BatchWithinBudget)
BY TypeInit, TypeStep, BudgetInit, BudgetStep, PTL DEF Spec

\* Portfolio.cash is never below zero, not even between two orders of a batch.
THEOREM CashSafe == Spec => []CashNeverNegative
<1>1. BatchWithinBudget => CashNeverNegative
  BY DEF BatchWithinBudget, CashNeverNegative
<1> QED BY BudgetInvariant, <1>1, PTL

-------------------------------------------------------------------------------
(* Refinement of RunLifecycle.                                              *)

\* Which status each phase of the call meets; nothing is saved before its end.
PhaseInv ==
    /\ pc = "start" => run.status = "none"
    /\ pc \in {"load", "configure", "loop", "precheck", "apply"} => run.status = "running"
    /\ pc = "persist" => run.status = "completed"
    /\ pc \notin Ended => saved = {}

\* The rows save_batch inserts are finitely many.
LEMMA ActionableFinite == TypeOK => Cardinality(Actionable) \in Nat
<1> SUFFICES ASSUME TypeOK PROVE Cardinality(Actionable) \in Nat
  OBVIOUS
<1> DEFINE D == {j \in DOMAIN decisions : decisions[j].reason # "no_trigger"}
           f == [j \in D |-> decisions[j]]
<1>1. D \subseteq 1..Len(decisions) /\ Len(decisions) \in Nat
  BY DEF TypeOK
<1>2. IsFiniteSet(1..Len(decisions))
  BY <1>1, FS_Interval
<1>3. IsFiniteSet(D)
  BY <1>1, <1>2, FS_Subset
<1>4. Actionable = {decisions[i] : i \in D}
  BY DEF Actionable
<1>5. f \in Surjection(D, Actionable)
  BY <1>4 DEF Surjection
<1> HIDE DEF D, f
<1>6. IsFiniteSet(Actionable)
  BY <1>3, <1>5, FS_Surjection
<1> QED BY <1>6, FS_CardinalityType

LEMMA LifecycleInit == Init => Lifecycle!Init /\ PhaseInv
<1> SUFFICES ASSUME Init PROVE Lifecycle!Init /\ PhaseInv
  OBVIOUS
<1>1. run.status = "none" /\ Cardinality(saved) = 0 /\ pc \notin Ended
  BY FS_EmptySet DEF Init, NoRun, Ended
<1> QED BY <1>1 DEF Init, PhaseInv, Ended, NoRun, Lifecycle!Init

\* A failure marked before the exception is the abstract Fail, an exception
\* nobody marks is the abstract Stop.
LEMMA MarkedIsFail ==
    ASSUME TypeOK, MarkFailedAndRaise, run.status = "running", pc \notin Ended,
           UNCHANGED saved
    PROVE  Lifecycle!Fail /\ PhaseInv'
<1>1. run'.status = "failed" /\ pc' = "raised" /\ pc' \in Ended
  BY DEF MarkFailedAndRaise, UpdateStatus, TypeOK, Ended
<1> QED BY <1>1 DEF Lifecycle!Fail, PhaseInv, Ended

LEMMA UnmarkedIsStop ==
    ASSUME pc \notin Ended, pc' \in Ended, UNCHANGED <<run, saved>>
    PROVE  Lifecycle!Stop /\ PhaseInv'
BY DEF Lifecycle!Stop, PhaseInv, Ended

\* A step inside the call that leaves both tables alone is a stutter.
LEMMA InsideIsStutter ==
    ASSUME PhaseInv, UNCHANGED <<run, saved>>,
           pc \in {"load", "configure", "loop", "precheck", "apply"},
           pc' \in {"load", "configure", "loop", "precheck", "apply"}
    PROVE  UNCHANGED Lifecycle!lifecycle /\ PhaseInv'
BY DEF PhaseInv, Lifecycle!lifecycle, Ended

LEMMA LifecycleStep ==
    TypeOK /\ PhaseInv /\ [Next]_vars => [Lifecycle!Next]_(Lifecycle!lifecycle) /\ PhaseInv'
<1> SUFFICES ASSUME TypeOK, PhaseInv, [Next]_vars
             PROVE  [Lifecycle!Next]_(Lifecycle!lifecycle) /\ PhaseInv'
  OBVIOUS
<1> USE DEF request_vars, db_vars, book_vars, log_vars, batch_vars
<1>1. CASE SaveRun
  <2>1. run.status = "none" /\ run'.status = "running" /\ pc' = "load" /\ pc = "start"
        /\ saved' = saved
    BY <1>1 DEF SaveRun, PhaseInv, NoRun
  <2> QED BY <2>1 DEF Lifecycle!Next, Lifecycle!Open, PhaseInv, Ended
<1>2. CASE LoadPrices \/ Configure \/ PreCheckOrder \/ DowngradeBatch \/ AcceptBatch
           \/ ApplyBuy
  BY <1>2, InsideIsStutter
  DEF LoadPrices, Configure, PreCheckOrder, DowngradeBatch, AcceptBatch, ApplyBuy
<1>3. CASE NoPriceData \/ StrategyFactoryRaises
  <2>1. /\ MarkFailedAndRaise /\ run.status = "running" /\ pc \notin Ended
        /\ UNCHANGED saved
    BY <1>3 DEF NoPriceData, StrategyFactoryRaises, PhaseInv, Ended
  <2> QED BY <2>1, MarkedIsFail DEF Lifecycle!Next
<1>4. CASE CostModelRaises \/ KpisRaise \/ CheckViolation \/ Crash
  <2>1. pc \notin Ended /\ pc' \in Ended /\ UNCHANGED <<run, saved>>
    BY <1>4 DEF CostModelRaises, KpisRaise, CheckViolation, Crash, RaiseUnmarked, Ended
  <2> QED BY <2>1, UnmarkedIsStop DEF Lifecycle!Next
<1>5. ASSUME NEW d \in Days, DayStep(d)
      PROVE  [Lifecycle!Next]_(Lifecycle!lifecycle) /\ PhaseInv'
  <2>1. CASE NoTrigger(d) \/ ZeroShares(d) \/ AllBelowOneLot(d) \/ ProposeBatch(d)
    <3>1. /\ UNCHANGED <<run, saved>> /\ pc = "loop"
          /\ pc' \in {"loop", "precheck"}
      BY <2>1 DEF NoTrigger, ZeroShares, AllBelowOneLot, ProposeBatch, QuietDay,
                  WantsOrders
    <3> QED BY <3>1, InsideIsStutter
  <2>2. CASE StrategyRaises(d)
    <3>1. /\ MarkFailedAndRaise /\ run.status = "running" /\ pc \notin Ended
          /\ UNCHANGED saved
      BY <2>2 DEF StrategyRaises, PhaseInv, Ended
    <3> QED BY <3>1, MarkedIsFail DEF Lifecycle!Next
  <2>3. CASE LotRuleMissing(d)
    <3>1. pc \notin Ended /\ pc' \in Ended /\ UNCHANGED <<run, saved>>
      BY <2>3 DEF LotRuleMissing, WantsOrders, RaiseUnmarked, Ended
    <3> QED BY <3>1, UnmarkedIsStop DEF Lifecycle!Next
  <2> QED BY <1>5, <2>1, <2>2, <2>3 DEF DayStep
<1>6. CASE ApplySell
  <2>1. CASE shares[batch[k].ticker] < batch[k].shares
    <3>1. /\ MarkFailedAndRaise /\ run.status = "running" /\ pc \notin Ended
          /\ UNCHANGED saved
      BY <1>6, <2>1 DEF ApplySell, PhaseInv, Ended
    <3> QED BY <3>1, MarkedIsFail DEF Lifecycle!Next
  <2>2. CASE ~(shares[batch[k].ticker] < batch[k].shares)
    BY <1>6, <2>2, InsideIsStutter DEF ApplySell
  <2> QED BY <2>1, <2>2
<1>7. CASE SettleBatch
  <2>1. CASE cash < 0
    <3>1. /\ MarkFailedAndRaise /\ run.status = "running" /\ pc \notin Ended
          /\ UNCHANGED saved
      BY <1>7, <2>1 DEF SettleBatch, PhaseInv, Ended
    <3> QED BY <3>1, MarkedIsFail DEF Lifecycle!Next
  <2>2. CASE ~(cash < 0)
    BY <1>7, <2>2, InsideIsStutter DEF SettleBatch
  <2> QED BY <2>1, <2>2
<1>8. CASE CompleteRun
  <2>1. /\ run.status = "running" /\ run'.status = "completed" /\ pc = "loop"
        /\ pc' = "persist" /\ saved' = saved /\ saved = {}
    BY <1>8 DEF CompleteRun, UpdateStatus, PhaseInv, TypeOK, Ended
  <2> QED BY <2>1 DEF Lifecycle!Next, Lifecycle!Complete, PhaseInv, Ended
<1>9. CASE SaveDecisions
  <2>1. /\ run.status = "completed" /\ run' = run /\ pc = "persist"
        /\ pc' = "returned" /\ saved' = Actionable
    BY <1>9 DEF SaveDecisions, PhaseInv
  <2>2. Cardinality(saved') \in Nat
    BY <2>1, ActionableFinite
  <2> QED BY <2>1, <2>2 DEF Lifecycle!Next, Lifecycle!Persist, PhaseInv, Ended
<1>10. CASE UNCHANGED vars
  BY <1>10 DEF vars, PhaseInv, Lifecycle!lifecycle
<1> QED BY <1>1, <1>2, <1>3, <1>4, <1>5, <1>6, <1>7, <1>8, <1>9, <1>10
        DEF Next, SimulateStep

\* What the two tables show of a back-test is the abstract run: opened once,
\* closed at most once, its rows all at once, after completion and as the last
\* write of the call.
THEOREM ImplementsLifecycle == Spec => LifecycleSpec
<1>1. TypeInv => TypeOK
  BY DEF TypeInv
<1> QED BY TypeInit, TypeStep, LifecycleInit, LifecycleStep, <1>1, PTL
        DEF Spec, LifecycleSpec, Lifecycle!Spec

-------------------------------------------------------------------------------
(* Sums.  A fold over a finite set, by the smallest set it could fail for.  *)

\* Every non-empty family of subsets of a finite set has a smallest one by inclusion.
LEMMA SmallestSubset ==
    ASSUME NEW S, IsFiniteSet(S), NEW F, F \subseteq SUBSET S, F # {}
    PROVE  \E T \in F : \A U \in F : U \subseteq T => U = T
<1>1. FiniteSubsetsOf(S) = SUBSET S
  BY FS_FiniteSubsetsOfFinite
<1>2. IsWellFoundedOn(StrictSubsetOrdering(S), SUBSET S)
  BY <1>1, FS_StrictSubsetOrderingWellFounded
<1>3. \E T \in F : \A U \in F : ~(<<U, T>> \in StrictSubsetOrdering(S))
  BY <1>2, WFMin
<1> QED BY <1>3 DEF StrictSubsetOrdering

Pick(s) == CHOOSE x \in s : TRUE

Rest(s) == s \ {Pick(s)}

\* f is the running sum of w over the subsets of S, as MapThenFoldSet computes it.
Sums(f, S, w) ==
    f = [s \in SUBSET S |-> IF s = {} THEN 0 ELSE w[Pick(s)] + f[Rest(s)]]

\* What is picked is in the set, and the rest is smaller.
LEMMA PickIsIn == ASSUME NEW s, s # {} PROVE Pick(s) \in s /\ Rest(s) \subseteq s /\ Rest(s) # s
BY DEF Pick, Rest

\* Two running sums of the same weights agree wherever both are defined.
LEMMA SumsAgree ==
    ASSUME NEW S, IsFiniteSet(S), NEW T, NEW w, NEW f, NEW g, Sums(f, S, w), Sums(g, T, w),
           NEW s, s \subseteq S, s \subseteq T
    PROVE  f[s] = g[s]
<1> DEFINE F == {u \in SUBSET S : u \subseteq T /\ f[u] # g[u]}
<1>1. SUFFICES ASSUME F # {} PROVE FALSE
  OBVIOUS
<1>2. PICK u \in F : \A v \in F : v \subseteq u => v = u
  <2>1. F \subseteq SUBSET S
    OBVIOUS
  <2> HIDE DEF F
  <2> QED BY <1>1, <2>1, SmallestSubset
<1>3. u \in SUBSET S /\ u \in SUBSET T /\ f[u] # g[u]
  OBVIOUS
<1>4. /\ f[u] = IF u = {} THEN 0 ELSE w[Pick(u)] + f[Rest(u)]
      /\ g[u] = IF u = {} THEN 0 ELSE w[Pick(u)] + g[Rest(u)]
  BY <1>3 DEF Sums
<1>5. u # {} => f[Rest(u)] = g[Rest(u)]
  BY <1>2, PickIsIn
<1> QED BY <1>3, <1>4, <1>5

\* There is a running sum over every finite set.
LEMMA SumsExist ==
    ASSUME NEW S, IsFiniteSet(S), NEW w
    PROVE  \E f : Sums(f, S, w)
<1> DEFINE F == {T \in SUBSET S : ~\E f : Sums(f, T, w)}
<1>1. SUFFICES ASSUME F # {} PROVE FALSE
  OBVIOUS
<1>2. PICK T \in F : \A U \in F : U \subseteq T => U = T
  <2>1. F \subseteq SUBSET S
    OBVIOUS
  <2> HIDE DEF F
  <2> QED BY <1>1, <2>1, SmallestSubset
<1>3. T \in SUBSET S /\ ~\E f : Sums(f, T, w)
  OBVIOUS
<1> DEFINE h(U) == CHOOSE f : Sums(f, U, w)
           g == [s \in SUBSET T |-> IF s = {} THEN 0 ELSE w[Pick(s)] + h(Rest(s))[Rest(s)]]
<1>4. ASSUME NEW U, U \subseteq T, U # T PROVE Sums(h(U), U, w)
  <2>1. U \in SUBSET S
    BY <1>3, <1>4
  <2> QED BY <1>2, <1>4, <2>1
<1> HIDE DEF h, F
<1>5. ASSUME NEW U, U \subseteq T, U # T PROVE g[U] = h(U)[U]
  <2>1. h(U)[U] = IF U = {} THEN 0 ELSE w[Pick(U)] + h(U)[Rest(U)]
    BY <1>4, <1>5 DEF Sums
  <2>2. CASE U = {}
    BY <1>5, <2>1, <2>2
  <2>3. CASE U # {}
    <3>1. Rest(U) \subseteq U /\ Rest(U) # U
      BY <2>3, PickIsIn
    <3>2. Rest(U) \subseteq T /\ Rest(U) # T
      BY <3>1, <1>5
    <3>3. Sums(h(U), U, w) /\ Sums(h(Rest(U)), Rest(U), w)
      BY <1>4, <1>5, <3>2
    <3>4. IsFiniteSet(U)
      BY <1>3, <1>5, FS_Subset
    <3>5. h(U)[Rest(U)] = h(Rest(U))[Rest(U)]
      BY <3>1, <3>3, <3>4, SumsAgree
    <3> QED BY <1>5, <2>1, <2>3, <3>5
  <2> QED BY <2>2, <2>3
<1>6. ASSUME NEW s \in SUBSET T, s # {} PROVE g[Rest(s)] = h(Rest(s))[Rest(s)]
  <2>1. Rest(s) \subseteq T /\ Rest(s) # T
    BY <1>6, PickIsIn
  <2> HIDE DEF g
  <2> QED BY <1>5, <2>1
<1>7. g = [s \in SUBSET T |-> IF s = {} THEN 0 ELSE w[Pick(s)] + g[Rest(s)]]
  BY <1>6
<1>8. Sums(g, T, w)
  BY <1>7 DEF Sums
<1> QED BY <1>3, <1>8

Total(S, w) == (CHOOSE f : Sums(f, S, w))[S]

\* The total of nothing.
LEMMA TotalEmpty == ASSUME NEW w PROVE Total({}, w) = 0
<1>1. PICK f : Sums(f, {}, w)
  BY SumsExist, FS_EmptySet
<1>2. Sums(CHOOSE g : Sums(g, {}, w), {}, w)
  BY <1>1
<1> QED BY <1>2 DEF Total, Sums

\* A total is one weight and the total of the rest.
LEMMA TotalPick ==
    ASSUME NEW S, IsFiniteSet(S), S # {}, NEW w
    PROVE  Total(S, w) = w[Pick(S)] + Total(Rest(S), w)
<1> DEFINE f == CHOOSE g : Sums(g, S, w)
           r == CHOOSE g : Sums(g, Rest(S), w)
<1>1. Rest(S) \subseteq S /\ IsFiniteSet(Rest(S))
  BY PickIsIn, FS_Subset
<1>2. Sums(f, S, w) /\ Sums(r, Rest(S), w)
  BY <1>1, SumsExist
<1> HIDE DEF f, r
<1>3. f[Rest(S)] = r[Rest(S)]
  BY <1>1, <1>2, SumsAgree
<1>4. f[S] = w[Pick(S)] + f[Rest(S)]
  BY <1>2 DEF Sums
<1> QED BY <1>3, <1>4 DEF Total, f, r

\* A total of integers is an integer, of non-negative ones it is non-negative.
LEMMA TotalInt ==
    ASSUME NEW S, IsFiniteSet(S), NEW w, \A x \in S : w[x] \in Int
    PROVE  /\ Total(S, w) \in Int
           /\ (\A x \in S : w[x] >= 0) => Total(S, w) >= 0
<1> DEFINE OK(T) == /\ Total(T, w) \in Int
                    /\ (\A x \in S : w[x] >= 0) => Total(T, w) >= 0
           F == {T \in SUBSET S : ~OK(T)}
<1>1. SUFFICES ASSUME F # {} PROVE FALSE
  OBVIOUS
<1>2. PICK T \in F : \A U \in F : U \subseteq T => U = T
  <2>1. F \subseteq SUBSET S
    OBVIOUS
  <2> HIDE DEF F
  <2> QED BY <1>1, <2>1, SmallestSubset
<1>3. T \in SUBSET S /\ ~OK(T) /\ IsFiniteSet(T)
  BY FS_Subset
<1>4. T # {}
  BY <1>3, TotalEmpty
<1>5. Pick(T) \in S /\ Rest(T) \subseteq T /\ Rest(T) # T
  BY <1>3, <1>4, PickIsIn
<1>6. OK(Rest(T))
  <2>1. Rest(T) \in SUBSET S
    BY <1>3, <1>5
  <2>2. Rest(T) \notin F
    BY <1>2, <1>5
  <2> QED BY <2>1, <2>2
<1>7. Total(T, w) = w[Pick(T)] + Total(Rest(T), w)
  BY <1>3, <1>4, TotalPick
<1> QED BY <1>3, <1>5, <1>6, <1>7

\* Equal weights have equal totals.
LEMMA TotalSame ==
    ASSUME NEW S, IsFiniteSet(S), NEW v, NEW w, \A x \in S : v[x] = w[x]
    PROVE  Total(S, v) = Total(S, w)
<1> DEFINE F == {T \in SUBSET S : Total(T, v) # Total(T, w)}
<1>1. SUFFICES ASSUME F # {} PROVE FALSE
  OBVIOUS
<1>2. PICK T \in F : \A U \in F : U \subseteq T => U = T
  <2>1. F \subseteq SUBSET S
    OBVIOUS
  <2> HIDE DEF F
  <2> QED BY <1>1, <2>1, SmallestSubset
<1>3. T \in SUBSET S /\ Total(T, v) # Total(T, w) /\ IsFiniteSet(T)
  BY FS_Subset
<1>4. T # {}
  BY <1>3, TotalEmpty
<1>5. Pick(T) \in S /\ Rest(T) \subseteq T /\ Rest(T) # T
  BY <1>3, <1>4, PickIsIn
<1>6. Total(Rest(T), v) = Total(Rest(T), w)
  <2>1. Rest(T) \in SUBSET S
    BY <1>3, <1>5
  <2>2. Rest(T) \notin F
    BY <1>2, <1>5
  <2> QED BY <2>1, <2>2
<1> QED BY <1>3, <1>4, <1>5, <1>6, TotalPick

\* Any one weight can be taken out of a total, whatever the order of the fold.
LEMMA TotalWithout ==
    ASSUME NEW S, IsFiniteSet(S), NEW w, \A x \in S : w[x] \in Int, NEW x \in S
    PROVE  Total(S, w) = w[x] + Total(S \ {x}, w)
<1> DEFINE F == {T \in SUBSET S : \E y \in T : Total(T, w) # w[y] + Total(T \ {y}, w)}
<1>1. SUFFICES ASSUME F # {} PROVE FALSE
  OBVIOUS
<1>2. PICK T \in F : \A U \in F : U \subseteq T => U = T
  <2>1. F \subseteq SUBSET S
    OBVIOUS
  <2> HIDE DEF F
  <2> QED BY <1>1, <2>1, SmallestSubset
<1>3. PICK y \in T : Total(T, w) # w[y] + Total(T \ {y}, w)
  OBVIOUS
<1> DEFINE p == Pick(T)
           both == T \ {p, y}
<1>4. T \in SUBSET S /\ T # {} /\ IsFiniteSet(T) /\ p \in T /\ Rest(T) = T \ {p}
  BY <1>3, FS_Subset, PickIsIn DEF Rest
<1>5. Total(T, w) = w[p] + Total(T \ {p}, w)
  BY <1>4, TotalPick
<1>6. p # y
  BY <1>3, <1>5
<1>7. T \ {p} \notin F /\ T \ {y} \notin F
  BY <1>2, <1>3, <1>4
<1>8. (T \ {p}) \ {y} = both /\ (T \ {y}) \ {p} = both
  OBVIOUS
<1>9. Total(T \ {p}, w) = w[y] + Total(both, w)
  <2>1. y \in T \ {p} /\ T \ {p} \in SUBSET S
    BY <1>3, <1>4, <1>6
  <2> QED BY <1>7, <1>8, <2>1
<1>10. Total(T \ {y}, w) = w[p] + Total(both, w)
  <2>1. p \in T \ {y} /\ T \ {y} \in SUBSET S
    BY <1>4, <1>6
  <2> QED BY <1>7, <1>8, <2>1
<1>11. w[p] \in Int /\ w[y] \in Int /\ Total(both, w) \in Int
  <2>1. both \in SUBSET S
    BY <1>4
  <2>2. IsFiniteSet(both)
    BY <2>1, FS_Subset
  <2> QED BY <1>3, <1>4, <2>1, <2>2, TotalInt
<1> HIDE DEF p, both, F
<1> QED BY <1>3, <1>5, <1>9, <1>10, <1>11
-------------------------------------------------------------------------------
(* What a portfolio is worth.                                               *)

\* The value of a portfolio, as a sum over the priced tickers.
Position(sh, prices) == [t \in Tickers |-> sh[t] * prices[t]]

\* Marking to market is a total over the priced tickers.
LEMMA TotalValueIsTotal ==
    ASSUME NEW c, NEW sh, NEW prices, DOMAIN prices = Tickers
    PROVE  TotalValue(c, sh, prices) = c + Total(Priced(prices), Position(sh, prices))
<1> DEFINE P == Priced(prices)
           w == Position(sh, prices)
           f == CHOOSE g : g = [s \in SUBSET P |->
                    IF s = {} THEN 0
                    ELSE sh[Pick(s)] * prices[Pick(s)] + g[s \ {Pick(s)}]]
<1>1. TotalValue(c, sh, prices) = c + f[P]
  BY DEF TotalValue, MapThenSumSet, MapThenFoldSet, Pick
<1>2. P \subseteq Tickers /\ IsFiniteSet(P)
  BY TickersAssumption, FS_Subset DEF Priced
<1>3. ASSUME NEW g
      PROVE  Sums(g, P, w) <=>
             g = [s \in SUBSET P |-> IF s = {} THEN 0
                  ELSE sh[Pick(s)] * prices[Pick(s)] + g[s \ {Pick(s)}]]
  <2>1. \A s \in SUBSET P : s # {} => w[Pick(s)] = sh[Pick(s)] * prices[Pick(s)]
    BY <1>2, PickIsIn DEF Position
  <2> QED BY <2>1 DEF Sums, Rest
<1>4. Sums(f, P, w)
  <2>1. PICK g : Sums(g, P, w)
    BY <1>2, SumsExist
  <2>2. f = [s \in SUBSET P |-> IF s = {} THEN 0
                  ELSE sh[Pick(s)] * prices[Pick(s)] + f[s \ {Pick(s)}]]
    BY <1>3, <2>1
  <2> QED BY <1>3, <2>2
<1> HIDE DEF f, P, w
<1>5. f[P] = Total(P, w)
  <2>1. Sums(CHOOSE g : Sums(g, P, w), P, w)
    BY <1>4
  <2> QED BY <1>2, <1>4, <2>1, SumsAgree DEF Total
<1> QED BY <1>1, <1>5 DEF P, w

\* A day's prices of the universe, and the target weights of a request.
DayPrices(prices) == DOMAIN prices = Tickers /\ \A t \in Tickers : prices[t] \in Nat

Weights(weights) == \A t \in Tickers : weights[t] \in 0..100

\* The book after n shares of a ticker have come in (or -n have gone out).
CashAfter(c, n, price) == c - n * price

SharesAfter(sh, t, n) == [sh EXCEPT ![t] = @ + n]

\* What a book with natural prices is worth is an integer, and no less than its
\* cash when no position is short.
LEMMA TotalValueType ==
    ASSUME NEW c \in Int, NEW sh \in [Tickers -> Nat], NEW prices,
           DayPrices(prices)
    PROVE  /\ TotalValue(c, sh, prices) \in Int
           /\ TotalValue(c, sh, prices) >= c
<1> DEFINE P == Priced(prices)
           w == Position(sh, prices)
<1>1. P \subseteq Tickers /\ IsFiniteSet(P)
  BY TickersAssumption, FS_Subset DEF Priced, DayPrices
<1>2. \A t \in P : w[t] \in Int /\ w[t] >= 0
  BY <1>1 DEF Position, DayPrices
<1> HIDE DEF P, w
<1>3. Total(P, w) \in Int /\ Total(P, w) >= 0
  BY <1>1, <1>2, TotalInt
<1>4. TotalValue(c, sh, prices) = c + Total(P, w)
  BY TotalValueIsTotal DEF P, w, DayPrices
<1> QED BY <1>3, <1>4

\* Trading at the day's prices moves value between cash and a position and
\* creates or loses none.
LEMMA TradeKeepsValue ==
    ASSUME NEW c \in Int, NEW sh \in [Tickers -> Nat], NEW prices,
           DayPrices(prices),
           NEW t \in Priced(prices), NEW n \in Int, sh[t] + n \in Nat
    PROVE  TotalValue(CashAfter(c, n, prices[t]), SharesAfter(sh, t, n), prices)
               = TotalValue(c, sh, prices)
<1> DEFINE P   == Priced(prices)
           c2  == CashAfter(c, n, prices[t])
           sh2 == SharesAfter(sh, t, n)
           w   == Position(sh, prices)
           w2  == Position(sh2, prices)
<1>1. P \subseteq Tickers /\ IsFiniteSet(P) /\ t \in P /\ t \in Tickers
  BY TickersAssumption, FS_Subset DEF Priced, DayPrices
<1>2. /\ sh2 \in [Tickers -> Nat]
      /\ sh2[t] = sh[t] + n
      /\ \A u \in Tickers \ {t} : sh2[u] = sh[u]
  BY <1>1 DEF SharesAfter
<1>3. \A u \in P : w[u] \in Int /\ w2[u] \in Int
  BY <1>1, <1>2 DEF Position, DayPrices
<1>4. \A u \in P \ {t} : w2[u] = w[u]
  BY <1>1, <1>2 DEF Position
<1>5. w2[t] = w[t] + n * prices[t]
  <2>1. w2[t] = (sh[t] + n) * prices[t] /\ w[t] = sh[t] * prices[t]
    BY <1>1, <1>2 DEF Position
  <2>2. sh[t] \in Int /\ prices[t] \in Int
    BY <1>1 DEF DayPrices
  <2>3. \A a, b, p \in Int : (a + b) * p = a * p + b * p
    OBVIOUS
  <2> QED BY <2>1, <2>2, <2>3
<1>6. c2 = c - n * prices[t] /\ n * prices[t] \in Int
  BY <1>1 DEF CashAfter, DayPrices
<1> HIDE DEF P, w, w2, c2, sh2
<1>7. IsFiniteSet(P \ {t}) /\ \A u \in P \ {t} : w[u] \in Int
  BY <1>1, <1>3, FS_Subset
<1>8. Total(P, w) = w[t] + Total(P \ {t}, w)
  BY <1>1, <1>3, TotalWithout
<1>9. Total(P, w2) = w2[t] + Total(P \ {t}, w2)
  BY <1>1, <1>3, TotalWithout
<1>10. Total(P \ {t}, w2) = Total(P \ {t}, w)
  BY <1>4, <1>7, TotalSame
<1>11. Total(P \ {t}, w) \in Int /\ w[t] \in Int
  BY <1>1, <1>3, <1>7, TotalInt
<1>12. /\ TotalValue(c, sh, prices) = c + Total(P, w)
       /\ TotalValue(c2, sh2, prices) = c2 + Total(P, w2)
  BY TotalValueIsTotal DEF P, w, w2, DayPrices
<1>13. TotalValue(c2, sh2, prices) = TotalValue(c, sh, prices)
  BY <1>5, <1>6, <1>8, <1>9, <1>10, <1>11, <1>12
<1> QED BY <1>13 DEF c2, sh2

\* Rounding to lots never adds shares, and what it drops is less than one lot.
LEMMA RoundToLotRest ==
    ASSUME NEW x \in Nat, NEW lot \in Nat \ {0}
    PROVE  LET r == RoundToLot(x, lot)
           IN  r \in Nat /\ r <= x /\ RoundToLot(x - r, lot) = 0
<1> DEFINE q == x \div lot
           m == x % lot
<1>1. q \in Int /\ m \in 0..(lot - 1) /\ x = lot * q + m
  OBVIOUS
<1>2. q >= 0
  OBVIOUS
<1>3. \A y \in 0..(lot - 1) : y \div lot = 0
  OBVIOUS
<1> HIDE DEF q, m
<1>4. lot * q = q * lot /\ q * lot \in Nat
  BY <1>1, <1>2
<1>5. RoundToLot(x, lot) = q * lot
  <2>1. CASE x = 0
    <3>1. q = 0
      BY <2>1 DEF q
    <3> QED BY <2>1, <3>1 DEF RoundToLot
  <2>2. CASE x > 0
    BY <2>2 DEF RoundToLot, q
  <2> QED BY <2>1, <2>2
<1>6. x - q * lot = m
  BY <1>1, <1>4
<1>7. RoundToLot(m, lot) = 0
  BY <1>1, <1>3 DEF RoundToLot
<1> QED BY <1>1, <1>4, <1>5, <1>6, <1>7

\* The gap between a position and its target, and the order that closes it up to
\* less than a lot.
Size(gap) == IF gap > 0 THEN gap ELSE -gap

OrderFor(t, gap, prices, lot) ==
    [ticker |-> t, side |-> IF gap > 0 THEN "BUY" ELSE "SELL",
     shares |-> RoundToLot(Size(gap), lot), price |-> prices[t]]

\* A target is a natural number when the portfolio is worth something or nothing.
LEMMA GapType ==
    ASSUME NEW weights, NEW c \in Int, NEW sh \in [Tickers -> Nat], NEW prices,
           DayPrices(prices), Weights(weights),
           NEW t \in Priced(prices)
    PROVE  LET gap == DeltaShares(weights, c, sh, prices, t)
           IN  gap \in Int /\ (c >= 0 => gap >= -sh[t])
<1> DEFINE total == TotalValue(c, sh, prices)
<1>1. total \in Int /\ total >= c
  BY TotalValueType
<1>2. t \in Tickers /\ prices[t] \in Nat \ {0} /\ sh[t] \in Nat /\ weights[t] \in 0..100
  BY DEF Priced, NoPrice, DayPrices, Weights
<1> HIDE DEF total
<1>3. weights[t] * total \in Int /\ (total >= 0 => weights[t] * total >= 0)
  BY <1>1, <1>2
<1>4. 100 * prices[t] \in Nat \ {0}
  BY <1>2
<1>5. ASSUME NEW a \in Int, NEW b \in Nat \ {0}
      PROVE  a \div b \in Int /\ (a >= 0 => a \div b >= 0)
  OBVIOUS
<1>6. /\ TargetShares(weights[t], total, prices[t]) \in Int
      /\ total >= 0 => TargetShares(weights[t], total, prices[t]) >= 0
  BY <1>3, <1>4, <1>5 DEF TargetShares
<1>7. DeltaShares(weights, c, sh, prices, t)
          = TargetShares(weights[t], total, prices[t]) - sh[t]
  BY DEF DeltaShares, total
<1> QED BY <1>1, <1>2, <1>6, <1>7

\* For each priced ticker whose gap is at least a lot, the order that closes it.
Closing(weights, c, sh, prices, lot) ==
    {OrderFor(t, DeltaShares(weights, c, sh, prices, t), prices, lot) :
        t \in {u \in Priced(prices) :
                 RoundToLot(Size(DeltaShares(weights, c, sh, prices, u)), lot) # 0}}

\* The orders of a book that are left after the lots, as the code computes them.
Tradable(weights, c, sh, prices, lot) ==
    EnforceLotSizes(ComputeOrders(weights, c, sh, prices), lot)

\* What is left of a strategy's orders after the lots closes the gaps.
LEMMA OrdersCloseGaps ==
    ASSUME NEW weights, NEW c, NEW sh, NEW prices, NEW lot \in Nat \ {0},
           \A t \in Priced(prices) : DeltaShares(weights, c, sh, prices, t) \in Int
    PROVE  Tradable(weights, c, sh, prices, lot) = Closing(weights, c, sh, prices, lot)
<1> DEFINE gap(t) == DeltaShares(weights, c, sh, prices, t)
           P      == Priced(prices)
           buy(t)  == [ticker |-> t, side |-> "BUY", shares |-> gap(t), price |-> prices[t]]
           sell(t) == [ticker |-> t, side |-> "SELL", shares |-> -gap(t), price |-> prices[t]]
           cut(o) == [o EXCEPT !.shares = RoundToLot(o.shares, lot)]
           kept(u) == RoundToLot(Size(gap(u)), lot) # 0
           orders == ComputeOrders(weights, c, sh, prices)
<1>1. orders = {buy(t) : t \in {u \in P : gap(u) \in Nat \ {0}}}
                 \cup {sell(t) : t \in {u \in P : -gap(u) \in Nat \ {0}}}
  BY DEF ComputeOrders
<1>2. \A t \in P : gap(t) \in Int
  OBVIOUS
<1>3. EnforceLotSizes(orders, lot) = {cut(o) : o \in {x \in orders : RoundToLot(x.shares, lot) # 0}}
  BY DEF EnforceLotSizes
<1> HIDE DEF gap, P, orders
<1>4. ASSUME NEW t \in P, gap(t) > 0
      PROVE  /\ buy(t).shares = Size(gap(t))
             /\ cut(buy(t)) = OrderFor(t, gap(t), prices, lot)
  BY <1>2, <1>4 DEF Size, OrderFor
<1>5. ASSUME NEW t \in P, ~(gap(t) > 0)
      PROVE  /\ sell(t).shares = Size(gap(t))
             /\ cut(sell(t)) = OrderFor(t, gap(t), prices, lot)
  BY <1>2, <1>5 DEF Size, OrderFor
<1>6. \A t \in P : kept(t) => gap(t) # 0
  BY <1>2 DEF Size, RoundToLot
<1> DEFINE result == {OrderFor(t, gap(t), prices, lot) : t \in {u \in P : kept(u)}}
<1>7. ASSUME NEW o \in orders, RoundToLot(o.shares, lot) # 0
      PROVE  cut(o) \in result
  <2>1. CASE \E t \in P : gap(t) \in Nat \ {0} /\ o = buy(t)
    <3>1. PICK t \in P : gap(t) \in Nat \ {0} /\ o = buy(t)
      BY <2>1
    <3>2. gap(t) > 0
      BY <3>1
    <3> HIDE DEF buy, cut
    <3>3. o.shares = Size(gap(t)) /\ cut(o) = OrderFor(t, gap(t), prices, lot)
      BY <1>4, <3>1, <3>2
    <3> QED BY <1>7, <3>3
  <2>2. CASE \E t \in P : -gap(t) \in Nat \ {0} /\ o = sell(t)
    <3>1. PICK t \in P : -gap(t) \in Nat \ {0} /\ o = sell(t)
      BY <2>2
    <3>2. ~(gap(t) > 0)
      BY <1>2, <3>1
    <3> HIDE DEF sell, cut
    <3>3. o.shares = Size(gap(t)) /\ cut(o) = OrderFor(t, gap(t), prices, lot)
      BY <1>5, <3>1, <3>2
    <3> QED BY <1>7, <3>3
  <2>3. \/ \E t \in P : gap(t) \in Nat \ {0} /\ o = buy(t)
        \/ \E t \in P : -gap(t) \in Nat \ {0} /\ o = sell(t)
    <3> HIDE DEF buy, sell
    <3> QED BY <1>1, <1>7
  <2> QED BY <2>1, <2>2, <2>3
<1>8. ASSUME NEW t \in P, kept(t)
      PROVE  \E o \in orders : /\ RoundToLot(o.shares, lot) # 0
                               /\ cut(o) = OrderFor(t, gap(t), prices, lot)
  <2>1. CASE gap(t) > 0
    <3>1. buy(t) \in orders
      <4>1. gap(t) \in Nat \ {0}
        BY <1>2, <2>1
      <4> HIDE DEF buy, sell
      <4> QED BY <1>1, <4>1
    <3> HIDE DEF buy, cut
    <3> QED BY <1>4, <1>8, <2>1, <3>1
  <2>2. CASE ~(gap(t) > 0)
    <3>1. sell(t) \in orders
      <4>1. -gap(t) \in Nat \ {0}
        BY <1>2, <1>6, <1>8, <2>2
      <4> HIDE DEF buy, sell
      <4> QED BY <1>1, <4>1
    <3> HIDE DEF sell, cut
    <3> QED BY <1>5, <1>8, <2>2, <3>1
  <2> QED BY <2>1, <2>2
<1>9. EnforceLotSizes(orders, lot) = result
  <2>1. ASSUME NEW x \in EnforceLotSizes(orders, lot) PROVE x \in result
    <3>1. PICK o \in orders : RoundToLot(o.shares, lot) # 0 /\ x = cut(o)
      <4> HIDE DEF cut
      <4> QED BY <1>3
    <3> QED BY <1>7, <3>1
  <2>2. ASSUME NEW x \in result PROVE x \in EnforceLotSizes(orders, lot)
    <3>1. PICK t \in P : kept(t) /\ x = OrderFor(t, gap(t), prices, lot)
      OBVIOUS
    <3>2. PICK o \in orders : RoundToLot(o.shares, lot) # 0 /\ cut(o) = x
      <4> HIDE DEF kept, cut
      <4> QED BY <1>8, <3>1
    <3> HIDE DEF cut
    <3> QED BY <1>3, <3>2
  <2> HIDE DEF result
  <2> QED BY <2>1, <2>2
<1> QED BY <1>9 DEF Tradable, Closing, gap, P, orders

\* The shares an order moves into the book.
Moved(o) == IF o.side = "BUY" THEN o.shares ELSE -o.shares

\* Applying one of the orders a strategy wants leaves it wanting exactly the
\* others: the total the targets are computed from has not moved, the gap of the
\* order's ticker is now below one lot, and no other gap has changed.
LEMMA OrderSatisfies ==
    ASSUME NEW weights, NEW c \in Int, c >= 0, NEW sh \in [Tickers -> Nat], NEW prices,
           DayPrices(prices), Weights(weights), NEW lot \in Nat \ {0},
           NEW o \in Tradable(weights, c, sh, prices, lot)
    PROVE  /\ sh[o.ticker] + Moved(o) \in Nat
           /\ Tradable(weights, CashAfter(c, Moved(o), o.price),
                       SharesAfter(sh, o.ticker, Moved(o)), prices, lot)
                = Tradable(weights, c, sh, prices, lot) \ {o}
<1> DEFINE P == Priced(prices)
           gap(t) == DeltaShares(weights, c, sh, prices, t)
           Open == {u \in P : RoundToLot(Size(gap(u)), lot) # 0}
<1>1. \A t \in P : gap(t) \in Int /\ gap(t) >= -sh[t]
  BY GapType
<1>2. Tradable(weights, c, sh, prices, lot) = {OrderFor(t, gap(t), prices, lot) : t \in Open}
  BY <1>1, OrdersCloseGaps DEF Closing
<1> HIDE DEF P, gap
<1>3. PICK t \in Open : o = OrderFor(t, gap(t), prices, lot)
  BY <1>2
<1> DEFINE r == RoundToLot(Size(gap(t)), lot)
           n == Moved(o)
<1>4. t \in P /\ t \in Tickers /\ gap(t) \in Int /\ gap(t) >= -sh[t] /\ sh[t] \in Nat
  BY <1>1 DEF P, Priced, DayPrices
<1>5. /\ r \in Nat /\ r <= Size(gap(t)) /\ RoundToLot(Size(gap(t)) - r, lot) = 0
  <2>1. Size(gap(t)) \in Nat
    BY <1>4 DEF Size
  <2> QED BY <2>1, RoundToLotRest
<1>6. o.ticker = t /\ o.price = prices[t] /\ n = IF gap(t) > 0 THEN r ELSE -r
  BY <1>3 DEF OrderFor, Moved
<1> HIDE DEF n, r, Open
<1>7. n \in Int /\ sh[t] + n \in Nat
  BY <1>4, <1>5, <1>6 DEF Size
<1>8. Size(gap(t) - n) = Size(gap(t)) - r
  BY <1>4, <1>5, <1>6 DEF Size
<1> DEFINE c2  == CashAfter(c, n, prices[t])
           sh2 == SharesAfter(sh, t, n)
           gap2(u) == DeltaShares(weights, c2, sh2, prices, u)
<1>9. TotalValue(c2, sh2, prices) = TotalValue(c, sh, prices)
  BY <1>4, <1>7, TradeKeepsValue DEF P
<1>10. \A u \in P : gap2(u) = TargetShares(weights[u], TotalValue(c, sh, prices), prices[u]) - sh2[u]
  BY <1>9 DEF DeltaShares
<1>11. \A u \in P : gap(u) = TargetShares(weights[u], TotalValue(c, sh, prices), prices[u]) - sh[u]
  BY DEF DeltaShares, gap
<1>12. ASSUME NEW u \in P PROVE TargetShares(weights[u], TotalValue(c, sh, prices), prices[u]) \in Int
  <2>1. TotalValue(c, sh, prices) \in Int
    BY TotalValueType
  <2>2. weights[u] \in Int /\ prices[u] \in Nat \ {0}
    BY DEF P, Priced, NoPrice, DayPrices, Weights
  <2>3. weights[u] * TotalValue(c, sh, prices) \in Int /\ 100 * prices[u] \in Nat \ {0}
    BY <2>1, <2>2
  <2>4. \A a \in Int : \A b \in Nat \ {0} : a \div b \in Int
    OBVIOUS
  <2> QED BY <2>3, <2>4 DEF TargetShares
<1>13. sh2 \in [Tickers -> Nat] /\ sh2[t] = sh[t] + n /\ \A u \in Tickers \ {t} : sh2[u] = sh[u]
  BY <1>4, <1>7 DEF SharesAfter
<1>14. P \subseteq Tickers
  BY DEF P, Priced, DayPrices
<1> HIDE DEF gap2, c2, sh2
<1>15. gap2(t) = gap(t) - n
  <2> DEFINE target == TargetShares(weights[t], TotalValue(c, sh, prices), prices[t])
  <2>1. target \in Int
    BY <1>4, <1>12
  <2>2. gap2(t) = target - sh2[t] /\ gap(t) = target - sh[t]
    BY <1>4, <1>10, <1>11
  <2> HIDE DEF target
  <2> QED BY <1>4, <1>7, <1>13, <2>1, <2>2
<1>16. \A u \in P \ {t} : gap2(u) = gap(u)
  BY <1>10, <1>11, <1>13, <1>14
<1>17. \A u \in P : gap2(u) \in Int
  BY <1>1, <1>4, <1>7, <1>15, <1>16
<1>18. Tradable(weights, c2, sh2, prices, lot)
          = {OrderFor(u, gap2(u), prices, lot) : u \in {v \in P : RoundToLot(Size(gap2(v)), lot) # 0}}
  <2>1. Tradable(weights, c2, sh2, prices, lot) = Closing(weights, c2, sh2, prices, lot)
    BY <1>17, OrdersCloseGaps DEF P, gap2
  <2> QED BY <2>1 DEF Closing, P, gap2
<1>19. {v \in P : RoundToLot(Size(gap2(v)), lot) # 0} = Open \ {t}
  <2>1. RoundToLot(Size(gap2(t)), lot) = 0
    BY <1>5, <1>8, <1>15
  <2>2. \A v \in P \ {t} : Size(gap2(v)) = Size(gap(v))
    BY <1>16
  <2> QED BY <2>1, <2>2 DEF Open
<1>20. \A u \in Open : OrderFor(u, gap(u), prices, lot).ticker = u
  BY DEF OrderFor
<1>21. \A u \in Open \ {t} : gap2(u) = gap(u)
  BY <1>16 DEF Open
<1>22. Tradable(weights, c2, sh2, prices, lot) = Tradable(weights, c, sh, prices, lot) \ {o}
  <2>1. {OrderFor(u, gap2(u), prices, lot) : u \in Open \ {t}}
          = {OrderFor(u, gap(u), prices, lot) : u \in Open \ {t}}
    BY <1>21
  <2>2. {OrderFor(u, gap(u), prices, lot) : u \in Open \ {t}}
          = {OrderFor(u, gap(u), prices, lot) : u \in Open} \ {o}
    BY <1>3, <1>20
  <2> QED BY <1>2, <1>18, <1>19, <2>1, <2>2
<1> QED BY <1>6, <1>7, <1>22 DEF n, c2, sh2
-------------------------------------------------------------------------------
(* A batch holds what the strategy still wants.                             *)

\* The orders the strategy would want at this point of the batch, and the part
\* of the batch that is not applied yet.
Wanted == Tradable(request.weights, cash, shares, bars[day], GetLotSize(LotRules, day))

Left == {batch[i] : i \in k..Len(batch)}

PendingInv ==
    pc \in {"precheck", "apply"} =>
        /\ HasLotRule(LotRules, day)
        /\ Wanted = Left
        /\ \A i, j \in 1..Len(batch) : batch[i] = batch[j] => i = j

\* What a day's prices and lots are.
LEMMA DayFacts ==
    ASSUME TypeOK, NEW d \in Days, HasLotRule(LotRules, d)
    PROVE  /\ DOMAIN bars[d] = Tickers
           /\ \A t \in Tickers : bars[d][t] \in Nat
           /\ DayPrices(bars[d]) /\ Weights(request.weights)
           /\ GetLotSize(LotRules, d) \in Nat \ {0}
<1>1. GetLotSize(LotRules, d) \in Nat \ {0}
  BY LotRulesAssumption DEF HasLotRule, GetLotSize, LotRulesOn
<1> QED BY <1>1, HistoriesAssumption, RequestsAssumption DEF TypeOK, DayPrices, Weights

\* Sorting a batch lists each of its orders once.
LEMMA SellFirstLists ==
    ASSUME NEW orders, IsFiniteSet(orders), NEW s \in SellFirst(orders)
    PROVE  /\ {s[i] : i \in 1..Len(s)} = orders
           /\ \A i, j \in 1..Len(s) : s[i] = s[j] => i = j
<1> DEFINE n == Cardinality(orders)
           R == {s[i] : i \in 1..n}
<1>1. n \in Nat
  BY FS_CardinalityType
<1>2. s \in [1..n -> orders] /\ \A i, j \in 1..n : s[i] = s[j] => i = j
  BY DEF SellFirst
<1> HIDE DEF n
<1>3. Len(s) = n
  BY <1>1, <1>2
<1>4. R \subseteq orders /\ IsFiniteSet(R)
  BY <1>2, FS_Subset
<1>5. s \in Bijection(1..n, R)
  BY <1>2 DEF Bijection, Injection, Surjection, IsInjective
<1>6. IsFiniteSet(1..n) /\ Cardinality(1..n) = n
  BY <1>1, FS_Interval
<1> HIDE DEF R
<1>7. Cardinality(R) = n
  BY <1>5, <1>6, FS_Bijection DEF ExistsBijection
<1>8. R = orders
  BY <1>4, <1>7, FS_Subset DEF n
<1> QED BY <1>2, <1>3, <1>8 DEF R

\* A new batch lists what the strategy wants.
LEMMA PendingPropose ==
    ASSUME TypeInv, BatchWithinBudget, NEW d \in Days, ProposeBatch(d)
    PROVE  PendingInv'
<1>1. /\ WantsOrders(d) /\ HasLotRule(LotRules, d) /\ day' = d /\ pc = "loop"
      /\ batch' \in SellFirst(Enforced(d))
      /\ UNCHANGED <<request, bars, cash, shares, k>>
  BY DEF ProposeBatch, WantsOrders, request_vars, book_vars
<1>2. TypeOK /\ k = 1
  BY <1>1 DEF TypeInv, BatchWithinBudget
<1>3. IsFiniteSet(Enforced(d))
  <2>1. /\ Intent(d) \subseteq Order
        /\ \A o, p \in Intent(d) : o.ticker = p.ticker => o = p
    BY <1>1, <1>2, DayFacts, ComputeOrdersType DEF Intent, DayPrices
  <2>2. /\ Enforced(d) \subseteq Order
        /\ \A o, p \in Enforced(d) : o.ticker = p.ticker => o = p
    BY <1>1, <1>2, <2>1, DayFacts, EnforceLotSizesType DEF Enforced
  <2> QED BY <2>2, OrdersFinite
<1>4. /\ {batch'[i] : i \in 1..Len(batch')} = Enforced(d)
      /\ \A i, j \in 1..Len(batch') : batch'[i] = batch'[j] => i = j
  BY <1>1, <1>3, SellFirstLists
<1>5. Wanted' = Enforced(d)
  BY <1>1 DEF Wanted, Tradable, Enforced, Intent
<1> QED BY <1>1, <1>2, <1>4, <1>5 DEF PendingInv, Left

\* Applying the next order of the batch.
LEMMA PendingApply ==
    ASSUME TypeInv, BatchWithinBudget, PendingInv, pc = "apply", k <= Len(batch),
           cash' = cash + CashDelta(batch[k]),
           shares' = [shares EXCEPT ![batch[k].ticker] = @ + Moved(batch[k])],
           k' = k + 1, UNCHANGED <<request, bars, pc, day, batch>>
    PROVE  PendingInv'
<1> DEFINE o == batch[k]
           lot == GetLotSize(LotRules, day)
<1>1. /\ TypeOK /\ day \in Days /\ cash \in Int /\ cash >= 0
      /\ k \in 1..Len(batch) /\ Len(batch) \in Nat /\ o \in Order
      /\ shares \in [Tickers -> Nat]
  BY DEF TypeInv, TypeOK, BatchHasDecision, BatchWithinBudget
<1>2. /\ HasLotRule(LotRules, day) /\ Wanted = Left
      /\ \A i, j \in 1..Len(batch) : batch[i] = batch[j] => i = j
  BY DEF PendingInv
<1>3. o \in Wanted
  BY <1>1, <1>2 DEF Left
<1>4. Left' = Left \ {o}
  <2>1. Left' = {batch[i] : i \in (k + 1)..Len(batch)}
    BY DEF Left
  <2>2. k..Len(batch) = {k} \cup (k + 1)..Len(batch)
    BY <1>1
  <2>3. \A i \in (k + 1)..Len(batch) : batch[i] # o
    BY <1>1, <1>2
  <2> QED BY <2>1, <2>2, <2>3 DEF Left
<1>5. CashDelta(o) = -(Moved(o) * o.price) /\ Moved(o) * o.price \in Int
  <2>1. o.shares \in Int /\ o.price \in Int /\ o.side \in {"BUY", "SELL"}
    BY <1>1 DEF Order
  <2>2. \A a, p \in Int : (-a) * p = -(a * p) /\ a * p \in Int /\ -(-(a * p)) = a * p
    OBVIOUS
  <2> QED BY <2>1, <2>2 DEF CashDelta, GrossAmount, Moved
<1>6. cash' = CashAfter(cash, Moved(o), o.price)
  BY <1>1, <1>5 DEF CashAfter
<1> HIDE DEF o
<1>7. lot \in Nat \ {0} /\ DayPrices(bars[day]) /\ Weights(request.weights)
  BY <1>1, <1>2, DayFacts
<1>8. shares' = SharesAfter(shares, o.ticker, Moved(o))
  BY DEF o, SharesAfter
<1>9. Wanted' = Wanted \ {o}
  <2>1. o \in Tradable(request.weights, cash, shares, bars[day], lot)
    BY <1>3 DEF Wanted
  <2> HIDE DEF lot
  <2>2. cash \in Int /\ cash >= 0 /\ shares \in [Tickers -> Nat]
    BY <1>1
  <2>3. Tradable(request.weights, CashAfter(cash, Moved(o), o.price),
                 SharesAfter(shares, o.ticker, Moved(o)), bars[day], lot)
          = Tradable(request.weights, cash, shares, bars[day], lot) \ {o}
    BY <1>7, <2>1, <2>2, OrderSatisfies
  <2>4. Tradable(request.weights, cash', shares', bars[day], lot)
          = Tradable(request.weights, cash, shares, bars[day], lot) \ {o}
    BY <1>6, <1>8, <2>3
  <2> QED BY <2>4 DEF Wanted, lot
<1> QED BY <1>2, <1>4, <1>9 DEF PendingInv

\* The orders left are the orders wanted as long as book, batch and day stand.
LEMMA PendingIdle ==
    ASSUME PendingInv,
           pc' \in {"precheck", "apply"} =>
               /\ pc \in {"precheck", "apply"}
               /\ UNCHANGED <<request, bars, cash, shares, day, batch, k>>
    PROVE  PendingInv'
BY DEF PendingInv, Wanted, Tradable, Left

\* Every step keeps the batch to what is wanted.
LEMMA PendingStep ==
    TypeInv /\ BatchWithinBudget /\ PendingInv /\ [Next]_vars => PendingInv'
<1> SUFFICES ASSUME TypeInv, BatchWithinBudget, PendingInv, [Next]_vars
             PROVE  PendingInv'
  OBVIOUS
<1> USE DEF request_vars, db_vars, book_vars, log_vars, batch_vars
<1>1. CASE SaveRun \/ LoadPrices \/ NoPriceData \/ CostModelRaises
           \/ StrategyFactoryRaises \/ Configure \/ DowngradeBatch \/ KpisRaise
           \/ CompleteRun \/ SaveDecisions \/ CheckViolation \/ Crash
  <2>1. pc' \notin {"precheck", "apply"}
    BY <1>1 DEF SaveRun, LoadPrices, NoPriceData, CostModelRaises,
         StrategyFactoryRaises, Configure, DowngradeBatch, KpisRaise, CompleteRun,
         SaveDecisions, CheckViolation, Crash, MarkFailedAndRaise, RaiseUnmarked
  <2> QED BY <2>1, PendingIdle
<1>2. ASSUME NEW d \in Days, DayStep(d)
      PROVE  PendingInv'
  <2>1. CASE NoTrigger(d) \/ ZeroShares(d) \/ StrategyRaises(d) \/ LotRuleMissing(d)
             \/ AllBelowOneLot(d)
    <3>1. pc' \notin {"precheck", "apply"}
      BY <2>1 DEF NoTrigger, ZeroShares, StrategyRaises, LotRuleMissing,
           AllBelowOneLot, WantsOrders, QuietDay, MarkFailedAndRaise, RaiseUnmarked
    <3> QED BY <3>1, PendingIdle
  <2>2. CASE ProposeBatch(d)
    BY <2>2, PendingPropose
  <2> QED BY <1>2, <2>1, <2>2 DEF DayStep
<1>3. CASE PreCheckOrder \/ AcceptBatch
  BY <1>3, PendingIdle DEF PreCheckOrder, AcceptBatch
<1>4. CASE ApplyBuy
  <2>1. Moved(batch[k]) = batch[k].shares
    BY <1>4 DEF ApplyBuy, Moved
  <2>2. cash' = cash + CashDelta(batch[k])
    <3>1. batch[k] \in Order
      BY <1>4 DEF ApplyBuy, TypeInv, TypeOK
    <3> QED BY <1>4, <3>1, CashDeltaSign DEF ApplyBuy, TypeInv, TypeOK
  <2> QED BY <1>4, <2>1, <2>2, PendingApply DEF ApplyBuy
<1>5. CASE ApplySell
  <2>1. CASE shares[batch[k].ticker] < batch[k].shares
    <3>1. pc' = "raised"
      BY <1>5, <2>1 DEF ApplySell, MarkFailedAndRaise
    <3> QED BY <3>1, PendingIdle
  <2>2. CASE ~(shares[batch[k].ticker] < batch[k].shares)
    <3>1. batch[k] \in Order
      BY <1>5 DEF ApplySell, TypeInv, TypeOK
    <3>2. cash' = cash + CashDelta(batch[k])
      BY <1>5, <2>2, <3>1, CashDeltaSign DEF ApplySell
    <3>3. shares' = [shares EXCEPT ![batch[k].ticker] = @ + Moved(batch[k])]
      <4>1. shares' = [shares EXCEPT ![batch[k].ticker] = @ - batch[k].shares]
        BY <1>5, <2>2 DEF ApplySell
      <4>2. Moved(batch[k]) = -batch[k].shares
        BY <1>5 DEF ApplySell, Moved
      <4>3. shares[batch[k].ticker] \in Int /\ batch[k].shares \in Int
        BY <3>1 DEF Order, TypeInv, TypeOK
      <4>4. shares[batch[k].ticker] + Moved(batch[k]) = shares[batch[k].ticker] - batch[k].shares
        BY <4>2, <4>3
      <4> QED BY <4>1, <4>4
    <3> QED BY <1>5, <2>2, <3>2, <3>3, PendingApply DEF ApplySell
  <2> QED BY <2>1, <2>2
<1>6. CASE SettleBatch
  <2>1. pc' \notin {"precheck", "apply"}
    BY <1>6 DEF SettleBatch, MarkFailedAndRaise
  <2> QED BY <2>1, PendingIdle
<1>7. CASE UNCHANGED vars
  BY <1>7, PendingIdle DEF vars
<1> QED BY <1>1, <1>2, <1>3, <1>4, <1>5, <1>6, <1>7 DEF Next, SimulateStep

\* No batch is in hand at the start.
LEMMA PendingInit == Init => PendingInv
BY DEF Init, PendingInv

\* What is left of a batch is what the strategy would still want, for every
\* request, price history and table of lots.
THEOREM PendingIsWanted == Spec => []PendingInv
BY BudgetInvariant, PendingInit, PendingStep, PTL DEF Spec

\* A wanted SELL is covered by the holding it was computed from.
LEMMA SellIsCovered ==
    ASSUME TypeInv, BatchWithinBudget, PendingInv
    PROVE  ApplyNeverRaises
<1> SUFFICES ASSUME pc = "apply", k <= Len(batch), batch[k].side = "SELL"
             PROVE  shares[batch[k].ticker] >= batch[k].shares
  BY DEF ApplyNeverRaises, BatchWithinBudget
<1> DEFINE o == batch[k]
           lot == GetLotSize(LotRules, day)
<1>1. /\ TypeOK /\ day \in Days /\ cash \in Int /\ cash >= 0
      /\ k \in 1..Len(batch) /\ o \in Order /\ shares \in [Tickers -> Nat]
  BY DEF TypeInv, TypeOK, BatchHasDecision, BatchWithinBudget
<1>2. HasLotRule(LotRules, day) /\ o \in Wanted
  <2>1. k \in k..Len(batch)
    BY <1>1 DEF TypeInv, TypeOK
  <2> QED BY <2>1 DEF PendingInv, Left
<1> HIDE DEF o
<1>3. lot \in Nat \ {0} /\ DayPrices(bars[day]) /\ Weights(request.weights)
  BY <1>1, <1>2, DayFacts
<1>4. shares[o.ticker] + Moved(o) \in Nat
  <2>1. o \in Tradable(request.weights, cash, shares, bars[day], lot)
    BY <1>2 DEF Wanted
  <2>2. cash \in Int /\ cash >= 0 /\ shares \in [Tickers -> Nat]
    BY <1>1
  <2> HIDE DEF lot
  <2> QED BY <1>3, <2>1, <2>2, OrderSatisfies
<1>5. o.shares \in Nat /\ shares[o.ticker] \in Nat
  BY <1>1 DEF Order
<1>6. Moved(o) = -o.shares
  BY DEF Moved, o
<1> QED BY <1>4, <1>5, <1>6 DEF o

\* Neither ValueError of apply_orders is ever met.
THEOREM AppliesWithoutError == Spec => []ApplyNeverRaises
BY BudgetInvariant, PendingIsWanted, SellIsCovered, PTL

\* Asked again right after a rebalance, the strategy wants nothing tradable.
THEOREM RebalanceSettles == Spec => RebalanceIsIdempotent
<1>1. ASSUME TypeInv, PendingInv, [Next]_vars, pc = "apply", pc' = "loop"
      PROVE  EnforceLotSizes(ComputeOrders(request.weights, cash', shares', bars[day]),
                             GetLotSize(LotRules, day)) = {}
  <2> USE DEF request_vars, db_vars, book_vars, log_vars, batch_vars
  <2>1. SettleBatch
    <3>1. ~(SaveRun \/ LoadPrices \/ NoPriceData \/ CostModelRaises
            \/ StrategyFactoryRaises \/ Configure \/ PreCheckOrder \/ DowngradeBatch
            \/ AcceptBatch \/ KpisRaise \/ CompleteRun \/ SaveDecisions
            \/ CheckViolation \/ Crash \/ UNCHANGED vars)
      BY <1>1 DEF SaveRun, LoadPrices, NoPriceData, CostModelRaises,
           StrategyFactoryRaises, Configure, PreCheckOrder, DowngradeBatch, AcceptBatch,
           KpisRaise, CompleteRun, SaveDecisions, CheckViolation, Crash, vars
    <3>2. \A d \in Days : ~DayStep(d)
      BY <1>1 DEF DayStep, NoTrigger, ZeroShares, StrategyRaises, LotRuleMissing,
           AllBelowOneLot, ProposeBatch, WantsOrders
    <3>3. ~ApplyBuy /\ ~ApplySell
      BY <1>1 DEF ApplyBuy, ApplySell, MarkFailedAndRaise
    <3> QED BY <1>1, <3>1, <3>2, <3>3 DEF Next, SimulateStep
  <2>2. k > Len(batch) /\ UNCHANGED <<cash, shares>>
    BY <2>1 DEF SettleBatch
  <2>3. Left = {}
    <3>1. k \in Nat /\ Len(batch) \in Nat
      BY <1>1 DEF TypeInv, TypeOK
    <3>2. k..Len(batch) = {}
      BY <2>2, <3>1
    <3> QED BY <3>2 DEF Left
  <2>4. Wanted = {}
    BY <1>1, <2>3 DEF PendingInv
  <2> QED BY <2>2, <2>4 DEF Wanted, Tradable
<1>2. TypeInv /\ PendingInv /\ [Next]_vars =>
        [pc = "apply" /\ pc' = "loop" =>
            EnforceLotSizes(ComputeOrders(request.weights, cash', shares', bars[day]),
                            GetLotSize(LotRules, day)) = {}]_vars
  BY <1>1
<1> QED BY BudgetInvariant, PendingIsWanted, <1>2, PTL DEF Spec, RebalanceIsIdempotent
-------------------------------------------------------------------------------
(* The cadence.                                                             *)

\* Two days on which the request's strategy may both rebalance.
Apart(from, to) ==
    /\ request.strategy = "fixed_window" => to - from >= request.param
    /\ request.strategy = "calendar_monthly" => MonthOrdinal[to] # MonthOrdinal[from]

\* last_rebalance_date is the day of the last executed decision, and the
\* decision in hand, if it is executed, is far enough from it.
LastIsExecuted ==
    /\ Executed = {} <=> last = Never
    /\ \A i \in Executed : (\A e \in Executed : e <= i) => decisions[i].day = last

PendingIsApart ==
    pc \in {"precheck", "apply"} =>
        /\ decision.day = day
        /\ decision.orders # {}
        /\ last # Never => Apart(last, day)

CadenceInv == CadenceRespected /\ LastIsExecuted /\ PendingIsApart

\* One more decision, executed or not.
LEMMA ExecutedGrows ==
    ASSUME TypeOK, NEW dec \in Decision, decisions' = Append(decisions, dec)
    PROVE  /\ \A i \in Executed : decisions'[i] = decisions[i]
           /\ dec.orders = {} => Executed' = Executed
           /\ dec.orders # {} => Executed' = Executed \cup {Len(decisions) + 1}
           /\ Executed \subseteq 1..Len(decisions)
           /\ decisions'[Len(decisions) + 1] = dec
<1> DEFINE n == Len(decisions)
<1>1. n \in Nat /\ DOMAIN decisions = 1..n /\ decisions \in Seq(Decision)
  BY DEF TypeOK
<1>2. DOMAIN decisions' = 1..(n + 1) /\ decisions'[n + 1] = dec
      /\ \A i \in 1..n : decisions'[i] = decisions[i]
  BY <1>1
<1>3. Executed = {i \in 1..n : decisions[i].orders # {}}
  BY <1>1 DEF Executed, IsAction
<1>4. Executed' = {i \in 1..(n + 1) : decisions'[i].orders # {}}
  BY <1>2 DEF Executed, IsAction
<1>5. \A i : i \in 1..(n + 1) <=> i \in 1..n \/ i = n + 1
  BY <1>1
<1>6. n + 1 \notin 1..n
  BY <1>1
<1> HIDE DEF n
<1>7. \A i : i \in Executed' <=> i \in Executed \/ (i = n + 1 /\ dec.orders # {})
  BY <1>2, <1>3, <1>4, <1>5, <1>6
<1> QED BY <1>2, <1>3, <1>7 DEF n

\* A step that decides nothing.
LEMMA CadenceIdle ==
    ASSUME CadenceInv, UNCHANGED <<request, last, decisions>>,
           pc' \in {"precheck", "apply"} =>
               pc \in {"precheck", "apply"} /\ UNCHANGED <<decision, day>>
    PROVE  CadenceInv'
<1>1. Executed' = Executed
  BY DEF Executed, IsAction
<1>2. CadenceRespected'
  BY <1>1 DEF CadenceInv, CadenceRespected, Consecutive
<1> QED BY <1>1, <1>2 DEF CadenceInv, LastIsExecuted, PendingIsApart, Apart

\* A decision without orders moves nothing.
LEMMA CadenceQuiet ==
    ASSUME TypeOK, CadenceInv, NEW dec \in Decision, dec.orders = {},
           decisions' = Append(decisions, dec), UNCHANGED <<request, last>>,
           pc' \notin {"precheck", "apply"}
    PROVE  CadenceInv'
<1>1. Executed' = Executed /\ \A i \in Executed : decisions'[i] = decisions[i]
  BY ExecutedGrows
<1>2. CadenceRespected'
  <2> SUFFICES ASSUME NEW i \in Executed', NEW j \in Executed', Consecutive(i, j)'
               PROVE  /\ request.strategy = "fixed_window" =>
                             decisions'[j].day - decisions'[i].day >= request.param
                      /\ request.strategy = "calendar_monthly" =>
                             MonthOrdinal[decisions'[j].day] # MonthOrdinal[decisions'[i].day]
    BY DEF CadenceRespected
  <2>1. i \in Executed /\ j \in Executed /\ Consecutive(i, j)
    BY <1>1 DEF Consecutive
  <2> QED BY <1>1, <2>1 DEF CadenceInv, CadenceRespected
<1>3. LastIsExecuted'
  BY <1>1 DEF CadenceInv, LastIsExecuted
<1> QED BY <1>2, <1>3 DEF CadenceInv, PendingIsApart

\* A day on which the strategy triggers is apart from the last rebalance.
LEMMA TriggersApart ==
    ASSUME TypeInv, NEW d \in Days, Triggers(d), last # Never, pc = "loop"
    PROVE  Apart(last, d)
<1>1. last \in Days /\ request.strategy \in Strategies
  BY DEF TypeInv, TypeOK, StrategyKnown
<1>2. CASE request.strategy = "fixed_window"
  BY <1>2 DEF Triggers, WindowTriggers, Apart
<1>3. CASE request.strategy = "calendar_monthly"
  <2>1. MonthNumber[d] # MonthNumber[last]
    BY <1>3 DEF Triggers, MonthTriggers
  <2>2. MonthOrdinal[d] # MonthOrdinal[last]
    BY <1>1, <2>1 DEF MonthNumber
  <2> QED BY <1>3, <2>2 DEF Apart
<1>4. CASE request.strategy = "threshold_band"
  BY <1>4 DEF Apart
<1> QED BY <1>1, <1>2, <1>3, <1>4 DEF Strategies

\* A new batch is apart from the last rebalance.
LEMMA CadencePropose ==
    ASSUME TypeInv, CadenceInv, NEW d \in Days, ProposeBatch(d)
    PROVE  CadenceInv'
<1>1. /\ pc = "loop" /\ Triggers(d) /\ day' = d /\ decision' = Enforce(d)
      /\ Enforced(d) # {} /\ UNCHANGED <<request, last, decisions>>
  BY DEF ProposeBatch, WantsOrders, request_vars, book_vars, log_vars
<1>2. last # Never => Apart(last, d)
  BY <1>1, TriggersApart
<1>3. PendingIsApart'
  BY <1>1, <1>2 DEF PendingIsApart, Apart, Enforce
<1>4. Executed' = Executed
  BY <1>1 DEF Executed, IsAction
<1>5. CadenceRespected' /\ LastIsExecuted'
  BY <1>1, <1>4 DEF CadenceInv, CadenceRespected, Consecutive, LastIsExecuted
<1> QED BY <1>3, <1>5 DEF CadenceInv

\* The decision in hand becomes the last executed one.
LEMMA CadenceSettle ==
    ASSUME TypeInv, CadenceInv, pc = "apply", pc' = "loop",
           decisions' = Append(decisions, decision), last' = day,
           UNCHANGED request
    PROVE  CadenceInv'
<1> DEFINE n == Len(decisions) + 1
<1>1. /\ decision \in Decision /\ decision.day = day /\ decision.orders # {}
      /\ day \in Days /\ TypeOK /\ Len(decisions) \in Nat
      /\ last # Never => Apart(last, day)
  BY DEF TypeInv, TypeOK, BatchHasDecision, CadenceInv, PendingIsApart
<1>2. /\ \A i \in Executed : decisions'[i] = decisions[i]
      /\ Executed' = Executed \cup {n}
      /\ Executed \subseteq 1..Len(decisions)
      /\ decisions'[n] = decision
  BY <1>1, ExecutedGrows
<1>3. n \in Nat /\ \A i \in Executed : i \in Nat /\ i < n
  BY <1>1, <1>2
<1> HIDE DEF n
<1>4. LastIsExecuted'
  <2>1. last' # Never
    BY <1>1, DaysAssumption DEF Never
  <2>2. \A i \in Executed' : (\A e \in Executed' : e <= i) => i = n
    BY <1>2, <1>3
  <2> QED BY <1>1, <1>2, <2>1, <2>2 DEF LastIsExecuted
<1>5. CadenceRespected'
  <2> SUFFICES ASSUME NEW i \in Executed', NEW j \in Executed', Consecutive(i, j)'
               PROVE  /\ request.strategy = "fixed_window" =>
                             decisions'[j].day - decisions'[i].day >= request.param
                      /\ request.strategy = "calendar_monthly" =>
                             MonthOrdinal[decisions'[j].day] # MonthOrdinal[decisions'[i].day]
    BY DEF CadenceRespected
  <2>1. i < j /\ ~\E e \in Executed' : i < e /\ e < j
    BY DEF Consecutive
  <2>2. i # n
    BY <1>2, <1>3, <2>1
  <2>3. i \in Executed
    BY <1>2, <2>2
  <2>4. CASE j # n
    <3>1. j \in Executed /\ Consecutive(i, j)
      BY <1>2, <2>1, <2>4 DEF Consecutive
    <3> QED BY <1>2, <2>3, <3>1 DEF CadenceInv, CadenceRespected
  <2>5. CASE j = n
    <3>1. \A e \in Executed : e <= i
      BY <1>2, <1>3, <2>1, <2>3, <2>5
    <3>2. decisions[i].day = last /\ last # Never
      BY <2>3, <3>1 DEF CadenceInv, LastIsExecuted
    <3> QED BY <1>1, <1>2, <2>3, <2>5, <3>2 DEF Apart
  <2> QED BY <2>4, <2>5
<1>6. PendingIsApart'
  BY DEF PendingIsApart
<1> QED BY <1>4, <1>5, <1>6 DEF CadenceInv

\* Nothing is executed at the start.
LEMMA CadenceInit == Init => CadenceInv
<1> SUFFICES ASSUME Init PROVE CadenceInv
  OBVIOUS
<1>1. Executed = {}
  BY DEF Init, Executed
<1> QED BY <1>1 DEF Init, CadenceInv, CadenceRespected, LastIsExecuted, PendingIsApart

\* Every step keeps the cadence.
LEMMA CadenceStep == TypeInv /\ CadenceInv /\ [Next]_vars => CadenceInv'
<1> SUFFICES ASSUME TypeInv, CadenceInv, [Next]_vars PROVE CadenceInv'
  OBVIOUS
<1> USE DEF request_vars, db_vars, book_vars, log_vars, batch_vars
<1>1. CASE SaveRun \/ LoadPrices \/ NoPriceData \/ CostModelRaises
           \/ StrategyFactoryRaises \/ Configure \/ KpisRaise \/ CompleteRun
           \/ SaveDecisions \/ CheckViolation \/ Crash
  <2>1. pc' \notin {"precheck", "apply"} /\ UNCHANGED <<request, last, decisions>>
    BY <1>1 DEF SaveRun, LoadPrices, NoPriceData, CostModelRaises,
         StrategyFactoryRaises, Configure, KpisRaise, CompleteRun,
         SaveDecisions, CheckViolation, Crash, MarkFailedAndRaise, RaiseUnmarked
  <2> QED BY <2>1, CadenceIdle
<1>2. ASSUME NEW d \in Days, DayStep(d)
      PROVE  CadenceInv'
  <2>1. CASE StrategyRaises(d) \/ LotRuleMissing(d)
    <3>1. pc' \notin {"precheck", "apply"} /\ UNCHANGED <<request, last, decisions>>
      BY <2>1 DEF StrategyRaises, LotRuleMissing, MarkFailedAndRaise, RaiseUnmarked
    <3> QED BY <3>1, CadenceIdle
  <2>2. ASSUME NEW dec \in Decision, dec.orders = {}, pc = "loop", QuietDay(d, dec)
        PROVE  CadenceInv'
    <3>1. /\ TypeOK /\ pc' \notin {"precheck", "apply"} /\ UNCHANGED <<request, last>>
          /\ decisions' = Append(decisions, dec)
      BY <2>2 DEF QuietDay, Record, TypeInv
    <3> QED BY <2>2, <3>1, CadenceQuiet
  <2>3. CASE NoTrigger(d)
    <3>1. [day |-> d, reason |-> "no_trigger", orders |-> {}, cost |-> 0] \in Decision
      BY DEF Decision, Reasons
    <3> QED BY <2>2, <2>3, <3>1 DEF NoTrigger
  <2>4. CASE ZeroShares(d)
    <3>1. [day |-> d, reason |-> "zero_shares_after_rounding",
           orders |-> {}, cost |-> 0] \in Decision
      BY DEF Decision, Reasons
    <3> QED BY <2>2, <2>4, <3>1 DEF ZeroShares
  <2>5. CASE AllBelowOneLot(d)
    <3>1. Enforce(d) \in Decision /\ Enforce(d).orders = {}
      BY <2>5, EnforcedType DEF AllBelowOneLot, Enforce
    <3> QED BY <2>2, <2>5, <3>1 DEF AllBelowOneLot, WantsOrders
  <2>6. CASE ProposeBatch(d)
    BY <2>6, CadencePropose
  <2> QED BY <1>2, <2>1, <2>3, <2>4, <2>5, <2>6 DEF DayStep
<1>3. CASE PreCheckOrder \/ AcceptBatch \/ ApplyBuy
  BY <1>3, CadenceIdle DEF PreCheckOrder, AcceptBatch, ApplyBuy
<1>4. CASE DowngradeBatch
  <2> DEFINE dec == [decision EXCEPT !.reason = "no_trigger", !.orders = {}, !.cost = 0]
  <2>1. dec \in Decision /\ dec.orders = {}
    BY <1>4 DEF DowngradeBatch, TypeInv, BatchHasDecision, Decision, Reasons
  <2>2. /\ TypeOK /\ pc' \notin {"precheck", "apply"} /\ UNCHANGED <<request, last>>
        /\ decisions' = Append(decisions, dec)
    BY <1>4 DEF DowngradeBatch, Record, TypeInv
  <2> HIDE DEF dec
  <2> QED BY <2>1, <2>2, CadenceQuiet
<1>5. CASE ApplySell
  <2>1. CASE shares[batch[k].ticker] < batch[k].shares
    BY <1>5, <2>1, CadenceIdle DEF ApplySell, MarkFailedAndRaise
  <2>2. CASE ~(shares[batch[k].ticker] < batch[k].shares)
    BY <1>5, <2>2, CadenceIdle DEF ApplySell
  <2> QED BY <2>1, <2>2
<1>6. CASE SettleBatch
  <2>1. CASE cash < 0
    BY <1>6, <2>1, CadenceIdle DEF SettleBatch, MarkFailedAndRaise
  <2>2. CASE ~(cash < 0)
    BY <1>6, <2>2, CadenceSettle DEF SettleBatch, Record
  <2> QED BY <2>1, <2>2
<1>7. CASE UNCHANGED vars
  BY <1>7, CadenceIdle DEF vars
<1> QED BY <1>1, <1>2, <1>3, <1>4, <1>5, <1>6, <1>7 DEF Next, SimulateStep

\* Executed rebalances keep the cadence of their strategy.
THEOREM CadenceKept == Spec => []CadenceRespected
<1>1. CadenceInv => CadenceRespected
  BY DEF CadenceInv
<1> QED BY TypeInit, TypeStep, CadenceInit, CadenceStep, <1>1, PTL DEF Spec
-------------------------------------------------------------------------------
(* The days and the two series.                                             *)

\* The two lists of a run: one entry each for every day done, in order.
Recorded == {decisions[i].day : i \in DOMAIN decisions}

SeriesShape ==
    /\ values \in Seq(Int \X Int)
    /\ Len(values) = Len(decisions)
    /\ \A i, j \in DOMAIN decisions : i < j => decisions[i].day < decisions[j].day

\* The days done are the trading days up to the current one; while a batch is in
\* hand the current day is still missing.
SeriesCovers ==
    /\ pc \in {"start", "load", "configure", "loop"} =>
           Recorded = {d \in TradingDays : d <= day}
    /\ pc \in {"precheck", "apply"} =>
           /\ day \in TradingDays /\ decision.day = day
           /\ Recorded = {d \in TradingDays : d < day}
    /\ run.status = "completed" => Recorded = TradingDays

SeriesInv == SeriesShape /\ SeriesCovers

\* The days are positive ordinals.
LEMMA DaysArePositive ==
    /\ \A d \in Days : d \in Nat /\ d > 0
    /\ \A d \in TradingDays : d \in Days /\ d \in Nat /\ d > 0
<1>1. \A d \in Days : d \in Nat \ {0}
  BY DaysAssumption
<1> QED BY <1>1 DEF TradingDays

\* A day's value is an integer.
LEMMA ValueOfBook ==
    ASSUME TypeOK, NEW d \in Days
    PROVE  TotalValue(cash, shares, bars[d]) \in Int
<1>1. DayPrices(bars[d]) /\ cash \in Int /\ shares \in [Tickers -> Nat]
  BY HistoriesAssumption DEF TypeOK, DayPrices
<1> QED BY <1>1, TotalValueType

\* Recording a later day extends both lists by one entry.
LEMMA RecordExtends ==
    ASSUME TypeOK, SeriesShape, NEW d \in Days, NEW dec \in Decision,
           \A e \in Recorded : e < dec.day,
           NEW cost \in Nat, Record(dec, cash, shares, cost, d)
    PROVE  SeriesShape' /\ Recorded' = Recorded \cup {dec.day}
<1> DEFINE n == Len(decisions)
           v == TotalValue(cash, shares, bars[d])
<1>1. /\ decisions \in Seq(Decision) /\ n \in Nat /\ DOMAIN decisions = 1..n
      /\ decisions' = Append(decisions, dec)
  BY DEF TypeOK, Record
<1>2. values' = Append(values, <<v, v + cost>>) /\ <<v, v + cost>> \in Int \X Int
  <2>1. v \in Int /\ cost \in Int
    BY ValueOfBook
  <2> HIDE DEF v
  <2>2. v + cost \in Int
    BY <2>1
  <2>3. values' = Append(values, <<v, v + cost>>)
    BY DEF Record, v
  <2> QED BY <2>1, <2>2, <2>3
<1> HIDE DEF v
<1>3. /\ DOMAIN decisions' = 1..(n + 1) /\ decisions'[n + 1] = dec
      /\ Len(decisions') = n + 1
      /\ \A i \in 1..n : decisions'[i] = decisions[i]
  BY <1>1
<1>4. values' \in Seq(Int \X Int) /\ Len(values') = n + 1
  BY <1>2 DEF SeriesShape
<1>5. \A i : i \in 1..(n + 1) <=> i \in 1..n \/ i = n + 1
  BY <1>1
<1>6. Recorded' = Recorded \cup {dec.day}
  <2>1. Recorded = {decisions[i].day : i \in 1..n}
    BY <1>1 DEF Recorded
  <2>2. Recorded' = {decisions'[i].day : i \in 1..(n + 1)}
    BY <1>3 DEF Recorded
  <2> HIDE DEF n
  <2> QED BY <2>1, <2>2, <1>3, <1>5
<1>7. ASSUME NEW i \in 1..(n + 1), NEW j \in 1..(n + 1), i < j
      PROVE  decisions'[i].day < decisions'[j].day
  <2>1. i \in 1..n
    BY <1>1, <1>7
  <2>2. CASE j \in 1..n
    BY <1>1, <1>3, <1>7, <2>1, <2>2 DEF SeriesShape
  <2>3. CASE j = n + 1
    <3>1. decisions[i].day \in Recorded
      BY <1>1, <2>1 DEF Recorded
    <3> QED BY <1>3, <2>1, <2>3, <3>1
  <2> QED BY <1>5, <2>2, <2>3
<1> QED BY <1>3, <1>4, <1>6, <1>7 DEF SeriesShape

\* Nothing is recorded at the start.
LEMMA SeriesInit == Init => SeriesInv
<1> SUFFICES ASSUME Init PROVE SeriesInv
  OBVIOUS
<1>1. decisions = <<>> /\ values = <<>> /\ day = 0 /\ pc = "start" /\ run.status = "none"
  BY DEF Init, NoRun
<1>2. Recorded = {} /\ SeriesShape
  BY <1>1 DEF Recorded, SeriesShape
<1>3. {d \in TradingDays : d <= 0} = {}
  BY DaysArePositive
<1> QED BY <1>1, <1>2, <1>3 DEF SeriesInv, SeriesCovers

\* A step that records nothing and stays on its side of the batch.
LEMMA SeriesIdle ==
    ASSUME SeriesInv, UNCHANGED <<bars, decisions, values>>,
           \/ pc' \in Ended /\ (run'.status = "completed" => run.status = "completed")
           \/ /\ pc \in {"start", "load", "configure", "loop"}
              /\ pc' \in {"start", "load", "configure", "loop"}
              /\ day' = day /\ run'.status # "completed"
           \/ /\ pc \in {"precheck", "apply"} /\ pc' \in {"precheck", "apply"}
              /\ UNCHANGED <<day, decision>> /\ run'.status # "completed"
           \/ UNCHANGED <<pc, day, decision, run>>
    PROVE  SeriesInv'
<1>1. Recorded' = Recorded /\ TradingDays' = TradingDays /\ SeriesShape'
  BY DEF Recorded, TradingDays, SeriesInv, SeriesShape
<1> QED BY <1>1 DEF SeriesInv, SeriesCovers, Ended

\* A quiet day.
LEMMA SeriesQuiet ==
    ASSUME TypeOK, SeriesInv, pc = "loop", run.status = "running", NEW d \in Days, IsNextDay(d),
           NEW dec \in Decision, dec.day = d, QuietDay(d, dec)
    PROVE  SeriesInv'
<1>1. /\ UNCHANGED <<pc, run, bars>> /\ day' = d /\ Record(dec, cash, shares, cumCost, d)
      /\ d \in TradingDays /\ d > day
  BY DEF QuietDay, request_vars, db_vars, IsNextDay, DaysLeft
<1>2. Recorded = {e \in TradingDays : e <= day}
  BY DEF SeriesInv, SeriesCovers
<1>3. (\A e \in TradingDays : e \in Nat) /\ day \in Nat
  BY DaysArePositive DEF TypeOK
<1>4. \A e \in Recorded : e < dec.day
  BY <1>1, <1>2, <1>3
<1>5. SeriesShape' /\ Recorded' = Recorded \cup {d}
  <2>1. cumCost \in Nat
    BY DEF TypeOK
  <2> QED BY <1>1, <1>4, <2>1, RecordExtends DEF SeriesInv
<1>6. {e \in TradingDays : e <= d} = {e \in TradingDays : e <= day} \cup {d}
  <2>1. ASSUME NEW e \in TradingDays, e <= d, e # d PROVE e <= day
    BY <1>1, <1>3, <2>1 DEF IsNextDay, DaysLeft
  <2> QED BY <1>1, <1>3, <2>1
<1>7. TradingDays' = TradingDays
  BY <1>1 DEF TradingDays
<1> QED BY <1>1, <1>2, <1>5, <1>6, <1>7 DEF SeriesInv, SeriesCovers

\* The day of a batch is recorded when the batch is dropped or settled.
LEMMA SeriesBatch ==
    ASSUME TypeInv, SeriesInv, pc \in {"precheck", "apply"}, pc' = "loop",
           run.status = "running",
           UNCHANGED <<request, bars, day, run>>, NEW dec \in Decision, dec.day = day,
           SeriesShape', Recorded' = Recorded \cup {dec.day}
    PROVE  SeriesInv'
<1>1. TradingDays' = TradingDays /\ day \in TradingDays
  BY DEF TradingDays, SeriesInv, SeriesCovers
<1>2. \A e \in TradingDays : e \in Nat
  BY DaysArePositive
<1>3. {d \in TradingDays : d <= day} = {d \in TradingDays : d < day} \cup {day}
  BY <1>1, <1>2
<1> QED BY <1>1, <1>3 DEF SeriesInv, SeriesCovers

\* A batch in hand follows all the days recorded.
LEMMA BatchIsLater ==
    ASSUME TypeInv, SeriesInv, pc \in {"precheck", "apply"}
    PROVE  \A e \in Recorded : e < decision.day
BY DEF SeriesInv, SeriesCovers

\* Every step keeps the series in line with the days.
LEMMA SeriesStep == TypeInv /\ PhaseInv /\ SeriesInv /\ [Next]_vars => SeriesInv'
<1> SUFFICES ASSUME TypeInv, PhaseInv, SeriesInv, [Next]_vars PROVE SeriesInv'
  OBVIOUS
<1> USE DEF request_vars, db_vars, book_vars, log_vars, batch_vars
<1>1. CASE SaveRun
  BY <1>1, SeriesIdle DEF SaveRun, NoRun
<1>2. CASE LoadPrices \/ Configure
  BY <1>2, SeriesIdle DEF LoadPrices, Configure, PhaseInv
<1>3. CASE NoPriceData \/ StrategyFactoryRaises
  <2>1. pc' \in Ended /\ run'.status = "failed" /\ UNCHANGED <<bars, decisions, values>>
    BY <1>3 DEF NoPriceData, StrategyFactoryRaises, MarkFailedAndRaise, UpdateStatus,
                Ended, TypeInv, TypeOK
  <2> QED BY <2>1, SeriesIdle
<1>4. CASE CostModelRaises \/ KpisRaise \/ CheckViolation \/ Crash \/ SaveDecisions
  <2>1. pc' \in Ended /\ run' = run /\ UNCHANGED <<bars, decisions, values>>
    BY <1>4 DEF CostModelRaises, KpisRaise, CheckViolation, Crash, SaveDecisions,
                RaiseUnmarked, Ended
  <2> QED BY <2>1, SeriesIdle
<1>5. ASSUME NEW d \in Days, DayStep(d)
      PROVE  SeriesInv'
  <2>1. CASE StrategyRaises(d)
    <3>1. pc' \in Ended /\ run'.status = "failed" /\ UNCHANGED <<bars, decisions, values>>
      BY <2>1 DEF StrategyRaises, MarkFailedAndRaise, UpdateStatus, Ended, TypeInv, TypeOK
    <3> QED BY <3>1, SeriesIdle
  <2>2. CASE LotRuleMissing(d)
    BY <2>2, SeriesIdle DEF LotRuleMissing, RaiseUnmarked, Ended
  <2>3. CASE NoTrigger(d)
    <3>1. [day |-> d, reason |-> "no_trigger", orders |-> {}, cost |-> 0] \in Decision
      BY DEF Decision, Reasons
    <3> QED BY <2>3, <3>1, SeriesQuiet DEF NoTrigger, PhaseInv, TypeInv
  <2>4. CASE ZeroShares(d)
    <3>1. [day |-> d, reason |-> "zero_shares_after_rounding",
           orders |-> {}, cost |-> 0] \in Decision
      BY DEF Decision, Reasons
    <3> QED BY <2>4, <3>1, SeriesQuiet DEF ZeroShares, PhaseInv, TypeInv
  <2>5. CASE AllBelowOneLot(d)
    <3>1. Enforce(d) \in Decision /\ Enforce(d).day = d
      BY <2>5, EnforcedType DEF AllBelowOneLot, Enforce
    <3> QED BY <2>5, <3>1, SeriesQuiet DEF AllBelowOneLot, WantsOrders, PhaseInv, TypeInv
  <2>6. CASE ProposeBatch(d)
    <3>1. /\ pc = "loop" /\ pc' = "precheck" /\ day' = d /\ decision'.day = d
          /\ d \in TradingDays /\ d > day /\ UNCHANGED <<run, bars, decisions, values>>
          /\ \A e \in DaysLeft : d <= e
      BY <2>6 DEF ProposeBatch, WantsOrders, IsNextDay, DaysLeft, Enforce
    <3>2. (\A e \in TradingDays : e \in Nat) /\ day \in Nat
      BY DaysArePositive DEF TypeInv, TypeOK
    <3>3. {e \in TradingDays : e < d} = {e \in TradingDays : e <= day}
      BY <3>1, <3>2 DEF DaysLeft
    <3>4. Recorded' = Recorded /\ TradingDays' = TradingDays /\ SeriesShape'
      BY <3>1 DEF Recorded, TradingDays, SeriesInv, SeriesShape
    <3> QED BY <3>1, <3>3, <3>4 DEF SeriesInv, SeriesCovers, PhaseInv
  <2> QED BY <1>5, <2>1, <2>2, <2>3, <2>4, <2>5, <2>6 DEF DayStep
<1>6. CASE PreCheckOrder \/ AcceptBatch \/ ApplyBuy
  BY <1>6, SeriesIdle DEF PreCheckOrder, AcceptBatch, ApplyBuy, PhaseInv
<1>7. CASE DowngradeBatch
  <2> DEFINE dec == [decision EXCEPT !.reason = "no_trigger", !.orders = {}, !.cost = 0]
  <2>1. dec \in Decision /\ dec.day = decision.day /\ decision.day = day /\ day \in Days
    BY <1>7 DEF DowngradeBatch, TypeInv, BatchHasDecision, Decision, Reasons,
                SeriesInv, SeriesCovers
  <2>2. /\ pc = "precheck" /\ pc' = "loop" /\ run.status = "running" /\ TypeOK
        /\ UNCHANGED <<request, bars, day, run>>
        /\ Record(dec, cash, shares, cumCost, day) /\ cumCost \in Nat
    BY <1>7 DEF DowngradeBatch, PhaseInv, TypeInv, TypeOK
  <2> HIDE DEF dec
  <2>3. SeriesShape' /\ Recorded' = Recorded \cup {dec.day}
    BY <2>1, <2>2, BatchIsLater, RecordExtends DEF SeriesInv
  <2> QED BY <2>1, <2>2, <2>3, SeriesBatch
<1>8. CASE ApplySell
  <2>1. CASE shares[batch[k].ticker] < batch[k].shares
    <3>1. pc' \in Ended /\ run'.status = "failed" /\ UNCHANGED <<bars, decisions, values>>
      BY <1>8, <2>1 DEF ApplySell, MarkFailedAndRaise, UpdateStatus, Ended, TypeInv, TypeOK
    <3> QED BY <3>1, SeriesIdle
  <2>2. CASE ~(shares[batch[k].ticker] < batch[k].shares)
    BY <1>8, <2>2, SeriesIdle DEF ApplySell, PhaseInv
  <2> QED BY <2>1, <2>2
<1>9. CASE SettleBatch
  <2>1. CASE cash < 0
    <3>1. pc' \in Ended /\ run'.status = "failed" /\ UNCHANGED <<bars, decisions, values>>
      BY <1>9, <2>1 DEF SettleBatch, MarkFailedAndRaise, UpdateStatus, Ended, TypeInv, TypeOK
    <3> QED BY <3>1, SeriesIdle
  <2>2. CASE ~(cash < 0)
    <3>1. decision \in Decision /\ decision.day = day /\ day \in Days
      BY <1>9 DEF SettleBatch, TypeInv, BatchHasDecision, SeriesInv, SeriesCovers
    <3>2. /\ pc = "apply" /\ pc' = "loop" /\ run.status = "running" /\ TypeOK
          /\ UNCHANGED <<request, bars, day, run>>
          /\ Record(decision, cash, shares, cumCost', day)
      BY <1>9, <2>2 DEF SettleBatch, PhaseInv, TypeInv
    <3>3. cumCost' \in Nat
      <4>1. cumCost' = cumCost + decision.cost /\ cumCost \in Nat /\ decision.cost \in Nat
        BY <1>9, <2>2, <3>1 DEF SettleBatch, TypeInv, TypeOK, Decision
      <4> QED BY <4>1
    <3>4. SeriesShape' /\ Recorded' = Recorded \cup {decision.day}
      BY <3>1, <3>2, <3>3, BatchIsLater, RecordExtends DEF SeriesInv
    <3> QED BY <3>1, <3>2, <3>4, SeriesBatch
  <2> QED BY <2>1, <2>2
<1>10. CASE CompleteRun
  <2>1. /\ pc = "loop" /\ pc' = "persist" /\ DaysLeft = {}
        /\ UNCHANGED <<bars, decisions, values, day>>
    BY <1>10 DEF CompleteRun
  <2>2. Recorded' = Recorded /\ TradingDays' = TradingDays /\ SeriesShape'
    BY <2>1 DEF Recorded, TradingDays, SeriesInv, SeriesShape
  <2>3. Recorded = {d \in TradingDays : d <= day}
    BY <2>1 DEF SeriesInv, SeriesCovers
  <2>4. (\A e \in TradingDays : e \in Nat) /\ day \in Nat
    BY DaysArePositive DEF TypeInv, TypeOK
  <2>5. Recorded = TradingDays
    BY <2>1, <2>3, <2>4 DEF DaysLeft
  <2> QED BY <2>1, <2>2, <2>5 DEF SeriesInv, SeriesCovers
<1>11. CASE UNCHANGED vars
  BY <1>11, SeriesIdle DEF vars
<1> QED BY <1>1, <1>2, <1>3, <1>4, <1>5, <1>6, <1>7, <1>8, <1>9, <1>10, <1>11
        DEF Next, SimulateStep

\* The list of n increasing days has n days.
LEMMA SeriesInvAligned == TypeOK /\ SeriesInv => SeriesAligned
<1> SUFFICES ASSUME TypeOK, SeriesInv, run.status = "completed"
             PROVE  /\ Len(values) = Cardinality(TradingDays)
                    /\ Recorded = TradingDays
  BY DEF SeriesAligned, Recorded, SeriesInv, SeriesShape
<1> DEFINE n == Len(decisions)
           f == [i \in 1..n |-> decisions[i].day]
<1>1. n \in Nat /\ DOMAIN decisions = 1..n /\ Len(values) = n /\ Recorded = TradingDays
  BY DEF TypeOK, SeriesInv, SeriesShape, SeriesCovers
<1>2. \A i, j \in 1..n : f[i] = f[j] => i = j
  <2> SUFFICES ASSUME NEW i \in 1..n, NEW j \in 1..n, i < j PROVE f[i] # f[j]
    BY <1>1
  <2>1. f[i] < f[j]
    BY <1>1 DEF SeriesInv, SeriesShape
  <2>2. decisions[i] \in Decision /\ decisions[j] \in Decision
    BY <1>1 DEF TypeOK
  <2>3. f[i] \in Nat /\ f[j] \in Nat
    BY <2>2, DaysArePositive DEF Decision
  <2> QED BY <2>1, <2>3
<1>3. f \in Bijection(1..n, TradingDays)
  <2>1. {f[i] : i \in 1..n} = TradingDays
    BY <1>1 DEF Recorded
  <2> HIDE DEF n, f
  <2>2. f \in [1..n -> TradingDays]
    <3>1. \A i \in 1..n : f[i] \in TradingDays
      BY <2>1
    <3>2. f = [i \in 1..n |-> f[i]]
      BY DEF f
    <3> QED BY <3>1, <3>2
  <2> QED BY <1>2, <2>1, <2>2 DEF Bijection, Injection, Surjection, IsInjective
<1> HIDE DEF n, f
<1>4. IsFiniteSet(1..n) /\ Cardinality(1..n) = n
  BY <1>1, FS_Interval
<1>5. Cardinality(TradingDays) = n
  BY <1>3, <1>4, FS_Bijection DEF ExistsBijection
<1> QED BY <1>1, <1>5

\* A completed run has one decision and one pair of values for each trading day.
THEOREM SeriesLineUp == Spec => []SeriesAligned
<1>1. TypeInv => TypeOK
  BY DEF TypeInv
<1> QED BY TypeInit, TypeStep, LifecycleInit, LifecycleStep, SeriesInit, SeriesStep,
           SeriesInvAligned, <1>1, PTL DEF Spec
-------------------------------------------------------------------------------
(* What a caller reads back.                                                *)

\* The decisions that were executed, and what each cost.
ExecutedRows == {decisions[i] : i \in Executed}

CostOf == [row \in Decision |-> row.cost]

\* The cumulative cost and the KPIs describe the executed decisions, which are
\* those of the saved rows that carry orders.
RowsInv ==
    /\ cumCost = Total(ExecutedRows, CostOf)
    /\ \A i \in Executed : decisions[i].reason # "no_trigger"
    /\ pc \in {"precheck", "apply"} => decision.reason # "no_trigger"
    /\ pc \in {"persist", "returned"} => run.kpi = {Cardinality(Executed)}
    /\ pc = "returned" => saved = Actionable

\* The executed decisions are finitely many.
LEMMA ExecutedRowsFinite ==
    ASSUME TypeOK
    PROVE  ExecutedRows \subseteq Decision /\ IsFiniteSet(ExecutedRows) /\ IsFiniteSet(Executed)
<1> DEFINE f == [i \in Executed |-> decisions[i]]
<1>1. Executed \subseteq 1..Len(decisions) /\ Len(decisions) \in Nat
      /\ \A i \in 1..Len(decisions) : decisions[i] \in Decision
  BY DEF Executed, TypeOK
<1>2. IsFiniteSet(1..Len(decisions))
  BY <1>1, FS_Interval
<1>3. IsFiniteSet(Executed)
  BY <1>1, <1>2, FS_Subset
<1>4. f \in Surjection(Executed, ExecutedRows)
  BY DEF Surjection, ExecutedRows
<1> HIDE DEF f
<1>5. IsFiniteSet(ExecutedRows)
  BY <1>3, <1>4, FS_Surjection
<1> QED BY <1>1, <1>3, <1>5 DEF ExecutedRows

\* Nothing costs anything at the start.
LEMMA RowsInit == Init => RowsInv
<1> SUFFICES ASSUME Init PROVE RowsInv
  OBVIOUS
<1>1. Executed = {} /\ ExecutedRows = {}
  BY DEF Init, Executed, ExecutedRows
<1>2. cumCost = Total(ExecutedRows, CostOf)
  BY <1>1, TotalEmpty DEF Init
<1> QED BY <1>1, <1>2 DEF Init, RowsInv

\* A step that neither decides nor closes the run.
LEMMA RowsIdle ==
    ASSUME RowsInv, UNCHANGED <<cumCost, decisions>>,
           pc' \in {"precheck", "apply"} =>
               pc \in {"precheck", "apply"} /\ UNCHANGED decision,
           pc' \in {"persist", "returned"} =>
               pc \in {"persist", "returned"} /\ UNCHANGED run,
           pc' = "returned" => \/ pc = "returned" /\ UNCHANGED saved
                               \/ saved' = Actionable
    PROVE  RowsInv'
<1>1. Executed' = Executed /\ ExecutedRows' = ExecutedRows /\ Actionable' = Actionable
  BY DEF Executed, ExecutedRows, IsAction, Actionable
<1> QED BY <1>1 DEF RowsInv

\* A decision without orders is no row.
LEMMA RowsQuiet ==
    ASSUME TypeOK, RowsInv, NEW dec \in Decision, dec.orders = {},
           decisions' = Append(decisions, dec), UNCHANGED cumCost,
           pc' = "loop"
    PROVE  RowsInv'
<1>1. Executed' = Executed /\ \A i \in Executed : decisions'[i] = decisions[i]
  BY ExecutedGrows
<1>2. ExecutedRows' = ExecutedRows
  BY <1>1 DEF ExecutedRows
<1> QED BY <1>1, <1>2 DEF RowsInv

\* The executed decision adds a row and its cost.
LEMMA RowsSettle ==
    ASSUME TypeInv, SeriesInv, CadenceInv, RowsInv, pc = "apply", pc' = "loop",
           decisions' = Append(decisions, decision),
           cumCost' = cumCost + decision.cost
    PROVE  RowsInv'
<1> DEFINE n == Len(decisions) + 1
           R == ExecutedRows
           S == ExecutedRows'
<1>1. TypeOK /\ decision \in Decision /\ decision.orders # {} /\ decision.reason # "no_trigger"
  BY DEF TypeInv, BatchHasDecision, CadenceInv, PendingIsApart, RowsInv
<1>2. /\ \A i \in Executed : decisions'[i] = decisions[i]
      /\ Executed' = Executed \cup {n}
      /\ Executed \subseteq DOMAIN decisions
      /\ decisions'[n] = decision
  BY <1>1, ExecutedGrows DEF Executed
<1> HIDE DEF n
<1>3. S = R \cup {decision}
  BY <1>2 DEF ExecutedRows
<1>4. decision \notin R
  <2> SUFFICES ASSUME NEW i \in Executed, decisions[i] = decision PROVE FALSE
    BY DEF ExecutedRows
  <2>1. decision.day \in Recorded
    BY <1>2 DEF Recorded
  <2>2. decision.day < decision.day /\ decision.day \in Nat
    BY <1>1, <2>1, BatchIsLater, DaysArePositive DEF Decision
  <2> QED BY <2>2
<1>5. R \subseteq Decision /\ IsFiniteSet(R)
  BY <1>1, ExecutedRowsFinite
<1>6. S \subseteq Decision /\ IsFiniteSet(S) /\ decision \in S /\ S \ {decision} = R
  BY <1>1, <1>3, <1>4, <1>5, FS_AddElement
<1>7. \A row \in S : CostOf[row] \in Int
  BY <1>6 DEF CostOf, Decision
<1> HIDE DEF R, S
<1>8. Total(S, CostOf) = CostOf[decision] + Total(R, CostOf)
  BY <1>6, <1>7, TotalWithout
<1>9. CostOf[decision] = decision.cost /\ decision.cost \in Nat /\ cumCost \in Nat
  BY <1>1 DEF CostOf, Decision, TypeOK
<1>10. cumCost' = Total(ExecutedRows', CostOf)
  <2>1. cumCost = Total(R, CostOf)
    BY DEF RowsInv, R
  <2>2. cumCost' = Total(S, CostOf)
    BY <1>8, <1>9, <2>1
  <2> QED BY <2>2 DEF S
<1>11. \A i \in Executed' : decisions'[i].reason # "no_trigger"
  BY <1>1, <1>2 DEF RowsInv
<1> QED BY <1>10, <1>11 DEF RowsInv, CostOf

\* Every step keeps cost and KPIs to the rows.
LEMMA RowsStep ==
    TypeInv /\ SeriesInv /\ CadenceInv /\ RowsInv /\ [Next]_vars => RowsInv'
<1> SUFFICES ASSUME TypeInv, SeriesInv, CadenceInv, RowsInv, [Next]_vars PROVE RowsInv'
  OBVIOUS
<1> USE DEF request_vars, db_vars, book_vars, log_vars, batch_vars
<1>1. CASE SaveRun \/ LoadPrices \/ NoPriceData \/ CostModelRaises
           \/ StrategyFactoryRaises \/ Configure \/ KpisRaise \/ CheckViolation \/ Crash
  <2>1. /\ pc' \notin {"precheck", "apply", "persist", "returned"}
        /\ UNCHANGED <<cumCost, decisions>>
    BY <1>1 DEF SaveRun, LoadPrices, NoPriceData, CostModelRaises,
         StrategyFactoryRaises, Configure, KpisRaise, CheckViolation, Crash,
         MarkFailedAndRaise, RaiseUnmarked
  <2> QED BY <2>1, RowsIdle
<1>2. ASSUME NEW d \in Days, DayStep(d)
      PROVE  RowsInv'
  <2>1. CASE StrategyRaises(d) \/ LotRuleMissing(d)
    <3>1. /\ pc' \notin {"precheck", "apply", "persist", "returned"}
          /\ UNCHANGED <<cumCost, decisions>>
      BY <2>1 DEF StrategyRaises, LotRuleMissing, MarkFailedAndRaise, RaiseUnmarked
    <3> QED BY <3>1, RowsIdle
  <2>2. ASSUME NEW dec \in Decision, dec.orders = {}, pc = "loop", QuietDay(d, dec)
        PROVE  RowsInv'
    <3>1. /\ TypeOK /\ pc' = "loop" /\ UNCHANGED cumCost
          /\ decisions' = Append(decisions, dec)
      BY <2>2 DEF QuietDay, Record, TypeInv
    <3> QED BY <2>2, <3>1, RowsQuiet
  <2>3. CASE NoTrigger(d)
    <3>1. [day |-> d, reason |-> "no_trigger", orders |-> {}, cost |-> 0] \in Decision
      BY DEF Decision, Reasons
    <3> QED BY <2>2, <2>3, <3>1 DEF NoTrigger
  <2>4. CASE ZeroShares(d)
    <3>1. [day |-> d, reason |-> "zero_shares_after_rounding",
           orders |-> {}, cost |-> 0] \in Decision
      BY DEF Decision, Reasons
    <3> QED BY <2>2, <2>4, <3>1 DEF ZeroShares
  <2>5. CASE AllBelowOneLot(d)
    <3>1. Enforce(d) \in Decision /\ Enforce(d).orders = {}
      BY <2>5, EnforcedType DEF AllBelowOneLot, Enforce
    <3> QED BY <2>2, <2>5, <3>1 DEF AllBelowOneLot, WantsOrders
  <2>6. CASE ProposeBatch(d)
    <3>1. /\ pc = "loop" /\ pc' = "precheck" /\ decision' = Enforce(d)
          /\ UNCHANGED <<cumCost, decisions>>
      BY <2>6 DEF ProposeBatch, WantsOrders
    <3>2. TradeReason # "no_trigger"
      BY <3>1 DEF TypeInv, StrategyKnown, Strategies, TradeReason
    <3>3. Executed' = Executed /\ ExecutedRows' = ExecutedRows
      BY <3>1 DEF Executed, ExecutedRows, IsAction
    <3> QED BY <3>1, <3>2, <3>3 DEF RowsInv, Enforce
  <2> QED BY <1>2, <2>1, <2>3, <2>4, <2>5, <2>6 DEF DayStep
<1>3. CASE PreCheckOrder \/ AcceptBatch \/ ApplyBuy
  BY <1>3, RowsIdle DEF PreCheckOrder, AcceptBatch, ApplyBuy
<1>4. CASE DowngradeBatch
  <2> DEFINE dec == [decision EXCEPT !.reason = "no_trigger", !.orders = {}, !.cost = 0]
  <2>1. dec \in Decision /\ dec.orders = {}
    BY <1>4 DEF DowngradeBatch, TypeInv, BatchHasDecision, Decision, Reasons
  <2>2. /\ TypeOK /\ pc' = "loop" /\ UNCHANGED cumCost
        /\ decisions' = Append(decisions, dec)
    BY <1>4 DEF DowngradeBatch, Record, TypeInv
  <2> HIDE DEF dec
  <2> QED BY <2>1, <2>2, RowsQuiet
<1>5. CASE ApplySell
  <2>1. CASE shares[batch[k].ticker] < batch[k].shares
    BY <1>5, <2>1, RowsIdle DEF ApplySell, MarkFailedAndRaise
  <2>2. CASE ~(shares[batch[k].ticker] < batch[k].shares)
    BY <1>5, <2>2, RowsIdle DEF ApplySell
  <2> QED BY <2>1, <2>2
<1>6. CASE SettleBatch
  <2>1. CASE cash < 0
    BY <1>6, <2>1, RowsIdle DEF SettleBatch, MarkFailedAndRaise
  <2>2. CASE ~(cash < 0)
    BY <1>6, <2>2, RowsSettle DEF SettleBatch, Record
  <2> QED BY <2>1, <2>2
<1>7. CASE CompleteRun
  <2>1. /\ pc = "loop" /\ pc' = "persist" /\ UNCHANGED <<cumCost, decisions>>
        /\ run'.kpi = {Cardinality(Executed)}
    BY <1>7 DEF CompleteRun, UpdateStatus, TypeInv, TypeOK
  <2>2. Executed' = Executed /\ ExecutedRows' = ExecutedRows
    BY <2>1 DEF Executed, ExecutedRows, IsAction
  <2> QED BY <2>1, <2>2 DEF RowsInv
<1>8. CASE SaveDecisions
  BY <1>8, RowsIdle DEF SaveDecisions
<1>9. CASE UNCHANGED vars
  BY <1>9, RowsIdle DEF vars
<1> QED BY <1>1, <1>2, <1>3, <1>4, <1>5, <1>6, <1>7, <1>8, <1>9 DEF Next, SimulateStep

\* The fold over rows is the sum of their costs.
LEMMA CostsAreTotal ==
    ASSUME NEW rows, IsFiniteSet(rows), rows \subseteq Decision
    PROVE  MapThenSumSet(LAMBDA row : row.cost, rows) = Total(rows, CostOf)
<1> DEFINE f == CHOOSE g : g = [s \in SUBSET rows |->
                    IF s = {} THEN 0 ELSE Pick(s).cost + g[s \ {Pick(s)}]]
<1>1. MapThenSumSet(LAMBDA row : row.cost, rows) = f[rows]
  BY DEF MapThenSumSet, MapThenFoldSet, Pick
<1>2. ASSUME NEW g
      PROVE  Sums(g, rows, CostOf) <=>
             g = [s \in SUBSET rows |-> IF s = {} THEN 0
                  ELSE Pick(s).cost + g[s \ {Pick(s)}]]
  <2>1. \A s \in SUBSET rows : s # {} => CostOf[Pick(s)] = Pick(s).cost
    BY PickIsIn DEF CostOf
  <2> QED BY <2>1 DEF Sums, Rest
<1>3. Sums(f, rows, CostOf)
  <2>1. PICK g : Sums(g, rows, CostOf)
    BY SumsExist
  <2>2. f = [s \in SUBSET rows |-> IF s = {} THEN 0
                  ELSE Pick(s).cost + f[s \ {Pick(s)}]]
    BY <1>2, <2>1
  <2> QED BY <1>2, <2>2
<1> HIDE DEF f
<1>4. f[rows] = Total(rows, CostOf)
  <2>1. Sums(CHOOSE g : Sums(g, rows, CostOf), rows, CostOf)
    BY <1>3
  <2> QED BY <1>3, <2>1, SumsAgree DEF Total
<1> QED BY <1>1, <1>4

\* The invariant at the end of the call.
LEMMA RowsInvMatches == TypeOK /\ SeriesInv /\ RowsInv => RowsMatchKpi
<1> SUFFICES ASSUME TypeOK, SeriesInv, RowsInv, pc = "returned"
             PROVE  /\ run.kpi = {Cardinality(RowsWithOrders)}
                    /\ cumCost = MapThenSumSet(LAMBDA row : row.cost, RowsWithOrders)
  BY DEF RowsMatchKpi
<1>1. RowsWithOrders = ExecutedRows
  <2>1. saved = {decisions[i] : i \in {j \in DOMAIN decisions : decisions[j].reason # "no_trigger"}}
    BY DEF RowsInv, Actionable
  <2>2. \A i \in Executed : decisions[i].reason # "no_trigger"
    BY DEF RowsInv
  <2> QED BY <2>1, <2>2 DEF RowsWithOrders, ExecutedRows, Executed, IsAction
<1>2. ExecutedRows \subseteq Decision /\ IsFiniteSet(ExecutedRows) /\ IsFiniteSet(Executed)
  BY ExecutedRowsFinite
<1>3. Cardinality(ExecutedRows) = Cardinality(Executed)
  <2> DEFINE f == [i \in Executed |-> decisions[i]]
  <2>1. \A i, j \in Executed : f[i] = f[j] => i = j
    <3> SUFFICES ASSUME NEW i \in Executed, NEW j \in Executed, i < j PROVE f[i] # f[j]
      <4>1. \A i \in Executed : i \in Nat
        BY DEF Executed, TypeOK
      <4> QED BY <4>1
    <3>1. decisions[i].day < decisions[j].day
      BY DEF Executed, SeriesInv, SeriesShape
    <3>2. decisions[i] \in Decision /\ decisions[j] \in Decision
      BY DEF Executed, TypeOK
    <3>3. decisions[i].day \in Nat /\ decisions[j].day \in Nat
      BY <3>2, DaysArePositive DEF Decision
    <3> QED BY <3>1, <3>3
  <2>2. f \in Bijection(Executed, ExecutedRows)
    BY <2>1 DEF Bijection, Injection, Surjection, IsInjective, ExecutedRows
  <2> HIDE DEF f
  <2> QED BY <1>2, <2>2, FS_Bijection DEF ExistsBijection
<1>4. MapThenSumSet(LAMBDA row : row.cost, ExecutedRows) = cumCost
  BY <1>2, CostsAreTotal DEF RowsInv
<1> QED BY <1>1, <1>3, <1>4 DEF RowsInv

\* What the caller reads back is what the loop did.
THEOREM KpiMatchesRows == Spec => []RowsMatchKpi
<1>1. TypeInv => TypeOK
  BY DEF TypeInv
<1> QED BY TypeInit, TypeStep, LifecycleInit, LifecycleStep, SeriesInit, SeriesStep,
           CadenceInit, CadenceStep, RowsInit, RowsStep, RowsInvMatches, <1>1, PTL DEF Spec
===============================================================================
