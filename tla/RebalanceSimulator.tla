-------------------------- MODULE RebalanceSimulator --------------------------
(***************************************************************************)
(* One call of RebalanceSimulator.simulate(): the run row it opens, the    *)
(* daily loop over the price history, the batch of orders of each          *)
(* rebalance, and the two commits that close the run (status and KPIs,     *)
(* then the decision rows).                                                *)
(*                                                                         *)
(* Every repository call is its own connection and its own commit, so each *)
(* is an action, and the process may stop between any two of them (Crash). *)
(* Within a day the two loops over the sorted orders (the budget check and *)
(* Portfolio.apply_orders) go one order at a time, so that what holds only *)
(* because SELLs come first is not hidden inside one step.                 *)
(***************************************************************************)
EXTENDS TradeRules, Sequences

CONSTANTS Tickers,    \* the universe of the request's target_weights
          Days,       \* ordinals of the calendar days of the range
          MonthOrdinal, \* Days -> calendar months since some January
          LotRules,   \* lot rules of the exchange: [lot, from, to]
          Histories,  \* what get_ohlcv may return: Days -> Tickers -> price
          Requests    \* the requests: [strategy, param, weights, capital, fees]

Strategies == {"threshold_band", "calendar_monthly", "fixed_window"}

\* Reasons a decision can carry, and those chk_decision_reason_known admits.
TradeReasons   == {"band_drift", "calendar", "window"}
Reasons        == TradeReasons \cup {"no_trigger", "zero_shares_after_rounding"}
CheckedReasons == {"band_drift", "calendar", "window", "hybrid", "manual"}

Order == [ticker : Tickers, side : {"BUY", "SELL"},
          shares : Nat \ {0}, price : Nat \ {0}]

Decision == [day : Days, reason : Reasons, orders : SUBSET Order, cost : Nat]

Fees == [brokerage : Int, impact : Int, tax : Int]

ASSUME TickersAssumption == IsFiniteSet(Tickers) /\ Tickers # {}

ASSUME DaysAssumption == Days \subseteq Nat \ {0} /\ IsFiniteSet(Days)

ASSUME MonthsAssumption == MonthOrdinal \in [Days -> Nat]

ASSUME LotRulesAssumption ==
    \A r \in LotRules : r.lot \in Nat \ {0} /\ r.from \in Nat /\ r.to \in Nat

ASSUME HistoriesAssumption ==
    \A h \in Histories : /\ DOMAIN h = Days
                         /\ \A d \in Days : /\ DOMAIN h[d] = Tickers
                                            /\ \A t \in Tickers : h[d][t] \in Nat

\* SimulateRequest.__post_init__ and the range of a ticker's weight.
ASSUME RequestsAssumption ==
    \A q \in Requests : /\ q.capital \in Nat \ {0}
                        /\ DOMAIN q.weights = Tickers
                        /\ \A t \in Tickers : q.weights[t] \in 0..100

VARIABLES
    request,     \* the call's argument, never mutated
    bars,        \* what the price repository holds
    pc,          \* where simulate() is
    run,         \* the row of simulation.rebalance_run
    saved,       \* the rows of simulation.rebalance_decision
    day,         \* the trading day being processed (0 before the first)
    cash,        \* Portfolio.cash
    shares,      \* Portfolio.holdings, as shares per ticker
    last,        \* last_rebalance_date
    cumCost,     \* cumulative_cost
    decisions,   \* the decisions of the days done
    values,      \* the daily values: <<after, before>>
    decision,    \* the decision of the current day while its orders are handled
    batch,       \* sorted_orders
    trail,       \* the values projected_cash has taken
    k            \* next order of batch to apply

request_vars == <<request, bars>>
db_vars      == <<run, saved>>
book_vars    == <<cash, shares, last, cumCost>>
log_vars     == <<decisions, values>>
batch_vars   == <<decision, batch, trail, k>>
vars == <<request_vars, pc, db_vars, day, book_vars, log_vars, batch_vars>>

NoDecision == [day |-> Never, reason |-> "no_trigger", orders |-> {}, cost |-> 0]

Ended == {"returned", "raised", "crashed"}

-------------------------------------------------------------------------------
(* The run row.                                                             *)

NoRun == [status |-> "none", error |-> FALSE, stamped |-> FALSE, kpi |-> {}]

\* update_status(): terminal states stamp completed_at.
UpdateStatus(status, error, kpi) ==
    run' = [run EXCEPT !.status  = status,
                       !.error   = @ \/ error,
                       !.stamped = @ \/ status \in {"completed", "failed"},
                       !.kpi     = kpi]

\* The two ways simulate() leaves by an exception.
MarkFailedAndRaise == UpdateStatus("failed", TRUE, run.kpi) /\ pc' = "raised"

RaiseUnmarked == UNCHANGED run /\ pc' = "raised"

-------------------------------------------------------------------------------
(* The daily loop.                                                          *)

TradingDays == {d \in Days : Priced(bars[d]) # {}}

DaysLeft == {d \in TradingDays : d > day}

IsNextDay(d) == d \in DaysLeft /\ \A e \in DaysLeft : d <= e

\* date.month: the year is lost.
MonthNumber == [d \in Days |-> (MonthOrdinal[d] % 12) + 1]

\* should_trigger() of the strategy the request names.
Triggers(d) ==
    CASE request.strategy = "threshold_band" ->
             BandTriggers(request.param, request.weights, cash, shares, bars[d])
      [] request.strategy = "calendar_monthly" -> MonthTriggers(MonthNumber, last, d)
      [] request.strategy = "fixed_window" -> WindowTriggers(request.param, last, d)

\* _reason()
TradeReason ==
    CASE request.strategy = "threshold_band"   -> "band_drift"
      [] request.strategy = "calendar_monthly" -> "calendar"
      [] request.strategy = "fixed_window"     -> "window"

\* The orders the strategy wants on day d, before lots, and their cost.
Intent(d) == ComputeOrders(request.weights, cash, shares, bars[d])

IntentCost(d) == TradingCost(request.fees, Intent(d))

\* The constructor of a strategy refuses a parameter out of its range.
ParamInRange(q) ==
    CASE q.strategy = "threshold_band" -> q.param \in 1..10000
      [] q.strategy = "fixed_window"   -> q.param \in 1..365
      [] OTHER -> TRUE

\* Mutant: orders stay in the order of the strategy.
AnyOrder(orders) ==
    {s \in [1..Cardinality(orders) -> orders] :
        \A i, j \in DOMAIN s : s[i] = s[j] => i = j}

\* sorted(orders, key = SELL first): any order of the dict, SELLs before BUYs.
SellFirst(orders) ==
    {s \in [1..Cardinality(orders) -> orders] :
        /\ \A i, j \in DOMAIN s : s[i] = s[j] => i = j
        /\ \A i, j \in DOMAIN s : i < j => ~(s[i].side = "BUY" /\ s[j].side = "SELL")}

CashDelta(o) == IF o.side = "SELL" THEN GrossAmount(o) ELSE -GrossAmount(o)

\* The tail of the loop body: the decision and the day's two values are kept.
Record(dec, c, sh, cost, d) ==
    /\ decisions' = Append(decisions, dec)
    /\ values' = Append(values, <<TotalValue(c, sh, bars[d]),
                                  TotalValue(c, sh, bars[d]) + cost>>)

-------------------------------------------------------------------------------
Init ==
    /\ request \in Requests
    /\ bars \in Histories
    /\ pc = "start"
    /\ run = NoRun
    /\ saved = {}
    /\ day = 0
    /\ cash = request.capital
    /\ shares = [t \in Tickers |-> 0]
    /\ last = Never
    /\ cumCost = 0
    /\ decisions = <<>>
    /\ values = <<>>
    /\ decision = NoDecision
    /\ batch = <<>>
    /\ trail = <<>>
    /\ k = 1

\* run_repo.save(record): the row is committed before anything is checked.
SaveRun ==
    /\ pc = "start"
    /\ run' = [NoRun EXCEPT !.status = "running"]
    /\ pc' = "load"
    /\ UNCHANGED <<request_vars, saved, day, book_vars, log_vars, batch_vars>>

\* _load_price_history(): one query per ticker; a ticker without any bar fails.
HasBars(t) == \E d \in Days : bars[d][t] # NoPrice

LoadPrices ==
    /\ pc = "load"
    /\ \A t \in Tickers : HasBars(t)
    /\ pc' = "configure"
    /\ UNCHANGED <<request_vars, db_vars, day, book_vars, log_vars, batch_vars>>

NoPriceData ==
    /\ pc = "load"
    /\ \E t \in Tickers : ~HasBars(t)
    /\ MarkFailedAndRaise
    /\ UNCHANGED <<request_vars, saved, day, book_vars, log_vars, batch_vars>>

\* CostCalculator() stands outside every try of simulate().
CostModelRaises ==
    /\ pc = "configure"
    /\ ~RatesInRange(request.fees)
    /\ RaiseUnmarked
    /\ UNCHANGED <<request_vars, saved, day, book_vars, log_vars, batch_vars>>

\* Mutant: the caller is sent back to try the same request again.
StrategyFactoryRetries ==
    /\ pc = "configure"
    /\ RatesInRange(request.fees)
    /\ request.strategy \notin Strategies \/ ~ParamInRange(request)
    /\ pc' = "load"
    /\ UNCHANGED <<request_vars, db_vars, day, book_vars, log_vars, batch_vars>>

\* strategy_factory(): unknown name, or a parameter its constructor refuses.
StrategyFactoryRaises ==
    /\ pc = "configure"
    /\ RatesInRange(request.fees)
    /\ request.strategy \notin Strategies \/ ~ParamInRange(request)
    /\ MarkFailedAndRaise
    /\ UNCHANGED <<request_vars, saved, day, book_vars, log_vars, batch_vars>>

Configure ==
    /\ pc = "configure"
    /\ RatesInRange(request.fees)
    /\ request.strategy \in Strategies /\ ParamInRange(request)
    /\ pc' = "loop"
    /\ UNCHANGED <<request_vars, db_vars, day, book_vars, log_vars, batch_vars>>

-------------------------------------------------------------------------------
(* A day: strategy.rebalance(), then _enforce_lot_sizes().                  *)

\* A day that trades nothing keeps the book and records the decision.
QuietDay(d, dec) ==
    /\ day' = d
    /\ Record(dec, cash, shares, cumCost, d)
    /\ UNCHANGED <<request_vars, pc, db_vars, book_vars, batch_vars>>

NoTrigger(d) ==
    /\ pc = "loop" /\ IsNextDay(d)
    /\ ~Triggers(d)
    /\ QuietDay(d, [day |-> d, reason |-> "no_trigger", orders |-> {}, cost |-> 0])

ZeroShares(d) ==
    /\ pc = "loop" /\ IsNextDay(d)
    /\ Triggers(d)
    /\ Intent(d) = {}
    /\ QuietDay(d, [day |-> d, reason |-> "zero_shares_after_rounding",
                    orders |-> {}, cost |-> 0])

\* RebalanceDecision refuses orders whose total cost is zero.
StrategyRaises(d) ==
    /\ pc = "loop" /\ IsNextDay(d)
    /\ Triggers(d)
    /\ Intent(d) # {}
    /\ IntentCost(d) \notin Nat \ {0}
    /\ day' = d
    /\ MarkFailedAndRaise
    /\ UNCHANGED <<request_vars, saved, book_vars, log_vars, batch_vars>>

WantsOrders(d) ==
    /\ pc = "loop" /\ IsNextDay(d)
    /\ Triggers(d)
    /\ Intent(d) # {}
    /\ IntentCost(d) \in Nat \ {0}

\* get_lot_size() raises outside every try of the loop.
LotRuleMissing(d) ==
    /\ WantsOrders(d)
    /\ ~HasLotRule(LotRules, d)
    /\ day' = d
    /\ RaiseUnmarked
    /\ UNCHANGED <<request_vars, saved, book_vars, log_vars, batch_vars>>

Enforced(d) == EnforceLotSizes(Intent(d), GetLotSize(LotRules, d))

\* replace(decision, orders=...) keeps the reason and the pre-lot cost.
Enforce(d) == [day |-> d, reason |-> TradeReason, orders |-> Enforced(d),
               cost |-> IntentCost(d)]

AllBelowOneLot(d) ==
    /\ WantsOrders(d)
    /\ HasLotRule(LotRules, d)
    /\ Enforced(d) = {}
    /\ QuietDay(d, Enforce(d))

ProposeBatch(d) ==
    /\ WantsOrders(d)
    /\ HasLotRule(LotRules, d)
    /\ Enforced(d) # {}
    /\ day' = d
    /\ decision' = Enforce(d)
    /\ batch' \in SellFirst(Enforced(d))
    /\ trail' = <<cash>>
    /\ pc' = "precheck"
    /\ UNCHANGED <<request_vars, db_vars, book_vars, log_vars, k>>

-------------------------------------------------------------------------------
(* The batch: budget pre-check, then Portfolio.apply_orders.                *)

Projected == trail[Len(trail)]

PreCheckOrder ==
    /\ pc = "precheck"
    /\ Len(trail) <= Len(batch)
    /\ trail' = Append(trail, Projected + CashDelta(batch[Len(trail)]))
    /\ UNCHANGED <<request_vars, pc, db_vars, day, book_vars, log_vars,
                   decision, batch, k>>

ClearBatch == decision' = NoDecision /\ batch' = <<>> /\ trail' = <<>> /\ k' = 1

\* Not enough cash after lots: the decision becomes a no_trigger one.
DowngradeBatch ==
    /\ pc = "precheck"
    /\ Len(trail) > Len(batch)
    /\ Projected < 0
    /\ Record([decision EXCEPT !.reason = "no_trigger", !.orders = {}, !.cost = 0],
              cash, shares, cumCost, day)
    /\ ClearBatch
    /\ pc' = "loop"
    /\ UNCHANGED <<request_vars, db_vars, day, book_vars>>

AcceptBatch ==
    /\ pc = "precheck"
    /\ Len(trail) > Len(batch)
    /\ Projected >= 0
    /\ pc' = "apply"
    /\ UNCHANGED <<request_vars, db_vars, day, book_vars, log_vars, batch_vars>>

\* Mutant: the shares arrive and the cash stays.
ApplyUnpaidBuy ==
    /\ pc = "apply" /\ k <= Len(batch)
    /\ batch[k].side = "BUY"
    /\ shares' = [shares EXCEPT ![batch[k].ticker] = @ + batch[k].shares]
    /\ k' = k + 1
    /\ UNCHANGED <<request_vars, pc, db_vars, day, cash, last, cumCost, log_vars,
                   decision, batch, trail>>

ApplyBuy ==
    /\ pc = "apply" /\ k <= Len(batch)
    /\ batch[k].side = "BUY"
    /\ cash' = cash - GrossAmount(batch[k])
    /\ shares' = [shares EXCEPT ![batch[k].ticker] = @ + batch[k].shares]
    /\ k' = k + 1
    /\ UNCHANGED <<request_vars, pc, db_vars, day, last, cumCost, log_vars,
                   decision, batch, trail>>

\* Selling more than is held raises, and what was applied before stays.
ApplySell ==
    /\ pc = "apply" /\ k <= Len(batch)
    /\ batch[k].side = "SELL"
    /\ IF shares[batch[k].ticker] < batch[k].shares
       THEN MarkFailedAndRaise /\ UNCHANGED <<cash, shares, k>>
       ELSE /\ cash' = cash + GrossAmount(batch[k])
            /\ shares' = [shares EXCEPT ![batch[k].ticker] = @ - batch[k].shares]
            /\ k' = k + 1
            /\ UNCHANGED <<run, pc>>
    /\ UNCHANGED <<request_vars, saved, day, last, cumCost, log_vars,
                   decision, batch, trail>>

\* Mutant: last_rebalance_date is not advanced.
SettleForgettingDay ==
    /\ pc = "apply" /\ k > Len(batch)
    /\ IF cash < 0
       THEN MarkFailedAndRaise /\ UNCHANGED <<cumCost, log_vars, batch_vars>>
       ELSE /\ cumCost' = cumCost + decision.cost
            /\ Record(decision, cash, shares, cumCost', day)
            /\ ClearBatch
            /\ pc' = "loop"
            /\ UNCHANGED run
    /\ UNCHANGED <<request_vars, saved, day, cash, shares, last>>

\* The end of apply_orders (total_cost is never passed) and of the loop body.
SettleBatch ==
    /\ pc = "apply" /\ k > Len(batch)
    /\ IF cash < 0
       THEN MarkFailedAndRaise /\ UNCHANGED <<last, cumCost, log_vars, batch_vars>>
       ELSE /\ last' = day
            /\ cumCost' = cumCost + decision.cost
            /\ Record(decision, cash, shares, cumCost', day)
            /\ ClearBatch
            /\ pc' = "loop"
            /\ UNCHANGED run
    /\ UNCHANGED <<request_vars, saved, day, cash, shares>>

-------------------------------------------------------------------------------
(* Closing the run.                                                         *)

IsAction(dec) == dec.orders # {}

\* Mutant: n_rebalances counts every day the strategy triggered.
Triggered == {i \in DOMAIN decisions : decisions[i].reason # "no_trigger"}

Executed == {i \in DOMAIN decisions : IsAction(decisions[i])}

\* _sharpe divides by every daily value but the last, and by the number of
\* returns less one, which is zero when there are exactly two values.  Both are
\* ArithmeticErrors, which nothing in simulate() or its caller catches.
DividesByZero ==
    \/ Len(values) = 2
    \/ \E i \in 1..(Len(values) - 1) : values[i][1] = 0 \/ values[i][2] = 0

KpisRaise ==
    /\ pc = "loop" /\ DaysLeft = {}
    /\ DividesByZero
    /\ RaiseUnmarked
    /\ UNCHANGED <<request_vars, saved, day, book_vars, log_vars, batch_vars>>

CompleteRun ==
    /\ pc = "loop" /\ DaysLeft = {}
    /\ ~DividesByZero
    /\ UpdateStatus("completed", FALSE, {Cardinality(Executed)})
    /\ pc' = "persist"
    /\ UNCHANGED <<request_vars, saved, day, book_vars, log_vars, batch_vars>>

\* actionable_decisions
Actionable == {decisions[i] : i \in {j \in DOMAIN decisions : decisions[j].reason # "no_trigger"}}

RowsAdmitted == \A dec \in Actionable : dec.reason \in CheckedReasons

\* save_batch(): one statement, one commit; the CHECK refuses all or nothing.
SaveDecisions ==
    /\ pc = "persist"
    /\ RowsAdmitted
    /\ saved' = Actionable
    /\ pc' = "returned"
    /\ UNCHANGED <<request_vars, run, day, book_vars, log_vars, batch_vars>>

\* Mutant: a handler around save_batch marks the completed run failed.
CheckViolationMarked ==
    /\ pc = "persist"
    /\ ~RowsAdmitted
    /\ MarkFailedAndRaise
    /\ UNCHANGED <<request_vars, saved, day, book_vars, log_vars, batch_vars>>

CheckViolation ==
    /\ pc = "persist"
    /\ ~RowsAdmitted
    /\ RaiseUnmarked
    /\ UNCHANGED <<request_vars, saved, day, book_vars, log_vars, batch_vars>>

\* The process is killed, or a repository call raises psycopg2.Error: what is
\* committed stays, nothing else happens.
Crash ==
    /\ pc \notin Ended
    /\ pc' = "crashed"
    /\ UNCHANGED <<request_vars, db_vars, day, book_vars, log_vars, batch_vars>>

-------------------------------------------------------------------------------
DayStep(d) == \/ NoTrigger(d)
              \/ ZeroShares(d)
              \/ StrategyRaises(d)
              \/ LotRuleMissing(d)
              \/ AllBelowOneLot(d)
              \/ ProposeBatch(d)

SimulateStep ==
    \/ SaveRun
    \/ LoadPrices
    \/ NoPriceData
    \/ CostModelRaises
    \/ StrategyFactoryRaises
    \/ Configure
    \/ \E d \in Days : DayStep(d)
    \/ PreCheckOrder
    \/ DowngradeBatch
    \/ AcceptBatch
    \/ ApplyBuy
    \/ ApplySell
    \/ SettleBatch
    \/ KpisRaise
    \/ CompleteRun
    \/ SaveDecisions
    \/ CheckViolation

Next == SimulateStep \/ Crash

Spec == Init /\ [][Next]_vars

\* simulate() is a straight-line call: a thread that runs it keeps running it.
FairSpec == Spec /\ WF_vars(SimulateStep)
-------------------------------------------------------------------------------
(* Properties.                                                              *)

\* Types of the call's state (the two sequences and the batch included).
TypeOK ==
    /\ request \in Requests /\ bars \in Histories
    /\ pc \in {"start", "load", "configure", "loop", "precheck", "apply",
               "persist"} \cup Ended
    /\ run \in [status : {"none", "running", "completed", "failed"},
                error : BOOLEAN, stamped : BOOLEAN, kpi : SUBSET Nat]
    /\ saved \subseteq Decision
    /\ day \in Days \cup {0}
    /\ cash \in Int
    /\ shares \in [Tickers -> Nat]
    /\ last \in Days \cup {Never}
    /\ cumCost \in Nat
    /\ decisions \in Seq(Decision)
    /\ decision \in Decision \cup {NoDecision}
    /\ batch \in Seq(Order)
    /\ trail \in Seq(Int)
    /\ k \in Nat \ {0}

\* The portfolio never owes money, not even between two orders of a batch:
\* the SELL-first sort and the budget check after the lots are what keeps
\* Portfolio.cash from going below zero while apply_orders is under way.
CashNeverNegative == cash >= 0

\* Why the cash stays non-negative, as an inductive invariant: the budget check
\* and apply_orders walk the same sorted batch, so the cash after k-1 orders is
\* the k-th projected value; projected values rise over the SELLs and fall over
\* the BUYs, so none is below both the first and the last one.
SellsFirst == \A i, j \in 1..Len(batch) :
                  i < j => ~(batch[i].side = "BUY" /\ batch[j].side = "SELL")

Follows(tr, b) ==
    /\ Len(tr) \in 1..(Len(b) + 1)
    /\ \A i \in 1..Len(tr) :
           (\A m \in 1..(i - 1) : b[m].side = "SELL") => tr[i] >= 0
    /\ \A i, j \in 1..Len(tr) :
           i <= j /\ (\A m \in i..(j - 1) : b[m].side = "BUY") => tr[j] <= tr[i]
    /\ \A i \in 1..(Len(tr) - 1) : tr[i + 1] = tr[i] + CashDelta(b[i])

BatchWithinBudget ==
    /\ cash >= 0
    /\ pc \in {"precheck", "apply"} => SellsFirst /\ Follows(trail, batch)
    /\ pc \in {"start", "load", "configure", "loop", "precheck"} => k = 1
    /\ pc = "precheck" => cash = trail[1]
    /\ pc = "apply" => /\ Len(trail) = Len(batch) + 1
                       /\ Projected >= 0
                       /\ k \in 1..Len(trail)
                       /\ cash = trail[k]

\* The two ValueErrors of apply_orders are never met: a SELL never exceeds the
\* holding it was computed from, although lots changed it and other orders of
\* the batch came before, and the cash left at the end is not negative.
ApplyNeverRaises ==
    pc = "apply" =>
        IF k <= Len(batch)
        THEN batch[k].side = "SELL" => shares[batch[k].ticker] >= batch[k].shares
        ELSE cash >= 0

\* Asking the strategy again right after a rebalance, at the same prices,
\* yields nothing tradable: every traded or dropped position is within one lot
\* of its target, because trading at the day's prices moved no value.
RebalanceIsIdempotent ==
    [][pc = "apply" /\ pc' = "loop" =>
        EnforceLotSizes(ComputeOrders(request.weights, cash', shares', bars[day]),
                        GetLotSize(LotRules, day)) = {}]_vars

\* Two consecutive executed rebalances are as far apart as the strategy says,
\* although failed attempts (zero shares, below one lot, no budget) happen
\* between them: window_days calendar days, or another calendar month.
Consecutive(i, j) == i < j /\ ~\E e \in Executed : i < e /\ e < j

CadenceRespected ==
    \A i, j \in Executed : Consecutive(i, j) =>
        /\ request.strategy = "fixed_window" =>
               decisions[j].day - decisions[i].day >= request.param
        /\ request.strategy = "calendar_monthly" =>
               MonthOrdinal[decisions[j].day] # MonthOrdinal[decisions[i].day]

\* What a caller reads back agrees with what the loop did: n_rebalances is
\* the number of persisted rows that carry orders, and the costs of those
\* rows add up to the cumulative cost the before-cost series was built with.
RowsWithOrders == {row \in saved : row.orders # {}}

RowsMatchKpi ==
    pc = "returned" =>
        /\ run.kpi = {Cardinality(RowsWithOrders)}
        /\ cumCost = MapThenSumSet(LAMBDA row : row.cost, RowsWithOrders)

\* A run that completed has exactly one decision and one daily value for each
\* trading day, in the order of the days: the series SimulateResult returns
\* line up with trading_days.
SeriesAligned ==
    run.status = "completed" =>
        /\ Len(values) = Cardinality(TradingDays)
        /\ {decisions[i].day : i \in DOMAIN decisions} = TradingDays
        /\ \A i, j \in DOMAIN decisions : i < j => decisions[i].day < decisions[j].day

\* The call is over some day: by returning, by raising, or with its process.
Termination == <>(pc \in Ended)

\* The tables, seen by a reader, behave as the abstract run does.
Lifecycle == INSTANCE RunLifecycle WITH
                 status <- run.status, rows <- Cardinality(saved), over <- pc \in Ended

LifecycleSpec == Lifecycle!Spec

-------------------------------------------------------------------------------
(* What comments and docstrings say, stated as they say it.                 *)

\* "Error paths mark the Run with status=failed and error_message before
\* raising" (module docstring): an exception of simulate() leaves no run open.
RaisedMeansFailed == pc = "raised" => run.status = "failed" /\ run.error

\* "reason ... Matches CHECK constraint on simulation.rebalance_decision.reason"
\* (RebalanceDecision): whatever goes to save_batch is accepted by the table.
SavedReasonsAdmitted == pc = "persist" => RowsAdmitted

\* "costs: Execution cost breakdown. Zero for no-action." (RebalanceDecision):
\* a decision without orders costs nothing.
NoActionCostsNothing ==
    \A i \in DOMAIN decisions : ~IsAction(decisions[i]) => decisions[i].cost = 0

\* "after_cost: realised value with transaction costs applied" (SimulateResult):
\* the first rebalance turns the initial capital into positions bought at the
\* day's prices, so that day ends with the capital less the cost of buying.
FirstRebalancePaysItsCost ==
    \A i \in Executed : (\A j \in Executed : i <= j) =>
        values[i][1] = request.capital - decisions[i].cost

\* "Rebalance on first simulation day of each new calendar month"
\* (CalendarMonthlyStrategy): a day on which the strategy stays silent is in
\* the calendar month of the last rebalance.
SilentOnlyWithinTheMonth ==
    [][request.strategy = "calendar_monthly" /\ pc = "loop" /\ decisions' # decisions
         /\ decisions'[Len(decisions')].reason = "no_trigger" =>
            MonthOrdinal[day'] = MonthOrdinal[last]]_vars

\* "Returns None (-> NULL in DB) when input has < 2 values or sample std = 0"
\* (_sharpe): a series that never touches zero has KPIs, null or not.
PositiveSeriesHasKpis ==
    [][pc = "loop" /\ DaysLeft = {} /\ pc' = "raised" =>
        \E i \in DOMAIN values : values[i][1] = 0]_vars

\* "0 = all days were no-action within band" (RebalanceDecisionRepository):
\* a completed run without rows had nothing but no_trigger days.
NoRowsMeansNoTrigger ==
    run.status = "completed" /\ pc \in Ended /\ saved = {} => Actionable = {}
===============================================================================
