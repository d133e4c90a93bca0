-------------------------- MODULE PredictionTracker --------------------------
(***************************************************************************)
(* scripts/log_daily_prediction.py with NeonPredictionRepository and the   *)
(* predictions schema of migrations/015: runs of the logger, a price table *)
(* that sync_prices.py fills at moments of its own, and the days between.  *)
(*                                                                         *)
(* A day is a calendar day.  Stored bars never change (ON CONFLICT DO      *)
(* NOTHING), so the close of a bar is represented by the bar's day.  The   *)
(* three f1_optimizer_* sources save the same price for a ticker and are   *)
(* represented by one.  A run ends, or dies, on the day it started.        *)
(***************************************************************************)
EXTENDS Integers, FiniteSets

CONSTANTS LastDay,   \* the model's days are 1..LastDay
          Weekend,   \* weekday() >= 5
          Holidays,  \* other days on which the exchange is closed
          Tickers,
          Horizon,   \* F1_HORIZON_DAYS
          Lookback,  \* how far back the last bar may be (14 days)
          Runners,   \* processes that may run the logger
          Modes,     \* "full", "skip_eval" (--skip-eval), "dry_run" (--dry-run)
          Backfill   \* --date is used with days other than today

Days == 1..LastDay

TradingDays == Days \ (Weekend \cup Holidays)

\* No row, no bar: not a day.
None == 0

ASSUME DaysAssumption == LastDay \in Nat

\* 14 < 21 in the code.
ASSUME HorizonAssumption == Horizon \in Nat /\ Lookback \in Nat /\ Lookback < Horizon

ASSUME BackfillAssumption == Backfill \in BOOLEAN

VARIABLES
    today,
    synced,      \* per ticker, the day up to which its bars are stored
    prediction,  \* daily_prediction: price_at_prediction per day and ticker
    actual,      \* daily_actual: [bar, base] per day and ticker
    view,        \* evaluation_rolling: the daily_actual it was computed from
    run          \* the runners

vars == <<today, synced, prediction, actual, view, run>>

Keys == Days \X Tickers

NoActual == [bar |-> None, base |-> None]

Maturing == [day : Days, ticker : Tickers, base : Days]

NoRead == [bar |-> None]

\* A process between the runs of the script and inside one: the arguments, the
\* tickers left, the price cache, what matured and the bar just read.
Run == [pc : {"idle", "price", "save", "find", "evaluate", "store"},
        target : Days \cup {None}, mode : Modes \cup {"full"},
        left : SUBSET Tickers, price : [Tickers -> Days \cup {None}],
        matured : SUBSET Maturing,
        read : [m : Maturing, bar : Days] \cup {NoRead},
        errors : BOOLEAN, logged : BOOLEAN, evaluated : BOOLEAN,
        exit : {"none", "weekend", "ok", "partial", "failed", "crashed"}]

Idle == [pc |-> "idle", target |-> None, mode |-> "full", left |-> {},
         price |-> [t \in Tickers |-> None], matured |-> {}, read |-> NoRead,
         errors |-> FALSE, logged |-> FALSE, evaluated |-> FALSE, exit |-> "none"]

-------------------------------------------------------------------------------
Init ==
    /\ today \in Days
    /\ synced \in [Tickers -> 0..today]
    /\ prediction = [k \in Keys |-> None]
    /\ actual = [k \in Keys |-> NoActual]
    /\ view = actual
    /\ run = [r \in Runners |-> Idle]

Tick ==
    /\ today < LastDay
    /\ \A r \in Runners : run[r].pc = "idle"
    /\ today' = today + 1
    /\ UNCHANGED <<synced, prediction, actual, view, run>>

Later(upTo) == \A t \in Tickers : synced[t] <= upTo[t]

\* sync_prices.py commits: each ticker has its bars up to the same day or a later one.
Sync ==
    /\ \E upTo \in [Tickers -> 0..today] : Later(upTo) /\ synced' = upTo
    /\ UNCHANGED <<today, prediction, actual, view, run>>

\* Mutant: every stored bar up to the day is read.
AnyBars(t, day) == {d \in TradingDays : d <= day /\ d <= synced[t]}

\* get_ohlcv(ticker, start=day - 14 days, end=day)
Bars(t, day) == {d \in TradingDays : day - Lookback <= d /\ d <= day /\ d <= synced[t]}

\* bars[-1] if bars else None
IsLastBar(bar, t, day) ==
    IF Bars(t, day) = {}
    THEN bar = None
    ELSE bar \in Bars(t, day) /\ \A d \in Bars(t, day) : d <= bar

-------------------------------------------------------------------------------
(* run_f1_predictions()                                                     *)

AfterSaving(mode) == IF mode = "skip_eval" THEN "evaluate" ELSE "find"

\* main(): on a weekend the run ends at once; otherwise the frontier is computed,
\* and a failure of that is an error that leaves the evaluation to be done.
Start(r) ==
    /\ run[r].pc = "idle"
    /\ \E target \in Days, mode \in Modes :
        /\ IF Backfill THEN target <= today ELSE target = today
        /\ \/ /\ target \in Weekend
              /\ run' = [run EXCEPT ![r] =
                    [Idle EXCEPT !.target = target, !.mode = mode, !.exit = "weekend"]]
           \/ /\ target \notin Weekend
              /\ run' = [run EXCEPT ![r] =
                    [Idle EXCEPT !.pc = "price", !.target = target, !.mode = mode,
                                 !.left = Tickers]]
           \/ /\ target \notin Weekend
              /\ run' = [run EXCEPT ![r] =
                    [Idle EXCEPT !.pc = AfterSaving(mode), !.target = target,
                                 !.mode = mode, !.errors = TRUE]]
    /\ UNCHANGED <<today, synced, prediction, actual, view>>

\* The price cache: one query per ticker, None when it fails or finds nothing.
ReadPrice(r) ==
    /\ run[r].pc = "price"
    /\ \E t \in run[r].left, bar \in Days \cup {None} :
        /\ bar = None \/ IsLastBar(bar, t, run[r].target)
        /\ run' = [run EXCEPT ![r] =
              [run[r] EXCEPT !.price[t] = bar,
                        !.left = IF @ = {t} THEN Tickers ELSE @ \ {t},
                        !.pc = IF run[r].left = {t} THEN "save" ELSE "price"]]
    /\ UNCHANGED <<today, synced, prediction, actual, view>>

NextAfter(r, t) == IF run[r].left = {t} THEN AfterSaving(run[r].mode) ELSE "save"

\* save_prediction(): an upsert with a commit of its own.
SavePrediction(r) ==
    /\ run[r].pc = "save"
    /\ \E t \in run[r].left :
        /\ run[r].price[t] # None
        /\ prediction' = IF run[r].mode = "dry_run"
                         THEN prediction
                         ELSE [prediction EXCEPT ![<<run[r].target, t>>] = run[r].price[t]]
        /\ run' = [run EXCEPT ![r] =
              [run[r] EXCEPT !.left = @ \ {t}, !.logged = TRUE, !.pc = NextAfter(r, t)]]
    /\ UNCHANGED <<today, synced, actual, view>>

\* A price is missing or the save fails: the ticker is left out of the day.
SkipPrediction(r) ==
    /\ run[r].pc = "save"
    /\ \E t \in run[r].left :
        /\ run[r].price[t] = None \/ run[r].mode # "dry_run"
        /\ run' = [run EXCEPT ![r] =
              [run[r] EXCEPT !.left = @ \ {t}, !.errors = TRUE, !.pc = NextAfter(r, t)]]
    /\ UNCHANGED <<today, synced, prediction, actual, view>>

-------------------------------------------------------------------------------
(* evaluate_matured()                                                       *)

\* Mutant: a prediction is evaluated on its own day.
SameDay(day) == day

\* prediction_date + horizon_days days, in calendar days.
EvaluationDay(day) == day + Horizon

\* Mutant: rows without a price are found too.
MaturedWithoutPrice(asOf) ==
    {[day |-> k[1], ticker |-> k[2], base |-> prediction[k]] :
        k \in {j \in Keys : actual[j] = NoActual /\ EvaluationDay(j[1]) <= asOf}}

\* Mutant: only the predictions that mature on the day of the run.
MaturedToday(asOf) ==
    {m \in Maturing : /\ actual[<<m.day, m.ticker>>] = NoActual
                      /\ prediction[<<m.day, m.ticker>>] = m.base
                      /\ EvaluationDay(m.day) = asOf}

\* Mutant: predictions that have an actual are found again.
MaturedEvenIfEvaluated(asOf) ==
    {m \in Maturing : /\ prediction[<<m.day, m.ticker>>] = m.base
                      /\ EvaluationDay(m.day) <= asOf}

\* find_matured_without_actual(as_of)
Matured(asOf) ==
    {m \in Maturing : /\ actual[<<m.day, m.ticker>>] = NoActual
                      /\ prediction[<<m.day, m.ticker>>] = m.base
                      /\ EvaluationDay(m.day) <= asOf}

FindMatured(r) ==
    /\ run[r].pc = "find"
    /\ run' = [run EXCEPT ![r] =
          [run[r] EXCEPT !.matured = Matured(run[r].target), !.pc = "evaluate"]]
    /\ UNCHANGED <<today, synced, prediction, actual, view>>

\* The bar that ends the holding period is read.
ReadEvaluationPrice(r) ==
    /\ run[r].pc = "evaluate"
    /\ \E m \in run[r].matured, bar \in Days :
        /\ IsLastBar(bar, m.ticker, EvaluationDay(m.day))
        /\ run' = [run EXCEPT ![r] =
              [run[r] EXCEPT !.matured = @ \ {m}, !.pc = "store",
                        !.read = [m |-> m, bar |-> bar]]]
    /\ UNCHANGED <<today, synced, prediction, actual, view>>

\* No bar, or the query fails: the prediction is left for the next run.
SkipEvaluation(r) ==
    /\ run[r].pc = "evaluate"
    /\ \E m \in run[r].matured :
        run' = [run EXCEPT ![r] = [run[r] EXCEPT !.matured = @ \ {m}, !.errors = TRUE]]
    /\ UNCHANGED <<today, synced, prediction, actual, view>>

\* save_actual(): an upsert with a commit of its own, or its failure.
SaveActual(r) ==
    /\ run[r].pc = "store"
    /\ LET m == run[r].read.m IN
       \/ /\ actual' = IF run[r].mode = "dry_run"
                       THEN actual
                       ELSE [actual EXCEPT ![<<m.day, m.ticker>>] =
                                [bar |-> run[r].read.bar, base |-> m.base]]
          /\ run' = [run EXCEPT ![r] =
                [run[r] EXCEPT !.evaluated = TRUE, !.pc = "evaluate", !.read = NoRead]]
       \/ /\ run[r].mode # "dry_run"
          /\ actual' = actual
          /\ run' = [run EXCEPT ![r] =
                [run[r] EXCEPT !.errors = TRUE, !.pc = "evaluate", !.read = NoRead]]
    /\ UNCHANGED <<today, synced, prediction, view>>

-------------------------------------------------------------------------------
(* The end of main(): the view, then the exit code.                         *)

Exit(r, errors) ==
    IF ~errors THEN "ok"
    ELSE IF run[r].logged \/ run[r].evaluated THEN "partial" ELSE "failed"

Finished(r, errors) ==
    [Idle EXCEPT !.target = run[r].target, !.mode = run[r].mode,
                 !.evaluated = run[r].evaluated, !.exit = Exit(r, errors)]

MustRefresh(r) == run[r].mode # "dry_run" /\ run[r].evaluated

\* Mutant: a failed refresh is logged but is not an error.
FinishIgnoringRefresh(r) ==
    /\ run[r].pc = "evaluate"
    /\ run[r].matured = {}
    /\ view' \in {view, actual}
    /\ run' = [run EXCEPT ![r] = Finished(r, run[r].errors)]
    /\ UNCHANGED <<today, synced, prediction, actual>>

\* REFRESH MATERIALIZED VIEW, only if an actual was saved; a failure is an error.
Finish(r) ==
    /\ run[r].pc = "evaluate"
    /\ run[r].matured = {}
    /\ \/ /\ MustRefresh(r)
          /\ view' = actual
          /\ run' = [run EXCEPT ![r] = Finished(r, run[r].errors)]
       \/ /\ MustRefresh(r)
          /\ view' = view
          /\ run' = [run EXCEPT ![r] = Finished(r, TRUE)]
       \/ /\ ~MustRefresh(r)
          /\ view' = view
          /\ run' = [run EXCEPT ![r] = Finished(r, run[r].errors)]
    /\ UNCHANGED <<today, synced, prediction, actual>>

\* The process dies, or find_matured_without_actual() raises: what was committed stays.
Crash(r) ==
    /\ run[r].pc # "idle"
    /\ run' = [run EXCEPT ![r] = [Idle EXCEPT !.exit = "crashed"]]
    /\ UNCHANGED <<today, synced, prediction, actual, view>>

Next == \/ Tick
        \/ Sync
        \/ \E r \in Runners : \/ Start(r)
                              \/ ReadPrice(r)
                              \/ SavePrediction(r)
                              \/ SkipPrediction(r)
                              \/ FindMatured(r)
                              \/ ReadEvaluationPrice(r)
                              \/ SkipEvaluation(r)
                              \/ SaveActual(r)
                              \/ Finish(r)
                              \/ Crash(r)

Spec == Init /\ [][Next]_vars

-------------------------------------------------------------------------------
(* Properties.                                                              *)

\* Types of the tables and of the runners.
TypeOK ==
    /\ today \in Days
    /\ synced \in [Tickers -> 0..today]
    /\ prediction \in [Keys -> Days \cup {None}]
    /\ actual \in [Keys -> [bar : Days, base : Days] \cup {NoActual}]
    /\ view \in [Keys -> [bar : Days, base : Days] \cup {NoActual}]
    /\ run \in [Runners -> Run]

HasActual(k) == actual[k] # NoActual

\* No return is measured between a bar and itself or an earlier one, however
\* late the price table is, whichever runs died, overlapped or were backfilled:
\* 14 days of looking back never reach the bar of 21 days ago.
EvaluatedOnLaterBar ==
    \A k \in Keys : HasActual(k) =>
        /\ actual[k].base <= k[1]
        /\ k[1] < actual[k].bar
        /\ actual[k].bar <= EvaluationDay(k[1])

Succeeded(r) == run[r].exit = "ok" /\ run[r].mode = "full"

\* A run that reports success leaves no matured prediction without its actual:
\* missed days, failed saves and crashes before it are caught up.
SuccessCatchesUp ==
    \A r \in Runners : Succeeded(r) =>
        \A k \in Keys :
            prediction[k] # None /\ EvaluationDay(k[1]) <= run[r].target => HasActual(k)

\* A run that saved actuals and reports success leaves evaluation_rolling
\* complete, also for the actuals of earlier runs that died before the refresh.
SuccessRefreshesView ==
    \A r \in Runners : Succeeded(r) /\ run[r].evaluated => view = actual

\* A return, once stored, is never replaced ("1 prediction chi evaluate 1 lan",
\* 015_predictions.sql): true of runs that do not overlap.
ActualsAreFinal ==
    [][\A k \in Keys : HasActual(k) => actual'[k] = actual[k]]_vars

\* The stored return is the one of the stored price_at_prediction. Without
\* backfills nothing writes a prediction after its evaluation; ADR-019 claims it
\* for backfills too ("idempotent (ON CONFLICT DO UPDATE) and backfill-safe").
ReturnMatchesPrice ==
    \A k \in Keys : HasActual(k) => actual[k].base = prediction[k]

\* "Gia tai evaluation_date" (015_predictions.sql: price_at_evaluation is the
\* price on evaluation_date).
PriceIsOfEvaluationDay ==
    \A k \in Keys : HasActual(k) /\ EvaluationDay(k[1]) \in TradingDays =>
        actual[k].bar = EvaluationDay(k[1])

\* "Ngay evaluate (= prediction_date + horizon_days trading days)" (015).
HorizonInTradingDays ==
    \A k \in Keys : HasActual(k) =>
        Cardinality({d \in TradingDays : k[1] < d /\ d <= EvaluationDay(k[1])}) = Horizon

\* "Weekend/holiday runs are no-ops." (ADR-019)
HolidayRunsAreNoOps == \A k \in Keys : k[1] \in Holidays => prediction[k] = None

\* "REFRESH MATERIALIZED VIEW CONCURRENTLY sau moi batch update actuals" (015:
\* the view is refreshed after each batch of actuals).
SuccessLeavesViewFresh == \A r \in Runners : Succeeded(r) => view = actual

\* The table the logger reads, a day's bar for each session up to synced, is one
\* that sync_prices.py may leave.
PriceTableSpec ==
    INSTANCE PriceTable WITH
        Closes <- Days,
        prices <- [t \in Tickers |->
            [d \in Days |-> IF d \in TradingDays /\ d <= synced[t] THEN d ELSE None]]

ReadsPriceTable == PriceTableSpec!Spec
===============================================================================
