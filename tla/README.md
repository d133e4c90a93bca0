# Formal models of vn-portfolio-frontier

TLA+ models of the parts of this repository that keep state, the TLC
configurations that check them on small instances, and proofs, checked by
TLAPS, of what holds for every size. Every definition is translated from the
code; `PROJECT.json` maps each to its lines.

## 1. The system

The program back-tests portfolios of the Vietnamese VN30 stocks. Everything it
shares is in one PostgreSQL database (Neon); its programs are short-lived
processes that meet only there, or in two JSONL files.

| component | source | state it keeps | operations |
|---|---|---|---|
| Back-test | `application/services/rebalance_simulator.py`, `domain/` | the portfolio of a call (cash, holdings, last rebalance, cumulative cost), its decisions and daily values; the rows of `simulation.rebalance_run` and `.rebalance_decision` | `simulate()`: open the run, load prices, loop over the trading days, close the run, save the decisions |
| Price synchronisation | `scripts/sync_prices.py` | `prices.daily_ohlcv`; inside a run one transaction over all tickers | `sync_universe()`: clamp the end date, read the last days, per ticker fetch and insert, commit |
| Live prediction tracking | `scripts/log_daily_prediction.py`, `infrastructure/neon/predictions_repo.py`, migration 015 | `daily_prediction`, `daily_actual`, the materialized view `evaluation_rolling` | save the day's predictions, evaluate the matured ones, refresh the view |
| Migration runner | `scripts/apply_migrations.py`, `db.py` | the schema, `public._migrations` | compare checksums, execute and record the pending files, commit |
| Scheduled refresh | `.github/workflows/daily-data-refresh.yml`, `scripts/audit_log.py`, migration 014 | `audit.data_refresh_run`, what GitHub shows of a step | per script: start a row, run, end the row |
| Benchmark rates | `scripts/sync_benchmarks.py`, migration 013 | three tables of rates | fetch all, three upserts with a commit each |
| VN30 membership, metadata | `scripts/seed_vn30_history.py`, `scripts/fetch_metadata.py` | membership events, snapshots, constituents | reconcile, seed and verify; upsert per ticker |
| Fundamentals | `scripts/fetch_fundamentals.py` | the metrics of the statements | one transaction of inserts |
| News labelling | `scripts/collect_news.py`, `scripts/label_articles_llm.py` | two JSONL files, one append-only | collect; label what has no label yet, within a budget |
| Streamlit application | `interface/streamlit/app.py` | the session state, the values of the widgets | choose tickers and weights, compute a frontier, apply or cancel it, run a back-test, synchronise prices |
| Efficient frontier | `frontier_service.py`, `frontier_optimizer.py` | none | validate a request, sweep target returns |
| Bootstrap, summarizer, repository checks | `scripts/migrate_p1_prices.py`, `news_summarizer.py`, `scripts/check_ascii.py` | none of their own | see section 5 |

How they interact:

* the synchronisation writes the bars that back-tests, the frontier and the
  logger read. It runs Monday and Thursday at 18:30 (`weekly_sync.bat`), from
  the workflow, from a button of the application, or by hand; nothing keeps
  two runs apart. The logger runs on weekdays at 16:30;
* a back-test reads bars once, at its start, and then only writes: the row of
  the run first, its status at the end, its decisions last, each in a
  transaction of its own;
* the workflow runs the synchronisation scripts between two calls of
  `audit_log.py`, under `set +e`;
* the application calls the back-test and the frontier in its own process and
  the synchronisation in a child it kills after five minutes. An event of the
  user ends the script run at its next access to the session state, and a
  back-test in its daily loop, at the progress bar;
* the collector rewrites the file that the labeller reads line by line;
* the seed writes the snapshots that the metadata run reads, once, at its start;
* migrations change the schema under all of them.

What is hard, and where the correctness properties come from:

* *a sequence of legal steps*: the cash of a portfolio depends on the order of
  a batch, on rounding to lots twice, and on prices that are missing; the
  weights of a session pass through widgets, callbacks and two validations;
* *crashes between commits or in the middle of a line*: a run and its
  decisions, a prediction, its actual and the view, a migration and its record,
  an audit row and its script, a label and its end of line;
* *overlap*: runs of the synchronisation hold their rows until their only
  commit; two loggers read what matured and then write it; an event of the user
  comes between two assignments to the session state;
* *stale reads*: the clock and the last days are read once per
  synchronisation; the logger takes the last bar of 14 days for a day's close;
  a button of the page carries the arguments of the last rendering;
* *partial failure*: one ticker, one series, one statement or one save of many
  fails;
* *calendar*: lots reform, weekends, holidays, months of different years.

What makes each component correct:

| component | properties |
|---|---|
| Back-test | cash is never negative; a SELL never exceeds its holding; rebalances keep their distance; a rebalance leaves nothing to trade; KPIs and rows agree; a run goes from running to completed or failed once, and its rows appear together, last; every call ends |
| Price synchronisation | no bar of a running session, no hole before a stored bar, no replaced bar, no circle of waits between runs in one order; every run ends |
| Prediction tracking | a return spans time; success means caught up and view refreshed; a return is final and belongs to the stored price |
| Migration runner | what is in effect is a prefix of the files; what is recorded is in effect; a batch is atomic up to the first of its files with a COMMIT of its own |
| Scheduled refresh | script, audit row and GitHub agree |
| Benchmark rates | behind a green step all that was fetched is stored, in that version or a newer one; a row is never replaced by an older one |
| VN30 membership, metadata | a verified log folds into the snapshots; a complete metadata run leaves the current constituents those of the latest snapshot |
| Fundamentals | all or nothing, and what is stored stays |
| News labelling | every line that parses obeys the schema; exit status 0 means labelled; the API is called about an article again only after a run that was stopped or told not to resume; the budget is exceeded by less than one call; every run ends |
| Application | one click, one back-test, of the weights and dates that were validated; completed means that the last back-test started is stored and ran with `last_config`; an applied point is what is committed |
| Efficient frontier | the right end of the sweep is the best return the bounds admit |

## 2. Modules

| module | what it is |
|---|---|
| `TradeRules` | operators on integers: lots, orders, costs, marking to market, target shares, triggers |
| `RebalanceSimulator` | one call of `simulate()`; extends `TradeRules` |
| `RunLifecycle` | abstract specification: what the two tables promise a reader; `RebalanceSimulator` implements it for one run, `StreamlitSession` for each of its runs |
| `MigrationRunner` | invocations of the migration runner |
| `PriceTable` | abstract specification: what `prices.daily_ohlcv` promises a reader; `PriceSync` implements it, `PredictionTracker` reads a table that obeys it |
| `PriceSync` | overlapping runs of the price synchronisation with the clock, the vendor and PostgreSQL's row waits |
| `PredictionTracker` | runs of the logger, the synchronisation as one action, the calendar |
| `RefreshAudit` | jobs of the refresh workflow with `audit_log.py` |
| `BenchmarkRefresh` | `sync_benchmarks.py` inside the second step of that workflow; extends `RefreshAudit` |
| `Frontier` | operators: a request, the allocations within the bounds, the curves it may be answered with |
| `StreamlitSession` | one browser session; extends `Frontier`, instantiates `RunLifecycle` |
| `LabelPipeline` | runs of the collector and the labeller on their two files |
| `CompanyData` | runs of the three scripts that fill the schema `fundamentals` |
| `MC*` | the instances TLC checks |
| `*Proofs` | theorems and proofs, one module per component |

Definitions that start with a comment "Mutant:" are plausible bugs; each is
listed in `PROJECT.json` with the definition it replaces and the property that
must catch it. They are part of no specification.

### RebalanceSimulator

Money is an integer number of cents, a weight an integer percent, a rate an
integer number of basis points, a day the ordinal of a date. Prices come from
`Histories`, the request from `Requests`. `pc` is the place in `simulate()`:

| `pc` | action | code |
|---|---|---|
| start | `SaveRun` | `run_repo.save`, committed before anything is checked |
| load | `LoadPrices`, `NoPriceData` | `_load_price_history`; a ticker without bars marks the run failed |
| configure | `CostModelRaises`, `StrategyFactoryRaises`, `Configure` | the constructors; only the second is inside a `try` |
| loop | `NoTrigger`, `ZeroShares`, `StrategyRaises`, `LotRuleMissing`, `AllBelowOneLot`, `ProposeBatch` | a trading day up to its sorted orders |
| precheck | `PreCheckOrder`, `DowngradeBatch`, `AcceptBatch` | the walk of `projected_cash` |
| apply | `ApplyBuy`, `ApplySell`, `SettleBatch` | `Portfolio.apply_orders`, one order a step, and the end of the loop body |
| loop | `KpisRaise`, `CompleteRun` | `_compute_kpis` and `update_status` |
| persist | `SaveDecisions`, `CheckViolation` | `save_batch` and the CHECK of migration 009 |
| any | `Crash` | the process is killed or psycopg2 raises |

The portfolio is immutable in the code; the model keeps the book of the batch
under way in the same variables, which is why an exception leaves them half
applied here. Nobody reads them after it. Of the KPIs the model has
`n_rebalances`, and whether the others can be computed at all.

### StreamlitSession

Weights are integers, `Full` for 100 %. `state` is what the code keeps in
`st.session_state`, `widgets` the values of its keyed widgets, `page` what the
browser shows and the user can act upon, with the arguments the buttons were
rendered with. `ghost` remembers what the last event showed the user; only
properties read it. `pc` is the place in the script run:

| `pc` | action | code |
|---|---|---|
| any but saving, completed (where the script calls no library) | `AddTicker`, `RemoveTicker`, `ClickCompute`, `SetMode`, `SetWeight`, `SetDates`, `MovePoint`, `ClickRun`, `ClickApply`, `ClickCancel` | an event of the user: its callback, and the script starts again from the top |
| top | `RenderTop` | the form that adds a ticker, and its `st.rerun()` |
| weights | `RenderWeights` | the rows of the tickers: remove one and rerun, or commit the weights shown |
| gate | `Gate` | `run_from_main` is popped; the sidebar's validation |
| f1 | `RenderFrontier` | compute, or fail and forget; the slider, Apply and Cancel |
| step3 | `RenderStepThree` | dates, `_all_ok`, the Run button and its `st.rerun()` |
| start, configure, request | `StartBacktest`, `KeepConfig`, `SendRequest` | `run_status = "running"`; `last_config`; `SimulateRequest` and the call |
| saving, loop, completed | `OpenRun`, `CompleteRun`, `ReturnResult`, `FailRun`, `Crash` | `simulate()` as far as its three commits; the daily loop calls the progress bar, so an event abandons it there |
| returned, keeping | `SetCompleted`, `KeepResult` | `run_status = "completed"`, then `last_result` |
| rejected, raised, clearing | `SetFailed`, `ClearResult` | a ValueError of the request or of the call: `run_status = "failed"`; only after the second is `last_result` dropped |
| show | `Show` | the result or the error; unrendered widgets lose their values |

From Run to the result every access to the session state is a step of its own,
and an event may come between any two: `run_status`, `last_config` and
`last_result` are three assignments. Before that a step is one part of the
page. An event that comes inside `simulate()`, outside of its daily loop, is
found by the first access after it.

How Streamlit treats widgets is external: a rerun from the sidebar ends the
script run early, and the widgets it did not reach keep their values or not,
as a nondeterministic choice.

### Frontier

Weights are on a grid of `Step`; the answer of SLSQP to a target is any
allocation within its constraints, or a failure, so a curve has from one point
to `n_frontier_points`. `MaxReturnAllocation` is the greedy right end of the
sweep. Means, covariances and Sharpe ratios are not modelled.

### PriceSync and PriceTable

A stored bar is the source it came from, or `"live"` when the vendor answered
with the running session. `Start` reads the clock (`IsEndDate` is the clamp)
and the last days (`IsLatest`); `Fetch`, `SkipTicker`, `Exhausted` and `Raise`
are a ticker's ways through `sync_ticker`; `Insert` adds rows to the run's
transaction (`written`), which nobody else sees until `Commit`. External, from
the way the script uses them: `Close` and `Midnight` (the clock), `WaitsFor`
and `DeadlockAbort` (PostgreSQL), the vendor's answer (`Answered`): the bars
from the first day asked for up to *some* day, without a hole, because the
script takes whatever comes as complete.

`PriceTable` has one variable, the committed table: it only grows, by closing
prices of sessions, and a ticker that has a bar has one of every session before it.
`ImplementsPriceTable` is that `PriceSync` does this however runs overlap.

### PredictionTracker

A day is a calendar day and a close is represented by the day of its bar, which
is sound because stored bars never change (`PriceTable`). `Sync` is a commit of
the synchronisation at any moment, after which each ticker has its bars up to
the same day or a later one. `ReadsPriceTable` says that the table it leaves
obeys `PriceTable`, and the theorem `LoggerTakesAnyPriceTable` that it may leave
whatever `PriceTable` allows. `pc` is the place in `main()`:
price (the cache), save, find, evaluate, store. Every save is a commit that may
fail, and `Crash` may follow each. The three `f1_optimizer_*` sources save the
same price for a ticker and are represented by one.

### MigrationRunner

`db` is what is committed, `work` what the session sees. A file in
`OwnTransaction` (007, 008, 011, 015, 016) ends the server's transaction
(`inTx`) without psycopg2 knowing, and every later statement of the invocation
commits alone. `EditFile` is a developer; `Execute` reads the file again, after
its checksum was taken.

### RefreshAudit and BenchmarkRefresh

A step is `start`, `script`, `end_0` or `end_1` by the exit code of its script.
Each database call may fail before or after its commit. `Timeout` kills the
step at any point; the next one has `if: always()`.

`BenchmarkRefresh` replaces the script of step 2 by `sync_benchmarks.py`:
`StartScript`, `FetchSeries`, one `UpsertSeries` per table, `ReturnZero`;
`Raise` and `Kill` are the exceptions and the job's timeout, at any of them,
with the commit in progress done or not. A value is the number of the vendor's
revision it was published in. External: of the rows the vendor sends for one
key, the last is the newest, which is what `seen[...] = row  # last wins` in the
script relies on.

### LabelPipeline

`input` is the file of articles, `labels` the ended lines of the file of labels
and `tail` what follows the last end of line. The collector is
`StartCollector`, one `FetchFromSite` per site, `WriteArticles`; the labeller
`StartLabelling`, then one action per way through the body of its loop:
`SkipDone`, `PrintPrompt` (`--dry-run`), `StopAtBudget`, `LabelArticle`,
`ReadTornLine`, `AnswerRaises`, and `Finish`. `KillCollector` and
`KillLabelling` stop either anywhere, in the middle of a line too; the next
line is glued to an unfinished one and the two do not parse (`Junk`). A line cut
inside a letter of several bytes makes the file undecodable (`Garbled`):
`_load_done_ids` raises on it, and `RefuseLabelling` is then all that a resumed
run can do. `calls` counts the calls of the API per article and `stopped` the
runs that were stopped or raised; only properties read them. An article is its
URL; of a label there are the ticker, the magnitude and whether it is an error.

### CompanyData

One script runs at a time. `EditFile` is a developer who edits
`data/seed/vn30_history.yaml` and, or not, the `EXPECTED_` constants beside it;
`StartSeed` (`reconcile_yaml`), `CommitSeed` and `VerifyDb` are the seed,
`StartMetadata` and `TreatTicker` the metadata run with its commit per ticker,
`StartFundamentals`, `SyncStatement`, `AbortFundamentals` and
`CommitFundamentals` the one transaction of `fetch_fundamentals.py`. `Restate`
is the vendor. `Crash` stops any of them between two steps.

## 3. What TLC checks

| run | shows | bounds |
|---|---|---|
| `daily` | `TypeOK`, `CashNeverNegative`, `ApplyNeverRaises`, `CadenceRespected`, `RowsMatchKpi`, `RebalanceIsIdempotent`: each of three strategies over every price history of the instance | 2 tickers, 4 days in three months of two years with the lot reform after the first, 3 or 4 prices or none, one request per strategy |
| `lifecycle` | `LifecycleSpec`, `Termination`: with every error path and a crash anywhere, the tables behave as `RunLifecycle` promises, and the call ends | 6 requests, one per error path and one that completes; lot rules that miss the first day |
| `prefix` | `CommittedIsPrefix`, `RecordedIsInEffect`, `PartialBatchNeedsOwnCommit`: what a failed or killed invocation leaves committed, and a file left without its record, come from a file of that invocation with its own COMMIT | 4 files, two with their own transaction, two that cannot run twice, 2 contents |
| `backfill` | `TypeOK`, `EvaluatedOnLaterBar`, `SuccessCatchesUp`, `SuccessRefreshesView`, `ActualsAreFinal` | 6 days with a weekend day and a holiday, horizon 3, look-back 2, all flags, `--date` |
| `overlap` | `ReturnMatchesPrice`, `SuccessCatchesUp`: with two loggers a stored return is of the stored price, and success of one means caught up | 5 days, 2 loggers, no `--date` |
| `sync_overlap` | `OnlyClosingPrices`, `NoHoles`, `NoDeadlock`, `ImplementsPriceTable` | 2 runs, 3 days with one of a weekend, 2 tickers in the universe's order, 2 sources |
| `sync_ends` | `RunsEnd`, though runs with opposite orders wait for each other and PostgreSQL aborts one | 2 runs, 2 days, 2 tickers, three orders |
| `audit` | `AuditAgrees`, `GreenIsStored`, `RevisionsOnlyGrow`: rows, GitHub and the stored series agree | 2 jobs of 2 steps, 2 keys in two tables, 2 revisions |
| `session` | `CompletedIsLatest`, `OneRunPerClick`, `RunsWhatWasValidated`, `AppliedIsCommitted`, `FrontierReachesBest`, `ClickIsServed`, `RowsObeyLifecycle` | 4 events, each at any access of a script run to the session state, 3 tickers, 2 of them selected at first, `Full` 600 and `Step` 300, curves of 1 or 2 points, weights typed that are inside one tolerance and outside the other |
| `labels` | `LinesObeySchema`, `ZeroMeansLabelled`, `BudgetKept`, `CallsAreBounded` | 2 articles, 1 site that may repeat one, 2 collections, 3 labellings, budget 2 and at most 2 a call, `--limit` 1 or none, an answer off the roster and off the scale |
| `company` | `VerifiedLogFolds`, `CurrentIsLatest`, `EarliestIsKept` | 4 runs, 5 versions of the seed file, an index of 2 out of 4 tickers of which 3 are in `VN30_UNIVERSE`, 1 statement, 2 filings |

and refutes, with what the documentation says (`findings` in `PROJECT.json`):

| run | the claim | what the code does |
|---|---|---|
| `after_cost` | `SimulateResult`: the after-cost value has "transaction costs applied" | `apply_orders` never gets `total_cost`; the after-cost series is the costless one |

Further claims the models refute are kept as properties, each named in a
configuration that shows its counterexample
(`tlc -config <cfg> <MC module>`; a configuration with several lists them in its
first lines, to be put in one at a time):

| configuration | property | claim | what the code does |
|---|---|---|---|
| `RebalanceSimulator_claims` | `SavedReasonsAdmitted` | `RebalanceDecision.reason` "Matches CHECK constraint" | `zero_shares_after_rounding` reaches the table, whose CHECK refuses the whole batch, after the run was committed as completed |
| | `NoActionCostsNothing` | costs are "Zero for no-action" | a decision whose orders all fall below a lot keeps their cost |
| | `NoRowsMeansNoTrigger` | no decisions mean "all days were no-action" | the status is committed before the rows |
| | `SilentOnlyWithinTheMonth` | "first simulation day of each new calendar month" | only month numbers are compared |
| | `PositiveSeriesHasKpis` | `_sharpe` returns None for a short series | two daily values divide by zero |
| `RebalanceSimulator_raised` | `RaisedMeansFailed` | "Error paths mark the Run with status=failed" | the cost model, the lot table, the KPIs and `save_batch` raise outside every `try` |
| `MigrationRunner_atomic` | `FailureRollsBack` | "Any failure rolls the whole batch back" | not after a file with its own COMMIT |
| `PredictionTracker_claims` | `PriceIsOfEvaluationDay` | migration 015: the price "tai evaluation_date" | the last bar of 14 days, while prices are synchronised twice a week |
| | `HorizonInTradingDays` | horizon in trading days | calendar days |
| | `HolidayRunsAreNoOps` | "Weekend/holiday runs are no-ops" | only weekends are |
| | `SuccessLeavesViewFresh` | the view is refreshed after each batch of actuals | a run that evaluates nothing does not repair what a crash left |
| `PredictionTracker_rerun` | `ReturnMatchesPrice` | "backfill-safe" | a backfill of an evaluated day replaces the price and leaves the return |
| `PredictionTracker_twice` | `ActualsAreFinal` | a prediction is evaluated once | two loggers that overlap both do |
| `PriceSync_up_to_date` | `UpToDateTickerIsNoError` | `sync_ticker` returns 0 if up to date | on a day without a session the empty answer is "all sources exhausted" and the run rolls back |
| `RefreshAudit_claims` (module `RefreshAudit`) | `UpdatedOnExit` | a row is updated on exit | not when an audit call fails |
| | `RowPerInvocation` | one row per invocation | the script runs when `start` fails |
| `StreamlitSession_cancel` | `CancelKeepsWeights` | "manual inputs show previous F1 values as starting point" (`app.py:2441`) | the radio that comes back has no value and stands at equal weights, which overwrite the point's |
| `StreamlitSession_shown` | `ResultIsOfLastConfig` | `last_result` and `last_config` are rendered together as one run (`app.py:3231`) | an event between `run_status = "completed"` and `last_result` leaves the older result under the new configuration |
| `StreamlitSession_source` | `SourceIsOfResult` | "user knows which weight set produced these results" (`app.py:2227`) | the label is read from the session when it is drawn: after Apply the older result is shown under the name of the new point |
| `LabelPipeline_interrupt` | `InterruptSafe` | "Interrupt-safe" (`docs/phase-b-label-spec.md:259`) | a run killed inside a letter of several bytes leaves a file that no resumed run can read |
| `CompanyData_log_folds` | `LogFolds` | migration 006: folding the event log gives the snapshot | seeding a changed file again adds its snapshots but not its events; the assertions run after the commit |

Some definitions are in no run because what they say is implied or shown
better elsewhere; each holds in the instance named and can be added to its cfg:
`TypeOK` of `MigrationRunner`, `PriceSync`, `StreamlitSession`, `LabelPipeline`
and `CompanyData`; `BatchWithinBudget` and `SeriesAligned` (`daily`);
`BarsAreFinal` (`sync_overlap`); `ReadsPriceTable` (`backfill`). `LabellingEnds`, a
loop over a file that does not change, is checked by `LabelPipeline_ends.cfg`
with one collection.

Why the bounds are enough: each property relates at most two tickers, days,
runs, files, articles or events and what comes between them. Two tickers make a
batch with both sides; four days hold a rebalance, a silent day, a failed
attempt and another rebalance, in the same month of another year; look-back 2 <
horizon 3 keeps the order of the code's 14 < 21; two runs are the smallest
circle of waits. In a session, compute, apply, a change and a click are four
events. The upper bounds it offers divide `Full`; a bound that does not is covered by
`GreedyIsOptimal` and `FrontierEndsAtBest`, which are about any. Two articles and three labellings hold a cut line, the run glued to it
and the run that repairs what it left; one answer of cost 2 under a budget of 2
stops at the budget, one of cost 1 overshoots it; two collections let an article be
labelled under one input and met again in the next. Four runs of `company` are a
seed, a metadata run, another seed of an edited file and a second metadata run.
Most of these properties are also theorems (section 4), for any number of each.
Deadlock checking is off where the system stops (a back-test ends; events,
labellings, dispatches and runs of scripts are bounded) and on elsewhere. No
symmetry is used.

Some of what the models show of the code and no property is about: an Apply
button of a page rendered before a ticker was added leaves that ticker out, so
it takes an equal share on top; a curve of one point makes the slider raise, and
step 3 of the page is not rendered; a recomputation that fails takes the Cancel
button away while the weights stay tagged as the point's; an abandoned or
crashed back-test leaves `run_status` and its row at "running"; weights of a
point below 0.1 % are dropped, so that their sum may miss the tolerance of step
3. `--no-resume` appends, though its help says "Overwrite existing labels";
error labels count as done; an answer that does not parse is billed but
recorded as costing nothing; a collector run whose sites all fail empties the
file. A ticker whose metadata fails keeps an old `is_current`, and the script
still exits with 0; a new member of the index that `VN30_UNIVERSE` lacks never
gets a row.

### Fairness

`RebalanceSimulator`: `WF(SimulateStep)`. The call is straight-line code in one
thread; it has no wait and no loop but the one over a finite list of days.
`Crash` is not fair. `PriceSync`: `WF(Step(r))`, since a vendor call returns or
raises (the vendor library has timeouts), and `SF(Insert(r))`, since PostgreSQL
grants a row lock that is free again and again to the transaction that waits
for it. `Start`, `Raise` and the clock are not fair. `LabelPipeline`:
`WF(Loop)`, one pass over the lines of a file in one thread, whose calls return
or raise; starting and killing a run is not fair. `StreamlitSession`:
`WF(Script)`, since a script run goes on by itself; the user is not fair, and
`ClickIsServed` speaks of a click that no further event overtakes. The other
modules have no liveness property: their scripts are started by people or by a
schedule, and what matters of them is what each leaves behind.

## 4. What is proved

TLAPS checks these for every value of the constants that the named `ASSUME`s
admit; a further hypothesis is said in the last column.

| theorem | says | why it is inductive |
|---|---|---|
| `RebalanceSimulatorProofs!TypeCorrect` | types | with `StrategyKnown` and `BatchHasDecision` (the strategy of a running loop is one of three; a batch belongs to a decision with a trade reason) |
| `BudgetInvariant`, `CashSafe` | cash is never negative, not even inside a batch | `BatchWithinBudget`: the check and `apply_orders` walk the same sorted batch, so the cash after `k - 1` orders is the `k`-th projected value; projected values rise over the SELLs and fall over the BUYs, and the last one was checked. `TrailNonNegative` and `TrailGrows` carry the arithmetic |
| `PendingIsWanted`, `AppliesWithoutError`, `RebalanceSettles` | inside a batch, the orders left are what the strategy would still want; so `apply_orders` never raises, and a rebalance asked for again wants nothing | `PendingInv`: as an invariant about holdings alone would not be inductive, it says of the whole batch that applying an order takes exactly that order out of what is wanted. Needs that marking to market does not change under a trade, which is where the fees being left out of cash matters |
| `CadenceKept` | executed rebalances keep their distance | `CadenceInv`: `last` is the day of the last executed decision although failed attempts were recorded since (`LastIsExecuted`), and the batch in hand was admitted for a day far enough from it (`PendingIsApart`) |
| `SeriesLineUp` | decisions and values line up with the trading days | `SeriesInv`: the days recorded are the trading days before `day`, in order |
| `KpiMatchesRows` | KPIs, saved rows and cumulative cost agree | `RowsInv`: the cumulative cost is the total over the executed decisions so far, and those become the rows with orders. The total is a fold; see below |
| `ImplementsLifecycle` | the call implements `RunLifecycle` | `PhaseInv` ties `pc` to the status and the rows; every action is a step of the abstract run (`MarkedIsFail`, `UnmarkedIsStop`) or a stutter (`InsideIsStutter`) |
| `MigrationRunnerProofs!CommittedPrefix`, `RecordsAreTrue` | prefix, true records | `SessionInv`: in `db` and in `work` the recorded files are a prefix and each is in effect; while a run is open, what is pending is exactly what `work` has not recorded, and the next file is in effect in `work` once its record is due |
| `BatchIsAtomicUpToOwnCommit` | what is left committed of a batch that failed or was killed, and what is left without its record, come from a file of that batch with its own COMMIT | `BatchInv`: nothing pending was recorded before; an invocation whose transaction is gone has executed such a file of its own batch (`CommittedHalfway`: all files before it are recorded); at the last commit all is recorded |
| `PriceSyncProofs!SyncTypes`, `TableHasNoHoles`, `NoIntradayBar`, `StoredBarsStay` | types, no hole, no intraday bar, no replaced bar | `SyncInv`: what a run fetched continues what was committed when it began (`SoundRun`), and what it inserted continues the table and is in nobody's way (`SoundRows`); the row waits are what makes the second inductive |
| `SyncImplementsPriceTable` | the table behaves as `PriceTable` | `SoundTable`: under `SyncInv` and `SessionsInv` (a bar fetched, inserted or stored is of a session) the committed table is one of `PriceTable`'s; a commit keeps what is stored, any other step is a stutter |
| `CommonOrderPreventsDeadlock` | runs whose ticker lists follow one order never wait in a circle | `OrderInv`: a run holds rows only of tickers earlier than those left; a circle would have no first ticker |
| `PredictionTrackerProofs!TrackerTypes`, `LaterBar` | types; a return is measured with a later bar | `TrackerInv`: what a runner has found and read is already of the right days; `BarOfHoldingPeriod` is where the look-back being shorter than the horizon is used |
| `ReturnIsOfStoredPrice` | the stored return is the one of the stored price | `MatchInv`: a running logger is for today; the price under a return, stored or at hand, is the stored one, and its prediction is too old for a run to write again. Assumes no backfill (`~Backfill`): with one it is false (`PredictionTracker_rerun`) |
| `DailySuccessMeansCaughtUp` | after success nothing that matured is left | `DailyInv`, with `MatchInv`: a full run without errors has each due prediction evaluated or at hand (`CatchUpInv`), and runs are for no day to come, so that what is due for one was predicted on an earlier day and nobody writes it (`MaturedIsSettled`). Assumes `~Backfill`, no more: of two loggers one may backfill a day the other has left behind |
| `SuccessMeansCaughtUp`, `SuccessMeansViewIsFresh`, `StoredReturnsAreFinal` | the same with backfills; after success the view is fresh; returns are final | `LoggerInv`: what is at hand has no return yet (`FoundInv`), `CatchUpInv`, and nothing happened to the view since success was reported (`ViewInv`). Assumes `OneLogger`. Each needs it: a second logger may backfill after the first one's success, or store a return the view does not have yet, and runs that overlap replace returns (`PredictionTracker_twice`). The Task Scheduler starts one a day (`log_daily_prediction.py:4`), another only by hand |
| `LoggerTakesAnyPriceTable` | whatever `PriceTable` allows the table to become, up to today, one `Sync` of the logger's environment makes of it | no invariant but `TypeOK`. The sessions a ticker has bars of are those up to a last one, which exists because the days are finitely many (`LastExists`, `SessionsUpToADay`). With `LoggerReadsPriceTable`, the other inclusion, the logger's environment is exactly `PriceTable`, the close of a bar being represented by its day |
| `BenchmarkRefreshProofs!AuditIsTrue` | script, row and GitHub agree | `AuditInv`: what is ahead of the job is blank, and inside a step row, exit status and `pc` fit each other (`StepInv`) |
| `GreenRunIsStored`, `RowsOnlyGetNewer` | behind a green step all is stored; rows only get newer | `RefreshInv`: what a running script has upserted so far is stored (`ScriptInv`), what it fetched is no older than what is stored, and a script that returned 0 has upserted all (`ReturnInv`) |
| `LabelPipelineProofs!LabelsObeySchema`, `OverrunIsOneCall`, `ZeroLeavesAtMostTwo` | schema, budget, exit status | `LabelInv`: the file of articles does not change under a labelling, and all the loop has passed is labelled, but for the article of an unfinished line and the one glued to it (`Covered`) |
| `RepeatsNeedStops` | the calls about an article are bounded by how often one collection may list it, times the runs told not to resume, and two for each run that was stopped | `CallsInv`: a call leaves a line that parses, but for the call whose answer a stop loses and the one glued to the line a stop cut. `LinesInv` bounds the lines: the collector repeats an article no more often than the sites it visited (`GatheredInv`, `InputInv`), and a run has labelled an article it did not skip once per place it has passed (`PassedInv`) |
| `CompanyDataProofs!FullRunMakesCurrent`, `FirstFilingStays` | current constituents; statements stay | `CompanyInv`: what a so far complete metadata run has treated agrees with the members it read at its start (`MetadataInv`), and an open transaction has what is committed (`TransactionInv`) |
| `VerifiedSeedFolds` | when the assertions of the seed passed, folding the events gives the snapshot of every date | `SeedInv`: the events are those of one version that was seeded, whose rows are there among those of others. The assertions only count; a count leaves no room for rows of another version. Assumes `SeedFiles`, see below |
| `StreamlitSessionProofs!CompletedRunIsLatest`, `OneBacktestPerClick` | completed means that the last back-test started is stored and ran with `last_config`; one back-test per click | `SessionInv`: a click is claimed by the button pressed, by the flag or by the configuration the sidebar returned, and claims and started back-tests together are at most the clicks (`ClaimsInv`); the row of the running back-test is as far as the script (`RowInv`); between two assignments to the session state, what is assigned and what is not (`AssignInv`); `ResultInv`: a kept result is stored |
| `SessionObeysLifecycle` | every row of a session behaves as `RunLifecycle` | from `SessionInv`, one action at a time: it changes at most the current row, by a step of the abstract run |
| `AppliedPointIsCommitted` | the applied point's weights are the weights committed | `AppliedInv`: between the callback and the commit they wait in `weights_pct`, and no input has a value that would hide them |
| `ValidatedIsRun` | what the page validated is what runs | `ValidatedInv`: committing again what the rows show commits the same (`Steady`), so that the rerun on the way to the gate finds the validated weights; `StepIsStricter`: what step 3 accepts, the sidebar and the request accept |
| `GreedyIsOptimal`, `FrontierEndsAtBest` | the right end of the sweep obeys the bounds if anything does, and nothing within them returns more; so whenever a frontier is computed | no invariant but `TickersInv` (the selection is a list, hence finite). Along the ranking, the right end has given at least as much as any other allocation (`EndIsAhead`), and its lead in return is at least that lead in weight times the mean of the current rank (`EndIsBest`) |

TLC checked the inductive invariants in the instances of section 3
before they were proved (`SeedInv`, say, over 1966000 states; `DailyInv` with the two
loggers of `overlap`).

Sums and counts. `MapThenSumSet` and `MapThenFoldSet` fold over a set in the
order of a `CHOOSE`, and an induction theorem over finite sets takes an operator
as a parameter, which the provers cannot be given. The inductions are therefore
done on a set of counterexamples: a non-empty family of subsets of a finite set
has a smallest member (`SmallestSubset`, from the well-foundedness of strict
inclusion), and a non-empty set of numbers a least one (`AllSteps`). On these
rest `SumsAgree`, `TotalPick` and `TotalWithout` (a total does not depend on the
order it is taken in and grows by the element added), which
`RebalanceSimulatorProofs` uses for costs and `StreamlitSessionProofs` for
weights; each states them for itself.

Hypotheses. Besides the named `ASSUME`s of the modules, some theorems have one
of their own, named in the table: a common order of the tickers for
`CommonOrderPreventsDeadlock`, `~Backfill`, `OneLogger`,
bounds on the grid for `GreedyIsOptimal`, and `SeedFiles`. The last
describes the seed files: dates are integers, two files with equally many events
have equally many rows (the docstring of `seed_vn30_history.py`: "12 periods x
30 tickers", "11 events"), and no event is dated before the first period, which
`reconcile_yaml` does not check. The files of the run `company` satisfy it.

Only model-checked: liveness (`Termination`, `RunsEnd`, `LabellingEnds`,
`ClickIsServed`), since the prover has no rule for fairness; every other
property of the runs is a theorem. The claims of the second and third table of
section 3 are false of the code; what is proved of two of them,
`ReturnMatchesPrice` and `ActualsAreFinal`, is that they hold under the hypothesis
named. Others have a true property beside them that says how much of the claim is
left: `PartialBatchNeedsOwnCommit` of `FailureRollsBack`, `CompletedIsLatest` of
`ResultIsOfLastConfig`, `VerifiedLogFolds` of `LogFolds`.

## 5. What is not modelled, and what is taken from outside

Not modelled:

* The numbers of the frontier (means, covariances, SciPy's minimisation,
  reference portfolios) and of the KPIs (Sharpe, volatility, drawdown):
  floating point without state.
* The bootstrap of the price table: a one-time copy from the database of an
  earlier project, in one transaction; the models start from any table it can
  leave.
* The news summarizer: one prompt in, one text or exception out; nothing in the
  repository calls it.
* The repositories' list, search and batch methods, read-only or used by tests
  only; the checks of the repository itself.
* Of the application: capital, strategy and cost inputs (each valid by its own
  bounds and read in one place), language, charts, and the button that starts
  the synchronisation, whose child is a run of `PriceSync`.
* SQL below the level of a statement, except the row waits of `PriceSync`.
* Vendor answers with a hole: the script takes any answer as complete, so a day
  left out inside an answer is never asked for again. `NoHoles` is about the
  script's own part.
* `--end-date` later than today in `PriceSync`; two migration runners at the
  same time; `audit_log.py` used by hand; `--dry-run` of the benchmark and
  fundamentals scripts, which writes nothing.

Taken from outside the repository (`external` in the map, or said in a
module's header): PostgreSQL's row waits and deadlock abort; the clock and the
vendors' answers; that rows of one key come in the order of their publication;
Streamlit's treatment of widgets, interrupts and `st.rerun()`; that one
operator runs the collector and the labeller, and the scripts of
`fundamentals`, one at a time.

## 6. Plan

All modules of the plan are written: the core (`TradeRules`,
`RebalanceSimulator`, `RunLifecycle`), the database scripts (`MigrationRunner`,
`PriceSync`, `PriceTable`, `PredictionTracker`, `RefreshAudit`,
`BenchmarkRefresh`, `CompanyData`), the files (`LabelPipeline`) and the
application (`Frontier`, `StreamlitSession`).

Every safety property of the runs is proved. Still worth proving are
the parts of the liveness arguments that are not temporal: a measure that each
fair step of `RebalanceSimulator` and `LabelPipeline` decreases.
