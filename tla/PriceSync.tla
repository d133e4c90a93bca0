------------------------------ MODULE PriceSync ------------------------------
(***************************************************************************)
(* scripts/sync_prices.py: runs of the delta synchronisation of            *)
(* prices.daily_ohlcv (scheduled, from the command line, from the UI) that *)
(* may overlap, the clock of the exchange and the vendor's answers.        *)
(*                                                                         *)
(* A stored bar is represented by the source it came from, or by "live"    *)
(* when the vendor answered with the running session instead of a close.   *)
(* The clock may move between any two steps of a run.  What PostgreSQL and *)
(* vnstock do is modelled from how the script uses them: a row another     *)
(* transaction has inserted and not committed is waited for, a cycle of    *)
(* waits aborts one transaction, and a vendor answers with the bars from   *)
(* the first day asked for up to some day, never with a hole.              *)
(***************************************************************************)
EXTENDS Integers, Sequences, FiniteSets

CONSTANTS LastDay,  \* the model's days are 1..LastDay, 1 being DEFAULT_START
          Weekend,  \* weekday() >= 5
          Holidays, \* other days without a session
          Tickers,
          Orders,   \* the ticker lists a run may be given
          Runs,     \* processes that may run sync_universe()
          Sources   \* VNSTOCK_SOURCES

Days == 1..LastDay

TradingDays == Days \ (Weekend \cup Holidays)

None == "none"

Live == "live"

ASSUME DaysAssumption == LastDay \in Nat

ASSUME OrdersAssumption == Orders \subseteq Seq(Tickers)

ASSUME SourcesAssumption == None \notin Sources /\ Live \notin Sources

VARIABLES
    day,      \* today in Ho Chi Minh City
    closed,   \* it is 15:30 or later
    prices,   \* committed rows: per ticker and day, a bar or None
    written,  \* per run, the rows its transaction has inserted
    run       \* per run, the locals of sync_universe()

vars == <<day, closed, prices, written, run>>

Bars == Sources \cup {Live, None}

NoRows == [d \in Days |-> None]

NoPrices == [t \in Tickers |-> NoRows]

Run == [pc : {"idle", "fetch", "insert"}, end : 0..LastDay, dry : BOOLEAN,
        queue : Seq(Tickers), latest : [Tickers -> 0..LastDay],
        rows : [Days -> Bars], exit : {"none", "ok", "no_rows", "raised"}]

Idle == [pc |-> "idle", end |-> 0, dry |-> FALSE, queue |-> <<>>,
         latest |-> [t \in Tickers |-> 0], rows |-> NoRows, exit |-> "none"]

Ended(how) == [Idle EXCEPT !.exit = how]

Stored(t, d) == prices[t][d] # None

-------------------------------------------------------------------------------
Init ==
    /\ day \in Days
    /\ closed \in BOOLEAN
    /\ prices = NoPrices
    /\ written = [r \in Runs |-> NoPrices]
    /\ run = [r \in Runs |-> Idle]

Close ==
    /\ ~closed
    /\ closed' = TRUE
    /\ UNCHANGED <<day, prices, written, run>>

Midnight ==
    /\ closed
    /\ day < LastDay
    /\ day' = day + 1
    /\ closed' = FALSE
    /\ UNCHANGED <<prices, written, run>>

\* Mutant: the end date is not clamped before the close.
Unclamped(end, asked) == end = asked

\* Before 15:30 a run stops at the last weekday before today.
IsEndDate(end, asked) ==
    IF asked >= day /\ ~closed
    THEN /\ end < day /\ end \notin Weekend
         /\ \A d \in Days : end < d /\ d < day => d \in Weekend
    ELSE end = asked

\* get_latest_dates(): the last committed day of each ticker.
IsLatest(latest) ==
    \A t \in Tickers :
        /\ latest[t] # 0 => Stored(t, latest[t])
        /\ \A d \in Days : Stored(t, d) => d <= latest[t]

\* sync_universe() up to the loop. --end-date is at most today.
Start(r) ==
    /\ run[r].pc = "idle"
    /\ \E asked \in 1..day, end \in 0..day, dry \in BOOLEAN, order \in Orders,
          latest \in [Tickers -> 0..LastDay] :
        /\ IsEndDate(end, asked)
        /\ IsLatest(latest)
        /\ run' = [run EXCEPT ![r] =
              [Idle EXCEPT !.pc = "fetch", !.end = end, !.dry = dry,
                           !.queue = order, !.latest = latest]]
    /\ UNCHANGED <<day, closed, prices, written>>

-------------------------------------------------------------------------------
(* sync_ticker() and fetch_with_cascade().                                  *)

UpToDate(r) == run[r].latest[Head(run[r].queue)] + 1 > run[r].end

NextTicker(r) == [run[r] EXCEPT !.pc = "fetch", !.queue = Tail(@), !.rows = NoRows]

SkipTicker(r) ==
    /\ run[r].pc = "fetch" /\ run[r].queue # <<>>
    /\ UpToDate(r)
    /\ run' = [run EXCEPT ![r] = NextTicker(r)]
    /\ UNCHANGED <<day, closed, prices, written>>

\* Mutant: the delta starts two days after the last stored day.
AnsweredFromDayAfter(r, upTo) ==
    {d \in TradingDays : /\ run[r].latest[Head(run[r].queue)] + 1 < d
                         /\ d <= run[r].end /\ d <= upTo /\ d <= day}

\* The days the vendor has when it has them up to a day.
Answered(r, upTo) ==
    {d \in TradingDays : /\ run[r].latest[Head(run[r].queue)] < d
                         /\ d <= run[r].end /\ d <= upTo /\ d <= day}

\* A source answers with at least one row. Of today it has the running session
\* until the close.
Fetch(r) ==
    /\ run[r].pc = "fetch" /\ run[r].queue # <<>>
    /\ ~UpToDate(r)
    /\ \E source \in Sources, upTo \in Days :
        /\ Answered(r, upTo) # {}
        /\ LET rows == [d \in Days |-> IF d \notin Answered(r, upTo) THEN None
                                       ELSE IF d = day /\ ~closed THEN Live
                                       ELSE source]
           IN  run' = [run EXCEPT ![r] =
                  IF run[r].dry THEN NextTicker(r)
                  ELSE [run[r] EXCEPT !.pc = "insert", !.rows = rows]]
    /\ UNCHANGED <<day, closed, prices, written>>

\* Mutant: the connection is left open with its transaction.
AbandonWithoutClosing(r, how) ==
    /\ run' = [run EXCEPT ![r] = Ended(how)]
    /\ written' = written
    /\ UNCHANGED <<day, closed, prices>>

\* An exception leaves the loop: closing the connection rolls the run back.
Abandon(r, how) ==
    /\ run' = [run EXCEPT ![r] = Ended(how)]
    /\ written' = [written EXCEPT ![r] = NoPrices]
    /\ UNCHANGED <<day, closed, prices>>

\* Mutant: the ticker is put back at the end of the list.
RetryLater(r) ==
    /\ run[r].pc = "fetch" /\ run[r].queue # <<>>
    /\ ~UpToDate(r)
    /\ run' = [run EXCEPT ![r] =
          [run[r] EXCEPT !.queue = Append(Tail(run[r].queue), Head(run[r].queue))]]
    /\ UNCHANGED <<day, closed, prices, written>>

\* Every source answers with nothing: "all sources exhausted".
Exhausted(r) ==
    /\ run[r].pc = "fetch" /\ run[r].queue # <<>>
    /\ ~UpToDate(r)
    /\ Abandon(r, "no_rows")

\* A source or the database raises, or the process dies.
Raise(r) == run[r].pc # "idle" /\ Abandon(r, "raised")

-------------------------------------------------------------------------------
(* insert_rows(), ON CONFLICT (ticker, trade_date) DO NOTHING.  A statement *)
(* inserts in ascending days, so that two of the same ticker never wait for *)
(* each other, and is one step here.                                        *)

\* The runs whose uncommitted rows the statement of a run must wait for.
WaitsFor(r) ==
    {o \in Runs \ {r} : /\ run[r].pc = "insert"
                        /\ \E d \in Days : /\ run[r].rows[d] # None
                                           /\ written[o][Head(run[r].queue)][d] # None}

\* Mutant: ON CONFLICT DO UPDATE.
Upserted(r, d) == run[r].rows[d] # None

Inserted(r, d) == run[r].rows[d] # None /\ ~Stored(Head(run[r].queue), d)

Insert(r) ==
    /\ run[r].pc = "insert"
    /\ WaitsFor(r) = {}
    /\ written' = [written EXCEPT ![r][Head(run[r].queue)] =
          [d \in Days |-> IF Inserted(r, d) THEN run[r].rows[d] ELSE @[d]]]
    /\ run' = [run EXCEPT ![r] = NextTicker(r)]
    /\ UNCHANGED <<day, closed, prices>>

\* Runs that wait for each other in a circle.
Deadlocked(rs) == rs # {} /\ \A r \in rs : WaitsFor(r) \cap rs # {}

\* PostgreSQL aborts a transaction of the circle, and the script raises.
DeadlockAbort(r) ==
    /\ \E rs \in SUBSET Runs : r \in rs /\ Deadlocked(rs)
    /\ Abandon(r, "raised")

\* The only commit of a run, after the last ticker; --dry-run has written nothing.
Commit(r) ==
    /\ run[r].pc = "fetch" /\ run[r].queue = <<>>
    /\ prices' = [t \in Tickers |-> [d \in Days |->
          IF written[r][t][d] # None THEN written[r][t][d] ELSE prices[t][d]]]
    /\ written' = [written EXCEPT ![r] = NoPrices]
    /\ run' = [run EXCEPT ![r] = Ended("ok")]
    /\ UNCHANGED <<day, closed>>

Step(r) == \/ SkipTicker(r)
           \/ Fetch(r)
           \/ Exhausted(r)
           \/ Insert(r)
           \/ DeadlockAbort(r)
           \/ Commit(r)

Next == \/ Close
        \/ Midnight
        \/ \E r \in Runs : \/ Start(r)
                           \/ Step(r)
                           \/ Raise(r)

Spec == Init /\ [][Next]_vars

\* A vendor call returns or raises, so a run takes its next step; PostgreSQL
\* grants a row to the transaction that waits for it.
FairSpec == /\ Spec
            /\ \A r \in Runs : WF_vars(Step(r)) /\ SF_vars(Insert(r))

-------------------------------------------------------------------------------
(* Properties.                                                              *)

\* Types of the table, the transactions and the runs.
TypeOK ==
    /\ day \in Days
    /\ closed \in BOOLEAN
    /\ prices \in [Tickers -> [Days -> Bars]]
    /\ written \in [Runs -> [Tickers -> [Days -> Bars]]]
    /\ run \in [Runs -> Run]

\* "Prevents vnstock returning intraday snapshot that gets stored as EOD
\* close_price in DB": the clock is read once, the vendor much later, and no
\* stored bar is of a running session.
OnlyClosingPrices == \A t \in Tickers, d \in Days : prices[t][d] # Live

\* A stored day has every earlier trading day stored: the next delta, which
\* starts after the last stored day, never leaves one out for good, although
\* runs overlap, fail, and insert over each other's rows.
NoHoles ==
    \A t \in Tickers, d \in Days : Stored(t, d) =>
        \A e \in TradingDays : e < d => Stored(t, e)

\* A stored bar is never replaced, whichever source a later run gets it from.
BarsAreFinal ==
    [][\A t \in Tickers, d \in Days : Stored(t, d) => prices'[t][d] = prices[t][d]]_vars

\* Runs that take the tickers in the same order never wait for each other in a
\* circle while they hold the rows of the tickers before.
NoDeadlock == \A rs \in SUBSET Runs : ~Deadlocked(rs)

\* Every run ends, though it may have to wait for the rows of another.
RunsEnd == \A r \in Runs : run[r].pc # "idle" ~> run[r].pc = "idle"

\* The table as the readers of it see it: it only grows, by closes, without holes.
PriceTableSpec == INSTANCE PriceTable WITH Closes <- Sources

ImplementsPriceTable == PriceTableSpec!Spec

\* "Returns rows inserted (0 if up-to-date or dry-run)" (sync_ticker): a run does
\* not fail on a ticker that has every trading day up to the end date.
UpToDateTickerIsNoError ==
    [][\A r \in Runs : Exhausted(r) =>
          \E e \in TradingDays : e <= run[r].end /\ ~Stored(Head(run[r].queue), e)]_vars
===============================================================================
