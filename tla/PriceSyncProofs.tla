--------------------------- MODULE PriceSyncProofs ---------------------------
(***************************************************************************)
(* Theorems about PriceSync, for every calendar, every number of tickers   *)
(* and of overlapping runs: the table has no hole, no bar of a running     *)
(* session and no replaced bar, and runs in a common order do not deadlock.*)
(***************************************************************************)
EXTENDS PriceSync, TLAPS, WellFoundedInduction

\* What a run may rely on from one step to the next: what it fetched continues
\* what was committed when it began, and is of closed sessions.
SoundRun(x) ==
    /\ x.pc = "insert" => x.queue # <<>>
    /\ x.pc # "idle" => x.end <= day /\ (x.end = day => closed)
    /\ \A t \in Tickers, e \in TradingDays : e <= x.latest[t] => Stored(t, e)
    /\ \A d \in Days : x.rows[d] # Live
    /\ x.pc = "insert" =>
           \A d \in Days : x.rows[d] # None =>
               \A e \in TradingDays : e < d => Stored(Head(x.queue), e) \/ x.rows[e] # None

\* What a transaction has inserted continues the committed rows of its ticker,
\* and is in nobody else's way.
SoundRows ==
    \A r \in Runs, t \in Tickers, d \in Days : written[r][t][d] # None =>
        /\ written[r][t][d] # Live
        /\ ~Stored(t, d)
        /\ \A o \in Runs \ {r} : written[o][t][d] = None
        /\ \A e \in TradingDays : e < d => Stored(t, e) \/ written[r][t][e] # None

\* The inductive invariant.
SyncInv ==
    /\ TypeOK
    /\ OnlyClosingPrices
    /\ NoHoles
    /\ \A r \in Runs : SoundRun(run[r])
    /\ SoundRows

LEMMA TradingDaysAreDays == TradingDays \subseteq Days
  BY DEF TradingDays

\* Nothing fetched, nothing inserted.
LEMMA BlankTypes ==
    /\ NoRows \in [Days -> Bars] /\ NoPrices \in [Tickers -> [Days -> Bars]]
    /\ \A how \in {"ok", "no_rows", "raised"} : Ended(how) \in Run
    /\ Idle \in Run
<1>1. NoRows \in [Days -> Bars]
  BY DEF NoRows, Bars
<1>2. NoPrices \in [Tickers -> [Days -> Bars]]
  BY <1>1 DEF NoPrices
<1>3. 0 \in 0..LastDay
  BY DaysAssumption
<1>4. Idle \in Run
  BY <1>1, <1>3 DEF Idle, Run
<1>5. \A how \in {"ok", "no_rows", "raised"} : Ended(how) \in Run
  BY <1>4 DEF Ended, Run
<1> QED BY <1>1, <1>2, <1>4, <1>5

LEMMA BlankSound ==
    /\ SoundRun(Idle)
    /\ \A how \in {"ok", "no_rows", "raised"} : SoundRun(Ended(how))
<1>1. \A t \in Tickers, e \in TradingDays : ~(e <= Idle.latest[t])
  BY TradingDaysAreDays, DaysAssumption DEF Idle, Days
<1>2. \A d \in Days : Idle.rows[d] # Live
  BY DEF Idle, NoRows, None, Live
<1>3. SoundRun(Idle)
  BY <1>1, <1>2 DEF SoundRun, Idle
<1>4. ASSUME NEW how \in {"ok", "no_rows", "raised"} PROVE SoundRun(Ended(how))
  <2>1. /\ Ended(how).pc = "idle" /\ Ended(how).latest = Idle.latest
        /\ Ended(how).rows = Idle.rows
    BY DEF Ended, Idle
  <2> QED BY <1>1, <1>2, <2>1 DEF SoundRun
<1> QED BY <1>3, <1>4

LEMMA SyncInit == Init => SyncInv
<1> SUFFICES ASSUME Init PROVE SyncInv
  OBVIOUS
<1>1. TypeOK
  BY BlankTypes DEF Init, TypeOK
<1>2. \A t \in Tickers, d \in Days : prices[t][d] = None
  BY DEF Init, NoPrices, NoRows
<1>3. \A r \in Runs, t \in Tickers, d \in Days : written[r][t][d] = None
  BY DEF Init, NoPrices, NoRows
<1>4. \A r \in Runs : SoundRun(run[r])
  BY BlankSound DEF Init
<1> QED
  BY <1>1, <1>2, <1>3, <1>4
  DEF SyncInv, OnlyClosingPrices, NoHoles, SoundRows, Stored, None, Live

\* The clock: a session that was closed stays closed, and is over the day after.
LEMMA ClockStep ==
    ASSUME SyncInv, Close \/ Midnight \/ UNCHANGED vars
    PROVE  SyncInv'
<1>1. UNCHANGED <<prices, written, run>>
  BY DEF Close, Midnight, vars
<1>2. TypeOK'
  <2>1. day' \in Days /\ closed' \in BOOLEAN
    <3>1. day \in Days /\ closed \in BOOLEAN
      BY DEF SyncInv, TypeOK
    <3>2. CASE Close
      BY <3>1, <3>2 DEF Close
    <3>3. CASE Midnight
      <4>1. closed' = FALSE
        BY <3>3 DEF Midnight
      <4>2. day' \in Days
        BY <3>1, <3>3, DaysAssumption DEF Midnight, Days
      <4> QED BY <4>1, <4>2
    <3>4. CASE UNCHANGED vars
      BY <3>1, <3>4 DEF vars
    <3> QED BY <3>2, <3>3, <3>4
  <2> QED BY <1>1, <2>1 DEF SyncInv, TypeOK
<1>3. ASSUME NEW r \in Runs PROVE SoundRun(run[r])'
  <2>1. run[r].end \in 0..LastDay /\ day \in Days
    BY DEF SyncInv, TypeOK, Run
  <2>2. run[r].pc # "idle" => run[r].end <= day' /\ (run[r].end = day' => closed')
    <3>1. run[r].pc # "idle" => run[r].end <= day /\ (run[r].end = day => closed)
      BY DEF SyncInv, SoundRun
    <3>2. CASE Close
      BY <2>1, <3>1, <3>2 DEF Close
    <3>3. CASE Midnight
      BY <2>1, <3>1, <3>3, DaysAssumption DEF Midnight, Days
    <3>4. CASE UNCHANGED vars
      BY <3>1, <3>4 DEF vars
    <3> QED BY <3>2, <3>3, <3>4
  <2> QED BY <1>1, <2>2 DEF SyncInv, SoundRun, Stored
<1> QED
  BY <1>1, <1>2, <1>3 DEF SyncInv, OnlyClosingPrices, NoHoles, SoundRows, Stored

\* A step that only replaces one run by a sound one.
LEMMA RunStep ==
    ASSUME SyncInv, NEW r \in Runs, NEW x \in Run, SoundRun(x),
           run' = [run EXCEPT ![r] = x],
           UNCHANGED <<day, closed, prices, written>>
    PROVE  SyncInv'
<1>1. TypeOK'
  BY DEF SyncInv, TypeOK
<1>2. \A o \in Runs : run'[o] = run[o] \/ run'[o] = x
  BY DEF SyncInv, TypeOK
<1>3. \A o \in Runs : SoundRun(run[o])'
  BY <1>2 DEF SyncInv, SoundRun, Stored
<1> QED BY <1>1, <1>3 DEF SyncInv, OnlyClosingPrices, NoHoles, SoundRows, Stored

\* Going on to the next ticker.
LEMMA NextTickerSound ==
    ASSUME SyncInv, NEW r \in Runs, run[r].pc # "idle", run[r].queue # <<>>
    PROVE  NextTicker(r) \in Run /\ SoundRun(NextTicker(r))
<1>1. run[r] \in Run /\ SoundRun(run[r])
  BY DEF SyncInv, TypeOK
<1>2. Tail(run[r].queue) \in Seq(Tickers) /\ run[r].queue \in Seq(Tickers)
  BY <1>1 DEF Run
<1>3. NextTicker(r) \in Run
  BY <1>1, <1>2, BlankTypes DEF NextTicker, Run
<1>4. \A d \in Days : NoRows[d] # Live
  BY DEF NoRows, None, Live
<1> QED BY <1>1, <1>3, <1>4 DEF NextTicker, SoundRun, Run

\* The first statement of a run: it starts from committed rows without a hole.
LEMMA StartStep ==
    ASSUME SyncInv, NEW r \in Runs, Start(r)
    PROVE  SyncInv'
<1>1. PICK asked \in 1..day, end \in 0..day, dry \in BOOLEAN, order \in Orders,
           latest \in [Tickers -> 0..LastDay] :
          /\ IsEndDate(end, asked)
          /\ IsLatest(latest)
          /\ run' = [run EXCEPT ![r] =
                [Idle EXCEPT !.pc = "fetch", !.end = end, !.dry = dry,
                             !.queue = order, !.latest = latest]]
  BY DEF Start
<1> DEFINE x == [Idle EXCEPT !.pc = "fetch", !.end = end, !.dry = dry,
                             !.queue = order, !.latest = latest]
<1>2. day \in Days /\ end \in 0..LastDay
  BY DaysAssumption DEF SyncInv, TypeOK, Days
<1>3. order \in Seq(Tickers)
  BY OrdersAssumption
<1>4. /\ x.pc = "fetch" /\ x.end = end /\ x.dry = dry /\ x.queue = order
      /\ x.latest = latest /\ x.rows = NoRows /\ x.exit = "none"
      /\ x \in Run
  BY <1>2, <1>3, BlankTypes DEF Idle, Run
<1>5. end <= day /\ (end = day => closed)
  BY <1>1, <1>2 DEF IsEndDate, Days
<1>6. ASSUME NEW t \in Tickers, NEW e \in TradingDays, e <= latest[t]
      PROVE  Stored(t, e)
  <2>1. e \in Days /\ latest[t] \in 0..LastDay
    BY TradingDaysAreDays
  <2>2. latest[t] # 0 /\ latest[t] \in Days
    BY <1>6, <2>1, DaysAssumption DEF Days
  <2>3. Stored(t, latest[t])
    BY <1>1, <2>2 DEF IsLatest
  <2>4. e = latest[t] \/ e < latest[t]
    BY <1>6, <2>1, <2>2, DaysAssumption DEF Days
  <2> QED BY <2>2, <2>3, <2>4 DEF SyncInv, NoHoles
<1>7. \A d \in Days : NoRows[d] # Live
  BY DEF NoRows, None, Live
<1> HIDE DEF x
<1>8. SoundRun(x)
  BY <1>4, <1>5, <1>6, <1>7 DEF SoundRun
<1>9. run' = [run EXCEPT ![r] = x]
  BY <1>1 DEF x
<1> QED BY <1>4, <1>8, <1>9, RunStep DEF Start

\* What the vendor answers continues the committed rows, and is of closed sessions.
LEMMA FetchStep ==
    ASSUME SyncInv, NEW r \in Runs, Fetch(r)
    PROVE  SyncInv'
<1>1. PICK source \in Sources, upTo \in Days :
          LET rows == [d \in Days |-> IF d \notin Answered(r, upTo) THEN None
                                     ELSE IF d = day /\ ~closed THEN Live
                                     ELSE source]
          IN  run' = [run EXCEPT ![r] =
                 IF run[r].dry THEN NextTicker(r)
                 ELSE [run[r] EXCEPT !.pc = "insert", !.rows = rows]]
  BY DEF Fetch
<1> DEFINE t == Head(run[r].queue)
           rows == [d \in Days |-> IF d \notin Answered(r, upTo) THEN None
                                  ELSE IF d = day /\ ~closed THEN Live
                                  ELSE source]
           x == [run[r] EXCEPT !.pc = "insert", !.rows = rows]
<1>2. /\ run[r] \in Run /\ SoundRun(run[r]) /\ day \in Days
      /\ run[r].pc = "fetch" /\ run[r].queue # <<>>
      /\ UNCHANGED <<day, closed, prices, written>>
  BY DEF SyncInv, TypeOK, Fetch
<1>3. t \in Tickers
  BY <1>2 DEF Run
<1>4. run[r].latest[t] \in 0..LastDay /\ run[r].end \in 0..LastDay
  BY <1>2, <1>3 DEF Run
<1> HIDE DEF t
<1>5. /\ run' = [run EXCEPT ![r] = NextTicker(r)] \/ run' = [run EXCEPT ![r] = x]
      /\ rows \in [Days -> Bars]
  BY <1>1 DEF Bars
<1>6. ASSUME NEW d \in Days
      PROVE  /\ rows[d] # None <=> d \in Answered(r, upTo)
             /\ rows[d] # Live
  <2>1. d \in Answered(r, upTo) => ~(d = day /\ ~closed)
    BY <1>2, <1>4 DEF Answered, SoundRun, TradingDays, Days
  <2> QED BY <2>1, SourcesAssumption DEF None, Live
<1>7. ASSUME NEW d \in Days, rows[d] # None, NEW e \in TradingDays, e < d
      PROVE  Stored(t, e) \/ rows[e] # None
  <2>1. d \in Answered(r, upTo) /\ e \in Days
    BY <1>6, <1>7, TradingDaysAreDays
  <2>2. CASE e <= run[r].latest[t]
    BY <1>2, <1>3, <2>2 DEF SoundRun
  <2>3. CASE ~(e <= run[r].latest[t])
    <3>1. e \in Answered(r, upTo)
      BY <1>2, <1>4, <1>7, <2>1, <2>3 DEF Answered, Days, t
    <3> QED BY <1>6, <2>1, <3>1
  <2> QED BY <2>2, <2>3
<1> HIDE DEF rows
<1>8. /\ x \in Run /\ x.pc = "insert" /\ x.queue = run[r].queue /\ x.rows = rows
      /\ x.end = run[r].end /\ x.latest = run[r].latest
  BY <1>2, <1>5 DEF Run
<1> HIDE DEF x
<1>9. SoundRun(x)
  <2>1. x.end <= day /\ (x.end = day => closed)
    BY <1>2, <1>8 DEF SoundRun
  <2>2. \A s \in Tickers, e \in TradingDays : e <= x.latest[s] => Stored(s, e)
    BY <1>2, <1>8 DEF SoundRun
  <2> QED BY <1>2, <1>6, <1>7, <1>8, <2>1, <2>2 DEF SoundRun, t
<1>10. NextTicker(r) \in Run /\ SoundRun(NextTicker(r))
  BY <1>2, NextTickerSound
<1> QED BY <1>2, <1>5, <1>8, <1>9, <1>10, RunStep

\* A run that rolls back leaves the committed rows and the other runs alone.
LEMMA AbandonStep ==
    ASSUME SyncInv, NEW r \in Runs, NEW how \in {"ok", "no_rows", "raised"},
           Abandon(r, how)
    PROVE  SyncInv'
<1>1. /\ run' = [run EXCEPT ![r] = Ended(how)]
      /\ written' = [written EXCEPT ![r] = NoPrices]
      /\ UNCHANGED <<day, closed, prices>>
  BY DEF Abandon
<1>2. TypeOK'
  BY <1>1, BlankTypes DEF SyncInv, TypeOK
<1>3. ASSUME NEW o \in Runs PROVE SoundRun(run[o])'
  <2>1. run'[o] = run[o] \/ run'[o] = Ended(how)
    BY <1>1 DEF SyncInv, TypeOK
  <2>2. SoundRun(run'[o])
    BY <2>1, BlankSound DEF SyncInv
  <2> QED BY <1>1, <2>2 DEF SoundRun, Stored
<1>4. \A o \in Runs, t \in Tickers, d \in Days :
          written'[o][t][d] = IF o = r THEN None ELSE written[o][t][d]
  BY <1>1 DEF SyncInv, TypeOK, NoPrices, NoRows
<1>5. SoundRows'
  BY <1>1, <1>4 DEF SyncInv, SoundRows, Stored, TradingDays
<1> QED
  BY <1>1, <1>2, <1>3, <1>5 DEF SyncInv, OnlyClosingPrices, NoHoles, Stored

\* The rows inserted are the ones fetched that are not stored, and no other
\* transaction has one of them.
LEMMA InsertStep ==
    ASSUME SyncInv, NEW r \in Runs, Insert(r)
    PROVE  SyncInv'
<1> DEFINE t == Head(run[r].queue)
<1>1. /\ run[r].pc = "insert" /\ WaitsFor(r) = {}
      /\ written' = [written EXCEPT ![r][t] =
            [d \in Days |-> IF Inserted(r, d) THEN run[r].rows[d] ELSE @[d]]]
      /\ run' = [run EXCEPT ![r] = NextTicker(r)]
      /\ UNCHANGED <<day, closed, prices>>
  BY DEF Insert
<1>2. /\ run[r] \in Run /\ SoundRun(run[r]) /\ run[r].queue # <<>>
      /\ written \in [Runs -> [Tickers -> [Days -> Bars]]]
  BY <1>1 DEF SyncInv, TypeOK, SoundRun
<1>3. t \in Tickers /\ run[r].rows \in [Days -> Bars]
  BY <1>2 DEF Run
<1>4. NextTicker(r) \in Run /\ SoundRun(NextTicker(r))
  BY <1>1, <1>2, NextTickerSound
<1>5. /\ run' \in [Runs -> Run]
      /\ \A o \in Runs : run'[o] = run[o] \/ run'[o] = NextTicker(r)
  BY <1>1, <1>4 DEF SyncInv, TypeOK
<1>6. \A o \in Runs : SoundRun(run[o])'
  BY <1>1, <1>4, <1>5 DEF SyncInv, SoundRun, Stored
<1>7. \A d \in Days : Inserted(r, d) <=> run[r].rows[d] # None /\ ~Stored(t, d)
  BY DEF Inserted
<1> HIDE DEF t
<1>8. /\ written' \in [Runs -> [Tickers -> [Days -> Bars]]]
      /\ \A o \in Runs, s \in Tickers, d \in Days :
            written'[o][s][d] = IF o = r /\ s = t /\ Inserted(r, d)
                                THEN run[r].rows[d] ELSE written[o][s][d]
  BY <1>1, <1>2, <1>3
<1>9. TypeOK'
  BY <1>1, <1>5, <1>8 DEF SyncInv, TypeOK
<1>10. \A o \in Runs \ {r}, d \in Days : run[r].rows[d] # None => written[o][t][d] = None
  BY <1>1 DEF WaitsFor, t
<1>11. SoundRows'
  <2> SUFFICES ASSUME NEW p \in Runs, NEW s \in Tickers, NEW d \in Days,
                      written'[p][s][d] # None
               PROVE  /\ written'[p][s][d] # Live /\ ~Stored(s, d)
                      /\ \A o \in Runs \ {p} : written'[o][s][d] = None
                      /\ \A e \in TradingDays :
                            e < d => Stored(s, e) \/ written'[p][s][e] # None
    BY <1>1, SMTT(30) DEF SoundRows, Stored
  <2>1. CASE p = r /\ s = t /\ Inserted(r, d)
    <3>1. run[r].rows[d] # None /\ run[r].rows[d] # Live /\ ~Stored(t, d)
      BY <1>2, <1>7, <2>1 DEF SoundRun
    <3>2. \A e \in TradingDays : e < d => Stored(t, e) \/ run[r].rows[e] # None
      BY <1>1, <1>2, <3>1 DEF SoundRun, t
    <3>3. \A e \in TradingDays : e < d => Stored(t, e) \/ Inserted(r, e)
      BY <1>7, <3>2, TradingDaysAreDays
    <3>4. \A e \in TradingDays : e < d => Stored(t, e) \/ written'[p][s][e] # None
      BY <1>7, <1>8, <2>1, <3>3, TradingDaysAreDays
    <3>5. \A o \in Runs \ {p} : written'[o][s][d] = None
      BY <1>8, <1>10, <2>1, <3>1
    <3> QED BY <1>8, <2>1, <3>1, <3>4, <3>5
  <2>2. CASE ~(p = r /\ s = t /\ Inserted(r, d))
    <3>1. written'[p][s][d] = written[p][s][d] /\ written[p][s][d] # None
      BY <1>8, <2>2
    <3>2. /\ written[p][s][d] # Live /\ ~Stored(s, d)
          /\ \A o \in Runs \ {p} : written[o][s][d] = None
          /\ \A e \in TradingDays : e < d => Stored(s, e) \/ written[p][s][e] # None
      BY <3>1 DEF SyncInv, SoundRows
    <3>3. \A e \in Days : written[p][s][e] # None => written'[p][s][e] # None
      BY <1>7, <1>8
    <3>4. \A o \in Runs \ {p} : written'[o][s][d] = None
      <4> SUFFICES ASSUME NEW o \in Runs \ {p}, o = r /\ s = t /\ Inserted(r, d)
                   PROVE  FALSE
        BY <1>8, <3>2
      <4> QED BY <1>7, <1>10, <3>1
    <3> QED BY <3>1, <3>2, <3>3, <3>4, TradingDaysAreDays
  <2> QED BY <2>1, <2>2
<1> QED
  BY <1>1, <1>6, <1>9, <1>11 DEF SyncInv, OnlyClosingPrices, NoHoles, Stored

\* The commit adds rows that continue the committed ones and replaces none.
LEMMA CommitStep ==
    ASSUME SyncInv, NEW r \in Runs, Commit(r)
    PROVE  /\ SyncInv'
           /\ \A t \in Tickers, d \in Days : Stored(t, d) => prices'[t][d] = prices[t][d]
<1>1. /\ prices' = [t \in Tickers |-> [d \in Days |->
            IF written[r][t][d] # None THEN written[r][t][d] ELSE prices[t][d]]]
      /\ written' = [written EXCEPT ![r] = NoPrices]
      /\ run' = [run EXCEPT ![r] = Ended("ok")]
      /\ UNCHANGED <<day, closed>>
  BY DEF Commit
<1>2. /\ written \in [Runs -> [Tickers -> [Days -> Bars]]]
      /\ prices \in [Tickers -> [Days -> Bars]]
  BY DEF SyncInv, TypeOK
<1>3. /\ prices' \in [Tickers -> [Days -> Bars]]
      /\ \A t \in Tickers, d \in Days :
            prices'[t][d] = IF written[r][t][d] # None THEN written[r][t][d] ELSE prices[t][d]
  BY <1>1, <1>2
<1>4. TypeOK'
  BY <1>1, <1>3, BlankTypes DEF SyncInv, TypeOK
<1>5. \A t \in Tickers, d \in Days :
          (prices'[t][d] # None) <=> (Stored(t, d) \/ written[r][t][d] # None)
  BY <1>3 DEF Stored
<1>6. \A t \in Tickers, d \in Days : Stored(t, d) => prices'[t][d] = prices[t][d]
  BY <1>3 DEF SyncInv, SoundRows
<1>7. OnlyClosingPrices'
  BY <1>3 DEF SyncInv, OnlyClosingPrices, SoundRows
<1>8. NoHoles'
  BY <1>5, TradingDaysAreDays DEF SyncInv, NoHoles, SoundRows, Stored
<1>9. ASSUME NEW o \in Runs PROVE SoundRun(run[o])'
  <2>1. run'[o] = run[o] \/ run'[o] = Ended("ok")
    BY <1>1 DEF SyncInv, TypeOK
  <2>2. SoundRun(run'[o]) /\ run'[o] \in Run
    BY <1>4, <2>1, BlankSound DEF SyncInv, TypeOK
  <2>3. run'[o].pc = "insert" => Head(run'[o].queue) \in Tickers
    BY <2>2 DEF SoundRun, Run
  <2>4. \A t \in Tickers, d \in Days : Stored(t, d) => prices'[t][d] # None
    BY <1>5
  <2>5. run'[o].pc = "insert" =>
            \A d \in Days : run'[o].rows[d] # None =>
                \A e \in TradingDays :
                    e < d => \/ prices'[Head(run'[o].queue)][e] # None
                             \/ run'[o].rows[e] # None
    BY <2>2, <2>3, <2>4, TradingDaysAreDays DEF SoundRun
  <2>6. \A t \in Tickers, e \in TradingDays : e <= run'[o].latest[t] => prices'[t][e] # None
    BY <2>2, <2>4, TradingDaysAreDays DEF SoundRun
  <2> QED BY <1>1, <2>2, <2>5, <2>6 DEF SoundRun, Stored
<1>10. \A o \in Runs, t \in Tickers, d \in Days :
          written'[o][t][d] = IF o = r THEN None ELSE written[o][t][d]
  BY <1>1, <1>2 DEF NoPrices, NoRows
<1>11. SoundRows'
  <2> SUFFICES ASSUME NEW p \in Runs, NEW t \in Tickers, NEW d \in Days,
                      written'[p][t][d] # None
               PROVE  /\ written'[p][t][d] # Live /\ prices'[t][d] = None
                      /\ \A o \in Runs \ {p} : written'[o][t][d] = None
                      /\ \A e \in TradingDays :
                            e < d => prices'[t][e] # None \/ written'[p][t][e] # None
    BY DEF SoundRows, Stored
  <2>1. p # r /\ written'[p][t][d] = written[p][t][d] /\ written[p][t][d] # None
    BY <1>10
  <2>2. /\ written[p][t][d] # Live /\ ~Stored(t, d)
        /\ \A o \in Runs \ {p} : written[o][t][d] = None
        /\ \A e \in TradingDays : e < d => Stored(t, e) \/ written[p][t][e] # None
    BY <2>1 DEF SyncInv, SoundRows
  <2>3. written[r][t][d] = None
    BY <2>1, <2>2
  <2>4. prices'[t][d] = None
    BY <1>5, <2>2, <2>3
  <2>5. \A e \in TradingDays : e < d => prices'[t][e] # None \/ written'[p][t][e] # None
    BY <1>5, <1>10, <2>1, <2>2, TradingDaysAreDays
  <2> QED BY <1>10, <2>1, <2>2, <2>4, <2>5
<1> QED BY <1>4, <1>6, <1>7, <1>8, <1>9, <1>11 DEF SyncInv

\* Every step keeps the invariant and every stored bar.
LEMMA SyncStep ==
    ASSUME SyncInv, [Next]_vars
    PROVE  /\ SyncInv'
           /\ \A t \in Tickers, d \in Days : Stored(t, d) => prices'[t][d] = prices[t][d]
<1>1. CASE Close \/ Midnight \/ UNCHANGED vars
  <2>1. prices' = prices
    BY <1>1 DEF Close, Midnight, vars
  <2> QED BY <1>1, <2>1, ClockStep
<1>2. ASSUME NEW r \in Runs, Start(r)
      PROVE  SyncInv' /\ prices' = prices
  BY <1>2, StartStep DEF Start
<1>3. ASSUME NEW r \in Runs, SkipTicker(r)
      PROVE  SyncInv' /\ prices' = prices
  <2>1. /\ run[r].pc # "idle" /\ run[r].queue # <<>>
        /\ run' = [run EXCEPT ![r] = NextTicker(r)]
        /\ UNCHANGED <<day, closed, prices, written>>
    BY <1>3 DEF SkipTicker
  <2> QED BY <2>1, NextTickerSound, RunStep
<1>4. ASSUME NEW r \in Runs, Fetch(r)
      PROVE  SyncInv' /\ prices' = prices
  BY <1>4, FetchStep DEF Fetch
<1>5. ASSUME NEW r \in Runs, Exhausted(r) \/ DeadlockAbort(r) \/ Raise(r)
      PROVE  SyncInv' /\ prices' = prices
  <2>1. Abandon(r, "no_rows") \/ Abandon(r, "raised")
    BY <1>5 DEF Exhausted, DeadlockAbort, Raise
  <2>2. SyncInv'
    BY <2>1, AbandonStep
  <2> QED BY <2>1, <2>2 DEF Abandon
<1>6. ASSUME NEW r \in Runs, Insert(r)
      PROVE  SyncInv' /\ prices' = prices
  BY <1>6, InsertStep DEF Insert
<1>7. ASSUME NEW r \in Runs, Commit(r)
      PROVE  /\ SyncInv'
             /\ \A t \in Tickers, d \in Days :
                    Stored(t, d) => prices'[t][d] = prices[t][d]
  BY <1>7, CommitStep
<1> QED BY <1>1, <1>2, <1>3, <1>4, <1>5, <1>6, <1>7 DEF Next, Step

LEMMA SyncInductive == Spec => []SyncInv
<1>1. SyncInv /\ [Next]_vars => SyncInv'
  BY SyncStep
<1> QED BY <1>1, SyncInit, PTL DEF Spec

\* The types hold in every reachable state.
THEOREM SyncTypes == Spec => []TypeOK
<1>1. SyncInv => TypeOK
  BY DEF SyncInv
<1> QED BY <1>1, SyncInductive, PTL

\* Delta synchronisation leaves no trading day out, however runs overlap and fail.
THEOREM TableHasNoHoles == Spec => []NoHoles
<1>1. SyncInv => NoHoles
  BY DEF SyncInv
<1> QED BY <1>1, SyncInductive, PTL

\* The clamp at the start of a run keeps running sessions out of the table, for as
\* long as the run may take.
THEOREM NoIntradayBar == Spec => []OnlyClosingPrices
<1>1. SyncInv => OnlyClosingPrices
  BY DEF SyncInv
<1> QED BY <1>1, SyncInductive, PTL

\* No run replaces a stored bar.
THEOREM StoredBarsStay == Spec => BarsAreFinal
<1>1. SyncInv /\ [Next]_vars =>
        [\A t \in Tickers, d \in Days : Stored(t, d) => prices'[t][d] = prices[t][d]]_vars
  BY SyncStep
<1> QED BY <1>1, SyncInductive, PTL DEF Spec, BarsAreFinal

\* Every bar, committed, inserted or fetched, is of a session.
SessionsInv ==
    /\ \A t \in Tickers, d \in Days : Stored(t, d) => d \in TradingDays
    /\ \A r \in Runs, t \in Tickers, d \in Days : written[r][t][d] # None => d \in TradingDays
    /\ \A r \in Runs, d \in Days : run[r].rows[d] # None => d \in TradingDays

LEMMA SessionsInit == Init => SessionsInv
  BY DEF Init, SessionsInv, Stored, Idle, NoPrices, NoRows

\* Every step keeps it.
LEMMA SessionsStep == SyncInv /\ SessionsInv /\ [Next]_vars => SessionsInv'
<1> SUFFICES ASSUME SyncInv, SessionsInv, [Next]_vars PROVE SessionsInv'
  OBVIOUS
<1>1. /\ run \in [Runs -> Run]
      /\ written \in [Runs -> [Tickers -> [Days -> Bars]]]
      /\ prices \in [Tickers -> [Days -> Bars]]
  BY DEF SyncInv, TypeOK
<1>2. CASE Close \/ Midnight \/ UNCHANGED vars
  BY <1>2 DEF Close, Midnight, vars, SessionsInv, Stored
<1>3. ASSUME NEW r \in Runs, NEW x, run' = [run EXCEPT ![r] = x],
             \A d \in Days : x.rows[d] # None => d \in TradingDays
      PROVE  \A o \in Runs, d \in Days : run'[o].rows[d] # None => d \in TradingDays
  BY <1>1, <1>3 DEF SessionsInv
<1>4. \A r \in Runs, d \in Days : NextTicker(r).rows[d] = None
  BY <1>1 DEF NextTicker, NoRows, Run
<1>5. ASSUME NEW r \in Runs, NEW how, run' = [run EXCEPT ![r] = Ended(how)]
      PROVE  \A o \in Runs, d \in Days : run'[o].rows[d] # None => d \in TradingDays
  <2> DEFINE x == Ended(how)
  <2>1. \A d \in Days : x.rows[d] = None
    BY DEF Ended, Idle, NoRows
  <2>2. run' = [run EXCEPT ![r] = x]
    BY <1>5
  <2> HIDE DEF x
  <2> QED BY <1>3, <2>1, <2>2
<1>6. ASSUME NEW r \in Runs, Start(r) PROVE SessionsInv'
  <2>1. PICK end, dry, order, latest :
          run' = [run EXCEPT ![r] =
              [Idle EXCEPT !.pc = "fetch", !.end = end, !.dry = dry,
                           !.queue = order, !.latest = latest]]
    BY <1>6 DEF Start
  <2> DEFINE x == [Idle EXCEPT !.pc = "fetch", !.end = end, !.dry = dry,
                               !.queue = order, !.latest = latest]
  <2>2. \A d \in Days : x.rows[d] = None
    BY DEF Idle, NoRows
  <2>3. run' = [run EXCEPT ![r] = x]
    BY <2>1
  <2> HIDE DEF x
  <2>4. \A o \in Runs, d \in Days : run'[o].rows[d] # None => d \in TradingDays
    BY <1>3, <2>2, <2>3
  <2>5. prices' = prices /\ written' = written
    BY <1>6 DEF Start
  <2> QED BY <2>4, <2>5 DEF SessionsInv, Stored
<1>7. ASSUME NEW r \in Runs, SkipTicker(r) PROVE SessionsInv'
  BY <1>3, <1>4, <1>7 DEF SkipTicker, SessionsInv, Stored
<1>8. ASSUME NEW r \in Runs, Fetch(r) PROVE SessionsInv'
  <2>1. PICK source \in Sources, upTo \in Days :
          LET rows == [d \in Days |-> IF d \notin Answered(r, upTo) THEN None
                                      ELSE IF d = day /\ ~closed THEN Live
                                      ELSE source]
          IN  run' = [run EXCEPT ![r] =
                 IF run[r].dry THEN NextTicker(r)
                 ELSE [run[r] EXCEPT !.pc = "insert", !.rows = rows]]
    BY <1>8 DEF Fetch
  <2> DEFINE rows == [d \in Days |-> IF d \notin Answered(r, upTo) THEN None
                                     ELSE IF d = day /\ ~closed THEN Live
                                     ELSE source]
             x == IF run[r].dry THEN NextTicker(r)
                  ELSE [run[r] EXCEPT !.pc = "insert", !.rows = rows]
  <2>2. \A d \in Days : rows[d] # None => d \in TradingDays
    BY DEF Answered
  <2>3. \A d \in Days : x.rows[d] # None => d \in TradingDays
    BY <1>1, <1>4, <2>2 DEF Run
  <2>4. run' = [run EXCEPT ![r] = x]
    BY <2>1
  <2> HIDE DEF x
  <2> QED BY <1>3, <1>8, <2>3, <2>4 DEF Fetch, SessionsInv, Stored
<1>9. ASSUME NEW r \in Runs, NEW how, Abandon(r, how) PROVE SessionsInv'
  <2>1. \A o \in Runs, t \in Tickers, d \in Days :
            written'[o][t][d] # None => d \in TradingDays
    BY <1>1, <1>9 DEF Abandon, SessionsInv, NoPrices, NoRows
  <2>2. run' = [run EXCEPT ![r] = Ended(how)] /\ prices' = prices
    BY <1>9 DEF Abandon
  <2>3. \A o \in Runs, d \in Days : run'[o].rows[d] # None => d \in TradingDays
    BY <1>5, <2>2
  <2> QED BY <2>1, <2>2, <2>3 DEF SessionsInv, Stored
<1>10. ASSUME NEW r \in Runs, Insert(r) PROVE SessionsInv'
  <2>1. ASSUME NEW o \in Runs, NEW t \in Tickers, NEW d \in Days, written'[o][t][d] # None
        PROVE  written[o][t][d] # None \/ run[r].rows[d] # None
    BY <1>1, <1>10, <2>1 DEF Insert, Inserted
  <2> QED BY <1>3, <1>4, <1>10, <2>1 DEF Insert, SessionsInv, Stored
<1>11. ASSUME NEW r \in Runs, Commit(r) PROVE SessionsInv'
  <2>1. \A t \in Tickers, d \in Days :
            prices'[t][d] # None => prices[t][d] # None \/ written[r][t][d] # None
    BY <1>11 DEF Commit
  <2>2. \A o \in Runs, t \in Tickers, d \in Days :
            written'[o][t][d] # None => written[o][t][d] # None
    BY <1>1, <1>11 DEF Commit, NoPrices, NoRows
  <2>3. run' = [run EXCEPT ![r] = Ended("ok")]
    BY <1>11 DEF Commit
  <2>4. \A o \in Runs, d \in Days : run'[o].rows[d] # None => d \in TradingDays
    BY <1>5, <2>3
  <2> QED BY <2>1, <2>2, <2>4 DEF SessionsInv, Stored
<1> QED
  BY <1>2, <1>6, <1>7, <1>8, <1>9, <1>10, <1>11
  DEF Next, Step, Exhausted, DeadlockAbort, Raise

\* The committed rows are a table as PriceTable describes it.
LEMMA SoundTable == SyncInv /\ SessionsInv => prices \in PriceTableSpec!Table
<1> SUFFICES ASSUME SyncInv, SessionsInv PROVE prices \in PriceTableSpec!Table
  OBVIOUS
<1>1. prices \in [Tickers -> [Days -> Sources \cup {None}]]
  <2>1. prices \in [Tickers -> [Days -> Sources \cup {Live, None}]]
    BY DEF SyncInv, TypeOK, Bars
  <2>2. \A t \in Tickers, d \in Days : prices[t][d] # Live
    BY DEF SyncInv, OnlyClosingPrices
  <2>3. ASSUME NEW t \in Tickers PROVE prices[t] \in [Days -> Sources \cup {None}]
    <3>1. prices[t] \in [Days -> Sources \cup {Live, None}]
      BY <2>1
    <3>2. \A d \in Days : prices[t][d] \in Sources \cup {None}
      BY <3>1, <2>2
    <3> QED BY <3>1, <3>2
  <2> QED BY <2>1, <2>3
<1>2. PriceTableSpec!Complete(prices)
  BY DEF SyncInv, NoHoles, Stored, PriceTableSpec!Complete
<1>3. PriceTableSpec!OnSessions(prices)
  BY DEF SessionsInv, Stored, PriceTableSpec!OnSessions
<1> QED BY <1>1, <1>2, <1>3 DEF PriceTableSpec!Table

\* Runs of sync_prices.py, however they overlap and fail, provide the table its
\* readers rely on.
THEOREM SyncImplementsPriceTable == Spec => ImplementsPriceTable
<1> DEFINE Inv == SyncInv /\ SessionsInv
<1>1. Init => PriceTableSpec!Init
  BY SyncInit, SessionsInit, SoundTable DEF PriceTableSpec!Init
<1>2. Inv /\ [Next]_vars => Inv' /\ [PriceTableSpec!Next]_prices
  <2> SUFFICES ASSUME SyncInv, SessionsInv, [Next]_vars PROVE Inv' /\ PriceTableSpec!Next
    OBVIOUS
  <2>1. SyncInv' /\ \A t \in Tickers, d \in Days : Stored(t, d) => prices'[t][d] = prices[t][d]
    BY SyncStep
  <2>2. SessionsInv'
    BY SessionsStep
  <2>3. (SyncInv /\ SessionsInv => prices \in PriceTableSpec!Table)'
    BY SoundTable, PTL
  <2>4. PriceTableSpec!Keeps(prices, prices')
    BY <2>1 DEF PriceTableSpec!Keeps, Stored
  <2> QED
    BY <2>1, <2>2, <2>3, <2>4
    DEF PriceTableSpec!Next, PriceTableSpec!Table, PriceTableSpec!Complete,
        PriceTableSpec!OnSessions
<1>3. Init => Inv
  BY SyncInit, SessionsInit
<1> QED BY <1>1, <1>2, <1>3, PTL DEF Spec, ImplementsPriceTable, PriceTableSpec!Spec

-------------------------------------------------------------------------------
(* Deadlocks.                                                               *)

\* The ticker lists go through the tickers in one order: later relates a ticker to
\* the ones it comes after.
CommonOrder(later) ==
    \A order \in Orders : \A i, j \in 1..Len(order) :
        i < j => <<order[j], order[i]>> \in later

\* A run holds rows of tickers that come before all it has yet to do, and none
\* when it has ended.
HoldsEarlier(later, r) ==
    /\ run[r].pc = "idle" => \A t \in Tickers, d \in Days : written[r][t][d] = None
    /\ \A i, j \in 1..Len(run[r].queue) :
           i < j => <<run[r].queue[j], run[r].queue[i]>> \in later
    /\ \A t \in Tickers, d \in Days : written[r][t][d] # None =>
           \A i \in 1..Len(run[r].queue) : <<run[r].queue[i], t>> \in later

OrderInv(later) == \A r \in Runs : HoldsEarlier(later, r)

\* Runs that hold only earlier tickers cannot wait in a circle: the one whose next
\* ticker is last waits for a run whose next ticker is later still.
LEMMA OrderPreventsDeadlock ==
    ASSUME NEW later, IsWellFoundedOn(later, Tickers), SyncInv, OrderInv(later)
    PROVE  NoDeadlock
<1> SUFFICES ASSUME NEW rs \in SUBSET Runs, Deadlocked(rs) PROVE FALSE
  BY DEF NoDeadlock
<1> DEFINE at(r) == Head(run[r].queue)
           T == {at(r) : r \in rs}
<1>1. ASSUME NEW r \in rs
      PROVE  at(r) \in Tickers /\ \E o \in rs : <<at(o), at(r)>> \in later
  <2>1. PICK o \in rs : o \in WaitsFor(r)
    BY <1>1 DEF Deadlocked
  <2>2. PICK q \in rs : q \in WaitsFor(o)
    BY <2>1 DEF Deadlocked
  <2>3. /\ run[r].pc = "insert" /\ run[o].pc = "insert"
        /\ \E d \in Days : written[o][Head(run[r].queue)][d] # None
    BY <2>1, <2>2 DEF WaitsFor
  <2>4. /\ run[r].queue \in Seq(Tickers) /\ run[r].queue # <<>>
        /\ run[o].queue \in Seq(Tickers) /\ run[o].queue # <<>>
    BY <2>3 DEF SyncInv, TypeOK, Run, SoundRun
  <2>5. /\ Head(run[r].queue) \in Tickers
        /\ 1 \in 1..Len(run[o].queue) /\ Head(run[o].queue) = run[o].queue[1]
    BY <2>4
  <2>6. <<at(o), at(r)>> \in later
    BY <2>3, <2>5 DEF OrderInv, HoldsEarlier
  <2> QED BY <2>5, <2>6
<1>2. T \subseteq Tickers /\ T # {}
  BY <1>1 DEF Deadlocked
<1>3. PICK t \in T : \A s \in T : ~(<<s, t>> \in later)
  <2> HIDE DEF T
  <2> QED BY <1>2, WFMin
<1>4. PICK r \in rs : t = at(r)
  OBVIOUS
<1>5. PICK o \in rs : <<at(o), at(r)>> \in later
  BY <1>1
<1> QED BY <1>3, <1>4, <1>5

\* Going on to the next ticker leaves a shorter list.
LEMMA ShorterList ==
    ASSUME NEW later, SyncInv, NEW r \in Runs, run[r].queue # <<>>,
           HoldsEarlier(later, r)
    PROVE  LET q == Tail(run[r].queue)
           IN  /\ \A i, j \in 1..Len(q) : i < j => <<q[j], q[i]>> \in later
               /\ \A i \in 1..Len(q) : <<q[i], Head(run[r].queue)>> \in later
               /\ \A t \in Tickers, d \in Days : written[r][t][d] # None =>
                      \A i \in 1..Len(q) : <<q[i], t>> \in later
<1> DEFINE p == run[r].queue
           q == Tail(p)
<1>1. p \in Seq(Tickers) /\ p # <<>>
  BY DEF SyncInv, TypeOK, Run
<1>2. /\ Len(q) = Len(p) - 1 /\ Head(p) = p[1] /\ 1 \in 1..Len(p)
      /\ \A i \in 1..Len(q) : i + 1 \in 1..Len(p) /\ q[i] = p[i + 1] /\ 1 < i + 1
      /\ \A i, j \in 1..Len(q) : i < j => i + 1 < j + 1
  BY <1>1
<1>3. /\ \A i, j \in 1..Len(p) : i < j => <<p[j], p[i]>> \in later
      /\ \A t \in Tickers, d \in Days : written[r][t][d] # None =>
             \A i \in 1..Len(p) : <<p[i], t>> \in later
  BY DEF HoldsEarlier
<1> HIDE DEF p, q
<1>4. \A i, j \in 1..Len(q) : i < j => <<q[j], q[i]>> \in later
  BY <1>2, <1>3
<1>5. \A i \in 1..Len(q) : <<q[i], Head(p)>> \in later
  BY <1>2, <1>3
<1>6. \A t \in Tickers, d \in Days : written[r][t][d] # None =>
          \A i \in 1..Len(q) : <<q[i], t>> \in later
  BY <1>2, <1>3
<1> QED BY <1>4, <1>5, <1>6 DEF p, q

\* A run that ends or rolls back has nothing left to do and holds no row.
LEMMA EndedHoldsNothing ==
    ASSUME NEW later, SyncInv, NEW r \in Runs, NEW how,
           run' = [run EXCEPT ![r] = Ended(how)],
           written' = [written EXCEPT ![r] = NoPrices]
    PROVE  HoldsEarlier(later, r)'
<1>1. run'[r].queue = <<>>
  BY DEF SyncInv, TypeOK, Ended, Idle
<1>2. \A t \in Tickers, d \in Days : written'[r][t][d] = None
  BY DEF SyncInv, TypeOK, NoPrices, NoRows
<1> QED BY <1>1, <1>2 DEF HoldsEarlier

\* A run that goes on to its next ticker, with rows of the current one or without.
LEMMA NextHoldsEarlier ==
    ASSUME NEW later, SyncInv, NEW r \in Runs, run[r].queue # <<>>,
           HoldsEarlier(later, r),
           run' = [run EXCEPT ![r] = NextTicker(r)],
           \A t \in Tickers, d \in Days :
               written'[r][t][d] # None => t = Head(run[r].queue) \/ written[r][t][d] # None
    PROVE  HoldsEarlier(later, r)'
<1>1. run'[r].pc = "fetch" /\ run'[r].queue = Tail(run[r].queue)
  BY DEF SyncInv, TypeOK, NextTicker, Run
<1> QED BY <1>1, ShorterList DEF HoldsEarlier

\* The steps of a run itself.
LEMMA OwnStep ==
    ASSUME NEW later, CommonOrder(later), SyncInv, NEW r \in Runs,
           HoldsEarlier(later, r), Start(r) \/ Step(r) \/ Raise(r)
    PROVE  HoldsEarlier(later, r)'
<1>1. CASE Start(r)
  <2>1. PICK asked \in 1..day, end \in 0..day, dry \in BOOLEAN, order \in Orders,
            latest \in [Tickers -> 0..LastDay] :
            /\ IsEndDate(end, asked)
            /\ IsLatest(latest)
            /\ run' = [run EXCEPT ![r] =
                  [Idle EXCEPT !.pc = "fetch", !.end = end, !.dry = dry,
                               !.queue = order, !.latest = latest]]
    BY <1>1 DEF Start
  <2>2. run'[r].queue = order /\ run'[r].pc = "fetch"
    BY <2>1 DEF SyncInv, TypeOK, Idle
  <2>3. \A t \in Tickers, d \in Days : written'[r][t][d] = None
    BY <1>1 DEF Start, HoldsEarlier
  <2>4. \A i, j \in 1..Len(order) : i < j => <<order[j], order[i]>> \in later
    BY DEF CommonOrder
  <2> HIDE DEF CommonOrder
  <2> QED BY <2>2, <2>3, <2>4 DEF HoldsEarlier
<1>2. CASE SkipTicker(r)
  BY <1>2, NextHoldsEarlier DEF SkipTicker
<1>3. CASE Fetch(r)
  <2>1. PICK x : /\ run' = [run EXCEPT ![r] = NextTicker(r)] \/ run' = [run EXCEPT ![r] = x]
                 /\ x.queue = run[r].queue /\ x.pc = "insert"
                 /\ run[r].queue # <<>> /\ written' = written
    <3>1. PICK source \in Sources, upTo \in Days :
              LET rows == [d \in Days |-> IF d \notin Answered(r, upTo) THEN None
                                         ELSE IF d = day /\ ~closed THEN Live
                                         ELSE source]
              IN  run' = [run EXCEPT ![r] =
                     IF run[r].dry THEN NextTicker(r)
                     ELSE [run[r] EXCEPT !.pc = "insert", !.rows = rows]]
      BY <1>3 DEF Fetch
    <3> DEFINE x == [run[r] EXCEPT !.pc = "insert", !.rows =
                        [d \in Days |-> IF d \notin Answered(r, upTo) THEN None
                                       ELSE IF d = day /\ ~closed THEN Live
                                       ELSE source]]
    <3>2. run' = [run EXCEPT ![r] = NextTicker(r)] \/ run' = [run EXCEPT ![r] = x]
      BY <3>1
    <3>3. x.queue = run[r].queue /\ x.pc = "insert"
      BY DEF SyncInv, TypeOK, Run
    <3>4. run[r].queue # <<>> /\ written' = written
      BY <1>3 DEF Fetch
    <3> HIDE DEF x
    <3> QED BY <3>2, <3>3, <3>4
  <2>2. CASE run' = [run EXCEPT ![r] = NextTicker(r)]
    BY <2>1, <2>2, NextHoldsEarlier
  <2>3. CASE run' = [run EXCEPT ![r] = x]
    <3>1. run'[r].queue = run[r].queue /\ run'[r].pc = "insert"
      BY <2>1, <2>3 DEF SyncInv, TypeOK
    <3> QED BY <2>1, <3>1 DEF HoldsEarlier
  <2> QED BY <2>1, <2>2, <2>3
<1>4. CASE Insert(r)
  <2>1. run[r].queue # <<>> /\ run' = [run EXCEPT ![r] = NextTicker(r)]
    BY <1>4 DEF Insert, SyncInv, SoundRun
  <2>2. \A t \in Tickers, d \in Days :
            written'[r][t][d] # None => t = Head(run[r].queue) \/ written[r][t][d] # None
    BY <1>4 DEF Insert, SyncInv, TypeOK
  <2> QED BY <2>1, <2>2, NextHoldsEarlier
<1>5. CASE Exhausted(r) \/ DeadlockAbort(r) \/ Raise(r) \/ Commit(r)
  <2>1. PICK how : /\ run' = [run EXCEPT ![r] = Ended(how)]
                   /\ written' = [written EXCEPT ![r] = NoPrices]
    BY <1>5 DEF Exhausted, DeadlockAbort, Raise, Commit, Abandon
  <2> QED BY <2>1, EndedHoldsNothing
<1> QED BY <1>1, <1>2, <1>3, <1>4, <1>5 DEF Step

\* Every step leaves every run with rows of tickers before the ones to do.
LEMMA OrderStep ==
    ASSUME NEW later, CommonOrder(later), SyncInv, OrderInv(later), [Next]_vars
    PROVE  OrderInv(later)'
<1> SUFFICES ASSUME NEW r \in Runs PROVE HoldsEarlier(later, r)'
  BY DEF OrderInv
<1>1. HoldsEarlier(later, r)
  BY DEF OrderInv
<1>2. CASE run'[r] = run[r] /\ written'[r] = written[r]
  BY <1>1, <1>2 DEF HoldsEarlier
<1>3. CASE Close \/ Midnight \/ UNCHANGED vars
  BY <1>2, <1>3 DEF Close, Midnight, vars
<1>4. CASE Start(r) \/ Step(r) \/ Raise(r)
  BY <1>1, <1>4, OwnStep
<1>5. ASSUME NEW o \in Runs, o # r, Start(o) \/ Step(o) \/ Raise(o)
      PROVE  HoldsEarlier(later, r)'
  <2>1. \E x : run' = [run EXCEPT ![o] = x]
    BY <1>5 DEF Start, Step, Raise, SkipTicker, Fetch, Exhausted, Insert,
                DeadlockAbort, Commit, Abandon
  <2>2. written' = written \/ \E y : written' = [written EXCEPT ![o] = y]
    BY <1>5 DEF Start, Step, Raise, SkipTicker, Fetch, Exhausted, Insert,
                DeadlockAbort, Commit, Abandon
  <2>3. run'[r] = run[r] /\ written'[r] = written[r]
    BY <1>5, <2>1, <2>2 DEF SyncInv, TypeOK
  <2> QED BY <1>2, <2>3
<1> QED BY <1>3, <1>4, <1>5 DEF Next

\* No run is idle with rows, and no list to work on, before the first step.
LEMMA OrderInit == ASSUME NEW later, Init PROVE OrderInv(later)
<1>1. ASSUME NEW r \in Runs PROVE HoldsEarlier(later, r)
  <2>1. run[r].queue = <<>>
    BY DEF Init, Idle
  <2>2. \A t \in Tickers, d \in Days : written[r][t][d] = None
    BY DEF Init, NoPrices, NoRows
  <2> QED BY <2>1, <2>2 DEF HoldsEarlier
<1> QED BY <1>1 DEF OrderInv

\* Any number of overlapping runs whose ticker lists follow one order never wait
\* for each other in a circle.
THEOREM CommonOrderPreventsDeadlock ==
    ASSUME NEW later, IsWellFoundedOn(later, Tickers), CommonOrder(later)
    PROVE  Spec => []NoDeadlock
<1>1. Init => OrderInv(later)
  BY OrderInit
<1>2. SyncInv /\ OrderInv(later) /\ [Next]_vars => OrderInv(later)'
  BY OrderStep
<1>3. SyncInv /\ OrderInv(later) => NoDeadlock
  BY OrderPreventsDeadlock
<1> QED BY <1>1, <1>2, <1>3, SyncInductive, PTL DEF Spec
===============================================================================
