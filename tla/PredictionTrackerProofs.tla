----------------------- MODULE PredictionTrackerProofs -----------------------
(***************************************************************************)
(* Theorems about PredictionTracker, for every calendar, every set of      *)
(* tickers and every horizon longer than the look-back.  LaterBar is true  *)
(* of any number of overlapping and backfilled runs; each other result     *)
(* says in its hypothesis what it needs: runs for the day they run on      *)
(* (~Backfill), or runs that do not overlap (OneLogger).                   *)
(***************************************************************************)
EXTENDS PredictionTracker, FiniteSetTheorems, WellFoundedInduction, TLAPS

\* What a run carries from one database call to the next: prices no later than
\* its day, and for the actual it is about to store a bar of the holding period.
Sound(x) ==
    /\ x.pc # "idle" => x.target \in Days
    /\ \A t \in Tickers : x.price[t] <= x.target
    /\ \A m \in x.matured : m.base <= m.day
    /\ x.pc = "store" => /\ x.read \in [m : Maturing, bar : Days]
                         /\ x.read.m.base <= x.read.m.day
                         /\ x.read.m.day < x.read.bar
                         /\ x.read.bar <= EvaluationDay(x.read.m.day)

\* The inductive invariant.
TrackerInv ==
    /\ TypeOK
    /\ \A k \in Keys : prediction[k] <= k[1]
    /\ \A r \in Runners : Sound(run[r])
    /\ EvaluatedOnLaterBar

\* A process that runs nothing carries nothing.
LEMMA IdleSound == Idle \in Run /\ Sound(Idle)
  BY DEF Idle, Run, Sound, NoRead, None

\* Replacing one run by a sound one keeps all of them sound.
LEMMA OneRun ==
    ASSUME TrackerInv, NEW r \in Runners, NEW x \in Run, Sound(x),
           run' = [run EXCEPT ![r] = x]
    PROVE  run' \in [Runners -> Run] /\ \A p \in Runners : Sound(run'[p])
  BY DEF TrackerInv, TypeOK

\* A run that begins or ends carries its day, its mode and its outcome only.
LEMMA BlankSound ==
    ASSUME NEW day \in Days \cup {None}, NEW mode \in Modes \cup {"full"},
           NEW x \in Run,
           x.matured = {}, x.price = Idle.price, x.target = day,
           x.pc \notin {"store"}, x.pc # "idle" => day \in Days
    PROVE  Sound(x)
<1>1. \A t \in Tickers : x.price[t] = 0
  BY DEF Idle, None
<1>2. 0 <= day
  BY DaysAssumption DEF Days, None
<1> QED BY <1>1, <1>2 DEF Sound

\* The days a bar of a holding period may be of: after the day of the
\* prediction, because the look-back is shorter than the horizon.
LEMMA BarOfHoldingPeriod ==
    ASSUME NEW t \in Tickers, NEW day \in Days, NEW bar \in Days,
           IsLastBar(bar, t, EvaluationDay(day))
    PROVE  day < bar /\ bar <= EvaluationDay(day)
<1>1. bar # None
  BY DEF Days, None
<1>2. bar \in Bars(t, EvaluationDay(day))
  BY <1>1 DEF IsLastBar
<1> QED BY <1>2, HorizonAssumption DEF Bars, EvaluationDay, Days, TradingDays

\* No prediction, no return, nothing running.
LEMMA TrackerInit == Init => TrackerInv
<1> SUFFICES ASSUME Init PROVE TrackerInv
  OBVIOUS
<1>1. TypeOK
  BY IdleSound, DaysAssumption DEF Init, TypeOK, NoActual, None, Days
<1>2. \A k \in Keys : prediction[k] <= k[1]
  BY DEF Init, Keys, Days, None
<1>3. \A r \in Runners : Sound(run[r])
  BY IdleSound DEF Init
<1>4. EvaluatedOnLaterBar
  BY DEF Init, EvaluatedOnLaterBar, HasActual
<1> QED BY <1>1, <1>2, <1>3, <1>4 DEF TrackerInv

\* The clock, the synchronisation and the stutter touch neither table nor run.
LEMMA OutsideStep ==
    ASSUME TrackerInv, Tick \/ Sync \/ UNCHANGED vars
    PROVE  TrackerInv'
<1> USE DEF TrackerInv
<1>1. UNCHANGED <<prediction, actual, view, run>>
  BY DEF Tick, Sync, vars
<1>2. today' \in Days /\ synced' \in [Tickers -> 0..today']
  <2>1. CASE Tick
    BY <2>1, DaysAssumption DEF Tick, TypeOK, Days
  <2>2. CASE Sync
    BY <2>2 DEF Sync, TypeOK
  <2>3. CASE UNCHANGED vars
    BY <2>3 DEF vars, TypeOK
  <2> QED BY <2>1, <2>2, <2>3
<1>3. TypeOK'
  BY <1>1, <1>2 DEF TypeOK
<1> QED BY <1>1, <1>3 DEF EvaluatedOnLaterBar, HasActual, Sound, EvaluationDay

\* A step of a run that replaces it by a sound run and leaves the tables alone.
LEMMA RunStep ==
    ASSUME TrackerInv, NEW r \in Runners, NEW x \in Run, Sound(x),
           run' = [run EXCEPT ![r] = x],
           UNCHANGED <<today, synced, prediction, actual>>,
           view' \in {view, actual}
    PROVE  TrackerInv'
<1> USE DEF TrackerInv
<1>1. run' \in [Runners -> Run] /\ \A p \in Runners : Sound(run'[p])
  BY OneRun
<1>2. TypeOK'
  BY <1>1 DEF TypeOK
<1> QED BY <1>1, <1>2 DEF EvaluatedOnLaterBar, HasActual, Sound, EvaluationDay

\* Starting, finishing and dying leave a blank run; the view may be refreshed.
LEMMA BlankStep ==
    ASSUME TrackerInv, NEW r \in Runners, Start(r) \/ Finish(r) \/ Crash(r)
    PROVE  TrackerInv'
<1>1. Idle \in Run /\ run[r] \in Run
  BY IdleSound DEF TrackerInv, TypeOK
<1>2. CASE Start(r)
  <2>1. PICK target \in Days, mode \in Modes :
            \/ run' = [run EXCEPT ![r] =
                   [Idle EXCEPT !.target = target, !.mode = mode, !.exit = "weekend"]]
            \/ run' = [run EXCEPT ![r] =
                   [Idle EXCEPT !.pc = "price", !.target = target, !.mode = mode,
                                !.left = Tickers]]
            \/ run' = [run EXCEPT ![r] =
                   [Idle EXCEPT !.pc = AfterSaving(mode), !.target = target,
                                !.mode = mode, !.errors = TRUE]]
    BY <1>2 DEF Start
  <2>2. PICK x : /\ run' = [run EXCEPT ![r] = x]
                 /\ x \in Run /\ x.matured = {} /\ x.price = Idle.price
                 /\ x.target = target /\ x.pc # "store"
    <3>1. AfterSaving(mode) \in {"evaluate", "find"}
      BY DEF AfterSaving
    <3> DEFINE Blank(x) == /\ x \in Run /\ x.matured = {} /\ x.price = Idle.price
                             /\ x.target = target /\ x.pc # "store"
    <3>3. Blank([Idle EXCEPT !.target = target, !.mode = mode, !.exit = "weekend"])
      BY <1>1, ZenonT(60) DEF Run, Idle
    <3>4. Blank([Idle EXCEPT !.pc = "price", !.target = target, !.mode = mode,
                             !.left = Tickers])
      BY <1>1, ZenonT(60) DEF Run, Idle
    <3>5. Blank([Idle EXCEPT !.pc = AfterSaving(mode), !.target = target,
                             !.mode = mode, !.errors = TRUE])
      BY <1>1, <3>1, ZenonT(60) DEF Run, Idle
    <3> QED BY <2>1, <3>3, <3>4, <3>5
  <2>3. Sound(x)
    BY <2>2, BlankSound DEF Run
  <2> QED BY <1>2, <2>2, <2>3, RunStep DEF Start
<1>3. CASE Finish(r)
  <2>1. PICK errors \in BOOLEAN : run' = [run EXCEPT ![r] = Finished(r, errors)]
    <3>1. run[r].errors \in BOOLEAN
      BY <1>1 DEF Run
    <3>2. \/ run' = [run EXCEPT ![r] = Finished(r, run[r].errors)]
          \/ run' = [run EXCEPT ![r] = Finished(r, TRUE)]
      BY <1>3 DEF Finish
    <3> QED BY <3>1, <3>2, Zenon
  <2>2. Finished(r, errors) \in Run
    <3>1. Exit(r, errors) \in {"ok", "partial", "failed"}
      BY DEF Exit
    <3>2. /\ run[r].target \in Days \cup {None} /\ run[r].mode \in Modes \cup {"full"}
          /\ run[r].evaluated \in BOOLEAN
      BY <1>1 DEF Run
    <3> QED BY <1>1, <3>1, <3>2, ZenonT(60) DEF Finished, Run, Idle
  <2>3. Sound(Finished(r, errors))
    <3> DEFINE x == Finished(r, errors)
    <3>1. /\ x.matured = {} /\ x.price = Idle.price /\ x.target = run[r].target
          /\ x.pc = "idle" /\ run[r].target \in Days \cup {None}
          /\ run[r].mode \in Modes \cup {"full"}
      BY <1>1 DEF Finished, Idle, Run
    <3> HIDE DEF x
    <3> QED BY <2>2, <3>1, BlankSound DEF x
  <2>4. UNCHANGED <<today, synced, prediction, actual>> /\ view' \in {view, actual}
    BY <1>3 DEF Finish
  <2> QED BY <2>1, <2>2, <2>3, <2>4, RunStep
<1>4. CASE Crash(r)
  <2> DEFINE x == [Idle EXCEPT !.exit = "crashed"]
  <2>1. /\ x \in Run /\ x.matured = {} /\ x.price = Idle.price
        /\ x.target = None /\ x.pc = "idle"
    BY <1>1 DEF Idle, Run
  <2>2. run' = [run EXCEPT ![r] = x]
        /\ UNCHANGED <<today, synced, prediction, actual, view>>
    BY <1>4 DEF Crash
  <2> HIDE DEF x
  <2>3. Sound(x)
    BY <2>1, BlankSound
  <2> QED BY <2>1, <2>2, <2>3, RunStep
<1> QED BY <1>2, <1>3, <1>4

\* The prices read are no later than the day the run is for.
LEMMA PredictStep ==
    ASSUME TrackerInv, NEW r \in Runners, ReadPrice(r) \/ SkipPrediction(r)
    PROVE  TrackerInv'
<1>1. run[r] \in Run /\ Sound(run[r])
  BY DEF TrackerInv, TypeOK
<1>2. CASE ReadPrice(r)
  <2>1. PICK t \in run[r].left, bar \in Days \cup {None} :
            /\ bar = None \/ IsLastBar(bar, t, run[r].target)
            /\ run' = [run EXCEPT ![r] =
                  [run[r] EXCEPT !.price[t] = bar,
                      !.left = IF @ = {t} THEN Tickers ELSE @ \ {t},
                      !.pc = IF run[r].left = {t} THEN "save" ELSE "price"]]
    BY <1>2 DEF ReadPrice
  <2> DEFINE x == [run[r] EXCEPT !.price[t] = bar,
                      !.left = IF @ = {t} THEN Tickers ELSE @ \ {t},
                      !.pc = IF run[r].left = {t} THEN "save" ELSE "price"]
  <2>2. run[r].target \in Days /\ run[r].pc = "price" /\ t \in Tickers
    BY <1>1, <1>2 DEF ReadPrice, Sound, Run
  <2>3. bar <= run[r].target
    BY <2>1, <2>2 DEF IsLastBar, Bars, TradingDays, Days, None
  <2>4. x \in Run
    BY <1>1, <2>1, <2>2 DEF Run
  <2>5. Sound(x)
    BY <1>1, <2>2, <2>3 DEF Run, Sound
  <2>6. UNCHANGED <<today, synced, prediction, actual, view>>
    BY <1>2 DEF ReadPrice
  <2> HIDE DEF x
  <2> QED BY <2>1, <2>4, <2>5, <2>6, RunStep DEF x
<1>3. CASE SkipPrediction(r)
  <2>1. PICK t \in run[r].left :
            run' = [run EXCEPT ![r] =
                [run[r] EXCEPT !.left = @ \ {t}, !.errors = TRUE, !.pc = NextAfter(r, t)]]
    BY <1>3 DEF SkipPrediction
  <2> DEFINE x == [run[r] EXCEPT !.left = @ \ {t}, !.errors = TRUE, !.pc = NextAfter(r, t)]
  <2>2. NextAfter(r, t) \in {"save", "evaluate", "find"} /\ run[r].pc = "save"
    BY <1>3 DEF NextAfter, AfterSaving, SkipPrediction
  <2>3. x \in Run
    BY <1>1, <2>2 DEF Run
  <2>4. Sound(x)
    BY <1>1, <2>2 DEF Run, Sound
  <2>5. UNCHANGED <<today, synced, prediction, actual, view>>
    BY <1>3 DEF SkipPrediction
  <2> HIDE DEF x
  <2> QED BY <2>1, <2>3, <2>4, <2>5, RunStep DEF x
<1> QED BY <1>2, <1>3

\* A prediction is stored with a price no later than its day, and the actuals
\* there are stay as they are.
LEMMA SaveStep ==
    ASSUME TrackerInv, NEW r \in Runners, SavePrediction(r)
    PROVE  TrackerInv'
<1>1. run[r] \in Run /\ Sound(run[r])
  BY DEF TrackerInv, TypeOK
<1>2. PICK t \in run[r].left :
          /\ run[r].price[t] # None
          /\ prediction' = IF run[r].mode = "dry_run"
                           THEN prediction
                           ELSE [prediction EXCEPT ![<<run[r].target, t>>] = run[r].price[t]]
          /\ run' = [run EXCEPT ![r] =
                [run[r] EXCEPT !.left = @ \ {t}, !.logged = TRUE, !.pc = NextAfter(r, t)]]
  BY DEF SavePrediction
<1> DEFINE x == [run[r] EXCEPT !.left = @ \ {t}, !.logged = TRUE, !.pc = NextAfter(r, t)]
<1>3. NextAfter(r, t) \in {"save", "evaluate", "find"} /\ run[r].pc = "save"
  BY DEF NextAfter, AfterSaving, SavePrediction
<1>4. x \in Run
  BY <1>1, <1>3 DEF Run
<1>5. Sound(x)
  BY <1>1, <1>3 DEF Run, Sound
<1>6. UNCHANGED <<today, synced, actual, view>>
  BY DEF SavePrediction
<1>7. run' = [run EXCEPT ![r] = x]
  BY <1>2
<1> HIDE DEF x
<1>8. run' \in [Runners -> Run] /\ \A p \in Runners : Sound(run'[p])
  BY <1>4, <1>5, <1>7, OneRun
<1>9. /\ run[r].target \in Days /\ t \in Tickers
      /\ run[r].price[t] \in Days /\ run[r].price[t] <= run[r].target
  BY <1>1, <1>2, <1>3 DEF Run, Sound
<1>10. /\ prediction' \in [Keys -> Days \cup {None}]
       /\ \A k \in Keys : prediction'[k] <= k[1]
  BY <1>2, <1>9 DEF TrackerInv, TypeOK, Keys
<1>11. TypeOK'
  BY <1>6, <1>8, <1>10 DEF TrackerInv, TypeOK
<1> QED
  BY <1>6, <1>8, <1>10, <1>11
  DEF TrackerInv, EvaluatedOnLaterBar, HasActual, Sound, EvaluationDay

\* What is found matured was predicted at a price no later than its day; a bar is
\* read from the holding period.
LEMMA EvaluateStep ==
    ASSUME TrackerInv, NEW r \in Runners,
           FindMatured(r) \/ ReadEvaluationPrice(r) \/ SkipEvaluation(r)
    PROVE  TrackerInv'
<1>1. run[r] \in Run /\ Sound(run[r])
  BY DEF TrackerInv, TypeOK
<1>2. CASE FindMatured(r)
  <2> DEFINE x == [run[r] EXCEPT !.matured = Matured(run[r].target), !.pc = "evaluate"]
  <2>1. run' = [run EXCEPT ![r] = x]
    BY <1>2 DEF FindMatured
  <2>2. /\ run[r].pc = "find" /\ UNCHANGED <<today, synced, prediction, actual, view>>
    BY <1>2 DEF FindMatured
  <2>3. Matured(run[r].target) \in SUBSET Maturing
    BY DEF Matured
  <2>4. \A m \in Matured(run[r].target) : m.base <= m.day
    BY DEF Matured, Maturing, TrackerInv, Keys
  <2>5. x \in Run
    BY <1>1, <2>3 DEF Run
  <2>6. Sound(x)
    BY <1>1, <2>2, <2>4 DEF Run, Sound
  <2> HIDE DEF x
  <2> QED BY <2>1, <2>2, <2>5, <2>6, RunStep
<1>3. CASE ReadEvaluationPrice(r)
  <2>1. PICK m \in run[r].matured, bar \in Days :
            /\ IsLastBar(bar, m.ticker, EvaluationDay(m.day))
            /\ run' = [run EXCEPT ![r] =
                  [run[r] EXCEPT !.matured = @ \ {m}, !.pc = "store",
                                 !.read = [m |-> m, bar |-> bar]]]
    BY <1>3 DEF ReadEvaluationPrice
  <2> DEFINE x == [run[r] EXCEPT !.matured = @ \ {m}, !.pc = "store",
                                 !.read = [m |-> m, bar |-> bar]]
  <2>2. run[r].pc = "evaluate" /\ UNCHANGED <<today, synced, prediction, actual, view>>
    BY <1>3 DEF ReadEvaluationPrice
  <2>3. m \in Maturing /\ m.base <= m.day /\ m.ticker \in Tickers /\ m.day \in Days
    BY <1>1 DEF Run, Sound, Maturing
  <2>4. m.day < bar /\ bar <= EvaluationDay(m.day)
    BY <2>1, <2>3, BarOfHoldingPeriod
  <2>5. x \in Run
    BY <1>1, <2>3 DEF Run
  <2>6. Sound(x)
    BY <1>1, <2>2, <2>3, <2>4 DEF Run, Sound
  <2>7. run' = [run EXCEPT ![r] = x]
    BY <2>1
  <2> HIDE DEF x
  <2> QED BY <2>2, <2>5, <2>6, <2>7, RunStep
<1>4. CASE SkipEvaluation(r)
  <2>1. PICK m \in run[r].matured :
            run' = [run EXCEPT ![r] = [run[r] EXCEPT !.matured = @ \ {m}, !.errors = TRUE]]
    BY <1>4 DEF SkipEvaluation
  <2> DEFINE x == [run[r] EXCEPT !.matured = @ \ {m}, !.errors = TRUE]
  <2>2. run[r].pc = "evaluate" /\ UNCHANGED <<today, synced, prediction, actual, view>>
    BY <1>4 DEF SkipEvaluation
  <2>3. x \in Run
    BY <1>1 DEF Run
  <2>4. Sound(x)
    BY <1>1, <2>2 DEF Run, Sound
  <2>5. run' = [run EXCEPT ![r] = x]
    BY <2>1
  <2> HIDE DEF x
  <2> QED BY <2>2, <2>3, <2>4, <2>5, RunStep
<1> QED BY <1>2, <1>3, <1>4

\* The actual stored is the one the run read.
LEMMA StoreStep ==
    ASSUME TrackerInv, NEW r \in Runners, SaveActual(r)
    PROVE  TrackerInv'
<1>1. run[r] \in Run /\ Sound(run[r]) /\ run[r].pc = "store"
  BY DEF TrackerInv, TypeOK, SaveActual
<1> DEFINE m == run[r].read.m
           bar == run[r].read.bar
<1>2. /\ m \in Maturing /\ bar \in Days /\ m.base <= m.day
      /\ m.day < bar /\ bar <= EvaluationDay(m.day)
  BY <1>1 DEF Sound
<1>3. m.day \in Days /\ m.ticker \in Tickers /\ m.base \in Days
  BY <1>2 DEF Maturing
<1>4. PICK y \in Run : Sound(y) /\ run' = [run EXCEPT ![r] = y]
  <2> DEFINE saved == [run[r] EXCEPT !.evaluated = TRUE, !.pc = "evaluate", !.read = NoRead]
             failed == [run[r] EXCEPT !.errors = TRUE, !.pc = "evaluate", !.read = NoRead]
  <2>1. run' = [run EXCEPT ![r] = saved] \/ run' = [run EXCEPT ![r] = failed]
    BY DEF SaveActual
  <2>2. saved \in Run /\ failed \in Run
    BY <1>1 DEF Run
  <2>3. Sound(saved) /\ Sound(failed)
    BY <1>1 DEF Run, Sound
  <2> HIDE DEF saved, failed
  <2> QED BY <2>1, <2>2, <2>3
<1>5. run' \in [Runners -> Run] /\ \A p \in Runners : Sound(run'[p])
  BY <1>4, OneRun
<1>6. \/ actual' = actual
      \/ actual' = [actual EXCEPT ![<<m.day, m.ticker>>] = [bar |-> bar, base |-> m.base]]
  BY DEF SaveActual
<1>7. UNCHANGED <<today, synced, prediction, view>>
  BY DEF SaveActual
<1> HIDE DEF m, bar
<1>8. actual' \in [Keys -> [bar : Days, base : Days] \cup {NoActual}]
  <2> DEFINE Actuals == [bar : Days, base : Days] \cup {NoActual}
             e == [bar |-> bar, base |-> m.base]
  <2>1. actual \in [Keys -> Actuals]
    BY DEF TrackerInv, TypeOK
  <2>2. e \in Actuals
    BY <1>2, <1>3
  <2>3. actual' = actual \/ actual' = [actual EXCEPT ![<<m.day, m.ticker>>] = e]
    BY <1>6
  <2> HIDE DEF Actuals, e
  <2>4. actual' \in [Keys -> Actuals]
    BY <2>1, <2>2, <2>3
  <2> QED BY <2>4 DEF Actuals
<1>9. TypeOK'
  BY <1>5, <1>7, <1>8 DEF TrackerInv, TypeOK
<1>10. EvaluatedOnLaterBar'
  <2>1. SUFFICES ASSUME NEW k \in Keys, actual'[k] # NoActual
                 PROVE  /\ actual'[k].base <= k[1] /\ k[1] < actual'[k].bar
                        /\ actual'[k].bar <= EvaluationDay(k[1])
    BY DEF EvaluatedOnLaterBar, HasActual, EvaluationDay
  <2>2. CASE actual'[k] = actual[k]
    BY <2>1, <2>2 DEF TrackerInv, EvaluatedOnLaterBar, HasActual
  <2>3. CASE actual'[k] # actual[k]
    <3>1. k = <<m.day, m.ticker>> /\ actual'[k] = [bar |-> bar, base |-> m.base]
      BY <1>6, <2>3 DEF TrackerInv, TypeOK
    <3> QED BY <1>2, <3>1
  <2> QED BY <2>2, <2>3
<1> QED BY <1>5, <1>7, <1>9, <1>10 DEF TrackerInv, Sound, EvaluationDay

\* Every step keeps the invariant.
LEMMA TrackerStep == TrackerInv /\ [Next]_vars => TrackerInv'
<1> SUFFICES ASSUME TrackerInv, [Next]_vars PROVE TrackerInv'
  OBVIOUS
<1>1. CASE Tick \/ Sync \/ UNCHANGED vars
  BY <1>1, OutsideStep
<1>2. ASSUME NEW r \in Runners, Start(r) \/ Finish(r) \/ Crash(r) PROVE TrackerInv'
  BY <1>2, BlankStep
<1>3. ASSUME NEW r \in Runners, ReadPrice(r) \/ SkipPrediction(r) PROVE TrackerInv'
  BY <1>3, PredictStep
<1>4. ASSUME NEW r \in Runners, SavePrediction(r) PROVE TrackerInv'
  BY <1>4, SaveStep
<1>5. ASSUME NEW r \in Runners,
             FindMatured(r) \/ ReadEvaluationPrice(r) \/ SkipEvaluation(r)
      PROVE  TrackerInv'
  BY <1>5, EvaluateStep
<1>6. ASSUME NEW r \in Runners, SaveActual(r) PROVE TrackerInv'
  BY <1>6, StoreStep
<1> QED BY <1>1, <1>2, <1>3, <1>4, <1>5, <1>6 DEF Next

\* The tables and the runs have their types in every reachable state.
THEOREM TrackerTypes == Spec => []TypeOK
<1>1. TrackerInv => TypeOK
  BY DEF TrackerInv
<1> QED BY <1>1, TrackerInit, TrackerStep, PTL DEF Spec

\* No stored return compares a bar with itself or an earlier one, for any number
\* of overlapping, failing and backfilled runs and any lag of the price table.
THEOREM LaterBar == Spec => []EvaluatedOnLaterBar
<1>1. TrackerInv => EvaluatedOnLaterBar
  BY DEF TrackerInv
<1> QED BY <1>1, TrackerInit, TrackerStep, PTL DEF Spec

-------------------------------------------------------------------------------
(* What each step does to the run that takes it.                             *)

\* The prediction an evaluation is of.
Key(m) == <<m.day, m.ticker>>

\* The matured predictions a run has found and not yet dealt with.
AtHand(x) == IF x.pc = "store" THEN x.matured \cup {x.read.m} ELSE x.matured

\* A step of run r: nobody else's run moves.
LEMMA OthersStand ==
    ASSUME TrackerInv, NEW r \in Runners, NEW x, run' = [run EXCEPT ![r] = x]
    PROVE  run'[r] = x /\ \A p \in Runners : p # r => run'[p] = run[p]
  BY DEF TrackerInv, TypeOK

\* What a step inside a run keeps of it: its arguments, and no new prediction at
\* hand unless the step is the one that looks for them.
Inside(r) ==
    /\ run[r].pc # "idle" /\ run'[r].pc # "idle"
    /\ run'[r].target = run[r].target /\ run'[r].mode = run[r].mode
    /\ run'[r].exit = run[r].exit
    /\ run[r].errors => run'[r].errors
    /\ \A p \in Runners : p # r => run'[p] = run[p]
    /\ UNCHANGED <<today, synced, view>>

\* The two loops over the tickers.
LEMMA PredictingStep ==
    ASSUME TrackerInv, NEW r \in Runners,
           ReadPrice(r) \/ SavePrediction(r) \/ SkipPrediction(r)
    PROVE  /\ Inside(r)
           /\ run[r].pc \in {"price", "save"}
           /\ run'[r].pc \in {"price", "save", AfterSaving(run[r].mode)}
           /\ run'[r].matured = run[r].matured
           /\ UNCHANGED actual
<1>1. run[r] \in Run
  BY DEF TrackerInv, TypeOK
<1>2. AfterSaving(run[r].mode) \in {"evaluate", "find"}
  BY DEF AfterSaving
<1>3. CASE ReadPrice(r)
  <2>1. PICK t \in run[r].left, bar \in Days \cup {None} :
            run' = [run EXCEPT ![r] =
                  [run[r] EXCEPT !.price[t] = bar,
                      !.left = IF @ = {t} THEN Tickers ELSE @ \ {t},
                      !.pc = IF run[r].left = {t} THEN "save" ELSE "price"]]
    BY <1>3 DEF ReadPrice
  <2> DEFINE x == [run[r] EXCEPT !.price[t] = bar,
                      !.left = IF @ = {t} THEN Tickers ELSE @ \ {t},
                      !.pc = IF run[r].left = {t} THEN "save" ELSE "price"]
  <2>2. /\ x.target = run[r].target /\ x.mode = run[r].mode /\ x.exit = run[r].exit
        /\ x.errors = run[r].errors /\ x.matured = run[r].matured
        /\ x.pc \in {"price", "save"}
    BY <1>1 DEF Run
  <2>3. run'[r] = x /\ \A p \in Runners : p # r => run'[p] = run[p]
    BY <2>1, OthersStand
  <2> HIDE DEF x
  <2> QED BY <1>3, <2>2, <2>3 DEF ReadPrice, Inside
<1>4. CASE SavePrediction(r)
  <2>1. PICK t \in run[r].left :
            run' = [run EXCEPT ![r] =
                [run[r] EXCEPT !.left = @ \ {t}, !.logged = TRUE, !.pc = NextAfter(r, t)]]
    BY <1>4 DEF SavePrediction
  <2> DEFINE x == [run[r] EXCEPT !.left = @ \ {t}, !.logged = TRUE, !.pc = NextAfter(r, t)]
  <2>2. /\ x.target = run[r].target /\ x.mode = run[r].mode /\ x.exit = run[r].exit
        /\ x.errors = run[r].errors /\ x.matured = run[r].matured
        /\ x.pc \in {"save", AfterSaving(run[r].mode)}
    BY <1>1 DEF Run, NextAfter
  <2>3. run'[r] = x /\ \A p \in Runners : p # r => run'[p] = run[p]
    BY <2>1, OthersStand
  <2> HIDE DEF x
  <2> QED BY <1>2, <1>4, <2>2, <2>3 DEF SavePrediction, Inside
<1>5. CASE SkipPrediction(r)
  <2>1. PICK t \in run[r].left :
            run' = [run EXCEPT ![r] =
                [run[r] EXCEPT !.left = @ \ {t}, !.errors = TRUE, !.pc = NextAfter(r, t)]]
    BY <1>5 DEF SkipPrediction
  <2> DEFINE x == [run[r] EXCEPT !.left = @ \ {t}, !.errors = TRUE, !.pc = NextAfter(r, t)]
  <2>2. /\ x.target = run[r].target /\ x.mode = run[r].mode /\ x.exit = run[r].exit
        /\ x.errors /\ x.matured = run[r].matured
        /\ x.pc \in {"save", AfterSaving(run[r].mode)}
    BY <1>1 DEF Run, NextAfter
  <2>3. run'[r] = x /\ \A p \in Runners : p # r => run'[p] = run[p]
    BY <2>1, OthersStand
  <2> HIDE DEF x
  <2> QED BY <1>2, <1>5, <2>2, <2>3 DEF SkipPrediction, Inside
<1> QED BY <1>3, <1>4, <1>5

\* What find_matured_without_actual() returns is at hand.
LEMMA FindingStep ==
    ASSUME TrackerInv, NEW r \in Runners, FindMatured(r)
    PROVE  /\ Inside(r)
           /\ run'[r].pc = "evaluate"
           /\ run'[r].errors = run[r].errors
           /\ AtHand(run'[r]) = Matured(run[r].target)
           /\ UNCHANGED <<prediction, actual>>
<1>1. run[r] \in Run
  BY DEF TrackerInv, TypeOK
<1> DEFINE x == [run[r] EXCEPT !.matured = Matured(run[r].target), !.pc = "evaluate"]
<1>2. /\ x.target = run[r].target /\ x.mode = run[r].mode /\ x.exit = run[r].exit
      /\ x.errors = run[r].errors /\ x.matured = Matured(run[r].target)
      /\ x.pc = "evaluate"
  BY <1>1 DEF Run
<1>3. run'[r] = x /\ \A p \in Runners : p # r => run'[p] = run[p]
  BY OthersStand DEF FindMatured
<1> HIDE DEF x
<1> QED BY <1>2, <1>3 DEF FindMatured, Inside, AtHand

\* Reading a bar keeps what is at hand; leaving a prediction for the next run is
\* an error.
LEMMA EvaluatingStep ==
    ASSUME TrackerInv, NEW r \in Runners, ReadEvaluationPrice(r) \/ SkipEvaluation(r)
    PROVE  /\ Inside(r)
           /\ run[r].pc = "evaluate" /\ run'[r].pc \in {"evaluate", "store"}
           /\ run'[r].matured \subseteq run[r].matured
           /\ AtHand(run'[r]) \subseteq AtHand(run[r])
           /\ run'[r].pc = "store" => run'[r].read.m \notin run'[r].matured
           /\ run'[r].errors \/ AtHand(run'[r]) = AtHand(run[r])
           /\ UNCHANGED <<prediction, actual>>
<1>1. run[r] \in Run
  BY DEF TrackerInv, TypeOK
<1>2. CASE ReadEvaluationPrice(r)
  <2>1. PICK m \in run[r].matured, bar \in Days :
            run' = [run EXCEPT ![r] =
                  [run[r] EXCEPT !.matured = @ \ {m}, !.pc = "store",
                                 !.read = [m |-> m, bar |-> bar]]]
    BY <1>2 DEF ReadEvaluationPrice
  <2> DEFINE x == [run[r] EXCEPT !.matured = @ \ {m}, !.pc = "store",
                                 !.read = [m |-> m, bar |-> bar]]
  <2>2. /\ x.target = run[r].target /\ x.mode = run[r].mode /\ x.exit = run[r].exit
        /\ x.errors = run[r].errors /\ x.matured = run[r].matured \ {m}
        /\ x.pc = "store" /\ x.read.m = m
    BY <1>1 DEF Run
  <2>3. run'[r] = x /\ \A p \in Runners : p # r => run'[p] = run[p]
    BY <2>1, OthersStand
  <2> HIDE DEF x
  <2> QED BY <1>2, <2>2, <2>3 DEF ReadEvaluationPrice, Inside, AtHand
<1>3. CASE SkipEvaluation(r)
  <2>1. PICK m \in run[r].matured :
            run' = [run EXCEPT ![r] = [run[r] EXCEPT !.matured = @ \ {m}, !.errors = TRUE]]
    BY <1>3 DEF SkipEvaluation
  <2> DEFINE x == [run[r] EXCEPT !.matured = @ \ {m}, !.errors = TRUE]
  <2>2. /\ x.target = run[r].target /\ x.mode = run[r].mode /\ x.exit = run[r].exit
        /\ x.errors /\ x.matured = run[r].matured \ {m}
        /\ x.pc = run[r].pc
    BY <1>1 DEF Run
  <2>3. run'[r] = x /\ \A p \in Runners : p # r => run'[p] = run[p]
    BY <2>1, OthersStand
  <2> HIDE DEF x
  <2> QED BY <1>3, <2>2, <2>3 DEF SkipEvaluation, Inside, AtHand
<1> QED BY <1>2, <1>3

\* save_actual() stores the return at hand, or fails and says so.
LEMMA StoringStep ==
    ASSUME TrackerInv, NEW r \in Runners, SaveActual(r)
    PROVE  /\ Inside(r)
           /\ run[r].pc = "store" /\ run'[r].pc = "evaluate"
           /\ run[r].read.m \in Maturing
           /\ run'[r].matured = run[r].matured
           /\ UNCHANGED prediction
           /\ \/ /\ \A k \in Keys : k # Key(run[r].read.m) => actual'[k] = actual[k]
                 /\ actual'[Key(run[r].read.m)].base = run[r].read.m.base
                 /\ actual'[Key(run[r].read.m)] # NoActual
              \/ UNCHANGED actual /\ (run'[r].errors \/ run[r].mode = "dry_run")
<1>1. run[r] \in Run /\ run[r].pc = "store" /\ Sound(run[r])
  BY DEF TrackerInv, TypeOK, SaveActual
<1>2. run[r].read \in [m : Maturing, bar : Days]
  BY <1>1 DEF Sound
<1> DEFINE saved == [run[r] EXCEPT !.evaluated = TRUE, !.pc = "evaluate", !.read = NoRead]
           failed == [run[r] EXCEPT !.errors = TRUE, !.pc = "evaluate", !.read = NoRead]
           e == [bar |-> run[r].read.bar, base |-> run[r].read.m.base]
           Same(x) == /\ x.target = run[r].target /\ x.mode = run[r].mode
                      /\ x.exit = run[r].exit
                      /\ run[r].errors => x.errors
                      /\ x.matured = run[r].matured /\ x.pc = "evaluate"
<1>3. Same(saved)
  BY <1>1 DEF Run
<1>4. Same(failed) /\ failed.errors
  BY <1>1 DEF Run
<1>5. \/ /\ actual' = actual
         /\ run[r].mode = "dry_run"
         /\ run' = [run EXCEPT ![r] = saved]
      \/ /\ actual' = [actual EXCEPT ![Key(run[r].read.m)] = e]
         /\ run' = [run EXCEPT ![r] = saved]
      \/ /\ actual' = actual
         /\ run' = [run EXCEPT ![r] = failed]
  BY DEF SaveActual, Key
<1>6. PICK x \in {saved, failed} : /\ run' = [run EXCEPT ![r] = x]
                                   /\ Same(x)
                                   /\ \/ x.errors
                                      \/ run[r].mode = "dry_run"
                                      \/ actual' = [actual EXCEPT ![Key(run[r].read.m)] = e]
  <2> HIDE DEF saved, failed, Same
  <2> QED BY <1>3, <1>4, <1>5
<1>7. run'[r] = x /\ \A p \in Runners : p # r => run'[p] = run[p]
  BY <1>6, OthersStand
<1>8. Key(run[r].read.m) \in Keys /\ e.base = run[r].read.m.base /\ e # NoActual
  BY <1>2 DEF Key, Keys, Maturing, NoActual, Days, None
<1>9. \/ UNCHANGED actual
      \/ actual' = [actual EXCEPT ![Key(run[r].read.m)] = e]
  BY <1>5
<1>10. DOMAIN actual = Keys
  BY DEF TrackerInv, TypeOK
<1> HIDE DEF saved, failed, e
<1>11. Inside(r) /\ run'[r].pc = "evaluate" /\ run'[r].matured = run[r].matured
  BY <1>1, <1>6, <1>7 DEF Inside, SaveActual
<1>12. UNCHANGED prediction
  BY DEF SaveActual
<1>13. \/ /\ actual' = [actual EXCEPT ![Key(run[r].read.m)] = e]
       \/ UNCHANGED actual /\ (run'[r].errors \/ run[r].mode = "dry_run")
  BY <1>6, <1>7, <1>9
<1>14. ASSUME actual' = [actual EXCEPT ![Key(run[r].read.m)] = e]
       PROVE  /\ \A k \in Keys : k # Key(run[r].read.m) => actual'[k] = actual[k]
              /\ actual'[Key(run[r].read.m)].base = run[r].read.m.base
              /\ actual'[Key(run[r].read.m)] # NoActual
  BY <1>8, <1>10, <1>14
<1> QED BY <1>1, <1>2, <1>11, <1>12, <1>13, <1>14

\* A run that starts has nothing at hand; only a failed frontier takes a full run
\* past the search for matured predictions.
LEMMA StartingStep ==
    ASSUME TrackerInv, NEW r \in Runners, Start(r)
    PROVE  /\ run'[r].matured = {} /\ run'[r].pc \notin {"store", "save"}
           /\ ~Backfill => run'[r].target = today
           /\ run'[r].pc = "evaluate" /\ run'[r].mode = "full" => run'[r].errors
           /\ run'[r].exit \in {"none", "weekend"}
           /\ \A p \in Runners : p # r => run'[p] = run[p]
           /\ UNCHANGED <<today, synced, prediction, actual, view>>
<1>1. PICK target \in Days, mode \in Modes :
          /\ IF Backfill THEN target <= today ELSE target = today
          /\ \/ run' = [run EXCEPT ![r] =
                   [Idle EXCEPT !.target = target, !.mode = mode, !.exit = "weekend"]]
             \/ run' = [run EXCEPT ![r] =
                   [Idle EXCEPT !.pc = "price", !.target = target, !.mode = mode,
                                !.left = Tickers]]
             \/ run' = [run EXCEPT ![r] =
                   [Idle EXCEPT !.pc = AfterSaving(mode), !.target = target,
                                !.mode = mode, !.errors = TRUE]]
  BY DEF Start
<1> DEFINE Fresh(x) == /\ x.matured = {} /\ x.pc \notin {"store", "save"}
                       /\ x.target = target /\ x.mode = mode
                       /\ x.pc = "evaluate" /\ x.mode = "full" => x.errors
                       /\ x.exit \in {"none", "weekend"}
<1>2. AfterSaving(mode) = IF mode = "skip_eval" THEN "evaluate" ELSE "find"
  BY DEF AfterSaving
<1>3. Fresh([Idle EXCEPT !.target = target, !.mode = mode, !.exit = "weekend"])
  BY DEF Idle
<1>4. Fresh([Idle EXCEPT !.pc = "price", !.target = target, !.mode = mode,
                         !.left = Tickers])
  BY DEF Idle
<1>5. Fresh([Idle EXCEPT !.pc = AfterSaving(mode), !.target = target,
                         !.mode = mode, !.errors = TRUE])
  BY <1>2 DEF Idle
<1>6. PICK x : run' = [run EXCEPT ![r] = x] /\ Fresh(x)
  <2> HIDE DEF Fresh
  <2> QED BY <1>1, <1>3, <1>4, <1>5
<1>7. run'[r] = x /\ \A p \in Runners : p # r => run'[p] = run[p]
  BY <1>6, OthersStand
<1> QED BY <1>1, <1>6, <1>7, BackfillAssumption DEF Start

\* A run that finishes reports success only if nothing failed, the refresh of the
\* view included.
LEMMA FinishingStep ==
    ASSUME TrackerInv, NEW r \in Runners, Finish(r)
    PROVE  /\ run[r].pc = "evaluate" /\ run[r].matured = {}
           /\ run'[r].matured = {} /\ run'[r].pc = "idle"
           /\ run'[r].target = run[r].target /\ run'[r].mode = run[r].mode
           /\ run'[r].evaluated = run[r].evaluated
           /\ run'[r].exit = "ok" => ~run[r].errors /\ (MustRefresh(r) => view' = actual)
           /\ \A p \in Runners : p # r => run'[p] = run[p]
           /\ UNCHANGED <<today, synced, prediction, actual>>
<1>1. PICK errors : /\ run' = [run EXCEPT ![r] = Finished(r, errors)]
                    /\ errors \/ errors = run[r].errors
                    /\ errors \/ ~MustRefresh(r) \/ view' = actual
  BY DEF Finish
<1> DEFINE x == Finished(r, errors)
<1>2. /\ x.matured = {} /\ x.pc = "idle" /\ x.target = run[r].target
      /\ x.mode = run[r].mode /\ x.evaluated = run[r].evaluated
      /\ x.exit = Exit(r, errors)
  BY DEF Finished, Idle
<1>3. Exit(r, errors) = "ok" => ~errors
  BY DEF Exit
<1>4. run'[r] = x /\ \A p \in Runners : p # r => run'[p] = run[p]
  BY <1>1, OthersStand
<1> HIDE DEF x
<1> QED BY <1>1, <1>2, <1>3, <1>4 DEF Finish

\* A run that dies leaves nothing behind but its commits.
LEMMA CrashingStep ==
    ASSUME TrackerInv, NEW r \in Runners, Crash(r)
    PROVE  /\ run'[r].matured = {} /\ run'[r].pc = "idle"
           /\ run'[r].target = None /\ run'[r].exit = "crashed"
           /\ \A p \in Runners : p # r => run'[p] = run[p]
           /\ UNCHANGED <<today, synced, prediction, actual, view>>
<1> DEFINE x == [Idle EXCEPT !.exit = "crashed"]
<1>1. x.matured = {} /\ x.pc = "idle" /\ x.target = None /\ x.exit = "crashed"
  BY DEF Idle
<1>2. run'[r] = x /\ \A p \in Runners : p # r => run'[p] = run[p]
  BY OthersStand DEF Crash
<1> HIDE DEF x
<1> QED BY <1>1, <1>2 DEF Crash

-------------------------------------------------------------------------------
(* The stored return and the stored price.                                   *)

\* Without backfills: a run in progress is for today, the price under a stored
\* return or under one at hand is the stored price, and its prediction is too old
\* for a run of today or later to write it.
MatchInv ==
    /\ \A r \in Runners : run[r].pc # "idle" => run[r].target = today
    /\ \A k \in Keys : HasActual(k) =>
          actual[k].base = prediction[k] /\ EvaluationDay(k[1]) <= today
    /\ \A r \in Runners : \A m \in AtHand(run[r]) :
          prediction[Key(m)] = m.base /\ EvaluationDay(m.day) <= today

\* What is at hand is a stored prediction's day, ticker and price.
LEMMA AtHandIsMaturing ==
    ASSUME TrackerInv, NEW r \in Runners, NEW m \in AtHand(run[r])
    PROVE  /\ m \in Maturing /\ Key(m) \in Keys /\ Key(m)[1] = m.day
<1>1. run[r] \in Run /\ Sound(run[r])
  BY DEF TrackerInv, TypeOK
<1>2. m \in Maturing
  BY <1>1 DEF AtHand, Run, Sound
<1> QED BY <1>2 DEF Key, Keys, Maturing

\* A step of the run r that writes no prediction and takes nothing unsound in hand.
LEMMA MatchKept ==
    ASSUME TrackerInv, MatchInv, NEW r \in Runners,
           UNCHANGED <<today, prediction, actual>>,
           run'[r].pc # "idle" => run'[r].target = today,
           \A m \in AtHand(run'[r]) :
               prediction[Key(m)] = m.base /\ EvaluationDay(m.day) <= today,
           \A p \in Runners : p # r => run'[p] = run[p]
    PROVE  MatchInv'
<1>1. (\A p \in Runners : run[p].pc # "idle" => run[p].target = today)'
  BY DEF MatchInv
<1>2. (\A k \in Keys : HasActual(k) =>
          actual[k].base = prediction[k] /\ EvaluationDay(k[1]) <= today)'
  BY DEF MatchInv, HasActual, EvaluationDay
<1>3. ASSUME NEW p \in Runners, NEW m \in AtHand(run'[p])
      PROVE  prediction'[Key(m)] = m.base /\ EvaluationDay(m.day) <= today'
  BY <1>3 DEF MatchInv, EvaluationDay
<1> QED BY <1>1, <1>2, <1>3 DEF MatchInv, AtHand, Key, EvaluationDay

\* At first there is no return and nothing at hand.
LEMMA MatchInit == Init => MatchInv
  BY DEF Init, MatchInv, HasActual, AtHand, Idle

\* Without backfills every step keeps it.
LEMMA MatchStep ==
    ASSUME ~Backfill, TrackerInv, MatchInv, [Next]_vars
    PROVE  MatchInv'
<1> DEFINE Kept(m) == prediction[Key(m)] = m.base /\ EvaluationDay(m.day) <= today
<1>1. CASE Sync \/ UNCHANGED vars
  <2>1. UNCHANGED <<today, prediction, actual, run>>
    BY <1>1 DEF Sync, vars
  <2> QED BY <2>1 DEF MatchInv, HasActual, AtHand, Key, EvaluationDay
<1>2. CASE Tick
  <2>1. UNCHANGED <<prediction, actual, run>> /\ today' = today + 1 /\ today \in Nat
    BY <1>2 DEF Tick, TrackerInv, TypeOK, Days
  <2>2. \A r \in Runners : run[r].pc = "idle"
    BY <1>2 DEF Tick
  <2>3. \A d \in Days : EvaluationDay(d) \in Nat
    BY HorizonAssumption DEF EvaluationDay, Days
  <2>4. ASSUME NEW k \in Keys, HasActual(k)
        PROVE  actual[k].base = prediction[k] /\ EvaluationDay(k[1]) <= today'
    BY <2>1, <2>3, <2>4 DEF MatchInv, Keys
  <2>5. ASSUME NEW r \in Runners, NEW m \in AtHand(run[r])
        PROVE  prediction[Key(m)] = m.base /\ EvaluationDay(m.day) <= today'
    <3>1. m.day \in Days
      BY AtHandIsMaturing DEF Maturing
    <3> QED BY <2>1, <2>3, <3>1 DEF MatchInv
  <2> QED BY <2>1, <2>2, <2>4, <2>5 DEF MatchInv, HasActual, AtHand, Key, EvaluationDay
<1>3. ASSUME NEW r \in Runners, Start(r) \/ Finish(r) \/ Crash(r) PROVE MatchInv'
  <2>1. AtHand(run'[r]) = {}
    BY <1>3, StartingStep, FinishingStep, CrashingStep DEF AtHand
  <2>2. /\ UNCHANGED <<today, prediction, actual>>
        /\ run'[r].pc # "idle" => run'[r].target = today
        /\ \A p \in Runners : p # r => run'[p] = run[p]
    BY <1>3, StartingStep, FinishingStep, CrashingStep
  <2> QED BY <2>1, <2>2, MatchKept
<1>4. ASSUME NEW r \in Runners, ReadPrice(r) \/ SkipPrediction(r) PROVE MatchInv'
  <2>1. /\ Inside(r) /\ UNCHANGED <<prediction, actual>>
        /\ run'[r].matured = run[r].matured /\ run'[r].pc # "store"
    BY <1>4, PredictingStep DEF ReadPrice, SkipPrediction, AfterSaving
  <2>2. AtHand(run'[r]) \subseteq AtHand(run[r])
    BY <2>1 DEF AtHand
  <2> QED BY <2>1, <2>2, MatchKept DEF Inside, MatchInv
<1>5. ASSUME NEW r \in Runners, FindMatured(r) PROVE MatchInv'
  <2>1. /\ Inside(r) /\ UNCHANGED <<prediction, actual>>
        /\ AtHand(run'[r]) = Matured(today)
    BY <1>5, FindingStep DEF Inside, MatchInv
  <2>2. \A m \in Matured(today) : Kept(m)
    BY DEF Matured, Key
  <2> QED BY <2>1, <2>2, MatchKept DEF Inside, MatchInv
<1>6. ASSUME NEW r \in Runners, ReadEvaluationPrice(r) \/ SkipEvaluation(r)
      PROVE  MatchInv'
  <2>1. /\ Inside(r) /\ UNCHANGED <<prediction, actual>>
        /\ AtHand(run'[r]) \subseteq AtHand(run[r])
    BY <1>6, EvaluatingStep
  <2> QED BY <2>1, MatchKept DEF Inside, MatchInv
\* The price is saved under today's key: what is evaluated is from an earlier day.
<1>7. ASSUME NEW r \in Runners, SavePrediction(r) PROVE MatchInv'
  <2>1. /\ Inside(r) /\ UNCHANGED actual
        /\ run'[r].matured = run[r].matured /\ run'[r].pc # "store"
    BY <1>7, PredictingStep DEF AfterSaving
  <2>2. run[r].target = today
    BY <1>7, <2>1 DEF Inside, MatchInv
  <2>3. ~(EvaluationDay(today) <= today)
    BY HorizonAssumption DEF EvaluationDay, TrackerInv, TypeOK, Days
  <2>4. ASSUME NEW k \in Keys, k[1] # today PROVE prediction'[k] = prediction[k]
    <3>1. PICK t \in Tickers :
              \/ prediction' = prediction
              \/ prediction' = [prediction EXCEPT ![<<today, t>>] = run[r].price[t]]
      BY <1>7, <2>2 DEF SavePrediction, TrackerInv, TypeOK, Run
    <3> QED BY <2>4, <3>1 DEF TrackerInv, TypeOK
  <2>5. ASSUME NEW k \in Keys, EvaluationDay(k[1]) <= today
        PROVE  prediction'[k] = prediction[k]
    BY <2>3, <2>4, <2>5
  <2>6. AtHand(run'[r]) \subseteq AtHand(run[r])
    BY <2>1 DEF AtHand
  <2>7. ASSUME NEW p \in Runners, NEW m \in AtHand(run'[p])
        PROVE  prediction'[Key(m)] = m.base /\ EvaluationDay(m.day) <= today
    <3>1. m \in AtHand(run[p])
      BY <2>1, <2>6, <2>7 DEF Inside
    <3> QED BY <2>5, <3>1, AtHandIsMaturing DEF MatchInv
  <2>8. ASSUME NEW k \in Keys, HasActual(k)
        PROVE  actual[k].base = prediction'[k] /\ EvaluationDay(k[1]) <= today
    BY <2>5, <2>8 DEF MatchInv
  <2> QED BY <2>1, <2>7, <2>8 DEF Inside, MatchInv, HasActual, AtHand, Key, EvaluationDay
<1>8. ASSUME NEW r \in Runners, SaveActual(r) PROVE MatchInv'
  <2> DEFINE m == run[r].read.m
  <2>1. /\ Inside(r) /\ UNCHANGED prediction /\ AtHand(run'[r]) \subseteq AtHand(run[r])
        /\ m \in AtHand(run[r])
    BY <1>8, StoringStep DEF AtHand
  <2>2. \A k \in Keys : actual'[k] # actual[k] => k = Key(m) /\ actual'[k].base = m.base
    BY <1>8, StoringStep
  <2>3. Key(m) \in Keys /\ Key(m)[1] = m.day /\ Kept(m)
    BY <2>1, AtHandIsMaturing DEF MatchInv
  <2>4. ASSUME NEW k \in Keys, actual'[k] # NoActual
        PROVE  actual'[k].base = prediction[k] /\ EvaluationDay(k[1]) <= today
    BY <2>2, <2>3, <2>4 DEF MatchInv, HasActual
  <2> HIDE DEF m
  <2>5. ASSUME NEW p \in Runners, NEW n \in AtHand(run'[p])
        PROVE  prediction[Key(n)] = n.base /\ EvaluationDay(n.day) <= today
    BY <2>1 DEF Inside, MatchInv
  <2> QED BY <2>1, <2>4, <2>5 DEF Inside, MatchInv, HasActual, AtHand, Key, EvaluationDay
<1> QED BY <1>1, <1>2, <1>3, <1>4, <1>5, <1>6, <1>7, <1>8 DEF Next

\* The stored return is the one of the stored price, for any number of overlapping
\* runs, as long as a run is for the day it runs on.
THEOREM ReturnIsOfStoredPrice ==
    ASSUME ~Backfill
    PROVE  Spec => []ReturnMatchesPrice
<1>1. MatchInv => ReturnMatchesPrice
  BY DEF MatchInv, ReturnMatchesPrice
<1>2. TrackerInv /\ MatchInv /\ [Next]_vars => (TrackerInv /\ MatchInv)'
  BY TrackerStep, MatchStep
<1> QED BY <1>1, <1>2, TrackerInit, MatchInit, PTL DEF Spec

-------------------------------------------------------------------------------
(* Success means caught up.                                                  *)

\* A prediction that matured by the day of the run.
Due(x, k) == prediction[k] # None /\ EvaluationDay(k[1]) <= x.target

\* A full run without errors has every due prediction evaluated or at hand, and
\* every one evaluated when it reports success.
CatchUpInv(x) ==
    /\ x.pc \in {"evaluate", "store"} /\ x.mode = "full" /\ ~x.errors =>
          \A k \in Keys : Due(x, k) => HasActual(k) \/ \E m \in AtHand(x) : Key(m) = k
    /\ x.exit = "ok" => x.pc = "idle"
    /\ x.exit = "ok" /\ x.mode = "full" => \A k \in Keys : Due(x, k) => HasActual(k)

\* The steps of a run keep it true of the run.
LEMMA CatchUpStep ==
    ASSUME TrackerInv, NEW r \in Runners, CatchUpInv(run[r]),
           \/ Start(r) \/ ReadPrice(r) \/ SavePrediction(r) \/ SkipPrediction(r)
           \/ FindMatured(r) \/ ReadEvaluationPrice(r) \/ SkipEvaluation(r)
           \/ SaveActual(r) \/ Finish(r) \/ Crash(r)
    PROVE  CatchUpInv(run[r])'
<1>1. CASE Start(r) \/ Crash(r)
  <2>1. /\ run'[r].pc # "store" /\ run'[r].exit # "ok"
        /\ run'[r].pc = "evaluate" /\ run'[r].mode = "full" => run'[r].errors
    BY <1>1, StartingStep, CrashingStep
  <2> QED BY <2>1 DEF CatchUpInv
<1>2. CASE Finish(r)
  <2>1. /\ run[r].pc = "evaluate" /\ run[r].matured = {} /\ run'[r].pc = "idle"
        /\ run'[r].target = run[r].target /\ run'[r].mode = run[r].mode
        /\ run'[r].exit = "ok" => ~run[r].errors
        /\ UNCHANGED <<prediction, actual>>
    BY <1>2, FinishingStep
  <2>2. ASSUME run'[r].exit = "ok", run'[r].mode = "full"
        PROVE  (\A k \in Keys : Due(run[r], k) => HasActual(k))'
    <3>1. \A k \in Keys : Due(run[r], k) => HasActual(k)
      BY <2>1, <2>2 DEF CatchUpInv, AtHand
    <3> QED BY <2>1, <3>1 DEF Due, HasActual, EvaluationDay
  <2> QED BY <2>1, <2>2 DEF CatchUpInv
\* A full run searches before it evaluates.
<1>3. CASE ReadPrice(r) \/ SavePrediction(r) \/ SkipPrediction(r)
  <2>1. /\ Inside(r)
        /\ run'[r].pc \in {"price", "save", AfterSaving(run[r].mode)}
    BY <1>3, PredictingStep
  <2>2. run'[r].pc \in {"evaluate", "store"} => run'[r].mode # "full"
    BY <2>1 DEF AfterSaving, Inside
  <2> QED BY <2>1, <2>2 DEF CatchUpInv, Inside
<1>4. CASE FindMatured(r)
  <2>1. /\ Inside(r) /\ run'[r].pc = "evaluate" /\ UNCHANGED <<prediction, actual>>
        /\ AtHand(run'[r]) = Matured(run[r].target)
    BY <1>4, FindingStep
  <2>2. ASSUME NEW k \in Keys, Due(run[r], k), ~HasActual(k)
        PROVE  \E m \in Matured(run[r].target) : Key(m) = k
    <3> DEFINE m == [day |-> k[1], ticker |-> k[2], base |-> prediction[k]]
    <3>1. k = <<k[1], k[2]>> /\ k[1] \in Days /\ k[2] \in Tickers
      BY DEF Keys
    <3>2. prediction[k] \in Days
      BY <2>2 DEF Due, TrackerInv, TypeOK
    <3>3. m \in Maturing
      BY <3>1, <3>2 DEF Maturing
    <3>4. m \in Matured(run[r].target)
      BY <2>2, <3>1, <3>3 DEF Matured, Due, HasActual
    <3> QED BY <3>1, <3>4 DEF Key
  <2>3. (\A k \in Keys : Due(run[r], k) =>
            HasActual(k) \/ \E m \in AtHand(run[r]) : Key(m) = k)'
    BY <2>1, <2>2 DEF Due, HasActual, Inside, AtHand, Key, EvaluationDay
  <2>4. run'[r].exit # "ok"
    BY <2>1 DEF Inside, CatchUpInv
  <2> QED BY <2>3, <2>4 DEF CatchUpInv
<1>5. CASE ReadEvaluationPrice(r) \/ SkipEvaluation(r)
  <2>1. /\ Inside(r) /\ UNCHANGED <<prediction, actual>>
        /\ run[r].pc = "evaluate"
        /\ run'[r].errors \/ AtHand(run'[r]) = AtHand(run[r])
    BY <1>5, EvaluatingStep
  <2>2. ASSUME run'[r].mode = "full", ~run'[r].errors
        PROVE  (\A k \in Keys : Due(run[r], k) =>
                    HasActual(k) \/ \E m \in AtHand(run[r]) : Key(m) = k)'
    <3>1. /\ run[r].mode = "full" /\ ~run[r].errors
          /\ AtHand(run'[r]) = AtHand(run[r]) /\ run'[r].target = run[r].target
      BY <2>1, <2>2 DEF Inside
    <3>2. \A k \in Keys : Due(run[r], k) =>
              HasActual(k) \/ \E m \in AtHand(run[r]) : Key(m) = k
      BY <2>1, <3>1 DEF CatchUpInv
    <3>3. AtHand(run[r])' = AtHand(run'[r])
      BY DEF AtHand
    <3> QED BY <2>1, <3>1, <3>2, <3>3 DEF Due, HasActual, Key, EvaluationDay
  <2>3. run'[r].exit # "ok"
    BY <2>1 DEF Inside, CatchUpInv
  <2> QED BY <2>2, <2>3 DEF CatchUpInv
<1>6. CASE SaveActual(r)
  <2> DEFINE m == run[r].read.m
             Stored == /\ \A k \in Keys : k # Key(m) => actual'[k] = actual[k]
                       /\ actual'[Key(m)] # NoActual
  <2>1. /\ Inside(r) /\ UNCHANGED prediction
        /\ run[r].pc = "store" /\ run'[r].pc = "evaluate"
        /\ run'[r].matured = run[r].matured
        /\ Stored \/ (UNCHANGED actual /\ (run'[r].errors \/ run[r].mode = "dry_run"))
    BY <1>6, StoringStep
  <2>2. /\ AtHand(run[r]) = run[r].matured \cup {m}
        /\ AtHand(run[r])' = run[r].matured
    BY <2>1 DEF AtHand
  <2> HIDE DEF m
  <2>3. ASSUME run'[r].mode = "full", ~run'[r].errors, NEW k \in Keys,
               prediction'[k] # None, EvaluationDay(k[1]) <= run'[r].target,
               actual'[k] = NoActual
        PROVE  \E n \in run[r].matured : Key(n) = k
    <3>1. Stored /\ run[r].mode = "full" /\ ~run[r].errors
      BY <2>1, <2>3 DEF Inside
    <3>2. k # Key(m) /\ ~HasActual(k)
      BY <2>3, <3>1 DEF HasActual
    <3>3. Due(run[r], k)
      BY <2>1, <2>3 DEF Due, Inside
    <3>4. \E n \in AtHand(run[r]) : Key(n) = k
      BY <2>1, <3>1, <3>2, <3>3 DEF CatchUpInv
    <3> QED BY <2>2, <3>2, <3>4
  <2>4. run'[r].exit # "ok"
    BY <2>1 DEF Inside, CatchUpInv
  <2> QED BY <2>2, <2>3, <2>4 DEF CatchUpInv, Due, HasActual, Key, EvaluationDay
<1> QED BY <1>1, <1>2, <1>3, <1>4, <1>5, <1>6

\* The steps of the other runs, which have no prediction of a past day to write and
\* take no return away, keep it true of the run.
LEMMA CatchUpStands ==
    ASSUME TrackerInv, NEW r \in Runners, CatchUpInv(run[r]), UNCHANGED run[r],
           \A k \in Keys : /\ Due(run[r], k)' => Due(run[r], k)
                           /\ HasActual(k) => HasActual(k)'
    PROVE  CatchUpInv(run[r])'
<1>1. AtHand(run[r])' = AtHand(run[r])
  BY DEF AtHand
<1> QED BY <1>1 DEF CatchUpInv, Key

\* Without backfills: a run is for no day to come, so that what is due for it was
\* predicted on an earlier day.
DailyInv == \A r \in Runners : run[r].target <= today /\ CatchUpInv(run[r])

\* At first nothing was run.
LEMMA DailyInit == Init => DailyInv
  BY DEF Init, DailyInv, CatchUpInv, Idle, Days, None

\* A stored return stays stored, if not the same.
LEMMA ReturnsRemain ==
    ASSUME TrackerInv, [Next]_vars, NEW k \in Keys, HasActual(k)
    PROVE  HasActual(k)'
<1>1. ASSUME NEW r \in Runners, SaveActual(r) PROVE HasActual(k)'
  BY <1>1, StoringStep DEF HasActual
<1>2. UNCHANGED actual \/ \E r \in Runners : SaveActual(r)
  BY DEF Next, vars, Tick, Sync, Start, ReadPrice, SavePrediction, SkipPrediction,
         FindMatured, ReadEvaluationPrice, SkipEvaluation, Finish, Crash
<1> QED BY <1>1, <1>2 DEF HasActual

\* Without backfills, a prediction whose evaluation day has come is not written.
LEMMA MaturedIsSettled ==
    ASSUME ~Backfill, TrackerInv, MatchInv, [Next]_vars,
           NEW k \in Keys, EvaluationDay(k[1]) <= today
    PROVE  prediction'[k] = prediction[k]
<1>1. k[1] # today
  BY HorizonAssumption DEF EvaluationDay, TrackerInv, TypeOK, Days
<1>2. ASSUME NEW r \in Runners, SavePrediction(r) PROVE prediction'[k] = prediction[k]
  <2>1. run[r].target = today
    BY <1>2 DEF SavePrediction, MatchInv
  <2>2. PICK t \in Tickers :
            \/ prediction' = prediction
            \/ prediction' = [prediction EXCEPT ![<<today, t>>] = run[r].price[t]]
    BY <1>2, <2>1 DEF SavePrediction, TrackerInv, TypeOK, Run
  <2> QED BY <1>1, <2>2 DEF TrackerInv, TypeOK
<1>3. UNCHANGED prediction \/ \E r \in Runners : SavePrediction(r)
  BY DEF Next, vars, Tick, Sync, Start, ReadPrice, SavePrediction, SkipPrediction,
         FindMatured, ReadEvaluationPrice, SkipEvaluation, SaveActual, Finish, Crash
<1> QED BY <1>2, <1>3

\* Every step of every run, of the synchronisation and of the clock keeps it.
LEMMA DailyStep ==
    ASSUME ~Backfill, TrackerInv, MatchInv, DailyInv, [Next]_vars
    PROVE  DailyInv'
<1>1. \A d \in Days : EvaluationDay(d) \in Nat
  BY HorizonAssumption DEF EvaluationDay, Days
<1>2. today \in Nat /\ \A r \in Runners : run[r].target \in Nat
  BY DEF TrackerInv, TypeOK, Run, Days, None
<1>3. ASSUME NEW r \in Runners, run'[r] = run[r] PROVE CatchUpInv(run[r])'
  <2>1. ASSUME NEW k \in Keys, Due(run[r], k)' PROVE Due(run[r], k)
    <3>1. EvaluationDay(k[1]) <= run[r].target
      BY <1>3, <2>1 DEF Due, EvaluationDay
    <3>2. EvaluationDay(k[1]) <= today
      BY <1>1, <1>2, <3>1 DEF DailyInv, Keys
    <3> QED BY <2>1, <3>1, <3>2, MaturedIsSettled DEF Due
  <2> QED BY <1>3, <2>1, ReturnsRemain, CatchUpStands DEF DailyInv
<1>4. CASE Tick \/ Sync \/ UNCHANGED vars
  <2>1. UNCHANGED run /\ (today' = today \/ today' = today + 1)
    BY <1>4 DEF Tick, Sync, vars
  <2> QED BY <1>2, <1>3, <2>1 DEF DailyInv
<1>5. ASSUME NEW r \in Runners,
             \/ Start(r) \/ ReadPrice(r) \/ SavePrediction(r) \/ SkipPrediction(r)
             \/ FindMatured(r) \/ ReadEvaluationPrice(r) \/ SkipEvaluation(r)
             \/ SaveActual(r) \/ Finish(r) \/ Crash(r)
      PROVE  DailyInv'
  <2>1. CatchUpInv(run[r])'
    BY <1>5, CatchUpStep DEF DailyInv
  <2>2. /\ run'[r].target \in {run[r].target, today, None}
        /\ today' = today
        /\ \A p \in Runners : p # r => run'[p] = run[p]
    <3>1. CASE Start(r) \/ Finish(r)
      BY <3>1, StartingStep, FinishingStep
    <3>2. CASE Crash(r)
      BY <3>2, CrashingStep
    <3>3. CASE ~(Start(r) \/ Finish(r) \/ Crash(r))
      <4>1. Inside(r)
        BY <1>5, <3>3, PredictingStep, FindingStep, EvaluatingStep, StoringStep
      <4> QED BY <4>1 DEF Inside
    <3> QED BY <3>1, <3>2, <3>3
  <2>3. run'[r].target <= today'
    BY <1>2, <2>2 DEF DailyInv, None
  <2>4. ASSUME NEW p \in Runners, p # r
        PROVE  run'[p].target <= today' /\ CatchUpInv(run[p])'
    BY <1>3, <2>2, <2>4 DEF DailyInv
  <2> QED BY <2>1, <2>3, <2>4 DEF DailyInv
<1> QED BY <1>4, <1>5 DEF Next

\* A full run that reports success leaves no matured prediction without its return,
\* whatever the runs before it missed and however many runs overlap, as long as a
\* run is for the day it runs on.
THEOREM DailySuccessMeansCaughtUp ==
    ASSUME ~Backfill
    PROVE  Spec => []SuccessCatchesUp
<1>1. DailyInv => SuccessCatchesUp
  BY DEF DailyInv, CatchUpInv, SuccessCatchesUp, Succeeded, Due
<1>2. TrackerInv /\ MatchInv /\ DailyInv /\ [Next]_vars
        => (TrackerInv /\ MatchInv /\ DailyInv)'
  BY TrackerStep, MatchStep, DailyStep
<1> QED BY <1>1, <1>2, TrackerInit, MatchInit, DailyInit, PTL DEF Spec

-------------------------------------------------------------------------------
(* One logger: success with backfills, the view, and returns that stay.      *)

\* The logger is started by one scheduler and its runs do not overlap.
OneLogger == \A p, q \in Runners : p = q

\* What is at hand has no return yet, and is the prediction as it is stored.
FoundInv(x) ==
    /\ x.pc \notin {"evaluate", "store"} => x.matured = {}
    /\ x.pc = "store" => x.read.m \notin x.matured
    /\ \A m \in AtHand(x) : actual[Key(m)] = NoActual /\ prediction[Key(m)] = m.base

\* Nothing has happened to the view or the returns since success was reported.
ViewInv(x) == x.exit = "ok" /\ x.mode = "full" /\ x.evaluated => view = actual

LoggerInv ==
    \A r \in Runners : FoundInv(run[r]) /\ CatchUpInv(run[r]) /\ ViewInv(run[r])

\* At first nothing is at hand and nothing succeeded.
LEMMA LoggerInit == Init => LoggerInv
  BY DEF Init, LoggerInv, FoundInv, CatchUpInv, ViewInv, Idle, AtHand

\* With one logger, the invariant is about the run that took the step.
LEMMA OneLoggerIsEnough ==
    ASSUME OneLogger, NEW r \in Runners,
           FoundInv(run[r])', CatchUpInv(run[r])', ViewInv(run[r])'
    PROVE  LoggerInv'
  BY DEF LoggerInv, OneLogger

\* Two predictions at hand are of different days or tickers.
LEMMA AtHandIsOnce ==
    ASSUME TrackerInv, NEW r \in Runners, FoundInv(run[r]),
           NEW m \in AtHand(run[r]), NEW n \in AtHand(run[r]), Key(m) = Key(n)
    PROVE  m = n
<1>1. m \in Maturing /\ n \in Maturing
  BY AtHandIsMaturing
<1>2. m.base = n.base
  BY DEF FoundInv
<1>3. m.day = n.day /\ m.ticker = n.ticker
  BY DEF Key
<1> QED BY <1>1, <1>2, <1>3 DEF Maturing

\* Every step of the one logger, of the synchronisation and of the clock keeps it.
LEMMA LoggerStep ==
    ASSUME OneLogger, TrackerInv, LoggerInv, [Next]_vars
    PROVE  LoggerInv'
<1>1. CASE Tick \/ Sync \/ UNCHANGED vars
  <2>1. UNCHANGED <<prediction, actual, view, run>>
    BY <1>1 DEF Tick, Sync, vars
  <2> QED BY <2>1 DEF LoggerInv, FoundInv, CatchUpInv, ViewInv, Due, HasActual, AtHand,
                      Key, EvaluationDay
<1>2. ASSUME NEW r \in Runners, Start(r) \/ Finish(r) \/ Crash(r) PROVE LoggerInv'
  <2>1. run'[r].matured = {} /\ run'[r].pc # "store"
    BY <1>2, StartingStep, FinishingStep, CrashingStep
  <2>2. FoundInv(run[r])'
    BY <2>1 DEF FoundInv, AtHand
  <2>3. ViewInv(run[r])'
    <3>1. CASE Start(r) \/ Crash(r)
      BY <3>1, StartingStep, CrashingStep DEF ViewInv
    <3>2. CASE Finish(r)
      BY <3>2, FinishingStep DEF ViewInv, MustRefresh
    <3> QED BY <1>2, <3>1, <3>2
  <2>4. CatchUpInv(run[r])'
    BY <1>2, CatchUpStep DEF LoggerInv
  <2> QED BY <2>2, <2>3, <2>4, OneLoggerIsEnough
\* Before the search nothing is at hand.
<1>3. ASSUME NEW r \in Runners,
             ReadPrice(r) \/ SavePrediction(r) \/ SkipPrediction(r)
      PROVE  LoggerInv'
  <2>1. /\ Inside(r) /\ run[r].pc \in {"price", "save"}
        /\ run'[r].pc \in {"price", "save", AfterSaving(run[r].mode)}
        /\ run'[r].matured = run[r].matured
    BY <1>3, PredictingStep
  <2>2. run[r].matured = {} /\ run[r].exit # "ok"
    BY <2>1 DEF LoggerInv, FoundInv, CatchUpInv
  <2>3. FoundInv(run[r])' /\ ViewInv(run[r])'
    BY <2>1, <2>2 DEF FoundInv, ViewInv, AtHand, Inside, AfterSaving
  <2>4. CatchUpInv(run[r])'
    BY <1>3, CatchUpStep DEF LoggerInv
  <2> QED BY <2>3, <2>4, OneLoggerIsEnough
<1>4. ASSUME NEW r \in Runners, FindMatured(r) PROVE LoggerInv'
  <2>1. /\ Inside(r) /\ run'[r].pc = "evaluate" /\ UNCHANGED <<prediction, actual>>
        /\ AtHand(run'[r]) = Matured(run[r].target)
    BY <1>4, FindingStep
  <2>2. \A m \in Matured(run[r].target) :
            actual[Key(m)] = NoActual /\ prediction[Key(m)] = m.base
    BY DEF Matured, Key
  <2>3. FoundInv(run[r])'
    BY <2>1, <2>2 DEF FoundInv, AtHand, Key
  <2>4. CatchUpInv(run[r])' /\ ViewInv(run[r])'
    BY <1>4, <2>1, CatchUpStep DEF LoggerInv, CatchUpInv, ViewInv, Inside
  <2> QED BY <2>3, <2>4, OneLoggerIsEnough
<1>5. ASSUME NEW r \in Runners, ReadEvaluationPrice(r) \/ SkipEvaluation(r)
      PROVE  LoggerInv'
  <2>1. /\ Inside(r) /\ UNCHANGED <<prediction, actual>>
        /\ run[r].pc = "evaluate" /\ run'[r].pc \in {"evaluate", "store"}
        /\ AtHand(run'[r]) \subseteq AtHand(run[r])
        /\ run'[r].pc = "store" => run'[r].read.m \notin run'[r].matured
    BY <1>5, EvaluatingStep
  <2>2. FoundInv(run[r])'
    BY <2>1 DEF FoundInv, LoggerInv, AtHand, Key
  <2>3. ViewInv(run[r])'
    BY <2>1 DEF Inside, LoggerInv, CatchUpInv, ViewInv
  <2>4. CatchUpInv(run[r])'
    BY <1>5, CatchUpStep DEF LoggerInv
  <2> QED BY <2>2, <2>3, <2>4, OneLoggerIsEnough
\* The return stored is of a prediction that has none: the others at hand keep theirs.
<1>6. ASSUME NEW r \in Runners, SaveActual(r) PROVE LoggerInv'
  <2> DEFINE m == run[r].read.m
  <2>1. /\ Inside(r) /\ UNCHANGED prediction
        /\ run[r].pc = "store" /\ run'[r].pc = "evaluate"
        /\ run'[r].matured = run[r].matured
        /\ \A k \in Keys : k # Key(m) => actual'[k] = actual[k]
    BY <1>6, StoringStep
  <2>2. /\ AtHand(run[r]) = run[r].matured \cup {m}
        /\ AtHand(run[r])' = run[r].matured
        /\ m \in AtHand(run[r]) /\ m \notin run[r].matured
    BY <2>1 DEF AtHand, LoggerInv, FoundInv
  <2> HIDE DEF m
  <2>3. ASSUME NEW n \in run[r].matured
        PROVE  /\ actual'[Key(n)] = NoActual /\ prediction'[Key(n)] = n.base
    <3>1. Key(n) # Key(m)
      BY <2>2, AtHandIsOnce DEF LoggerInv
    <3>2. Key(n) \in Keys
      BY <2>2, AtHandIsMaturing
    <3> QED BY <2>1, <2>2, <3>1, <3>2 DEF LoggerInv, FoundInv
  <2>4. FoundInv(run[r])'
    BY <2>1, <2>2, <2>3 DEF FoundInv, Key
  <2>5. ViewInv(run[r])'
    BY <2>1 DEF Inside, LoggerInv, CatchUpInv, ViewInv
  <2>6. CatchUpInv(run[r])'
    BY <1>6, CatchUpStep DEF LoggerInv
  <2> QED BY <2>4, <2>5, <2>6, OneLoggerIsEnough
<1> QED BY <1>1, <1>2, <1>3, <1>4, <1>5, <1>6 DEF Next

\* It holds with the type invariant in every reachable state.
LEMMA LoggerInductive ==
    ASSUME OneLogger
    PROVE  Spec => [](TrackerInv /\ LoggerInv)
<1>1. TrackerInv /\ LoggerInv /\ [Next]_vars => (TrackerInv /\ LoggerInv)'
  BY TrackerStep, LoggerStep
<1>2. Init => TrackerInv /\ LoggerInv
  BY TrackerInit, LoggerInit
<1> QED BY <1>1, <1>2, PTL DEF Spec

\* Of one logger it is true of backfills too: a full run that reports success
\* leaves no prediction that matured by its day without its return.
THEOREM SuccessMeansCaughtUp ==
    ASSUME OneLogger
    PROVE  Spec => []SuccessCatchesUp
<1>1. LoggerInv => SuccessCatchesUp
  BY DEF LoggerInv, CatchUpInv, SuccessCatchesUp, Succeeded, Due
<1>2. Spec => [](TrackerInv /\ LoggerInv)
  BY LoggerInductive
<1> QED BY <1>1, <1>2, PTL

\* A full run that evaluated something and reports success leaves the view equal to
\* the returns it is computed from.
THEOREM SuccessMeansViewIsFresh ==
    ASSUME OneLogger
    PROVE  Spec => []SuccessRefreshesView
<1>1. LoggerInv => SuccessRefreshesView
  BY DEF LoggerInv, ViewInv, SuccessRefreshesView, Succeeded
<1>2. Spec => [](TrackerInv /\ LoggerInv)
  BY LoggerInductive
<1> QED BY <1>1, <1>2, PTL

\* A stored return is never replaced, whatever fails and whatever is backfilled.
THEOREM StoredReturnsAreFinal ==
    ASSUME OneLogger
    PROVE  Spec => ActualsAreFinal
<1>1. ASSUME TrackerInv, LoggerInv, [Next]_vars
      PROVE  [\A k \in Keys : HasActual(k) => actual'[k] = actual[k]]_vars
  <2>1. SUFFICES ASSUME NEW k \in Keys, HasActual(k) PROVE actual'[k] = actual[k]
    OBVIOUS
  <2>2. CASE UNCHANGED actual
    BY <2>2
  <2>3. ASSUME NEW r \in Runners, SaveActual(r) PROVE actual'[k] = actual[k]
    <3>1. run[r].read.m \in AtHand(run[r])
      BY <1>1, <2>3, StoringStep DEF AtHand
    <3>2. k # Key(run[r].read.m)
      BY <2>1, <3>1, <1>1 DEF HasActual, LoggerInv, FoundInv
    <3> QED BY <2>3, <3>2, <1>1, StoringStep
  <2>4. UNCHANGED actual \/ \E r \in Runners : SaveActual(r)
    BY <1>1 DEF Next, vars, Tick, Sync, Start, ReadPrice, SavePrediction, SkipPrediction,
                FindMatured, ReadEvaluationPrice, SkipEvaluation, Finish, Crash
  <2> QED BY <2>2, <2>3, <2>4
<1>2. Spec => [](TrackerInv /\ LoggerInv)
  BY LoggerInductive
<1> QED BY <1>1, <1>2, PTL DEF Spec, ActualsAreFinal

-------------------------------------------------------------------------------
(* The price table.                                                          *)

\* The bars that are stored when a ticker is synchronised up to a day.
StoredBars(upTo) ==
    [t \in Tickers |-> [d \in Days |-> IF d \in TradingDays /\ d <= upTo[t] THEN d ELSE None]]

\* They are a table of closes without holes.
LEMMA StoredBarsAreComplete ==
    ASSUME NEW upTo \in [Tickers -> Nat]
    PROVE  StoredBars(upTo) \in PriceTableSpec!Table
<1>1. StoredBars(upTo) \in [Tickers -> [Days -> Days \cup {None}]]
  BY DEF StoredBars
<1>2. ASSUME NEW t \in Tickers, NEW d \in Days, StoredBars(upTo)[t][d] # None,
             NEW e \in TradingDays, e < d
      PROVE  StoredBars(upTo)[t][e] # None
  <2>1. d <= upTo[t] /\ e \in Days /\ e # None /\ e <= upTo[t]
    BY <1>2 DEF StoredBars, TradingDays, Days, None
  <2> QED BY <1>2, <2>1 DEF StoredBars
<1>3. \A t \in Tickers, d \in Days : StoredBars(upTo)[t][d] # None => d \in TradingDays
  BY DEF StoredBars
<1> QED
  BY <1>1, <1>2, <1>3
  DEF PriceTableSpec!Table, PriceTableSpec!Complete, PriceTableSpec!OnSessions

\* Synchronising up to a later day keeps every bar.
LEMMA LaterKeepsBars ==
    ASSUME NEW old \in [Tickers -> Nat], NEW new \in [Tickers -> Nat],
           \A t \in Tickers : old[t] <= new[t]
    PROVE  PriceTableSpec!Keeps(StoredBars(old), StoredBars(new))
<1>1. ASSUME NEW t \in Tickers, NEW d \in Days, StoredBars(old)[t][d] # None
      PROVE  StoredBars(new)[t][d] = StoredBars(old)[t][d]
  <2>1. d \in TradingDays /\ d <= old[t] /\ d \in Nat
    BY <1>1 DEF StoredBars, Days
  <2>2. d <= new[t]
    BY <2>1
  <2> QED BY <2>1, <2>2 DEF StoredBars
<1> QED BY <1>1 DEF PriceTableSpec!Keeps

\* What the logger reads is a price table as sync_prices.py promises one.
LEMMA LoggerReadsPriceTable == Spec => ReadsPriceTable
<1> DEFINE Bar(upTo) == StoredBars(upTo)
<1>1. TypeOK => synced \in [Tickers -> Nat]
  BY DEF TypeOK, Days
<1>2. Init => PriceTableSpec!Init
  <2> SUFFICES ASSUME Init PROVE StoredBars(synced) \in PriceTableSpec!Table
    BY DEF PriceTableSpec!Init, StoredBars
  <2> QED BY <1>1, TrackerInit, StoredBarsAreComplete DEF TrackerInv
<1>3. TypeOK /\ TypeOK' /\ [Next]_vars => [PriceTableSpec!Next]_(StoredBars(synced))
  <2> SUFFICES ASSUME TypeOK, TypeOK', [Next]_vars
               PROVE  \/ StoredBars(synced') = StoredBars(synced)
                      \/ /\ StoredBars(synced') \in PriceTableSpec!Table
                         /\ PriceTableSpec!Keeps(StoredBars(synced), StoredBars(synced'))
    BY DEF PriceTableSpec!Next, StoredBars
  <2>1. synced \in [Tickers -> Nat] /\ synced' \in [Tickers -> Nat]
    BY DEF TypeOK, Days
  <2>2. CASE UNCHANGED synced
    BY <2>2
  <2>3. CASE Sync
    <3>1. \A t \in Tickers : synced[t] <= synced'[t]
      BY <2>1, <2>3 DEF Sync, Later
    <3> QED BY <2>1, <3>1, StoredBarsAreComplete, LaterKeepsBars
  <2>4. UNCHANGED synced \/ Sync
    BY DEF Next, vars, Tick, Start, ReadPrice, SavePrediction, SkipPrediction,
           FindMatured, ReadEvaluationPrice, SkipEvaluation, SaveActual, Finish, Crash
  <2> QED BY <2>2, <2>3, <2>4
<1>4. TypeOK /\ TypeOK' /\ [Next]_vars =>
          [PriceTableSpec!Next]_([t \in Tickers |->
              [d \in Days |-> IF d \in TradingDays /\ d <= synced[t] THEN d ELSE None]])
  BY <1>3 DEF StoredBars
<1> QED BY <1>2, <1>4, TrackerTypes, PTL DEF Spec, ReadsPriceTable, PriceTableSpec!Spec

\* A non-empty set of days has a last one.
LEMMA LastExists ==
    ASSUME NEW S \in SUBSET Days, S # {}
    PROVE  \E m \in S : \A d \in S : d <= m
<1> DEFINE From(d) == {e \in S : d <= e}
           F == {From(d) : d \in S}
<1>1. IsFiniteSet(Days)
  BY FS_Interval, DaysAssumption DEF Days
<1>2. IsWellFoundedOn(StrictSubsetOrdering(Days), SUBSET Days)
  <2>1. FiniteSubsetsOf(Days) = SUBSET Days
    BY <1>1, FS_FiniteSubsetsOfFinite
  <2> QED BY <1>1, <2>1, FS_StrictSubsetOrderingWellFounded
<1>3. F \subseteq SUBSET Days /\ F # {}
  OBVIOUS
<1>4. \E U \in F : \A V \in F : ~(<<V, U>> \in StrictSubsetOrdering(Days))
  <2> HIDE DEF F
  <2> QED BY <1>2, <1>3, WFMin
<1>5. PICK U \in F : \A V \in F : V \subseteq U => V = U
  <2> HIDE DEF F
  <2> QED BY <1>3, <1>4 DEF StrictSubsetOrdering
<1>6. PICK m \in S : U = From(m)
  OBVIOUS
<1>7. ASSUME NEW d \in S, m < d PROVE FALSE
  <2>1. m \in Int /\ d \in Int /\ \A e \in S : e \in Int
    BY DEF Days
  <2>2. m \in From(m) /\ m \notin From(d)
    BY <1>7, <2>1
  <2>3. From(d) \subseteq From(m)
    <3> SUFFICES ASSUME NEW e \in S, d <= e PROVE m <= e
      OBVIOUS
    <3> QED BY <1>7, <2>1
  <2>4. From(d) \in F
    OBVIOUS
  <2> QED BY <1>5, <1>6, <2>2, <2>3, <2>4
<1>8. \A d \in S : d \in Int
  BY DEF Days
<1> QED BY <1>7, <1>8

\* A table in the terms of this module: the close of a bar is its day.
BarDays(table) ==
    [t \in Tickers |-> [d \in Days |-> IF table[t][d] # None THEN d ELSE None]]

\* The bars of one ticker, when no session is left out and those up to a day are
\* there, are those of the sessions up to that day or a later one.
LEMMA SessionsUpToADay ==
    ASSUME NEW bars \in SUBSET TradingDays, NEW last \in Days, NEW old \in 0..last,
           \A d \in bars : d <= last,
           \A d \in bars, e \in TradingDays : e < d => e \in bars,
           \A d \in TradingDays : d <= old => d \in bars
    PROVE  \E day \in 0..last : old <= day /\ bars = {d \in TradingDays : d <= day}
<1>1. \A d \in TradingDays : d \in Days /\ d \in Int
  BY DEF TradingDays, Days
<1>2. CASE \A d \in bars : d <= old
  <2>1. bars = {d \in TradingDays : d <= old}
    BY <1>2
  <2> QED BY <2>1 DEF Days
<1>3. CASE \E d \in bars : ~(d <= old)
  <2>1. bars \in SUBSET Days /\ bars # {}
    BY <1>1, <1>3
  <2>2. PICK m \in bars : \A d \in bars : d <= m
    BY <2>1, LastExists
  <2>3. m \in 0..last /\ old <= m
    BY <1>1, <1>3, <2>1, <2>2 DEF Days
  <2>4. \A d \in TradingDays : d <= m => d \in bars
    BY <1>1, <2>2
  <2>5. bars = {d \in TradingDays : d <= m}
    BY <2>2, <2>4
  <2> QED BY <2>3, <2>5
<1> QED BY <1>2, <1>3

\* Whatever a table of closes that PriceTable allows holds after another, up to
\* today, is what one step of Sync stores: the logger is shown every price table
\* sync_prices.py may leave, and what is proved of it assumes nothing else of one.
THEOREM LoggerTakesAnyPriceTable ==
    ASSUME TypeOK, NEW old, NEW new,
           BarDays(old) = StoredBars(synced),
           PriceTableSpec!Keeps(old, new),
           PriceTableSpec!Complete(new), PriceTableSpec!OnSessions(new),
           \A t \in Tickers, d \in Days : new[t][d] # None => d <= today
    PROVE  \E upTo \in [Tickers -> 0..today] :
               Later(upTo) /\ BarDays(new) = StoredBars(upTo)
<1> DEFINE HasBars(t, day) ==
               {d \in Days : new[t][d] # None} = {d \in TradingDays : d <= day}
           Right(t, day) == synced[t] <= day /\ HasBars(t, day)
<1>1. today \in Days /\ synced \in [Tickers -> 0..today]
  BY DEF TypeOK
<1>2. TradingDays \subseteq Days /\ \A d \in Days : d # None
  BY DEF TradingDays, Days, None
<1>3. ASSUME NEW t \in Tickers
      PROVE  \E day \in 0..today : Right(t, day)
  <2> DEFINE bars == {d \in Days : new[t][d] # None}
  <2>1. bars \in SUBSET TradingDays /\ \A d \in bars : d <= today
    BY DEF PriceTableSpec!OnSessions
  <2>2. \A d \in bars, e \in TradingDays : e < d => e \in bars
    BY <1>2 DEF PriceTableSpec!Complete
  <2>3. ASSUME NEW d \in TradingDays, d <= synced[t] PROVE d \in bars
    <3>1. StoredBars(synced)[t][d] = d
      BY <1>2, <2>3 DEF StoredBars
    <3>2. BarDays(old)[t][d] = d
      BY <3>1
    <3>3. old[t][d] # None
      BY <1>2, <3>2 DEF BarDays
    <3> QED BY <1>2, <3>3 DEF PriceTableSpec!Keeps
  <2>4. synced[t] \in 0..today
    BY <1>1
  <2> HIDE DEF bars
  <2>5. \E day \in 0..today : synced[t] <= day /\ bars = {d \in TradingDays : d <= day}
    BY <1>1, <2>1, <2>2, <2>3, <2>4, SessionsUpToADay
  <2> QED BY <2>5 DEF bars
<1> DEFINE upTo == [t \in Tickers |-> CHOOSE day \in 0..today : Right(t, day)]
<1>4. \A t \in Tickers : upTo[t] \in 0..today /\ Right(t, upTo[t])
  <2> HIDE DEF Right
  <2> QED BY <1>3
<1> HIDE DEF upTo
<1>5. ASSUME NEW t \in Tickers, NEW d \in Days
      PROVE  new[t][d] # None <=> d \in TradingDays /\ d <= upTo[t]
  <2>1. HasBars(t, upTo[t])
    BY <1>4
  <2>2. d \in {e \in Days : new[t][e] # None} <=> d \in {e \in TradingDays : e <= upTo[t]}
    BY <2>1
  <2> QED BY <2>2
<1>6. BarDays(new) = StoredBars(upTo)
  BY <1>5 DEF BarDays, StoredBars
<1>7. upTo \in [Tickers -> 0..today]
  BY <1>4 DEF upTo
<1> QED BY <1>4, <1>6, <1>7 DEF Later
===============================================================================
