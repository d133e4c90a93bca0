------------------------- MODULE StreamlitSessionProofs -------------------------
(***************************************************************************)
(* Theorems about StreamlitSession, for every universe of tickers, every    *)
(* number of events and of frontier points, and every weight the user types.*)
(***************************************************************************)
EXTENDS StreamlitSession, FiniteSetTheorems, TLAPS

\* Where the script is before simulate() is called, while it runs, and after it.
Handing == {"start", "configure", "request"}
Busy == {"saving", "loop", "completed"}
After == {"returned", "keeping", "rejected", "raised", "clearing"}

\* The fields of session_state, and of a row.
IsState(s) ==
    s = [tickers |-> s.tickers, weights |-> s.weights, source |-> s.source,
         committed |-> s.committed, curve |-> s.curve, runFromMain |-> s.runFromMain,
         status |-> s.status, result |-> s.result, lastConfig |-> s.lastConfig]

IsRow(r) == r = [status |-> r.status, rows |-> r.rows, over |-> r.over, config |-> r.config]

Shape ==
    /\ IsState(state)
    /\ DOMAIN runs = 1..Events
    /\ \A i \in 1..Events : IsRow(runs[i])

\* What may still become a back-test: a press of the button the script has not come to,
\* run_from_main, a configuration the gate let through.
Pressed == IF pressed = <<"run">> THEN 1 ELSE 0
Flagged == IF state.runFromMain THEN 1 ELSE 0
Configured == IF config # None /\ pc \in {"f1", "step3"} \cup Handing THEN 1 ELSE 0

Claims == Pressed + Flagged + Configured

\* Each of them comes from a click of its own.
ClaimsInv ==
    /\ current \in Nat /\ clicks \in Nat /\ events \in Nat
    /\ clicks <= events /\ events <= Events
    /\ current + Claims <= clicks
    /\ pc \in Handing => config # None

Row(i, s, n) == runs[i].status = s /\ runs[i].rows = n /\ runs[i].over = FALSE

\* While a back-test runs, run_status says so, its row is as far as the script is, and
\* the rows of later ones are not there.
RowInv ==
    /\ pc \in Busy => /\ current \in 1..Events
                      /\ state.status = "running"
                      /\ state.lastConfig = config
                      /\ state.result # current
    /\ \A i \in 1..Events : i > current => Row(i, "none", 0)
    /\ pc = "saving" => Row(current, "none", 0)
    /\ pc = "loop" => Row(current, "running", 0) /\ runs[current].config = config
    /\ pc = "completed" => Row(current, "completed", 0) /\ runs[current].config = config

Stored(i) == runs[i].status = "completed" /\ runs[i].rows = 1

\* The assignments one after the other: run_status goes first, and says running until
\* the row that it speaks of is stored.
AssignInv ==
    /\ pc \in {"configure", "request", "returned", "rejected", "raised"} =>
          state.status = "running"
    /\ pc = "clearing" => state.status = "failed"
    /\ pc = "request" => state.lastConfig = config
    /\ pc \in {"returned", "keeping"} => /\ current \in 1..Events
                                         /\ runs[current].config = config
                                         /\ Stored(current)
                                         /\ state.lastConfig = config

ResultInv ==
    /\ state.result \in 0..current
    /\ state.result # 0 => Stored(state.result)
    /\ CompletedIsLatest

\* The inductive invariant.
SessionInv == Shape /\ ClaimsInv /\ RowInv /\ AssignInv /\ ResultInv

-------------------------------------------------------------------------------

\* A fresh session has started nothing.
LEMMA SessionInit == Init => SessionInv
<1> SUFFICES ASSUME Init PROVE SessionInv
  OBVIOUS
<1>1. Shape
  <2>1. IsState(state)
    BY DEF Init, IsState
  <2>2. DOMAIN runs = 1..Events /\ \A i \in 1..Events : IsRow(runs[i])
    BY DEF Init, IsRow
  <2> QED BY <2>1, <2>2 DEF Shape
<1>2. ClaimsInv
  <2>1. Claims = 0
    BY DEF Init, Claims, Pressed, Flagged, Configured, Nothing
  <2> QED BY <2>1, SessionAssumption DEF Init, ClaimsInv, Handing
<1>3. RowInv
  BY DEF Init, RowInv, Row, Busy
<1>4. ResultInv
  BY DEF Init, ResultInv, CompletedIsLatest
<1>5. AssignInv
  BY DEF Init, AssignInv
<1> QED BY <1>1, <1>2, <1>3, <1>4, <1>5 DEF SessionInv

\* A step outside the back-test: the result that is shown stays, and so do the rows, but
\* that the run of one may be over.
Calm ==
    /\ current' = current
    /\ state'.status = state.status
    /\ state'.result = state.result
    /\ state'.lastConfig = state.lastConfig
    /\ pc' \in {"top", "weights", "gate", "f1", "step3", "start", "show", "idle"}
    /\ pc' = "show" => config' = None
    /\ \A i \in 1..Events : /\ runs'[i].status = runs[i].status
                            /\ runs'[i].rows = runs[i].rows
                            /\ runs'[i].config = runs[i].config
                            /\ i > current => runs'[i].over = runs[i].over

LEMMA CalmStep ==
    ASSUME SessionInv, Calm, Shape', ClaimsInv'
    PROVE  SessionInv'
<1>1. RowInv'
  BY DEF SessionInv, RowInv, Row, Calm, Busy
<1>2. ResultInv'
  <2>1. state.result \in 0..current /\ state'.result \in 0..current'
    BY DEF SessionInv, ResultInv, Calm
  <2>2. current <= Events /\ current \in Nat
    BY SessionAssumption
    DEF SessionInv, ClaimsInv, Claims, Pressed, Flagged, Configured
  <2>3. ASSUME state'.result # 0 PROVE Stored(state.result)'
    <3>1. Stored(state.result) /\ state'.result = state.result
      BY <2>3 DEF SessionInv, ResultInv, Calm
    <3>2. state.result \in 1..Events
      BY <2>1, <2>2, <2>3, <3>1, SessionAssumption
    <3> QED BY <3>1, <3>2 DEF Stored, Calm
  <2>4. CompletedIsLatest'
    <3>1. CASE state.status # "completed"
      BY <3>1 DEF Calm, CompletedIsLatest
    <3>2. CASE state.status = "completed"
      <4>1. /\ current # 0 /\ Stored(current)
            /\ runs[current].config = state.lastConfig
        BY <3>2 DEF SessionInv, ResultInv, CompletedIsLatest, Stored
      <4>2. current \in 1..Events
        BY <2>2, <4>1, SessionAssumption
      <4> QED BY <2>3, <4>1, <4>2 DEF Calm, CompletedIsLatest, Stored
    <3> QED BY <3>1, <3>2
  <2> QED BY <2>1, <2>3, <2>4 DEF ResultInv
<1>3. AssignInv'
  BY DEF Calm, AssignInv
<1> QED BY <1>1, <1>2, <1>3 DEF SessionInv

-------------------------------------------------------------------------------
(* Events of the user.                                                      *)

\* An interrupted script run has lost what the gate let through, and the press that
\* had started it unless the new event is one.
LEMMA InterruptCalm ==
    ASSUME SessionInv, NEW button, Interrupt(button)
    PROVE  /\ current' = current /\ pc' = "top" /\ pressed' = button /\ config' = None
           /\ events' = events + 1 /\ events < Events
           /\ DOMAIN runs' = 1..Events /\ \A i \in 1..Events : IsRow(runs'[i])
           /\ \A i \in 1..Events : /\ runs'[i].status = runs[i].status
                                   /\ runs'[i].rows = runs[i].rows
                                   /\ runs'[i].config = runs[i].config
                                   /\ i > current => runs'[i].over = runs[i].over
<1>1. /\ current' = current /\ pc' = "top" /\ pressed' = button /\ config' = None
      /\ events' = events + 1 /\ events < Events
      /\ runs' = IF pc = "loop" THEN [runs EXCEPT ![current].over = TRUE] ELSE runs
  BY DEF Interrupt
<1>2. DOMAIN runs = 1..Events /\ \A i \in 1..Events : IsRow(runs[i])
  BY DEF SessionInv, Shape
<1>3. CASE pc = "loop"
  <2>1. current \in 1..Events
    BY <1>3 DEF SessionInv, RowInv, Busy
  <2> DEFINE row == [runs[current] EXCEPT !.over = TRUE]
  <2>2. runs' = [runs EXCEPT ![current] = row]
    BY <1>1, <1>3
  <2>3. /\ IsRow(row) /\ row.status = runs[current].status
        /\ row.rows = runs[current].rows /\ row.config = runs[current].config
    <3> DEFINE r == runs[current]
    <3>1. IsRow(r)
      BY <1>2, <2>1
    <3> HIDE DEF r
    <3>2. row = [r EXCEPT !.over = TRUE]
      BY DEF r
    <3> HIDE DEF row
    <3>3. row = [status |-> r.status, rows |-> r.rows, over |-> TRUE, config |-> r.config]
      BY <3>1, <3>2 DEF IsRow
    <3>4. /\ IsRow(row) /\ row.status = r.status /\ row.rows = r.rows
          /\ row.config = r.config
      BY <3>3 DEF IsRow
    <3> QED BY <3>4 DEF r
  <2> HIDE DEF row
  <2>4. DOMAIN runs' = 1..Events
    BY <1>2, <2>2
  <2>5. \A i \in 1..Events : runs'[i] = IF i = current THEN row ELSE runs[i]
    BY <1>2, <2>2
  <2>6. current \in Int
    BY <2>1
  <2>7. \A i \in 1..Events : i > current => i # current
    BY <2>6
  <2>8. \A i \in 1..Events : /\ runs'[i].status = runs[i].status
                             /\ runs'[i].rows = runs[i].rows
                             /\ runs'[i].config = runs[i].config
                             /\ i > current => runs'[i].over = runs[i].over
    BY <2>3, <2>5, <2>7
  <2>9. \A i \in 1..Events : IsRow(runs'[i])
    BY <1>2, <2>3, <2>5
  <2> QED BY <1>1, <2>4, <2>8, <2>9
<1>4. CASE pc # "loop"
  BY <1>1, <1>2, <1>4
<1> QED BY <1>3, <1>4

LEMMA UserStep == ASSUME SessionInv, User PROVE SessionInv'
<1>1. /\ IsState(state) /\ current \in Nat /\ clicks \in Nat /\ events \in Nat
      /\ clicks <= events /\ current + Flagged <= clicks
  BY DEF SessionInv, Shape, ClaimsInv, Claims, Pressed, Flagged, Configured
<1>2. ASSUME NEW button, Interrupt(button),
             \/ clicks' = clicks /\ button # <<"run">>
             \/ clicks' = clicks + 1,
             IsState(state'), state'.runFromMain = state.runFromMain,
             state'.status = state.status, state'.result = state.result,
             state'.lastConfig = state.lastConfig
      PROVE  SessionInv'
  <2>1. /\ current' = current /\ pc' = "top" /\ pressed' = button /\ config' = None
        /\ events' = events + 1 /\ events < Events
    BY <1>2, InterruptCalm
  <2>3. ClaimsInv'
    BY <1>1, <1>2, <2>1, SessionAssumption
    DEF ClaimsInv, Claims, Pressed, Flagged, Configured, Handing
  <2>4. Shape'
    BY <1>2, InterruptCalm DEF Shape
  <2>5. Calm
    BY <1>2, InterruptCalm DEF Calm
  <2> QED BY <2>3, <2>4, <2>5, CalmStep
<1>3. ASSUME NEW button, Touch(button), button # <<"run">> PROVE SessionInv'
  BY <1>1, <1>2, <1>3 DEF Touch
<1>4. ASSUME NEW field, NEW value, SetWidget(field, value) PROVE SessionInv'
  BY <1>1, <1>2, <1>4 DEF SetWidget, Nothing
<1>5. ASSUME NEW t \in Universe, AddTicker(t) \/ RemoveTicker(t) PROVE SessionInv'
  BY <1>3, <1>5 DEF AddTicker, RemoveTicker
<1>6. ASSUME NEW upper \in Bounds, ClickCompute(upper) PROVE SessionInv'
  BY <1>3, <1>6 DEF ClickCompute
<1>7. ASSUME NEW t \in Universe, NEW pct \in WeightInputs, SetWeight(t, pct) PROVE SessionInv'
  BY <1>4, <1>7 DEF SetWeight
<1>8. ASSUME NEW mode, NEW dates, NEW point, SetMode(mode) \/ SetDates(dates) \/ MovePoint(point)
      PROVE  SessionInv'
  BY <1>4, <1>8 DEF SetMode, SetDates, MovePoint
<1>9. CASE ClickRun
  BY <1>1, <1>2, <1>9 DEF ClickRun
<1>10. CASE ClickApply
  <2>1. /\ Interrupt(Nothing) /\ clicks' = clicks
        /\ state' = [state EXCEPT !.weights = page.apply.weights, !.source = page.apply.point]
    BY <1>10 DEF ClickApply
  <2>2. /\ IsState(state') /\ state'.runFromMain = state.runFromMain
        /\ state'.status = state.status /\ state'.result = state.result
        /\ state'.lastConfig = state.lastConfig
    BY <1>1, <2>1 DEF IsState
  <2> QED BY <1>2, <2>1, <2>2 DEF Nothing
<1>11. CASE ClickCancel
  <2>1. Interrupt(Nothing) /\ clicks' = clicks /\ state' = [state EXCEPT !.source = 0]
    BY <1>11 DEF ClickCancel
  <2>2. /\ IsState(state') /\ state'.runFromMain = state.runFromMain
        /\ state'.status = state.status /\ state'.result = state.result
        /\ state'.lastConfig = state.lastConfig
    BY <1>1, <2>1 DEF IsState
  <2> QED BY <1>2, <2>1, <2>2 DEF Nothing
<1> QED BY <1>5, <1>6, <1>7, <1>8, <1>9, <1>10, <1>11 DEF User

-------------------------------------------------------------------------------
(* One run of the script.                                                   *)

LEMMA NoMore ==
    \A c, k, m, n \in Nat : c + m <= k /\ n <= m => c + n <= k
OBVIOUS

\* Each row makes a step of RunLifecycle or none.
Obeys == \A i \in 1..Events : Run(i)!Next \/ runs'[i] = runs[i]

\* What a step that writes no row leaves alone.
LEMMA QuietStep ==
    ASSUME SessionInv, UNCHANGED <<events, clicks, runs, current>>, IsState(state'),
           Claims' <= Claims, pc' \in Handing => config' # None
    PROVE  /\ Shape' /\ ClaimsInv' /\ Obeys
           /\ \A i \in 1..Events : i > current' => Row(i, "none", 0)'
<1>1. Shape' /\ Obeys
  BY DEF SessionInv, Shape, Obeys
<1>2. ClaimsInv'
  <2>1. Claims \in Nat /\ Claims' \in Nat
    BY DEF Claims, Pressed, Flagged, Configured
  <2>2. /\ current \in Nat /\ clicks \in Nat /\ events \in Nat
        /\ clicks <= events /\ events <= Events /\ current + Claims <= clicks
    BY DEF SessionInv, ClaimsInv
  <2>3. current + Claims' <= clicks
    BY <2>1, <2>2, NoMore, Zenon
  <2> QED BY <2>2, <2>3 DEF ClaimsInv
<1>3. \A i \in 1..Events : i > current' => Row(i, "none", 0)'
  BY DEF SessionInv, RowInv, Row
<1> QED BY <1>1, <1>2, <1>3

\* The steps of the script before and after the back-test.
LEMMA ScriptCalm ==
    ASSUME SessionInv, UNCHANGED <<events, clicks, runs, current>>,
           pc' \in {"top", "weights", "gate", "f1", "step3", "start", "show", "idle"},
           IsState(state'), state'.status = state.status, state'.result = state.result,
           state'.lastConfig = state.lastConfig,
           Claims' <= Claims,
           pc' = "start" => config' # None,
           pc' = "show" => config' = None
    PROVE  SessionInv'
<1>1. Shape' /\ ClaimsInv'
  BY QuietStep DEF Handing
<1>2. Calm
  BY DEF Calm
<1> QED BY <1>1, <1>2, CalmStep

LEMMA TopStep == ASSUME SessionInv, RenderTop PROVE SessionInv'
<1>1. IsState(state)
  BY DEF SessionInv, Shape
<1>2. /\ pc = "top" /\ pc' \in {"top", "weights"} /\ config' = config
      /\ UNCHANGED <<events, clicks, runs, current>>
      /\ pressed' \in {pressed, Nothing}
  BY DEF RenderTop, Rerun, ScriptUnchanged
<1>3. /\ IsState(state') /\ state'.status = state.status /\ state'.result = state.result
      /\ state'.lastConfig = state.lastConfig /\ state'.runFromMain = state.runFromMain
  <2>1. CASE state' = state
    BY <1>1, <2>1
  <2>2. CASE state' = [state EXCEPT !.tickers = Append(@, pressed[2]),
                                    !.weights[pressed[2]] = 0]
    BY <1>1, <2>2 DEF IsState
  <2> QED BY <2>1, <2>2 DEF RenderTop
<1>4. Claims' <= Claims
  BY <1>2, <1>3 DEF Claims, Pressed, Flagged, Configured, Handing, Nothing
<1> QED BY <1>2, <1>3, <1>4, ScriptCalm

LEMMA WeightsStep == ASSUME SessionInv, RenderWeights PROVE SessionInv'
<1>1. IsState(state)
  BY DEF SessionInv, Shape
<1>2. /\ pc = "weights" /\ pc' \in {"top", "gate"} /\ config' = config
      /\ UNCHANGED <<events, clicks, runs, current>>
      /\ pressed' \in {pressed, Nothing}
  BY DEF RenderWeights, RemovePressed, CommitWeights, Rerun, ScriptUnchanged
<1>3. /\ IsState(state') /\ state'.status = state.status /\ state'.result = state.result
      /\ state'.lastConfig = state.lastConfig /\ state'.runFromMain = state.runFromMain
  <2>1. CASE RemovePressed
    <3>1. PICK tickers, weights :
             state' = [state EXCEPT !.tickers = tickers, !.weights = weights]
      BY <2>1 DEF RemovePressed
    <3> QED BY <1>1, <3>1 DEF IsState
  <2>2. CASE CommitWeights
    <3>1. PICK weights, committed :
             state' = [state EXCEPT !.weights = weights, !.committed = committed]
      BY <2>2 DEF CommitWeights
    <3> QED BY <1>1, <3>1 DEF IsState
  <2> QED BY <2>1, <2>2 DEF RenderWeights
<1>4. Claims' <= Claims
  BY <1>2, <1>3 DEF Claims, Pressed, Flagged, Configured, Handing, Nothing
<1> QED BY <1>2, <1>3, <1>4, ScriptCalm

\* run_from_main is exchanged for a configuration.
LEMMA GateStep == ASSUME SessionInv, Gate PROVE SessionInv'
<1>1. IsState(state)
  BY DEF SessionInv, Shape
<1>2. /\ pc = "gate" /\ pc' = "f1" /\ pressed' = pressed
      /\ UNCHANGED <<events, clicks, runs, current>>
      /\ state' = [state EXCEPT !.runFromMain = FALSE]
      /\ ~state.runFromMain => config' = None
  BY DEF Gate, ScriptUnchanged, FlagAfterGate
<1>3. /\ IsState(state') /\ state'.status = state.status /\ state'.result = state.result
      /\ state'.lastConfig = state.lastConfig /\ state'.runFromMain = FALSE
  BY <1>1, <1>2 DEF IsState
<1>4. Claims' <= Claims
  BY <1>2, <1>3 DEF Claims, Pressed, Flagged, Configured, Handing, Nothing
<1> QED BY <1>2, <1>3, <1>4, ScriptCalm

LEMMA FrontierStep == ASSUME SessionInv, RenderFrontier PROVE SessionInv'
<1>1. IsState(state)
  BY DEF SessionInv, Shape
<1>2. /\ pc = "f1" /\ ComputeFrontier /\ pressed' = pressed
      /\ UNCHANGED <<events, clicks, runs, current>>
      /\ \/ pc' = "idle" /\ config' = None
         \/ pc' = "step3" /\ config' = config
  BY DEF RenderFrontier, ScriptUnchanged
<1>3. /\ IsState(state') /\ state'.status = state.status /\ state'.result = state.result
      /\ state'.lastConfig = state.lastConfig /\ state'.runFromMain = state.runFromMain
  <2>1. state' = state \/ \E curve : state' = [state EXCEPT !.curve = curve]
    BY <1>2 DEF ComputeFrontier
  <2> QED BY <1>1, <2>1 DEF IsState
<1>4. Claims' <= Claims
  BY <1>2, <1>3 DEF Claims, Pressed, Flagged, Configured, Handing, Nothing
<1> QED BY <1>2, <1>3, <1>4, ScriptCalm

\* A press of the button is exchanged for run_from_main.
LEMMA ThreeStep == ASSUME SessionInv, RenderStepThree PROVE SessionInv'
<1>1. IsState(state)
  BY DEF SessionInv, Shape
<1>2. /\ pc = "step3" /\ pressed' = Nothing
      /\ UNCHANGED <<events, clicks, runs, current>>
      /\ \/ /\ pressed = <<"run">> /\ pc' = "top" /\ config' = None
            /\ state' = [state EXCEPT !.runFromMain = TRUE]
         \/ /\ pc' = (IF config = None THEN "show" ELSE "start")
            /\ state' = state /\ config' = config
  BY DEF RenderStepThree, ScriptUnchanged, PressedAfter
<1>3. /\ IsState(state') /\ state'.status = state.status /\ state'.result = state.result
      /\ state'.lastConfig = state.lastConfig
  BY <1>1, <1>2 DEF IsState
<1>4. Claims' <= Claims
  BY <1>2 DEF Claims, Pressed, Flagged, Configured, Handing, Nothing
<1>5. /\ pc' \in {"top", "show", "start"}
      /\ (pc' = "start" => config' # None) /\ (pc' = "show" => config' = None)
  BY <1>2
<1> QED BY <1>2, <1>3, <1>4, <1>5, ScriptCalm

LEMMA ShowStep == ASSUME SessionInv, Show PROVE SessionInv'
<1>1. /\ pc' = "idle" /\ config' = None
      /\ UNCHANGED <<state, pressed, runs, current, events, clicks>>
  BY DEF Show
<1>2. IsState(state')
  BY <1>1 DEF SessionInv, Shape
<1>3. Claims' <= Claims
  BY <1>1 DEF Claims, Pressed, Flagged, Configured, Handing
<1> QED BY <1>1, <1>2, <1>3, ScriptCalm

-------------------------------------------------------------------------------
(* The back-test.                                                           *)

\* One row is written.
LEMMA Written ==
    ASSUME DOMAIN runs = 1..Events, NEW n \in 1..Events, NEW row,
           runs' = [runs EXCEPT ![n] = row]
    PROVE  /\ DOMAIN runs' = 1..Events
           /\ \A i \in 1..Events : i # n => runs'[i] = runs[i]
           /\ runs'[n] = row
OBVIOUS

\* What the script knows of the row it works on.
LEMMA CurrentRow ==
    ASSUME SessionInv, pc \in Busy
    PROVE  /\ IsState(state) /\ state.status = "running" /\ state.lastConfig = config
           /\ current \in 1..Events /\ DOMAIN runs = 1..Events
           /\ \E c : /\ runs[current] =
                          [status |-> IF pc = "saving" THEN "none"
                                      ELSE IF pc = "loop" THEN "running" ELSE "completed",
                           rows |-> 0, over |-> FALSE, config |-> c]
                     /\ pc # "saving" => c = config
<1>1. /\ IsState(state) /\ state.status = "running" /\ state.lastConfig = config
      /\ current \in 1..Events /\ DOMAIN runs = 1..Events
  BY DEF SessionInv, Shape, RowInv
<1> DEFINE r == runs[current]
<1>2. IsRow(r)
  BY <1>1 DEF SessionInv, Shape
<1>3. /\ pc \in {"saving", "loop", "completed"} /\ r.rows = 0 /\ r.over = FALSE
      /\ r.status = (IF pc = "saving" THEN "none"
                     ELSE IF pc = "loop" THEN "running" ELSE "completed")
      /\ pc # "saving" => r.config = config
  BY DEF SessionInv, RowInv, Row, Busy
<1> HIDE DEF r
<1>4. r = [status |-> IF pc = "saving" THEN "none"
                      ELSE IF pc = "loop" THEN "running" ELSE "completed",
           rows |-> 0, over |-> FALSE, config |-> r.config]
  BY <1>2, <1>3 DEF IsRow
<1> QED BY <1>1, <1>3, <1>4 DEF r

\* A step of simulate() writes its own row and nothing of session_state.
LEMMA RowFrame ==
    ASSUME SessionInv, pc \in Busy, DOMAIN runs' = 1..Events, IsRow(runs'[current]),
           \A i \in 1..Events : i # current => runs'[i] = runs[i],
           UNCHANGED <<state, pressed, current, events, clicks>>,
           pc' \notin {"f1", "step3"} \cup Handing
    PROVE  /\ Shape' /\ ClaimsInv' /\ ResultInv'
           /\ \A i \in 1..Events : i > current => Row(i, "none", 0)'
<1>1. current \in 1..Events
  BY CurrentRow
<1>2. Shape'
  BY DEF SessionInv, Shape
<1>3. Claims' <= Claims
  BY DEF Claims, Pressed, Flagged, Configured
<1>4. Claims \in Nat /\ Claims' \in Nat
  BY DEF Claims, Pressed, Flagged, Configured
<1>5. /\ current \in Nat /\ clicks \in Nat /\ events \in Nat
      /\ clicks <= events /\ events <= Events /\ current + Claims <= clicks
  BY DEF SessionInv, ClaimsInv
<1>6. current + Claims' <= clicks
  BY <1>3, <1>4, <1>5, NoMore, Zenon
<1>7. ClaimsInv'
  BY <1>5, <1>6 DEF ClaimsInv
<1>8. ASSUME NEW i \in 1..Events, i > current PROVE Row(i, "none", 0)'
  <2>1. runs'[i] = runs[i]
    BY <1>1, <1>8
  <2>2. Row(i, "none", 0)
    BY <1>8 DEF SessionInv, RowInv
  <2> QED BY <2>1, <2>2 DEF Row
<1>9. ResultInv'
  <2>1. state.status = "running" /\ state.result # current /\ state.result \in 0..current
    BY DEF SessionInv, RowInv, ResultInv
  <2>2. CompletedIsLatest'
    BY <2>1 DEF CompletedIsLatest
  <2>3. ASSUME state.result # 0 PROVE Stored(state.result)'
    <3>1. Stored(state.result) /\ state.result \in 1..Events
      BY <1>1, <1>5, <2>1, <2>3, SessionAssumption DEF SessionInv, ResultInv
    <3> QED BY <2>1, <3>1 DEF Stored
  <2> QED BY <2>1, <2>2, <2>3 DEF ResultInv
<1> QED BY <1>2, <1>7, <1>8, <1>9

\* run_status and last_config, before the back-test.
LEMMA StartStep == ASSUME SessionInv, StartBacktest PROVE SessionInv' /\ Obeys
<1>1. /\ IsState(state) /\ config # None /\ pc = "start" /\ pc' = "configure"
      /\ state' = [state EXCEPT !.status = "running"]
      /\ UNCHANGED <<pressed, config, runs, current, events, clicks>>
  BY DEF SessionInv, Shape, ClaimsInv, Handing, StartBacktest, StatusMeanwhile
<1>2. /\ IsState(state') /\ state'.status = "running" /\ state'.result = state.result
      /\ state'.runFromMain = state.runFromMain
  BY <1>1 DEF IsState
<1>3. Claims' <= Claims
  BY <1>1, <1>2 DEF Claims, Pressed, Flagged, Configured, Handing
<1>4. /\ Shape' /\ ClaimsInv' /\ Obeys
      /\ \A i \in 1..Events : i > current' => Row(i, "none", 0)'
  BY <1>1, <1>2, <1>3, QuietStep
<1>5. RowInv' /\ AssignInv'
  BY <1>1, <1>2, <1>4 DEF RowInv, AssignInv, Busy
<1>6. ResultInv'
  BY <1>1, <1>2 DEF SessionInv, ResultInv, CompletedIsLatest, Stored
<1> QED BY <1>4, <1>5, <1>6 DEF SessionInv

LEMMA KeepStep == ASSUME SessionInv, KeepConfig PROVE SessionInv' /\ Obeys
<1>1. /\ IsState(state) /\ config # None /\ pc = "configure" /\ pc' = "request"
      /\ state' = [state EXCEPT !.lastConfig = config] /\ state.status = "running"
      /\ UNCHANGED <<pressed, config, runs, current, events, clicks>>
  BY DEF SessionInv, Shape, ClaimsInv, AssignInv, Handing, KeepConfig
<1>2. /\ IsState(state') /\ state'.status = "running" /\ state'.result = state.result
      /\ state'.lastConfig = config /\ state'.runFromMain = state.runFromMain
  BY <1>1 DEF IsState
<1>3. Claims' <= Claims
  BY <1>1, <1>2 DEF Claims, Pressed, Flagged, Configured, Handing
<1>4. /\ Shape' /\ ClaimsInv' /\ Obeys
      /\ \A i \in 1..Events : i > current' => Row(i, "none", 0)'
  BY <1>1, <1>2, <1>3, QuietStep
<1>5. RowInv' /\ AssignInv'
  BY <1>1, <1>2, <1>4 DEF RowInv, AssignInv, Busy
<1>6. ResultInv'
  BY <1>1, <1>2 DEF SessionInv, ResultInv, CompletedIsLatest, Stored
<1> QED BY <1>4, <1>5, <1>6 DEF SessionInv

\* A configuration is exchanged for a back-test.
LEMMA SendStep == ASSUME SessionInv, SendRequest PROVE SessionInv' /\ Obeys
<1>1. /\ IsState(state) /\ config # None /\ pc = "request"
      /\ state.status = "running" /\ state.lastConfig = config
      /\ UNCHANGED <<state, pressed, config, runs, events, clicks>>
  BY DEF SessionInv, Shape, ClaimsInv, AssignInv, Handing, SendRequest
<1>2. Obeys
  BY <1>1 DEF Obeys
<1>3. CASE RequestAccepts(config.weights, config.dates)
  <2>1. pc' = "saving" /\ current' = current + 1
    BY <1>3 DEF SendRequest
  <2>2. /\ current \in Nat /\ clicks \in Nat /\ events \in Nat
        /\ clicks <= events /\ events <= Events /\ current + Claims <= clicks
    BY DEF SessionInv, ClaimsInv
  <2>3. ClaimsInv'
    BY <1>1, <2>1, <2>2 DEF ClaimsInv, Claims, Pressed, Flagged, Configured, Handing
  <2>4. current + 1 <= Events
    <3>1. Claims \in Nat /\ Claims >= 1
      BY <1>1 DEF Claims, Pressed, Flagged, Configured, Handing
    <3> QED BY <2>2, <3>1, SessionAssumption
  <2>5. current + 1 \in 1..Events
    BY <2>2, <2>4, SessionAssumption
  <2>6. \A i \in 1..Events : i > current => Row(i, "none", 0)
    BY DEF SessionInv, RowInv
  <2>7. \A i \in 1..Events : i > current => Row(i, "none", 0)'
    BY <1>1, <2>6 DEF Row
  <2>8. state.result \in 0..current
    BY DEF SessionInv, ResultInv
  <2>9. RowInv'
    <3>1. \A i \in 1..Events : i > current' => Row(i, "none", 0)'
      BY <2>1, <2>2, <2>7
    <3>2. PICK n : n = current + 1
      OBVIOUS
    <3>3. Row(n, "none", 0) /\ current' = n /\ state.result # n
      BY <2>1, <2>2, <2>5, <2>6, <2>8, <3>2
    <3>4. Row(current, "none", 0)' /\ state'.result # current'
      BY <1>1, <3>3 DEF Row
    <3> QED BY <1>1, <2>1, <2>5, <3>1, <3>4 DEF RowInv, Busy
  <2>10. ResultInv' /\ AssignInv'
    BY <1>1, <2>1, <2>2, <2>8
    DEF SessionInv, ResultInv, CompletedIsLatest, Stored, AssignInv
  <2>11. Shape'
    BY <1>1 DEF SessionInv, Shape
  <2> QED BY <1>2, <2>3, <2>9, <2>10, <2>11 DEF SessionInv
<1>4. CASE ~RequestAccepts(config.weights, config.dates)
  <2>1. pc' = "rejected" /\ current' = current
    BY <1>4 DEF SendRequest
  <2>2. Claims' <= Claims
    BY <1>1, <2>1 DEF Claims, Pressed, Flagged, Configured, Handing
  <2>3. /\ Shape' /\ ClaimsInv'
        /\ \A i \in 1..Events : i > current' => Row(i, "none", 0)'
    BY <1>1, <2>1, <2>2, QuietStep DEF Handing
  <2>4. RowInv' /\ AssignInv'
    BY <1>1, <2>1, <2>3 DEF RowInv, AssignInv, Busy
  <2>5. ResultInv'
    BY <1>1, <2>1 DEF SessionInv, ResultInv, CompletedIsLatest, Stored
  <2> QED BY <1>2, <2>3, <2>4, <2>5 DEF SessionInv
<1> QED BY <1>3, <1>4

LEMMA OpenStep == ASSUME SessionInv, OpenRun PROVE SessionInv' /\ Obeys
<1>1. /\ pc = "saving" /\ pc' = "loop"
      /\ runs' = [runs EXCEPT ![current] =
                     [runs[current] EXCEPT !.status = "running", !.config = config]]
      /\ UNCHANGED <<state, pressed, config, current, events, clicks>>
  BY DEF OpenRun
<1>2. /\ IsState(state) /\ state.status = "running" /\ state.lastConfig = config
      /\ current \in 1..Events /\ DOMAIN runs = 1..Events
  BY <1>1, CurrentRow DEF Busy
<1>3. PICK c : runs[current] = [status |-> "none", rows |-> 0, over |-> FALSE, config |-> c]
  BY <1>1, CurrentRow DEF Busy
<1>4. /\ DOMAIN runs' = 1..Events
      /\ \A i \in 1..Events : i # current => runs'[i] = runs[i]
      /\ runs'[current] = [status |-> "running", rows |-> 0, over |-> FALSE, config |-> config]
  <2> DEFINE old == runs[current]
             row == [old EXCEPT !.status = "running", !.config = config]
  <2>1. runs' = [runs EXCEPT ![current] = row]
    BY <1>1
  <2> HIDE DEF row
  <2>2. /\ DOMAIN runs' = 1..Events
        /\ \A i \in 1..Events : i # current => runs'[i] = runs[i]
        /\ runs'[current] = row
    BY <1>2, <2>1, Written
  <2> HIDE DEF old
  <2>3. old = [status |-> "none", rows |-> 0, over |-> FALSE, config |-> c]
    BY <1>3 DEF old
  <2>4. row = [old EXCEPT !.status = "running", !.config = config]
    BY DEF row
  <2>5. row = [status |-> "running", rows |-> 0, over |-> FALSE, config |-> config]
    BY <2>3, <2>4
  <2> QED BY <2>2, <2>5
<1>5. IsRow(runs'[current])
  BY <1>4 DEF IsRow
<1>6. /\ Shape' /\ ClaimsInv' /\ ResultInv'
      /\ \A i \in 1..Events : i > current => Row(i, "none", 0)'
  BY <1>1, <1>2, <1>4, <1>5, RowFrame DEF Busy, Handing
<1>7. RowInv'
  <2>1. /\ runs'[current].status = "running" /\ runs'[current].rows = 0
        /\ runs'[current].over = FALSE /\ runs'[current].config = config
    BY <1>4
  <2>2. Row(current, "running", 0)' /\ runs'[current'].config = config'
    BY <1>1, <2>1 DEF Row
  <2>3. state.result # current
    BY <1>1 DEF SessionInv, RowInv, Busy
  <2> QED BY <1>1, <1>2, <1>6, <2>2, <2>3 DEF RowInv, Busy
<1>8. AssignInv'
  BY <1>1 DEF AssignInv
<1>9. ASSUME NEW i \in 1..Events, i = current PROVE Run(i)!Next
  <2>1. /\ runs[i].status = "none" /\ runs[i].rows = 0 /\ runs[i].over = FALSE
        /\ runs'[i].status = "running" /\ runs'[i].rows = 0 /\ runs'[i].over = FALSE
    BY <1>3, <1>4, <1>9
  <2>2. Run(i)!Open
    BY <2>1 DEF Run!Open
  <2> QED BY <2>2 DEF Run!Next
<1>10. Obeys
  BY <1>4, <1>9 DEF Obeys
<1> QED BY <1>6, <1>7, <1>8, <1>10 DEF SessionInv

LEMMA CompleteStep == ASSUME SessionInv, CompleteRun PROVE SessionInv' /\ Obeys
<1>1. /\ pc = "loop" /\ pc' = "completed"
      /\ runs' = [runs EXCEPT ![current] = [runs[current] EXCEPT !.status = "completed"]]
      /\ UNCHANGED <<state, pressed, config, current, events, clicks>>
  BY DEF CompleteRun
<1>2. /\ IsState(state) /\ state.status = "running" /\ state.lastConfig = config
      /\ current \in 1..Events /\ DOMAIN runs = 1..Events
  BY <1>1, CurrentRow DEF Busy
<1>3. runs[current] = [status |-> "running", rows |-> 0, over |-> FALSE, config |-> config]
  BY <1>1, CurrentRow DEF Busy
<1>4. /\ DOMAIN runs' = 1..Events
      /\ \A i \in 1..Events : i # current => runs'[i] = runs[i]
      /\ runs'[current] = [status |-> "completed", rows |-> 0, over |-> FALSE, config |-> config]
  <2> DEFINE old == runs[current]
             row == [old EXCEPT !.status = "completed"]
  <2>1. runs' = [runs EXCEPT ![current] = row]
    BY <1>1
  <2> HIDE DEF row
  <2>2. /\ DOMAIN runs' = 1..Events
        /\ \A i \in 1..Events : i # current => runs'[i] = runs[i]
        /\ runs'[current] = row
    BY <1>2, <2>1, Written
  <2> HIDE DEF old
  <2>3. old = [status |-> "running", rows |-> 0, over |-> FALSE, config |-> config]
    BY <1>3 DEF old
  <2>4. row = [old EXCEPT !.status = "completed"]
    BY DEF row
  <2>5. row = [status |-> "completed", rows |-> 0, over |-> FALSE, config |-> config]
    BY <2>3, <2>4
  <2> QED BY <2>2, <2>5
<1>5. IsRow(runs'[current])
  BY <1>4 DEF IsRow
<1>6. /\ Shape' /\ ClaimsInv' /\ ResultInv'
      /\ \A i \in 1..Events : i > current => Row(i, "none", 0)'
  BY <1>1, <1>2, <1>4, <1>5, RowFrame DEF Busy, Handing
<1>7. RowInv'
  BY <1>1, <1>2, <1>4, <1>6 DEF SessionInv, RowInv, Row, Busy
<1>8. AssignInv'
  BY <1>1 DEF AssignInv
<1>9. ASSUME NEW i \in 1..Events, i = current PROVE Run(i)!Next
  <2>1. /\ runs[i].status = "running" /\ runs[i].rows = 0 /\ runs[i].over = FALSE
        /\ runs'[i].status = "completed" /\ runs'[i].rows = 0 /\ runs'[i].over = FALSE
    BY <1>3, <1>4, <1>9
  <2>2. Run(i)!Complete
    BY <2>1 DEF Run!Complete
  <2> QED BY <2>2 DEF Run!Next
<1>10. Obeys
  BY <1>4, <1>9 DEF Obeys
<1> QED BY <1>6, <1>7, <1>8, <1>10 DEF SessionInv

\* The row is stored, with the configuration of last_config.
LEMMA ReturnStep == ASSUME SessionInv, ReturnResult PROVE SessionInv' /\ Obeys
<1>1. /\ pc = "completed" /\ pc' = "returned"
      /\ runs' = [runs EXCEPT ![current] =
                     [runs[current] EXCEPT !.rows = 1, !.over = TRUE]]
      /\ UNCHANGED <<state, pressed, config, current, events, clicks>>
  BY DEF ReturnResult
<1>2. /\ IsState(state) /\ state.status = "running" /\ state.lastConfig = config
      /\ current \in 1..Events /\ DOMAIN runs = 1..Events
  BY <1>1, CurrentRow DEF Busy
<1>3. runs[current] = [status |-> "completed", rows |-> 0, over |-> FALSE, config |-> config]
  BY <1>1, CurrentRow DEF Busy
<1>4. /\ DOMAIN runs' = 1..Events
      /\ \A i \in 1..Events : i # current => runs'[i] = runs[i]
      /\ runs'[current] = [status |-> "completed", rows |-> 1, over |-> TRUE, config |-> config]
  <2> DEFINE old == runs[current]
             row == [old EXCEPT !.rows = 1, !.over = TRUE]
  <2>1. runs' = [runs EXCEPT ![current] = row]
    BY <1>1
  <2> HIDE DEF row
  <2>2. /\ DOMAIN runs' = 1..Events
        /\ \A i \in 1..Events : i # current => runs'[i] = runs[i]
        /\ runs'[current] = row
    BY <1>2, <2>1, Written
  <2> HIDE DEF old
  <2>3. old = [status |-> "completed", rows |-> 0, over |-> FALSE, config |-> config]
    BY <1>3 DEF old
  <2>4. row = [old EXCEPT !.rows = 1, !.over = TRUE]
    BY DEF row
  <2>5. row = [status |-> "completed", rows |-> 1, over |-> TRUE, config |-> config]
    BY <2>3, <2>4
  <2> QED BY <2>2, <2>5
<1>5. IsRow(runs'[current])
  BY <1>4 DEF IsRow
<1>6. AssignInv'
  <2>1. /\ runs'[current].config = config /\ runs'[current].status = "completed"
        /\ runs'[current].rows = 1
    BY <1>4
  <2> QED BY <1>1, <1>2, <2>1 DEF AssignInv, Stored
<1>7. /\ Shape' /\ ClaimsInv' /\ ResultInv'
      /\ \A i \in 1..Events : i > current => Row(i, "none", 0)'
  BY <1>1, <1>4, <1>5, RowFrame DEF Busy, Handing
<1>8. RowInv'
  BY <1>1, <1>7 DEF RowInv, Busy
<1>9. ASSUME NEW i \in 1..Events, i = current PROVE Run(i)!Next
  <2>1. Run(i)!Persist
    BY <1>3, <1>4, <1>9 DEF Run!Persist
  <2> QED BY <2>1 DEF Run!Next
<1>10. Obeys
  BY <1>4, <1>9 DEF Obeys
<1> QED BY <1>6, <1>7, <1>8, <1>10 DEF SessionInv

\* The run is over and the row stays as it is.
LEMMA StopRow ==
    ASSUME SessionInv, pc \in Busy, runs' = [runs EXCEPT ![current].over = TRUE]
    PROVE  /\ DOMAIN runs' = 1..Events /\ IsRow(runs'[current])
           /\ \A i \in 1..Events : i # current => runs'[i] = runs[i]
           /\ \A i \in 1..Events : i = current => Run(i)!Next
<1> DEFINE old == runs[current]
           row == [old EXCEPT !.over = TRUE]
<1>1. current \in 1..Events /\ DOMAIN runs = 1..Events
  BY CurrentRow
<1>2. runs' = [runs EXCEPT ![current] = row]
  OBVIOUS
<1>3. PICK s, c : old = [status |-> s, rows |-> 0, over |-> FALSE, config |-> c]
  BY CurrentRow
<1> HIDE DEF row
<1>4. /\ DOMAIN runs' = 1..Events
      /\ \A i \in 1..Events : i # current => runs'[i] = runs[i]
      /\ runs'[current] = row
  BY <1>1, <1>2, Written
<1>5. row = [old EXCEPT !.over = TRUE]
  BY DEF row
<1> HIDE DEF old
<1>6. row = [status |-> s, rows |-> 0, over |-> TRUE, config |-> c]
  BY <1>3, <1>5
<1>7. IsRow(row)
  BY <1>6 DEF IsRow
<1>8. ASSUME NEW i \in 1..Events, i = current PROVE Run(i)!Next
  <2>1. /\ runs[i].status = s /\ runs[i].rows = 0 /\ runs[i].over = FALSE
        /\ runs'[i].status = s /\ runs'[i].rows = 0 /\ runs'[i].over = TRUE
    BY <1>3, <1>4, <1>6, <1>8 DEF old
  <2>2. Run(i)!Stop
    BY <2>1 DEF Run!Stop
  <2> QED BY <2>2 DEF Run!Next
<1> QED BY <1>4, <1>7, <1>8

LEMMA FailStep == ASSUME SessionInv, FailRun PROVE SessionInv' /\ Obeys
<1>1. /\ pc \in Busy /\ pc' = "raised"
      /\ \/ runs' = [runs EXCEPT ![current].over = TRUE]
         \/ /\ pc = "loop"
            /\ runs' = [runs EXCEPT ![current] =
                          [runs[current] EXCEPT !.status = "failed", !.over = TRUE]]
      /\ UNCHANGED <<state, pressed, config, current, events, clicks>>
  BY DEF FailRun, Busy, MarksFailed
<1>2. state.status = "running" /\ current \in 1..Events /\ DOMAIN runs = 1..Events
  BY <1>1, CurrentRow
<1>3. /\ DOMAIN runs' = 1..Events /\ IsRow(runs'[current])
      /\ \A i \in 1..Events : i # current => runs'[i] = runs[i]
      /\ \A i \in 1..Events : i = current => Run(i)!Next
  <2>1. CASE runs' = [runs EXCEPT ![current].over = TRUE]
    BY <1>1, <2>1, StopRow
  <2>2. CASE /\ pc = "loop"
             /\ runs' = [runs EXCEPT ![current] =
                           [runs[current] EXCEPT !.status = "failed", !.over = TRUE]]
    <3> DEFINE old == runs[current]
               row == [old EXCEPT !.status = "failed", !.over = TRUE]
    <3>1. runs' = [runs EXCEPT ![current] = row]
      BY <2>2
    <3>2. old = [status |-> "running", rows |-> 0, over |-> FALSE, config |-> config]
      BY <2>2, CurrentRow DEF Busy
    <3> HIDE DEF row
    <3>3. /\ DOMAIN runs' = 1..Events
          /\ \A i \in 1..Events : i # current => runs'[i] = runs[i]
          /\ runs'[current] = row
      BY <1>2, <3>1, Written
    <3>4. row = [old EXCEPT !.status = "failed", !.over = TRUE]
      BY DEF row
    <3> HIDE DEF old
    <3>5. row = [status |-> "failed", rows |-> 0, over |-> TRUE, config |-> config]
      BY <3>2, <3>4
    <3>6. IsRow(row)
      BY <3>5 DEF IsRow
    <3>7. ASSUME NEW i \in 1..Events, i = current PROVE Run(i)!Next
      <4>1. /\ runs[i].status = "running" /\ runs[i].rows = 0 /\ runs[i].over = FALSE
            /\ runs'[i].status = "failed" /\ runs'[i].rows = 0 /\ runs'[i].over = TRUE
        BY <3>2, <3>3, <3>5, <3>7 DEF old
      <4>2. Run(i)!Fail
        BY <4>1 DEF Run!Fail
      <4> QED BY <4>2 DEF Run!Next
    <3> QED BY <3>3, <3>6, <3>7
  <2> QED BY <1>1, <2>1, <2>2
<1>4. AssignInv'
  BY <1>1, <1>2 DEF AssignInv
<1>5. /\ Shape' /\ ClaimsInv' /\ ResultInv'
      /\ \A i \in 1..Events : i > current => Row(i, "none", 0)'
  BY <1>1, <1>3, RowFrame DEF Handing
<1>6. RowInv'
  BY <1>1, <1>5 DEF RowInv, Busy
<1>7. Obeys
  BY <1>3 DEF Obeys
<1> QED BY <1>4, <1>5, <1>6, <1>7 DEF SessionInv

LEMMA CrashStep == ASSUME SessionInv, Crash PROVE SessionInv' /\ Obeys
<1>1. /\ pc \in Busy /\ pc' = "idle"
      /\ runs' = [runs EXCEPT ![current].over = TRUE]
      /\ UNCHANGED <<state, pressed, current, events, clicks>>
  BY DEF Crash, Busy
<1>2. AssignInv'
  BY <1>1 DEF AssignInv
<1>3. /\ DOMAIN runs' = 1..Events /\ IsRow(runs'[current])
      /\ \A i \in 1..Events : i # current => runs'[i] = runs[i]
      /\ \A i \in 1..Events : i = current => Run(i)!Next
  BY <1>1, StopRow
<1>4. /\ Shape' /\ ClaimsInv' /\ ResultInv'
      /\ \A i \in 1..Events : i > current => Row(i, "none", 0)'
  BY <1>1, <1>3, RowFrame DEF Handing
<1>5. RowInv'
  BY <1>1, <1>4 DEF RowInv, Busy
<1>6. Obeys
  BY <1>3 DEF Obeys
<1> QED BY <1>2, <1>4, <1>5, <1>6 DEF SessionInv

\* After the back-test: run_status and last_result, each by itself.
LEMMA SetStep ==
    ASSUME SessionInv, SetCompleted \/ SetFailed
    PROVE  SessionInv' /\ Obeys
<1>1. /\ IsState(state) /\ UNCHANGED <<pressed, config, runs, current, events, clicks>>
      /\ \/ /\ pc = "returned" /\ pc' = "keeping"
            /\ state' = [state EXCEPT !.status = "completed"]
         \/ /\ pc \in {"rejected", "raised"}
            /\ pc' = IF pc = "raised" THEN "clearing" ELSE "show"
            /\ state' = [state EXCEPT !.status = "failed"]
  BY DEF SessionInv, Shape, SetCompleted, SetFailed
<1>2. /\ IsState(state') /\ state'.result = state.result
      /\ state'.lastConfig = state.lastConfig /\ state'.runFromMain = state.runFromMain
      /\ state'.status = IF pc = "returned" THEN "completed" ELSE "failed"
  BY <1>1 DEF IsState
<1>3. Claims' <= Claims
  BY <1>1, <1>2 DEF Claims, Pressed, Flagged, Configured, Handing
<1>4. /\ Shape' /\ ClaimsInv' /\ Obeys
      /\ \A i \in 1..Events : i > current' => Row(i, "none", 0)'
  BY <1>1, <1>2, <1>3, QuietStep DEF Handing
<1>5. RowInv'
  BY <1>1, <1>4 DEF RowInv, Busy
<1>6. AssignInv'
  BY <1>1, <1>2 DEF SessionInv, AssignInv, Stored
<1>7. ResultInv'
  <2>1. state'.result # 0 => Stored(state.result)'
    BY <1>1, <1>2 DEF SessionInv, ResultInv, Stored
  <2>2. pc = "returned" => /\ current \in 1..Events /\ Stored(current)
                           /\ runs[current].config = config /\ state.lastConfig = config
    BY DEF SessionInv, AssignInv
  <2>3. CompletedIsLatest'
    BY <1>1, <1>2, <2>1, <2>2 DEF CompletedIsLatest, Stored
  <2> QED BY <1>1, <1>2, <2>1, <2>3 DEF SessionInv, ResultInv
<1> QED BY <1>4, <1>5, <1>6, <1>7 DEF SessionInv

LEMMA ResultStep ==
    ASSUME SessionInv, KeepResult \/ ClearResult
    PROVE  SessionInv' /\ Obeys
<1>1. /\ IsState(state) /\ UNCHANGED <<pressed, config, runs, current, events, clicks>>
      /\ pc' = "show"
      /\ \/ pc = "keeping" /\ state' = [state EXCEPT !.result = current]
         \/ pc = "clearing" /\ state' = [state EXCEPT !.result = 0]
  BY DEF SessionInv, Shape, KeepResult, ClearResult
<1>2. /\ IsState(state') /\ state'.status = state.status
      /\ state'.lastConfig = state.lastConfig /\ state'.runFromMain = state.runFromMain
      /\ state'.result = IF pc = "keeping" THEN current ELSE 0
  BY <1>1 DEF IsState
<1>3. Claims' <= Claims
  BY <1>1, <1>2 DEF Claims, Pressed, Flagged, Configured, Handing
<1>4. /\ Shape' /\ ClaimsInv' /\ Obeys
      /\ \A i \in 1..Events : i > current' => Row(i, "none", 0)'
  BY <1>1, <1>2, <1>3, QuietStep DEF Handing
<1>5. RowInv' /\ AssignInv'
  BY <1>1, <1>4 DEF RowInv, Busy, AssignInv
<1>6. ResultInv'
  <2>1. /\ pc = "keeping" => /\ current \in 1..Events /\ Stored(current)
                             /\ runs[current].config = config
                             /\ state.lastConfig = config
        /\ pc = "clearing" => state.status = "failed"
    BY DEF SessionInv, AssignInv
  <2>2. current' \in Nat /\ current' = current
    BY <1>1 DEF SessionInv, ClaimsInv
  <2>3. state'.result # 0 => Stored(state.result)'
    BY <1>1, <1>2, <2>1 DEF Stored
  <2>4. CompletedIsLatest'
    BY <1>1, <1>2, <2>1, <2>3 DEF CompletedIsLatest, Stored
  <2> QED BY <1>1, <1>2, <2>2, <2>3, <2>4 DEF ResultInv
<1> QED BY <1>4, <1>5, <1>6 DEF SessionInv

-------------------------------------------------------------------------------
(* All steps.                                                               *)

\* The user's interruption is the only step outside the back-test that writes a row.
LEMMA UserObeys == ASSUME SessionInv, User PROVE Obeys
<1>1. PICK button : Interrupt(button)
  BY DEF User, AddTicker, RemoveTicker, ClickCompute, SetMode, SetWeight, SetDates,
         MovePoint, ClickRun, ClickApply, ClickCancel, SetWidget, Touch
<1>2. CASE pc = "loop"
  <2>1. runs' = [runs EXCEPT ![current].over = TRUE] /\ pc \in Busy
    BY <1>1, <1>2 DEF Interrupt, Busy
  <2> QED BY <2>1, StopRow DEF Obeys
<1>3. CASE pc # "loop"
  BY <1>1, <1>3 DEF Interrupt, Obeys
<1> QED BY <1>2, <1>3

LEMMA SessionStep ==
    ASSUME SessionInv, [Next]_vars
    PROVE  SessionInv' /\ Obeys
<1>1. CASE User
  BY <1>1, UserStep, UserObeys
<1>2. CASE Script
  <2>1. CASE RenderTop
    BY <2>1, TopStep DEF RenderTop, ScriptUnchanged, Obeys
  <2>2. CASE RenderWeights
    BY <2>2, WeightsStep
    DEF RenderWeights, RemovePressed, CommitWeights, ScriptUnchanged, Obeys
  <2>3. CASE Gate
    BY <2>3, GateStep DEF Gate, ScriptUnchanged, Obeys
  <2>4. CASE RenderFrontier
    BY <2>4, FrontierStep DEF RenderFrontier, ScriptUnchanged, Obeys
  <2>5. CASE RenderStepThree
    BY <2>5, ThreeStep DEF RenderStepThree, ScriptUnchanged, Obeys
  <2>6. CASE Backtest
    BY <2>6, StartStep, KeepStep, SendStep, OpenStep, CompleteStep, ReturnStep, FailStep,
       CrashStep, SetStep, ResultStep
    DEF Backtest
  <2>7. CASE Show
    BY <2>7, ShowStep DEF Show, Obeys
  <2> QED BY <1>2, <2>1, <2>2, <2>3, <2>4, <2>5, <2>6, <2>7 DEF Script
<1>3. CASE UNCHANGED vars
  <2>1. UNCHANGED <<state, pc, pressed, config, runs, current, events, clicks>>
    BY <1>3 DEF vars
  <2>2. Claims' = Claims
    BY <2>1 DEF Claims, Pressed, Flagged, Configured
  <2>3. Shape' /\ ClaimsInv'
    BY <2>1, <2>2 DEF SessionInv, Shape, ClaimsInv
  <2>4. RowInv' /\ ResultInv'
    BY <2>1 DEF SessionInv, RowInv, Row, ResultInv, CompletedIsLatest, Stored
  <2>5. AssignInv'
    BY <2>1 DEF SessionInv, AssignInv, Stored
  <2> QED BY <2>1, <2>3, <2>4, <2>5 DEF SessionInv, Obeys
<1> QED BY <1>1, <1>2, <1>3 DEF Next

LEMMA SessionInvariant == Spec => []SessionInv
<1>1. SessionInv /\ [Next]_vars => SessionInv'
  BY SessionStep
<1> QED BY <1>1, SessionInit, PTL DEF Spec

-------------------------------------------------------------------------------
(* The theorems.                                                            *)

\* Whenever the page says completed, the last back-test that was started is stored with
\* its decisions and with the configuration of last_config, its own script run shows its
\* result and the others a stored one, wherever script runs are interrupted.
THEOREM CompletedRunIsLatest == Spec => []CompletedIsLatest
<1>1. SessionInv => CompletedIsLatest
  BY DEF SessionInv, ResultInv
<1> QED BY <1>1, SessionInvariant, PTL

\* No click starts two back-tests, and none is started without a click.
THEOREM OneBacktestPerClick == Spec => []OneRunPerClick
<1>1. SessionInv => OneRunPerClick
  <2> SUFFICES ASSUME SessionInv PROVE OneRunPerClick
    OBVIOUS
  <2>1. Claims \in Nat
    BY DEF Claims, Pressed, Flagged, Configured
  <2> QED BY <2>1 DEF SessionInv, ClaimsInv, OneRunPerClick
<1> QED BY <1>1, SessionInvariant, PTL

\* The rows of a session's back-tests step as RunLifecycle allows.
THEOREM SessionObeysLifecycle == Spec => RowsObeyLifecycle
<1>1. SessionInv /\ [Next]_vars => [Obeys]_vars
  BY SessionStep
<1>2. Spec => [][Obeys]_vars
  BY <1>1, SessionInvariant, PTL DEF Spec
<1> QED BY <1>2 DEF Obeys, RowsObeyLifecycle

-------------------------------------------------------------------------------
(* The weights: from the page to the back-test.                             *)

\* The fields of the widgets, of the page and of what the last event showed.
IsWidgets(w) == w = [mode |-> w.mode, pct |-> w.pct, dates |-> w.dates, point |-> w.point]

IsPage(p) ==
    p = [radio |-> p.radio, inputs |-> p.inputs, removes |-> p.removes, size |-> p.size,
         apply |-> p.apply, cancel |-> p.cancel, dates |-> p.dates, run |-> p.run]

IsGhost(g) == g = [validated |-> g.validated, applied |-> g.applied, cancelled |-> g.cancelled]

\* The button that applies a point is there for a point of the curve.
FormInv ==
    /\ IsWidgets(widgets) /\ IsPage(page) /\ IsGhost(ghost)
    /\ widgets.point \in Nat
    /\ state.curve = <<>> \/ Len(state.curve) \in Nat \ {0}
    /\ page.apply # None => page.apply.point # 0

\* The weights the rows of the sidebar show, and zero for the other tickers.
AsShown == [t \in Universe |-> IF t \in Selected THEN WeightsShown[t] ELSE 0]

\* Committing the weights again would commit the same.
Steady == state.committed = AsShown

\* The weights that were applied wait in weights_pct, where no input hides them, and
\* are what was committed once the script has passed the rows of the tickers.
AppliedInv ==
    ghost.applied # None =>
        /\ pressed = Nothing
        /\ pc \in {"top", "weights"} =>
              /\ state.source # 0
              /\ \A t \in Universe :
                    /\ ghost.applied[t] # NoWeight => state.weights[t] = ghost.applied[t]
                    /\ widgets.pct[t] = NoWeight
        /\ AppliedIsCommitted

\* The configuration that was validated is the one the sidebar commits again on the
\* way to the gate, and behind the gate it is the one to run.
ValidatedInv ==
    /\ pc \in {"gate", "f1", "step3"} => Steady
    /\ pc = "step3" => Len(state.curve) # 1
    /\ ghost.validated # None =>
          /\ pressed = Nothing
          /\ Len(state.curve) # 1
          /\ StepAccepts(ghost.validated.weights, ghost.validated.dates)
          /\ pc \notin After \cup {"show", "idle"}
          /\ IF pc \in {"top", "weights", "gate"}
             THEN /\ state.runFromMain
                  /\ ghost.validated = [weights |-> state.committed, dates |-> widgets.dates]
                  /\ Steady
             ELSE config = ghost.validated

WeightsInv == FormInv /\ AppliedInv /\ ValidatedInv

\* A run of the script that no button started adds and removes nothing.
LEMMA NothingPressed ==
    ASSUME pressed = Nothing
    PROVE  pressed[1] \notin {"add", "remove", "compute"} /\ pressed # <<"run">>
  BY DEF Nothing

\* At first nothing was applied or validated.
LEMMA WeightsInit == Init => WeightsInv
<1> SUFFICES ASSUME Init PROVE WeightsInv
  OBVIOUS
<1>1. FormInv
  BY DEF Init, FormInv, IsWidgets, IsPage, IsGhost, NoPage, NoGhost
<1>2. AppliedInv /\ ValidatedInv
  BY DEF Init, AppliedInv, ValidatedInv, NoGhost
<1> QED BY <1>1, <1>2 DEF WeightsInv

\* What is shown depends on the tickers, their weights, where these came from and the
\* widgets of the rows.
SameRows ==
    /\ state'.tickers = state.tickers /\ state'.weights = state.weights
    /\ state'.source = state.source
    /\ widgets'.mode = widgets.mode /\ widgets'.pct = widgets.pct

\* The same rows show the same weights.
LEMMA SameRowsShown ==
    ASSUME SameRows
    PROVE  AsShown' = AsShown /\ Selected' = Selected
<1>1. Selected' = Selected
  BY DEF SameRows, Selected
<1>2. WeightMode' = WeightMode
  BY DEF SameRows, WeightMode
<1>3. \A t : InputOf(t)' = InputOf(t)
  BY DEF SameRows, InputOf
<1>4. WeightsShown' = WeightsShown
  BY <1>1, <1>2, <1>3 DEF SameRows, WeightsShown
<1> QED BY <1>1, <1>4 DEF AsShown

\* Committing what is shown does not change what is shown: an input keeps the value it
\* was rendered with, and an equal weight is the same again.
LEMMA CommittedIsShown ==
    ASSUME IsState(state), IsWidgets(widgets), CommitWeights
    PROVE  /\ state'.committed = AsShown /\ AsShown' = AsShown
           /\ Selected' = Selected
           /\ IsWidgets(widgets') /\ widgets'.point = widgets.point
           /\ widgets'.dates = widgets.dates
           /\ state'.runFromMain = state.runFromMain /\ state'.curve = state.curve
<1>1. /\ state' = [state EXCEPT
                     !.weights = Reach(Selected),
                     !.committed = [t \in Universe |->
                                       IF t \in Selected THEN WeightsShown[t] ELSE 0]]
      /\ widgets' = [widgets EXCEPT
                       !.pct = InputsReached(Selected),
                       !.mode = IF state.tickers # <<>> /\ state.source = 0
                                THEN WeightMode ELSE widgets.mode]
  BY DEF CommitWeights
<1>2. /\ state'.tickers = state.tickers /\ state'.source = state.source
      /\ state'.runFromMain = state.runFromMain /\ state'.curve = state.curve
      /\ state'.weights = Reach(Selected)
      /\ state'.committed = AsShown
  BY <1>1 DEF IsState, AsShown
<1>3. /\ IsWidgets(widgets') /\ widgets'.point = widgets.point
      /\ widgets'.dates = widgets.dates
      /\ widgets'.pct = InputsReached(Selected)
      /\ widgets'.mode = IF state.tickers # <<>> /\ state.source = 0
                         THEN WeightMode ELSE widgets.mode
  BY <1>1 DEF IsWidgets
<1>4. Selected' = Selected
  BY <1>2 DEF Selected
<1>5. ASSUME NEW t \in Universe, t \in Selected PROVE WeightsShown'[t] = WeightsShown[t]
  <2>1. state.tickers # <<>>
    BY <1>5 DEF Selected
  <2>2. WeightMode' = WeightMode
    BY <1>2, <1>3, <2>1 DEF WeightMode
  <2>3. CASE WeightMode = "equal"
    <3>1. /\ WeightsShown[t] = Full \div Len(state.tickers)
          /\ WeightsShown'[t] = Full \div Len(state'.tickers)
      BY <1>4, <1>5, <2>2, <2>3 DEF WeightsShown
    <3> QED BY <1>2, <3>1
  <2>4. CASE WeightMode # "equal"
    <3>1. WeightsShown[t] = InputOf(t) /\ WeightsShown'[t] = InputOf(t)'
      BY <1>4, <1>5, <2>2, <2>4 DEF WeightsShown
    <3>2. state'.weights[t] = WeightsShown[t]
      BY <1>2, <1>5 DEF Reach
    <3>3. widgets'.pct[t] = IF WeightMode = "manual" THEN WeightsShown[t] ELSE widgets.pct[t]
      BY <1>3, <1>5 DEF InputsReached
    <3>4. InputOf(t) = IF widgets.pct[t] # NoWeight THEN widgets.pct[t]
                       ELSE IF state.weights[t] # NoWeight THEN state.weights[t]
                       ELSE Full \div Len(state.tickers)
      BY DEF InputOf
    <3>5. InputOf(t)' = IF widgets'.pct[t] # NoWeight THEN widgets'.pct[t]
                        ELSE IF state'.weights[t] # NoWeight THEN state'.weights[t]
                        ELSE Full \div Len(state.tickers)
      BY <1>2 DEF InputOf, NoWeight
    <3> QED BY <3>1, <3>2, <3>3, <3>4, <3>5
  <2> QED BY <2>3, <2>4
<1>6. AsShown' = AsShown
  BY <1>4, <1>5 DEF AsShown
<1> QED BY <1>2, <1>3, <1>4, <1>6

\* An event of the user leaves nothing validated; only applying a point applies one.
LEMMA UserWeights == ASSUME SessionInv, WeightsInv, User PROVE WeightsInv'
<1> USE DEF WeightsInv
<1>1. IsState(state) /\ FormInv
  BY DEF SessionInv, Shape
<1>2. pc' = "top" /\ UNCHANGED page
  BY DEF User, AddTicker, RemoveTicker, ClickCompute, SetMode, SetWeight, SetDates,
         MovePoint, ClickRun, ClickApply, ClickCancel, SetWidget, Touch, Interrupt
<1>3. ASSUME ghost' = NoGhost,
             state' = state,
             IsWidgets(widgets'), widgets'.point \in Nat
      PROVE  WeightsInv'
  <2>1. FormInv'
    BY <1>1, <1>2, <1>3 DEF FormInv, IsGhost, NoGhost
  <2>2. AppliedInv'
    BY <1>3 DEF AppliedInv, NoGhost
  <2>3. ValidatedInv'
    BY <1>2, <1>3 DEF ValidatedInv, NoGhost
  <2> QED BY <2>1, <2>2, <2>3
<1>4. ASSUME NEW button, Touch(button) PROVE WeightsInv'
  BY <1>1, <1>3, <1>4 DEF Touch, FormInv
<1>5. ASSUME NEW t \in Universe, AddTicker(t) \/ RemoveTicker(t) PROVE WeightsInv'
  BY <1>4, <1>5 DEF AddTicker, RemoveTicker
<1>6. ASSUME NEW upper \in Bounds, ClickCompute(upper) PROVE WeightsInv'
  BY <1>4, <1>6 DEF ClickCompute
<1>7. ASSUME NEW mode, SetMode(mode) PROVE WeightsInv'
  <2>1. widgets' = [widgets EXCEPT !.mode = mode] /\ ghost' = NoGhost /\ state' = state
    BY <1>7 DEF SetMode, SetWidget
  <2> QED BY <1>1, <1>3, <2>1 DEF FormInv, IsWidgets
<1>8. ASSUME NEW t \in Universe, NEW pct \in WeightInputs, SetWeight(t, pct) PROVE WeightsInv'
  <2>1. PICK inputs : widgets' = [widgets EXCEPT !.pct = inputs]
    BY <1>8 DEF SetWeight, SetWidget
  <2>2. ghost' = NoGhost /\ state' = state
    BY <1>8 DEF SetWeight, SetWidget
  <2> QED BY <1>1, <1>3, <2>1, <2>2 DEF FormInv, IsWidgets
<1>9. ASSUME NEW dates, SetDates(dates) PROVE WeightsInv'
  <2>1. widgets' = [widgets EXCEPT !.dates = dates] /\ ghost' = NoGhost /\ state' = state
    BY <1>9 DEF SetDates, SetWidget
  <2> QED BY <1>1, <1>3, <2>1 DEF FormInv, IsWidgets
<1>10. ASSUME NEW point \in 1..Points, MovePoint(point) PROVE WeightsInv'
  <2>1. widgets' = [widgets EXCEPT !.point = point] /\ ghost' = NoGhost /\ state' = state
    BY <1>10 DEF MovePoint, SetWidget
  <2>2. point \in Nat
    OBVIOUS
  <2> QED BY <1>1, <1>3, <2>1, <2>2 DEF FormInv, IsWidgets
<1>11. CASE ClickRun
  BY <1>1, <1>3, <1>11 DEF ClickRun, FormInv
<1>12. CASE ClickApply
  <2>1. /\ page.apply # None /\ pressed' = Nothing
        /\ state' = [state EXCEPT !.weights = page.apply.weights,
                                  !.source = page.apply.point]
        /\ widgets' = [widgets EXCEPT !.mode = "none", !.pct = InputsAfterApply]
        /\ ghost' = [NoGhost EXCEPT !.applied = page.apply.weights]
    BY <1>12 DEF ClickApply, Interrupt
  <2>2. /\ state'.weights = page.apply.weights /\ state'.source = page.apply.point
        /\ state'.curve = state.curve
    BY <1>1, <2>1 DEF IsState
  <2>3. /\ IsWidgets(widgets') /\ widgets'.point = widgets.point
        /\ \A t \in Universe : widgets'.pct[t] = NoWeight
    BY <1>1, <2>1 DEF FormInv, IsWidgets, InputsAfterApply
  <2>4. IsGhost(ghost') /\ ghost'.validated = None /\ ghost'.applied = page.apply.weights
    BY <2>1 DEF IsGhost, NoGhost
  <2>5. FormInv'
    BY <1>1, <1>2, <2>2, <2>3, <2>4 DEF FormInv
  <2>6. AppliedInv'
    BY <1>1, <1>2, <2>1, <2>2, <2>3, <2>4 DEF AppliedInv, FormInv, AppliedIsCommitted
  <2>7. ValidatedInv'
    BY <1>2, <2>4 DEF ValidatedInv
  <2> QED BY <2>5, <2>6, <2>7
<1>13. CASE ClickCancel
  <2>1. /\ state' = [state EXCEPT !.source = 0]
        /\ widgets' = [widgets EXCEPT !.mode = "none"]
        /\ ghost' = [NoGhost EXCEPT !.cancelled = state.weights]
    BY <1>13 DEF ClickCancel
  <2>2. state'.curve = state.curve
    BY <1>1, <2>1 DEF IsState
  <2>3. IsWidgets(widgets') /\ widgets'.point = widgets.point
    BY <1>1, <2>1 DEF FormInv, IsWidgets
  <2>4. IsGhost(ghost') /\ ghost'.validated = None /\ ghost'.applied = None
    BY <2>1 DEF IsGhost, NoGhost
  <2>5. FormInv'
    BY <1>1, <1>2, <2>2, <2>3, <2>4 DEF FormInv
  <2>6. AppliedInv' /\ ValidatedInv'
    BY <1>2, <2>4 DEF AppliedInv, ValidatedInv
  <2> QED BY <2>5, <2>6
<1> QED BY <1>5, <1>6, <1>7, <1>8, <1>9, <1>10, <1>11, <1>12, <1>13 DEF User

\* st.rerun() from the sidebar follows a button of the tickers: nothing was applied or
\* validated by the event.
LEMMA RerunWeights ==
    ASSUME WeightsInv, pressed[1] \in {"add", "remove"},
           IsWidgets(widgets'), widgets'.point \in Nat, state'.curve = state.curve,
           pc' = "top", UNCHANGED <<page, ghost>>
    PROVE  WeightsInv'
<1>1. ghost.applied = None /\ ghost.validated = None
  BY NothingPressed DEF WeightsInv, AppliedInv, ValidatedInv
<1>2. FormInv'
  BY DEF WeightsInv, FormInv
<1>3. AppliedInv' /\ ValidatedInv'
  BY <1>1 DEF AppliedInv, ValidatedInv
<1> QED BY <1>2, <1>3 DEF WeightsInv

\* Widgets that lose their values are widgets.
Emptied(w, mode, pct, dates, point) ==
    [w EXCEPT !.mode = mode, !.pct = pct, !.dates = dates, !.point = point]

\* They are still widgets.
LEMMA EmptiedWidgets ==
    ASSUME NEW w, IsWidgets(w), NEW mode, NEW pct, NEW dates, NEW point
    PROVE  /\ IsWidgets(Emptied(w, mode, pct, dates, point))
           /\ Emptied(w, mode, pct, dates, point).point = point
<1> DEFINE m == w.mode
           p == w.pct
           d == w.dates
           n == w.point
<1>1. w = [mode |-> m, pct |-> p, dates |-> d, point |-> n]
  BY DEF IsWidgets
<1> HIDE DEF m, p, d, n
<1>2. PICK x : x = [w EXCEPT !.mode = mode, !.pct = pct, !.dates = dates, !.point = point]
  OBVIOUS
<1>3. x = [mode |-> mode, pct |-> pct, dates |-> dates, point |-> point]
  BY <1>1, <1>2
<1> QED BY <1>2, <1>3 DEF IsWidgets, Emptied

\* The form that adds a ticker.
LEMMA TopWeights == ASSUME SessionInv, WeightsInv, RenderTop PROVE WeightsInv'
<1>1. IsState(state) /\ FormInv /\ pc = "top"
  BY DEF SessionInv, Shape, WeightsInv, RenderTop
<1>2. CASE pressed[1] = "add" /\ Addable(pressed[2])
  <2> DEFINE lost == [widgets EXCEPT !.mode = "none", !.pct = InputsAfterApply,
                                     !.dates = "none", !.point = 0]
  <2>1. /\ state' = [state EXCEPT !.tickers = Append(@, pressed[2]),
                                  !.weights[pressed[2]] = 0]
        /\ pc' = "top" /\ UNCHANGED <<page, ghost>> /\ widgets' \in {widgets, lost}
    BY <1>2 DEF RenderTop, Rerun
  <2>2. state'.curve = state.curve
    BY <1>1, <2>1 DEF IsState
  <2>3. IsWidgets(lost) /\ lost.point = 0
    <3>1. lost = Emptied(widgets, "none", InputsAfterApply, "none", 0)
      BY DEF Emptied
    <3> QED BY <1>1, <3>1, EmptiedWidgets DEF FormInv
  <2> HIDE DEF lost
  <2>4. IsWidgets(widgets') /\ widgets'.point \in Nat
    BY <1>1, <2>1, <2>3 DEF FormInv
  <2> QED BY <1>2, <2>1, <2>2, <2>4, RerunWeights
<1>3. CASE ~(pressed[1] = "add" /\ Addable(pressed[2]))
  <2>1. pc' = "weights" /\ UNCHANGED <<state, widgets, page, pressed, config, ghost>>
    BY <1>3 DEF RenderTop
  <2>2. FormInv'
    BY <1>1, <2>1 DEF FormInv
  <2>3. AppliedInv'
    BY <1>1, <2>1 DEF WeightsInv, AppliedInv, AppliedIsCommitted
  <2>4. Steady' = Steady
    BY <2>1, SameRowsShown DEF Steady, SameRows
  <2>5. ValidatedInv'
    BY <1>1, <2>1, <2>4 DEF WeightsInv, ValidatedInv, StepAccepts, After
  <2> QED BY <2>2, <2>3, <2>5 DEF WeightsInv
<1> QED BY <1>2, <1>3

\* What was applied is what the rows show: an input without a value of its own starts
\* from weights_pct, and the radio that could say "equal" is left out.
LEMMA AppliedIsShown ==
    ASSUME WeightsInv, pc \in {"top", "weights"}, ghost.applied # None,
           NEW t \in Universe, t \in Selected, ghost.applied[t] # NoWeight
    PROVE  WeightsShown[t] = ghost.applied[t]
<1>1. /\ state.source # 0 /\ widgets.pct[t] = NoWeight
      /\ state.weights[t] = ghost.applied[t]
  BY DEF WeightsInv, AppliedInv
<1>2. WeightMode # "equal" /\ InputOf(t) = ghost.applied[t]
  BY <1>1 DEF WeightMode, InputOf
<1> QED BY <1>2 DEF WeightsShown

\* The rows of the tickers: one is removed, or their weights are committed.
LEMMA RowsWeights == ASSUME SessionInv, WeightsInv, RenderWeights PROVE WeightsInv'
<1>1. IsState(state) /\ FormInv /\ pc = "weights"
  BY DEF SessionInv, Shape, WeightsInv, RenderWeights
<1>2. CASE RemovePressed
  <2>1. PICK tickers, weights, kept, lost :
            /\ state' = [state EXCEPT !.tickers = tickers, !.weights = weights]
            /\ widgets' \in {[widgets EXCEPT !.pct = kept],
                             [widgets EXCEPT !.dates = "none", !.point = 0, !.pct = lost]}
    BY <1>2 DEF RemovePressed, Rerun
  <2>2. pressed[1] = "remove" /\ pc' = "top" /\ UNCHANGED <<page, ghost>>
    BY <1>2 DEF RemovePressed, Rerun
  <2>3. state'.curve = state.curve
    BY <1>1, <2>1 DEF IsState
  <2>4. IsWidgets(widgets') /\ widgets'.point \in Nat
    <3>1. CASE widgets' = [widgets EXCEPT !.pct = kept]
      BY <1>1, <3>1 DEF FormInv, IsWidgets
    <3>2. CASE widgets' = [widgets EXCEPT !.dates = "none", !.point = 0, !.pct = lost]
      <4> DEFINE old == widgets
                 new == widgets'
                 none == "none"
                 zero == 0
      <4>1. IsWidgets(old) /\ new = [old EXCEPT !.dates = none, !.point = zero, !.pct = lost]
        BY <1>1, <3>2 DEF FormInv
      <4> HIDE DEF old, new, none, zero
      <4>2. new = [mode |-> old.mode, pct |-> lost, dates |-> none, point |-> zero]
        BY <4>1 DEF IsWidgets
      <4> QED BY <4>2 DEF IsWidgets, new, zero
    <3> QED BY <2>1, <3>1, <3>2
  <2> QED BY <2>2, <2>3, <2>4, RerunWeights
<1>3. CASE CommitWeights
  <2>1. /\ state'.committed = AsShown /\ AsShown' = AsShown /\ Selected' = Selected
        /\ IsWidgets(widgets') /\ widgets'.point = widgets.point
        /\ widgets'.dates = widgets.dates
        /\ state'.runFromMain = state.runFromMain /\ state'.curve = state.curve
    BY <1>1, <1>3, CommittedIsShown DEF FormInv
  <2>2. /\ pc' = "gate" /\ UNCHANGED <<pressed, config, ghost>>
        /\ page' = [page EXCEPT
                      !.radio = state.tickers # <<>> /\ state.source = 0,
                      !.removes = Selected,
                      !.inputs = IF WeightMode = "manual" THEN Selected ELSE {}]
    BY <1>3 DEF CommitWeights
  <2>3. IsPage(page') /\ page'.apply = page.apply
    BY <1>1, <2>2 DEF FormInv, IsPage
  <2>4. FormInv'
    BY <1>1, <2>1, <2>2, <2>3 DEF FormInv
  <2>5. AppliedInv'
    <3> SUFFICES ASSUME ghost.applied # None
                 PROVE  pressed = Nothing /\ AppliedIsCommitted'
      BY <2>2 DEF AppliedInv
    <3>1. pressed = Nothing
      BY DEF WeightsInv, AppliedInv
    <3>2. ASSUME NEW t \in Universe, ghost.applied[t] # NoWeight
          PROVE  state'.committed[t] = IF t \in Selected THEN ghost.applied[t] ELSE 0
      BY <1>1, <2>1, <3>2, AppliedIsShown DEF AsShown
    <3> QED BY <2>1, <2>2, <3>1, <3>2 DEF AppliedIsCommitted
  <2>6. Steady'
    BY <2>1 DEF Steady
  <2>7. ASSUME ghost.validated # None
        PROVE  /\ pressed = Nothing /\ Len(state.curve) # 1
               /\ StepAccepts(ghost.validated.weights, ghost.validated.dates)
               /\ state.runFromMain
               /\ ghost.validated = [weights |-> AsShown, dates |-> widgets.dates]
    BY <1>1, <2>7 DEF WeightsInv, ValidatedInv, Steady
  <2>8. ValidatedInv'
    BY <2>1, <2>2, <2>6, <2>7 DEF ValidatedInv, StepAccepts, After
  <2> QED BY <2>4, <2>5, <2>8 DEF WeightsInv
<1> QED BY <1>2, <1>3 DEF RenderWeights

\* What the button of the third step accepts, the sidebar and the request accept too.
LEMMA StepIsStricter ==
    ASSUME NEW weights, NEW dates, StepAccepts(weights, dates)
    PROVE  SidebarAccepts(weights, dates) /\ RequestAccepts(weights, dates)
<1>1. Full \in Nat /\ OnePercent \in Nat
  BY FrontierAssumption DEF OnePercent
<1>2. Within(weights, OnePercent)
  BY <1>1 DEF Within, StepAccepts
<1>3. Positive(weights) # {}
  BY FS_EmptySet DEF StepAccepts
<1> QED BY <1>2, <1>3 DEF StepAccepts, SidebarAccepts, RequestAccepts

\* Behind the rows of the tickers nothing is committed until the script starts again.
LEMMA AppliedStays ==
    ASSUME AppliedInv, pc \notin {"top", "weights"}, pc' \notin {"top", "weights"},
           state'.committed = state.committed, state'.tickers = state.tickers,
           ghost'.applied = ghost.applied, pressed' \in {pressed, Nothing}
    PROVE  AppliedInv'
  BY DEF AppliedInv, AppliedIsCommitted, Selected

\* The gate turns run_from_main into the configuration that was validated.
LEMMA GateWeights == ASSUME SessionInv, WeightsInv, Gate PROVE WeightsInv'
<1>1. IsState(state) /\ FormInv /\ pc = "gate" /\ pc' = "f1"
  BY DEF SessionInv, Shape, WeightsInv, Gate
<1>2. /\ config' = IF state.runFromMain /\ SidebarAccepts(state.committed, widgets.dates)
                   THEN [weights |-> state.committed, dates |-> widgets.dates]
                   ELSE None
      /\ state' = [state EXCEPT !.runFromMain = FALSE]
      /\ UNCHANGED <<widgets, page, pressed, ghost>>
  BY DEF Gate, FlagAfterGate
<1>3. /\ state'.committed = state.committed /\ state'.tickers = state.tickers
      /\ state'.weights = state.weights /\ state'.source = state.source
      /\ state'.curve = state.curve
  BY <1>1, <1>2 DEF IsState
<1>4. FormInv'
  BY <1>1, <1>2, <1>3 DEF FormInv
<1>5. AppliedInv'
  BY <1>1, <1>2, <1>3, AppliedStays DEF WeightsInv
<1>6. Steady'
  BY <1>1, <1>2, <1>3, SameRowsShown DEF WeightsInv, ValidatedInv, Steady, SameRows
<1>7. ASSUME ghost.validated # None
      PROVE  /\ pressed = Nothing /\ Len(state.curve) # 1
             /\ StepAccepts(ghost.validated.weights, ghost.validated.dates)
             /\ config' = ghost.validated
  <2>1. /\ pressed = Nothing /\ Len(state.curve) # 1
        /\ StepAccepts(ghost.validated.weights, ghost.validated.dates)
        /\ state.runFromMain
        /\ ghost.validated = [weights |-> state.committed, dates |-> widgets.dates]
    BY <1>1, <1>7 DEF WeightsInv, ValidatedInv
  <2>2. SidebarAccepts(state.committed, widgets.dates)
    BY <2>1, StepIsStricter
  <2> QED BY <1>2, <2>1, <2>2
<1>8. ValidatedInv'
  BY <1>1, <1>2, <1>3, <1>6, <1>7 DEF ValidatedInv, StepAccepts, After
<1> QED BY <1>4, <1>5, <1>8 DEF WeightsInv

\* The slider of a curve stands on one of its points.
LEMMA PointIsShown ==
    ASSUME NEW point \in Nat, NEW curve, Len(curve) \in Nat \ {0}
    PROVE  PointShown(point, curve) # 0
<1> DEFINE len == Len(curve)
<1>1. len \in Nat /\ len # 0
  OBVIOUS
<1>2. PointShown(point, curve) = IF point = 0 THEN len \div 2 + 1
                                 ELSE IF point < len THEN point ELSE len
  BY DEF PointShown, Lesser
<1> HIDE DEF len
<1> QED BY <1>1, <1>2

\* A curve is a list of allocations, with one point at least.
LEMMA CurveIsList ==
    ASSUME NEW tickers, NEW mu, NEW upper, NEW points,
           NEW curve \in Curves(tickers, mu, upper, points)
    PROVE  \E allocations : \E n \in 1..points : curve \in [1..n -> allocations]
<1> DEFINE best == Return(MaxReturnAllocation(tickers, mu, upper), mu)
           allocations == {w \in Feasible(tickers, upper) : Return(w, mu) <= best}
           Rising(n) == {c \in [1..n -> allocations] :
                            \A i \in 1..(n - 1) : Return(c[i], mu) <= Return(c[i + 1], mu)}
<1>1. Curves(tickers, mu, upper, points) =
          IF ValidRequest(tickers, upper, points)
          THEN UNION {Rising(n) : n \in 1..points} ELSE {}
  BY DEF Curves
<1>2. \A n : Rising(n) \subseteq [1..n -> allocations]
  OBVIOUS
<1> HIDE DEF best, allocations, Rising
<1> QED BY <1>1, <1>2

\* A computed curve has points, and the slider is put on one of them.
LEMMA ComputedCurve ==
    ASSUME IsState(state), FormInv, ComputeFrontier
    PROVE  /\ \E curve : state' = [state EXCEPT !.curve = curve]
           /\ state'.curve = <<>> \/ Len(state'.curve) \in Nat \ {0}
           /\ widgets'.point \in Nat /\ IsWidgets(widgets')
           /\ widgets'.mode = widgets.mode /\ widgets'.pct = widgets.pct
           /\ widgets'.dates = widgets.dates
<1>1. CASE UNCHANGED <<state, widgets>>
  <2>1. state' = [state EXCEPT !.curve = state.curve]
    BY <1>1 DEF IsState
  <2> QED BY <1>1, <2>1 DEF FormInv
<1>2. CASE state' = [state EXCEPT !.curve = <<>>] /\ widgets' = widgets
  <2>1. state'.curve = <<>>
    BY <1>2 DEF IsState
  <2> QED BY <1>2, <2>1 DEF FormInv
<1>3. ASSUME NEW curve \in Curves(Selected, Means, pressed[2], Points),
             NEW best \in DOMAIN curve,
             state' = [state EXCEPT !.curve = curve],
             widgets' = [widgets EXCEPT !.point = best]
      PROVE  /\ state'.curve = <<>> \/ Len(state'.curve) \in Nat \ {0}
             /\ widgets'.point \in Nat /\ IsWidgets(widgets')
             /\ widgets'.mode = widgets.mode /\ widgets'.pct = widgets.pct
             /\ widgets'.dates = widgets.dates
  <2>1. PICK allocations : \E n \in 1..Points : curve \in [1..n -> allocations]
    BY CurveIsList
  <2>2. PICK n \in 1..Points : curve \in [1..n -> allocations]
    BY <2>1
  <2>3. n \in Nat \ {0} /\ curve \in Seq(allocations) /\ Len(curve) = n
    <3>1. n \in Nat \ {0}
      BY <2>2, SessionAssumption
    <3> QED BY <2>2, <3>1
  <2>4. best \in Nat
    BY <2>2
  <2>5. state'.curve = curve
    BY <1>3 DEF IsState
  <2>6. /\ IsWidgets(widgets') /\ widgets'.point = best
        /\ widgets'.mode = widgets.mode /\ widgets'.pct = widgets.pct
        /\ widgets'.dates = widgets.dates
    BY <1>3 DEF FormInv, IsWidgets
  <2> QED BY <2>3, <2>4, <2>5, <2>6
<1> QED BY <1>1, <1>2, <1>3 DEF ComputeFrontier

\* The page of the frontier is a page.
LEMMA FrontierPage ==
    ASSUME NEW p, IsPage(p), NEW q, NEW size, NEW apply, NEW cancel, NEW dates, NEW button,
           q = [p EXCEPT !.size = size, !.apply = apply, !.cancel = cancel,
                         !.dates = dates, !.run = button]
    PROVE  IsPage(q) /\ q.apply = apply
<1> DEFINE radio == p.radio
           inputs == p.inputs
           removes == p.removes
<1>1. q = [radio |-> radio, inputs |-> inputs, removes |-> removes, size |-> size,
           apply |-> apply, cancel |-> cancel, dates |-> dates, run |-> button]
  BY DEF IsPage
<1> HIDE DEF radio, inputs, removes
<1> QED BY <1>1 DEF IsPage

\* The frontier changes neither the weights nor what was committed, and leaves the
\* curve as it was unless the event of this run asked for another.
LEMMA FrontierWeights == ASSUME SessionInv, WeightsInv, RenderFrontier PROVE WeightsInv'
<1>1. IsState(state) /\ FormInv /\ pc = "f1" /\ ComputeFrontier
  BY DEF SessionInv, Shape, WeightsInv, RenderFrontier
<1>2. UNCHANGED <<pressed, ghost>>
  BY DEF RenderFrontier
<1>3. /\ \E curve : state' = [state EXCEPT !.curve = curve]
      /\ state'.curve = <<>> \/ Len(state'.curve) \in Nat \ {0}
      /\ widgets'.point \in Nat /\ IsWidgets(widgets')
      /\ widgets'.mode = widgets.mode /\ widgets'.pct = widgets.pct
  BY <1>1, ComputedCurve
<1>4. /\ state'.committed = state.committed /\ state'.tickers = state.tickers
      /\ state'.weights = state.weights /\ state'.source = state.source
      /\ state'.runFromMain = state.runFromMain
  BY <1>1, <1>3 DEF IsState
<1>5. CASE Len(state'.curve) = 1
  <2>1. /\ pc' = "idle"
        /\ page' = [page EXCEPT !.size = 0, !.apply = None, !.cancel = FALSE,
                                !.dates = FALSE, !.run = FALSE]
    BY <1>5 DEF RenderFrontier
  <2>2. IsPage(page') /\ page'.apply = None
    <3> DEFINE p == page
               q == page'
               none == None
               zero == 0
               no == FALSE
    <3>1. /\ IsPage(p)
          /\ q = [p EXCEPT !.size = zero, !.apply = none, !.cancel = no, !.dates = no, !.run = no]
      BY <1>1, <2>1 DEF FormInv
    <3> HIDE DEF p, q, none, zero, no
    <3>2. IsPage(q) /\ q.apply = none
      BY <3>1, FrontierPage
    <3> QED BY <3>2 DEF q, none
  <2>3. FormInv'
    BY <1>1, <1>2, <1>3, <2>2 DEF FormInv
  <2>4. AppliedInv'
    BY <1>1, <1>2, <1>4, <2>1, AppliedStays DEF WeightsInv
  <2>5. ghost.validated = None
    <3> SUFFICES ASSUME ghost.validated # None PROVE FALSE
      OBVIOUS
    <3>1. pressed = Nothing /\ Len(state.curve) # 1
      BY DEF WeightsInv, ValidatedInv
    <3>2. state' = state
      BY <1>1, <3>1, NothingPressed DEF ComputeFrontier
    <3> QED BY <1>5, <3>1, <3>2
  <2>6. ValidatedInv'
    BY <1>2, <2>1, <2>5 DEF ValidatedInv
  <2> QED BY <2>3, <2>4, <2>6 DEF WeightsInv
<1>6. CASE Len(state'.curve) # 1
  <2> DEFINE curve == state'.curve
             point == PointShown(widgets'.point, curve)
             apply == IF curve = <<>> \/ state.source # 0 THEN None
                      ELSE [weights |-> PointWeights(curve[point]), point |-> point]
  <2>1. /\ pc' = "step3" /\ config' = config
        /\ page' = [page EXCEPT !.size = Len(curve), !.apply = apply,
                                !.cancel = curve # <<>> /\ state.source # 0]
    BY <1>6 DEF RenderFrontier
  <2>2. apply # None => apply.point # 0
    <3> SUFFICES ASSUME curve # <<>> PROVE point # 0
      OBVIOUS
    <3>1. Len(curve) \in Nat \ {0} /\ widgets'.point \in Nat
      BY <1>3
    <3> HIDE DEF curve
    <3> QED BY <3>1, PointIsShown
  <2> HIDE DEF apply
  <2>3. IsPage(page') /\ page'.apply = apply
    BY <1>1, <2>1 DEF FormInv, IsPage
  <2>4. FormInv'
    BY <1>1, <1>2, <1>3, <2>2, <2>3 DEF FormInv
  <2>5. AppliedInv'
    BY <1>1, <1>2, <1>4, <2>1, AppliedStays DEF WeightsInv
  <2>6. Steady'
    BY <1>1, <1>3, <1>4, SameRowsShown DEF WeightsInv, ValidatedInv, Steady, SameRows
  <2>7. ValidatedInv'
    BY <1>1, <1>2, <1>6, <2>1, <2>6 DEF WeightsInv, ValidatedInv, StepAccepts, After
  <2> QED BY <2>4, <2>5, <2>7 DEF WeightsInv
<1> QED BY <1>5, <1>6

\* A click that was validated sets run_from_main; the run that follows it finds the
\* configuration still there.
LEMMA ThreeWeights == ASSUME SessionInv, WeightsInv, RenderStepThree PROVE WeightsInv'
<1>1. IsState(state) /\ FormInv /\ pc = "step3" /\ Len(state.curve) # 1 /\ Steady
  BY DEF SessionInv, Shape, WeightsInv, ValidatedInv, RenderStepThree
<1> DEFINE dates == IF widgets.dates = "none" THEN "range" ELSE widgets.dates
           accepted == StepAccepts(state.committed, dates)
<1>2. /\ widgets' = [widgets EXCEPT !.dates = dates]
      /\ page' = [page EXCEPT !.dates = TRUE, !.run = accepted]
      /\ pressed' = Nothing
  BY DEF RenderStepThree, PressedAfter
<1>3. CASE pressed = <<"run">>
  <2>1. /\ state' = [state EXCEPT !.runFromMain = TRUE] /\ pc' = "top"
        /\ ghost' = [ghost EXCEPT !.validated =
                       IF accepted THEN [weights |-> state.committed, dates |-> dates]
                       ELSE None]
    BY <1>3 DEF RenderStepThree
  <2> HIDE DEF dates, accepted
  <2>2. /\ IsWidgets(widgets') /\ widgets'.dates = dates /\ widgets'.point = widgets.point
        /\ widgets'.mode = widgets.mode /\ widgets'.pct = widgets.pct
    BY <1>1, <1>2 DEF FormInv, IsWidgets
  <2>3. IsPage(page') /\ page'.apply = page.apply
    BY <1>1, <1>2 DEF FormInv, IsPage
  <2>4. /\ IsGhost(ghost') /\ ghost'.applied = ghost.applied
        /\ ghost'.validated = IF accepted
                              THEN [weights |-> state.committed, dates |-> dates]
                              ELSE None
    BY <1>1, <2>1 DEF FormInv, IsGhost
  <2>5. /\ state'.committed = state.committed /\ state'.tickers = state.tickers
        /\ state'.weights = state.weights /\ state'.source = state.source
        /\ state'.curve = state.curve /\ state'.runFromMain = TRUE
    BY <1>1, <2>1 DEF IsState
  <2>6. FormInv'
    BY <1>1, <2>2, <2>3, <2>4, <2>5 DEF FormInv
  <2>7. ghost.applied = None
    BY <1>3, NothingPressed DEF WeightsInv, AppliedInv
  <2>8. AppliedInv'
    BY <2>4, <2>7 DEF AppliedInv
  <2>9. Steady'
    BY <1>1, <2>2, <2>5, SameRowsShown DEF Steady, SameRows
  <2>10. ASSUME ghost'.validated # None
         PROVE  /\ ghost'.validated = [weights |-> state.committed, dates |-> dates]
                /\ StepAccepts(ghost'.validated.weights, ghost'.validated.dates)
    BY <2>4, <2>10 DEF accepted
  <2>11. ValidatedInv'
    BY <1>1, <1>2, <2>1, <2>2, <2>5, <2>9, <2>10 DEF ValidatedInv, StepAccepts, After
  <2> QED BY <2>6, <2>8, <2>11 DEF WeightsInv
<1>4. CASE pressed # <<"run">>
  <2>1. /\ pc' = (IF config = None THEN "show" ELSE "start")
        /\ UNCHANGED <<state, ghost, config>>
    BY <1>4 DEF RenderStepThree
  <2> HIDE DEF dates, accepted
  <2>2. IsWidgets(widgets') /\ widgets'.point = widgets.point
    BY <1>1, <1>2 DEF FormInv, IsWidgets
  <2>3. IsPage(page') /\ page'.apply = page.apply
    BY <1>1, <1>2 DEF FormInv, IsPage
  <2>4. FormInv'
    BY <1>1, <2>1, <2>2, <2>3 DEF FormInv
  <2>5. AppliedInv'
    BY <1>1, <1>2, <2>1, AppliedStays DEF WeightsInv
  <2>6. ValidatedInv'
    BY <1>1, <1>2, <2>1 DEF WeightsInv, ValidatedInv, StepAccepts, After
  <2> QED BY <2>4, <2>5, <2>6 DEF WeightsInv
<1> QED BY <1>3, <1>4

\* The back-test carries the configuration that was validated; when it is over, or is
\* not started, nothing is.
LEMMA BacktestWeights == ASSUME SessionInv, WeightsInv, Backtest PROVE WeightsInv'
<1>1. /\ IsState(state) /\ FormInv
      /\ pc \in Handing \cup Busy \cup After
      /\ pc' \notin {"top", "weights", "gate", "f1", "step3"}
  BY DEF SessionInv, Shape, WeightsInv, Handing, Busy, After, Backtest,
         StartBacktest, KeepConfig, SendRequest, OpenRun, CompleteRun,
         ReturnResult, FailRun, Crash, SetCompleted, KeepResult, SetFailed, ClearResult
<1>2. UNCHANGED <<widgets, page, pressed>>
  BY DEF Backtest, StartBacktest, KeepConfig, SendRequest, OpenRun, CompleteRun,
         ReturnResult, FailRun, Crash, SetCompleted, KeepResult, SetFailed, ClearResult
<1>3. \/ state' = state
      \/ \E last : state' = [state EXCEPT !.lastConfig = last]
      \/ \E status : state' = [state EXCEPT !.status = status]
      \/ \E result : state' = [state EXCEPT !.result = result]
  BY DEF Backtest, StartBacktest, KeepConfig, SendRequest, OpenRun, CompleteRun,
         ReturnResult, FailRun, Crash, SetCompleted, KeepResult, SetFailed, ClearResult
<1>4. /\ state'.committed = state.committed /\ state'.tickers = state.tickers
      /\ state'.curve = state.curve
  BY <1>1, <1>3 DEF IsState
<1>5. \/ ghost' = ghost
      \/ ghost' = NoGhost
  BY DEF Backtest, StartBacktest, KeepConfig, SendRequest, OpenRun, CompleteRun,
         ReturnResult, FailRun, Crash, SetCompleted, KeepResult, SetFailed, ClearResult
<1>6. FormInv'
  BY <1>1, <1>2, <1>4, <1>5 DEF FormInv, IsGhost, NoGhost
<1>7. AppliedInv'
  <2>1. CASE ghost' = ghost
    BY <1>1, <1>2, <1>4, <2>1, AppliedStays DEF WeightsInv, Handing, Busy, After
  <2>2. CASE ghost' = NoGhost
    BY <2>2 DEF AppliedInv, NoGhost
  <2> QED BY <1>5, <2>1, <2>2
<1>8. ValidatedInv'
  <2>1. CASE ghost' = NoGhost
    BY <1>1, <2>1 DEF ValidatedInv, NoGhost
  <2>2. CASE ghost' # NoGhost
    <3>1. /\ ghost' = ghost /\ config' = config
          /\ \/ StartBacktest \/ KeepConfig \/ SendRequest \/ OpenRun \/ CompleteRun
             \/ pc \in After
      BY <1>5, <2>2
      DEF After, Backtest, StartBacktest, KeepConfig, SendRequest, OpenRun, CompleteRun,
         ReturnResult, FailRun, Crash, SetCompleted, KeepResult, SetFailed, ClearResult
    <3>2. ASSUME ghost.validated # None
          PROVE  /\ pc' \notin After \cup {"show", "idle"} /\ config = ghost.validated
                 /\ pressed = Nothing /\ Len(state.curve) # 1
                 /\ StepAccepts(ghost.validated.weights, ghost.validated.dates)
      <4>1. /\ config = ghost.validated /\ pc \notin After
            /\ pressed = Nothing /\ Len(state.curve) # 1
            /\ StepAccepts(ghost.validated.weights, ghost.validated.dates)
        BY <1>1, <3>2 DEF WeightsInv, ValidatedInv, Handing, Busy, After
      <4>2. RequestAccepts(config.weights, config.dates)
        BY <4>1, StepIsStricter
      <4>3. StartBacktest \/ KeepConfig \/ SendRequest \/ OpenRun \/ CompleteRun
        BY <3>1, <4>1
      <4>4. pc' \notin After \cup {"show", "idle"}
        BY <4>2, <4>3
        DEF After, StartBacktest, KeepConfig, SendRequest, OpenRun, CompleteRun
      <4> QED BY <4>1, <4>4
    <3> QED BY <1>1, <1>2, <1>4, <3>1, <3>2 DEF ValidatedInv, StepAccepts, After
  <2> QED BY <2>1, <2>2
<1> QED BY <1>6, <1>7, <1>8 DEF WeightsInv

\* The end of a script run: the widgets that were not rendered lose their values.
LEMMA ShowWeights == ASSUME SessionInv, WeightsInv, Show PROVE WeightsInv'
<1>1. FormInv /\ pc = "show" /\ pc' = "idle" /\ UNCHANGED <<state, page, pressed, ghost>>
  BY DEF WeightsInv, Show
<1>2. IsWidgets(widgets') /\ widgets'.point \in Nat
  <2> DEFINE w == widgets
             new == widgets'
             d == w.dates
  <2>1. PICK mode, pct, point : /\ new = [w EXCEPT !.mode = mode, !.pct = pct, !.point = point]
                                /\ point \in {0, w.point}
    BY DEF Show
  <2>2. IsWidgets(w) /\ w.point \in Nat
    BY <1>1 DEF FormInv
  <2> HIDE DEF w, new
  <2>3. new = [mode |-> mode, pct |-> pct, dates |-> d, point |-> point]
    BY <2>1, <2>2 DEF IsWidgets
  <2>4. point \in Nat
    BY <2>1, <2>2
  <2> HIDE DEF d
  <2>5. IsWidgets(new) /\ new.point = point
    BY <2>3 DEF IsWidgets
  <2> QED BY <2>4, <2>5 DEF new
<1>3. FormInv'
  BY <1>1, <1>2 DEF FormInv
<1>4. AppliedInv'
  BY <1>1, AppliedStays DEF WeightsInv
<1>5. ValidatedInv'
  BY <1>1 DEF WeightsInv, ValidatedInv
<1> QED BY <1>3, <1>4, <1>5 DEF WeightsInv

\* Every step of the user and of the script keeps the invariant.
LEMMA NextWeights == ASSUME SessionInv, WeightsInv, [Next]_vars PROVE WeightsInv'
<1>1. CASE User
  BY <1>1, UserWeights
<1>2. CASE Script
  BY <1>2, TopWeights, RowsWeights, GateWeights, FrontierWeights, ThreeWeights,
     BacktestWeights, ShowWeights DEF Script
<1>3. CASE UNCHANGED vars
  <2>1. UNCHANGED <<state, widgets, page, pc, pressed, config, ghost>>
    BY <1>3 DEF vars
  <2>2. Steady' = Steady
    BY <2>1, SameRowsShown DEF Steady, SameRows
  <2>3. FormInv'
    BY <2>1 DEF WeightsInv, FormInv
  <2>4. AppliedInv'
    BY <2>1 DEF WeightsInv, AppliedInv, AppliedIsCommitted, Selected
  <2>5. ValidatedInv'
    BY <2>1, <2>2 DEF WeightsInv, ValidatedInv, StepAccepts, After
  <2> QED BY <2>3, <2>4, <2>5 DEF WeightsInv
<1> QED BY <1>1, <1>2, <1>3 DEF Next

\* It holds in every reachable state.
LEMMA WeightsInvariant == Spec => []WeightsInv
<1>1. SessionInv /\ WeightsInv /\ [Next]_vars => WeightsInv'
  BY NextWeights
<1> QED BY <1>1, WeightsInit, SessionInvariant, PTL DEF Spec

\* The weights of an applied point are the ones committed for the next run, for every
\* universe of tickers and whatever the inputs held before.
THEOREM AppliedPointIsCommitted == Spec => []AppliedIsCommitted
<1>1. WeightsInv => AppliedIsCommitted
  BY DEF WeightsInv, AppliedInv, AppliedIsCommitted
<1> QED BY <1>1, WeightsInvariant, PTL

\* The back-test that a click starts is the one the page had validated: neither the
\* rerun nor the second validation loses or changes it.
THEOREM ValidatedIsRun == Spec => []RunsWhatWasValidated
<1>1. WeightsInv => RunsWhatWasValidated
  BY DEF WeightsInv, ValidatedInv, RunsWhatWasValidated
<1> QED BY <1>1, WeightsInvariant, PTL

-------------------------------------------------------------------------------
(* Sums over finite sets.                                                   *)

\* Every non-empty family of subsets of a finite set has a smallest one by inclusion.
LEMMA SmallestSubset ==
    ASSUME NEW S, IsFiniteSet(S), NEW F, F \subseteq SUBSET S, F # {}
    PROVE  \E T \in F : \A U \in F : U \subseteq T => U = T
<1>1. FiniteSubsetsOf(S) = SUBSET S
  BY FS_FiniteSubsetsOfFinite
<1>2. IsWellFoundedOn(StrictSubsetOrdering(S), SUBSET S)
  BY <1>1, FS_StrictSubsetOrderingWellFounded
<1>3. \E T \in F : \A U \in F : ~(<<U, T>> \in StrictSubsetOrdering(S))
  BY <1>2, WFMin
<1> QED BY <1>3 DEF StrictSubsetOrdering

Pick(s) == CHOOSE x \in s : TRUE

Rest(s) == s \ {Pick(s)}

\* f is the running sum of w over the subsets of S, as MapThenFoldSet computes it.
Sums(f, S, w) ==
    f = [s \in SUBSET S |-> IF s = {} THEN 0 ELSE w[Pick(s)] + f[Rest(s)]]

\* What is picked is in the set, and the rest is smaller.
LEMMA PickIsIn ==
    ASSUME NEW s, s # {}
    PROVE  Pick(s) \in s /\ Rest(s) \subseteq s /\ Rest(s) # s
BY DEF Pick, Rest

\* Two running sums of the same weights agree wherever both are defined.
LEMMA SumsAgree ==
    ASSUME NEW S, IsFiniteSet(S), NEW T, NEW w, NEW f, NEW g, Sums(f, S, w), Sums(g, T, w),
           NEW s, s \subseteq S, s \subseteq T
    PROVE  f[s] = g[s]
<1> DEFINE F == {u \in SUBSET S : u \subseteq T /\ f[u] # g[u]}
<1>1. SUFFICES ASSUME F # {} PROVE FALSE
  OBVIOUS
<1>2. PICK u \in F : \A v \in F : v \subseteq u => v = u
  <2>1. F \subseteq SUBSET S
    OBVIOUS
  <2> HIDE DEF F
  <2> QED BY <1>1, <2>1, SmallestSubset
<1>3. u \in SUBSET S /\ u \in SUBSET T /\ f[u] # g[u]
  OBVIOUS
<1>4. /\ f[u] = IF u = {} THEN 0 ELSE w[Pick(u)] + f[Rest(u)]
      /\ g[u] = IF u = {} THEN 0 ELSE w[Pick(u)] + g[Rest(u)]
  BY <1>3 DEF Sums
<1>5. u # {} => f[Rest(u)] = g[Rest(u)]
  BY <1>2, PickIsIn
<1> QED BY <1>3, <1>4, <1>5

\* There is a running sum over every finite set.
LEMMA SumsExist ==
    ASSUME NEW S, IsFiniteSet(S), NEW w
    PROVE  \E f : Sums(f, S, w)
<1> DEFINE F == {T \in SUBSET S : ~\E f : Sums(f, T, w)}
<1>1. SUFFICES ASSUME F # {} PROVE FALSE
  OBVIOUS
<1>2. PICK T \in F : \A U \in F : U \subseteq T => U = T
  <2>1. F \subseteq SUBSET S
    OBVIOUS
  <2> HIDE DEF F
  <2> QED BY <1>1, <2>1, SmallestSubset
<1>3. T \in SUBSET S /\ ~\E f : Sums(f, T, w)
  OBVIOUS
<1> DEFINE h(U) == CHOOSE f : Sums(f, U, w)
           g == [s \in SUBSET T |-> IF s = {} THEN 0 ELSE w[Pick(s)] + h(Rest(s))[Rest(s)]]
<1>4. ASSUME NEW U, U \subseteq T, U # T PROVE Sums(h(U), U, w)
  <2>1. U \in SUBSET S
    BY <1>3, <1>4
  <2> QED BY <1>2, <1>4, <2>1
<1> HIDE DEF h, F
<1>5. ASSUME NEW U, U \subseteq T, U # T PROVE g[U] = h(U)[U]
  <2>1. h(U)[U] = IF U = {} THEN 0 ELSE w[Pick(U)] + h(U)[Rest(U)]
    BY <1>4, <1>5 DEF Sums
  <2>2. CASE U = {}
    BY <1>5, <2>1, <2>2
  <2>3. CASE U # {}
    <3>1. Rest(U) \subseteq U /\ Rest(U) # U
      BY <2>3, PickIsIn
    <3>2. Rest(U) \subseteq T /\ Rest(U) # T
      BY <3>1, <1>5
    <3>3. Sums(h(U), U, w) /\ Sums(h(Rest(U)), Rest(U), w)
      BY <1>4, <1>5, <3>2
    <3>4. IsFiniteSet(U)
      BY <1>3, <1>5, FS_Subset
    <3>5. h(U)[Rest(U)] = h(Rest(U))[Rest(U)]
      BY <3>1, <3>3, <3>4, SumsAgree
    <3> QED BY <1>5, <2>1, <2>3, <3>5
  <2> QED BY <2>2, <2>3
<1>6. ASSUME NEW s \in SUBSET T, s # {} PROVE g[Rest(s)] = h(Rest(s))[Rest(s)]
  <2>1. Rest(s) \subseteq T /\ Rest(s) # T
    BY <1>6, PickIsIn
  <2> HIDE DEF g
  <2> QED BY <1>5, <2>1
<1>7. g = [s \in SUBSET T |-> IF s = {} THEN 0 ELSE w[Pick(s)] + g[Rest(s)]]
  BY <1>6
<1>8. Sums(g, T, w)
  BY <1>7 DEF Sums
<1> QED BY <1>3, <1>8

Total(S, w) == (CHOOSE f : Sums(f, S, w))[S]

\* The total of nothing.
LEMMA TotalEmpty == ASSUME NEW w PROVE Total({}, w) = 0
<1>1. PICK f : Sums(f, {}, w)
  BY SumsExist, FS_EmptySet
<1>2. Sums(CHOOSE g : Sums(g, {}, w), {}, w)
  BY <1>1
<1> QED BY <1>2 DEF Total, Sums

\* A total is one weight and the total of the rest.
LEMMA TotalPick ==
    ASSUME NEW S, IsFiniteSet(S), S # {}, NEW w
    PROVE  Total(S, w) = w[Pick(S)] + Total(Rest(S), w)
<1> DEFINE f == CHOOSE g : Sums(g, S, w)
           r == CHOOSE g : Sums(g, Rest(S), w)
<1>1. Rest(S) \subseteq S /\ IsFiniteSet(Rest(S))
  BY PickIsIn, FS_Subset
<1>2. Sums(f, S, w) /\ Sums(r, Rest(S), w)
  BY <1>1, SumsExist
<1> HIDE DEF f, r
<1>3. f[Rest(S)] = r[Rest(S)]
  BY <1>1, <1>2, SumsAgree
<1>4. f[S] = w[Pick(S)] + f[Rest(S)]
  BY <1>2 DEF Sums
<1> QED BY <1>3, <1>4 DEF Total, f, r

\* A total of integers is an integer, of non-negative ones it is non-negative.
LEMMA TotalInt ==
    ASSUME NEW S, IsFiniteSet(S), NEW w, \A x \in S : w[x] \in Int
    PROVE  /\ Total(S, w) \in Int
           /\ (\A x \in S : w[x] >= 0) => Total(S, w) >= 0
<1> DEFINE OK(T) == /\ Total(T, w) \in Int
                    /\ (\A x \in S : w[x] >= 0) => Total(T, w) >= 0
           F == {T \in SUBSET S : ~OK(T)}
<1>1. SUFFICES ASSUME F # {} PROVE FALSE
  OBVIOUS
<1>2. PICK T \in F : \A U \in F : U \subseteq T => U = T
  <2>1. F \subseteq SUBSET S
    OBVIOUS
  <2> HIDE DEF F
  <2> QED BY <1>1, <2>1, SmallestSubset
<1>3. T \in SUBSET S /\ ~OK(T) /\ IsFiniteSet(T)
  BY FS_Subset
<1>4. T # {}
  BY <1>3, TotalEmpty
<1>5. Pick(T) \in S /\ Rest(T) \subseteq T /\ Rest(T) # T
  BY <1>3, <1>4, PickIsIn
<1>6. OK(Rest(T))
  <2>1. Rest(T) \in SUBSET S
    BY <1>3, <1>5
  <2>2. Rest(T) \notin F
    BY <1>2, <1>5
  <2> QED BY <2>1, <2>2
<1>7. Total(T, w) = w[Pick(T)] + Total(Rest(T), w)
  BY <1>3, <1>4, TotalPick
<1> QED BY <1>3, <1>5, <1>6, <1>7

\* Any one weight can be taken out of a total, whatever the order of the fold.
LEMMA TotalWithout ==
    ASSUME NEW S, IsFiniteSet(S), NEW w, \A x \in S : w[x] \in Int, NEW x \in S
    PROVE  Total(S, w) = w[x] + Total(S \ {x}, w)
<1> DEFINE F == {T \in SUBSET S : \E y \in T : Total(T, w) # w[y] + Total(T \ {y}, w)}
<1>1. SUFFICES ASSUME F # {} PROVE FALSE
  OBVIOUS
<1>2. PICK T \in F : \A U \in F : U \subseteq T => U = T
  <2>1. F \subseteq SUBSET S
    OBVIOUS
  <2> HIDE DEF F
  <2> QED BY <1>1, <2>1, SmallestSubset
<1>3. PICK y \in T : Total(T, w) # w[y] + Total(T \ {y}, w)
  OBVIOUS
<1> DEFINE p == Pick(T)
           both == T \ {p, y}
<1>4. T \in SUBSET S /\ T # {} /\ IsFiniteSet(T) /\ p \in T /\ Rest(T) = T \ {p}
  BY <1>3, FS_Subset, PickIsIn DEF Rest
<1>5. Total(T, w) = w[p] + Total(T \ {p}, w)
  BY <1>4, TotalPick
<1>6. p # y
  BY <1>3, <1>5
<1>7. T \ {p} \notin F /\ T \ {y} \notin F
  BY <1>2, <1>3, <1>4
<1>8. (T \ {p}) \ {y} = both /\ (T \ {y}) \ {p} = both
  OBVIOUS
<1>9. Total(T \ {p}, w) = w[y] + Total(both, w)
  <2>1. y \in T \ {p} /\ T \ {p} \in SUBSET S
    BY <1>3, <1>4, <1>6
  <2> QED BY <1>7, <1>8, <2>1
<1>10. Total(T \ {y}, w) = w[p] + Total(both, w)
  <2>1. p \in T \ {y} /\ T \ {y} \in SUBSET S
    BY <1>4, <1>6
  <2> QED BY <1>7, <1>8, <2>1
<1>11. w[p] \in Int /\ w[y] \in Int /\ Total(both, w) \in Int
  <2>1. both \in SUBSET S
    BY <1>4
  <2>2. IsFiniteSet(both)
    BY <2>1, FS_Subset
  <2> QED BY <1>3, <1>4, <2>1, <2>2, TotalInt
<1> HIDE DEF p, both, F
<1> QED BY <1>3, <1>5, <1>9, <1>10, <1>11

\* Sum is a total.
LEMMA SumIsTotal ==
    ASSUME NEW w, IsFiniteSet(DOMAIN w)
    PROVE  Sum(w) = Total(DOMAIN w, w)
<1> DEFINE P == DOMAIN w
           f == CHOOSE g : g = [s \in SUBSET P |->
                    IF s = {} THEN 0 ELSE w[Pick(s)] + g[s \ {Pick(s)}]]
<1>1. Sum(w) = f[P]
  BY DEF Sum, MapThenSumSet, MapThenFoldSet, Pick
<1>2. ASSUME NEW g
      PROVE  Sums(g, P, w) <=>
             g = [s \in SUBSET P |-> IF s = {} THEN 0 ELSE w[Pick(s)] + g[s \ {Pick(s)}]]
  BY DEF Sums, Rest
<1>3. Sums(f, P, w)
  <2>1. PICK g : Sums(g, P, w)
    BY SumsExist
  <2>2. f = [s \in SUBSET P |-> IF s = {} THEN 0 ELSE w[Pick(s)] + f[s \ {Pick(s)}]]
    BY <1>2, <2>1
  <2> QED BY <1>2, <2>2
<1> HIDE DEF f, P
<1>4. f[P] = Total(P, w)
  <2>1. Sums(CHOOSE g : Sums(g, P, w), P, w)
    BY <1>3
  <2> QED BY <1>3, <2>1, SumsAgree DEF Total, P
<1> QED BY <1>1, <1>4 DEF P

-------------------------------------------------------------------------------
(* The ranking.                                                             *)

\* Every step up to a number is reached from the first.
LEMMA AllSteps ==
    ASSUME NEW k \in Nat, NEW F, 0 \in F, \A i \in 1..k : i - 1 \in F => i \in F
    PROVE  \A i \in 0..k : i \in F
<1> DEFINE G == {0..i : i \in {j \in 0..k : j \notin F}}
<1>1. SUFFICES ASSUME G # {} PROVE FALSE
  OBVIOUS
<1>2. PICK U \in G : \A V \in G : V \subseteq U => V = U
  <2> DEFINE S == 0..k
  <2>1. G \subseteq SUBSET S
    OBVIOUS
  <2>2. IsFiniteSet(S)
    BY FS_Interval
  <2> HIDE DEF G, S
  <2> QED BY <1>1, <2>1, <2>2, SmallestSubset
<1>3. PICK i \in 0..k : i \notin F /\ U = 0..i
  OBVIOUS
<1>4. i # 0 /\ i \in 1..k /\ i - 1 \in 0..k
  BY <1>3
<1>5. i - 1 \notin F
  BY <1>3, <1>4
<1>6. 0..(i - 1) \in G /\ 0..(i - 1) \subseteq U
  BY <1>3, <1>4, <1>5
<1>7. 0..(i - 1) = 0..i
  BY <1>2, <1>3, <1>6
<1> QED BY <1>4, <1>7

\* One of finitely many tickers has the least mean.
LEMMA LeastExists ==
    ASSUME NEW T, IsFiniteSet(T), T # {}, NEW mu, \A t \in T : mu[t] \in Int
    PROVE  \E t \in T : \A s \in T : mu[t] <= mu[s]
<1> DEFINE OK(U) == \E t \in U : \A s \in U : mu[t] <= mu[s]
           F == {U \in SUBSET T : U # {} /\ ~OK(U)}
<1>1. SUFFICES ASSUME F # {} PROVE FALSE
  OBVIOUS
<1>2. PICK U \in F : \A V \in F : V \subseteq U => V = U
  <2>1. F \subseteq SUBSET T
    OBVIOUS
  <2> HIDE DEF F
  <2> QED BY <1>1, <2>1, SmallestSubset
<1>3. U \subseteq T /\ U # {} /\ ~OK(U)
  OBVIOUS
<1>4. PICK t \in U : TRUE
  BY <1>3
<1>5. U \ {t} = {} \/ OK(U \ {t})
  <2>1. U \ {t} \notin F
    BY <1>2, <1>4
  <2> QED BY <1>3, <2>1
<1>6. CASE U \ {t} = {}
  <2>1. \A s \in U : mu[t] <= mu[s]
    BY <1>3, <1>4, <1>6
  <2> QED BY <1>3, <1>4, <2>1
<1>7. CASE OK(U \ {t})
  <2>1. PICK m \in U \ {t} : \A s \in U \ {t} : mu[m] <= mu[s]
    BY <1>7
  <2>2. mu[m] \in Int /\ mu[t] \in Int /\ \A s \in U : mu[s] \in Int
    BY <1>3, <1>4, <2>1
  <2>3. CASE mu[m] <= mu[t]
    BY <1>3, <2>1, <2>3
  <2>4. CASE mu[t] < mu[m]
    <3>1. \A s \in U : mu[t] <= mu[s]
      BY <2>1, <2>2, <2>4
    <3> QED BY <1>3, <1>4, <3>1
  <2> QED BY <2>2, <2>3, <2>4
<1> QED BY <1>5, <1>6, <1>7

\* An order of the tickers by falling mean.
Ranks(order, T, mu) ==
    /\ order \in [1..Cardinality(T) -> T]
    /\ \A i, j \in DOMAIN order :
          i < j => order[i] # order[j] /\ mu[order[i]] >= mu[order[j]]

\* There is one.
LEMMA RankingExists ==
    ASSUME NEW T, IsFiniteSet(T), NEW mu, \A t \in T : mu[t] \in Int
    PROVE  \E order : Ranks(order, T, mu)
<1> DEFINE F == {U \in SUBSET T : ~\E order : Ranks(order, U, mu)}
<1>1. SUFFICES ASSUME F # {} PROVE FALSE
  OBVIOUS
<1>2. PICK U \in F : \A V \in F : V \subseteq U => V = U
  <2>1. F \subseteq SUBSET T
    OBVIOUS
  <2> HIDE DEF F
  <2> QED BY <1>1, <2>1, SmallestSubset
<1>3. /\ U \subseteq T /\ ~\E order : Ranks(order, U, mu)
      /\ IsFiniteSet(U) /\ \A t \in U : mu[t] \in Int
  BY FS_Subset
<1>4. U # {}
  <2>1. ASSUME U = {} PROVE Ranks([i \in {} |-> i], U, mu)
    <3>1. 1..Cardinality(U) = {}
      BY <2>1, FS_EmptySet
    <3> QED BY <2>1, <3>1 DEF Ranks
  <2> QED BY <1>3, <2>1
<1>5. PICK t \in U : \A s \in U : mu[t] <= mu[s]
  BY <1>3, <1>4, LeastExists
<1> DEFINE rest == U \ {t}
           n == Cardinality(rest)
<1>6. IsFiniteSet(rest) /\ n \in Nat /\ Cardinality(U) = n + 1
  <2>1. IsFiniteSet(rest) /\ Cardinality(rest) = Cardinality(U) - 1
    BY <1>3, <1>5, FS_RemoveElement
  <2>2. Cardinality(U) \in Nat /\ n \in Nat
    BY <1>3, <2>1, FS_CardinalityType
  <2> QED BY <2>1, <2>2
<1>7. PICK o : Ranks(o, rest, mu)
  <2>1. rest \notin F
    BY <1>2, <1>5
  <2> QED BY <1>3, <2>1
<1> DEFINE p == [i \in 1..(n + 1) |-> IF i = n + 1 THEN t ELSE o[i]]
<1> HIDE DEF n, F
<1>8. \A i \in 1..n : o[i] \in U /\ o[i] # t
  BY <1>7 DEF Ranks, n
<1>9. \A i \in 1..n : p[i] = o[i]
  BY <1>6
<1>10. p[n + 1] = t
  BY <1>6
<1>11. \A i \in 1..(n + 1) : i # n + 1 => i \in 1..n
  BY <1>6
<1>12. p \in [1..(n + 1) -> U]
  BY <1>5, <1>8, <1>11
<1> HIDE DEF p
<1>13. ASSUME NEW i \in 1..(n + 1), NEW j \in 1..(n + 1), i < j
       PROVE  p[i] # p[j] /\ mu[p[i]] >= mu[p[j]]
  <2>1. i \in 1..n
    BY <1>6, <1>13
  <2>2. CASE j = n + 1
    <3>1. p[i] = o[i] /\ p[j] = t /\ o[i] \in U /\ o[i] # t
      BY <1>8, <1>9, <1>10, <2>1, <2>2
    <3>2. mu[t] <= mu[o[i]] /\ mu[t] \in Int /\ mu[o[i]] \in Int
      BY <1>3, <1>5, <3>1
    <3> QED BY <3>1, <3>2
  <2>3. CASE j # n + 1
    <3>1. j \in 1..n
      BY <1>11, <2>3
    <3>2. o[i] # o[j] /\ mu[o[i]] >= mu[o[j]]
      BY <1>7, <1>13, <2>1, <3>1 DEF Ranks, n
    <3> QED BY <1>9, <2>1, <3>1, <3>2
  <2> QED BY <2>2, <2>3
<1>14. Ranks(p, U, mu)
  BY <1>6, <1>12, <1>13 DEF Ranks
<1> QED BY <1>3, <1>14

\* Ranking is such an order, and has every ticker once.
LEMMA RankingRanks ==
    ASSUME NEW T, IsFiniteSet(T), NEW mu, \A t \in T : mu[t] \in Int
    PROVE  /\ Ranks(Ranking(T, mu), T, mu)
           /\ \A t \in T : \E i \in 1..Cardinality(T) : Ranking(T, mu)[i] = t
<1> DEFINE k == Cardinality(T)
           order == Ranking(T, mu)
<1>1. PICK o : Ranks(o, T, mu)
  BY RankingExists
<1> DEFINE Falls(q) == \A i, j \in DOMAIN q : i < j => q[i] # q[j] /\ mu[q[i]] >= mu[q[j]]
<1>2. o \in [1..Cardinality(T) -> T] /\ Falls(o)
  BY <1>1 DEF Ranks
<1>3. Ranks(order, T, mu)
  <2>1. order = CHOOSE q \in [1..Cardinality(T) -> T] : Falls(q)
    BY DEF Ranking
  <2> HIDE DEF Falls, order
  <2>2. order \in [1..Cardinality(T) -> T] /\ Falls(order)
    BY <1>2, <2>1
  <2> QED BY <2>2 DEF Falls, Ranks
<1> HIDE DEF order
<1>4. k \in Nat /\ IsFiniteSet(1..k) /\ Cardinality(1..k) = k
  <2>1. k \in Nat
    BY FS_CardinalityType
  <2> HIDE DEF k
  <2>2. IsFiniteSet(1..k) /\ Cardinality(1..k) = IF 1 > k THEN 0 ELSE k - 1 + 1
    BY <2>1, FS_Interval
  <2> QED BY <2>1, <2>2
<1>5. order \in [1..k -> T] /\ \A i, j \in 1..k : i < j => order[i] # order[j]
  BY <1>3 DEF Ranks
<1> HIDE DEF k
<1>6. \A i, j \in 1..k : order[i] = order[j] => i = j
  BY <1>4, <1>5
<1>7. order \in Injection(1..k, T)
  BY <1>5, <1>6 DEF Injection, IsInjective
<1>8. order \in Surjection(1..k, T)
  <2>1. Cardinality(1..k) = Cardinality(T)
    BY <1>4 DEF k
  <2> QED BY <1>7, <2>1, FS_Injection
<1>9. \A t \in T : \E i \in 1..k : order[i] = t
  BY <1>8 DEF Surjection
<1> QED BY <1>3, <1>9 DEF order, k

-------------------------------------------------------------------------------
(* The allocation of the right end of the sweep.                            *)

-------------------------------------------------------------------------------
(* The right end of the sweep.                                              *)

\* The first tickers of an order.
Best(order, j) == {order[i] : i \in 1..j}

\* What the bound leaves after so many tickers.
Left(upper, i) == IF i * upper <= Full THEN Full - i * upper ELSE 0

\* The next ticker takes the bound or what is left.
LEMMA LeftNext ==
    ASSUME NEW upper \in Nat, NEW i \in Nat \ {0}
    PROVE  /\ Left(upper, i) \in Nat /\ Left(upper, i - 1) \in Nat
           /\ Left(upper, i) = Left(upper, i - 1) - Lesser(upper, Left(upper, i - 1))
           /\ Left(upper, i) <= Left(upper, i - 1)
           /\ Left(upper, i - 1) - Left(upper, i) <= upper
<1> DEFINE a == (i - 1) * upper
<1>1. i - 1 \in Nat /\ a \in Nat /\ i * upper = a + upper
  BY SMTT(30)
<1> HIDE DEF a
<1>2. Left(upper, i) = IF a + upper <= Full THEN Full - (a + upper) ELSE 0
  BY <1>1 DEF Left
<1>3. Left(upper, i - 1) = IF a <= Full THEN Full - a ELSE 0
  BY DEF Left, a
<1> QED BY <1>1, <1>2, <1>3, FrontierAssumption DEF Lesser

\* The weights of the right end: what is left before a ticker less what is left after it.
LEMMA AllocationTakes ==
    ASSUME NEW T, IsFiniteSet(T), NEW mu, \A t \in T : mu[t] \in Int, NEW upper \in Nat
    PROVE  LET order == Ranking(T, mu)
               end == MaxReturnAllocation(T, mu, upper)
           IN  /\ end \in [T -> Int]
               /\ \A i \in 1..Cardinality(T) :
                     end[order[i]] = Left(upper, i - 1) - Left(upper, i)
<1> DEFINE k == Cardinality(T)
           order == Ranking(T, mu)
           Remains(f) == f = [i \in 0..k |-> IF i = 0 THEN Full
                                           ELSE f[i - 1] - Lesser(upper, f[i - 1])]
           remaining == CHOOSE f : Remains(f)
           rank(t) == CHOOSE i \in DOMAIN order : order[i] = t
           end == MaxReturnAllocation(T, mu, upper)
<1>1. end = [t \in T |-> remaining[rank(t) - 1] - remaining[rank(t)]]
  BY DEF MaxReturnAllocation
<1>2. k \in Nat
  BY FS_CardinalityType
<1>3. /\ Ranks(order, T, mu)
      /\ \A t \in T : \E i \in 1..k : order[i] = t
  BY RankingRanks
<1> HIDE DEF order, k, end
<1>4. Remains([i \in 0..k |-> Left(upper, i)])
  <2> DEFINE f == [i \in 0..k |-> Left(upper, i)]
  <2>1. Left(upper, 0) = Full
    BY FrontierAssumption DEF Left
  <2>2. ASSUME NEW i \in 0..k, i # 0 PROVE Left(upper, i) = f[i - 1] - Lesser(upper, f[i - 1])
    <3>1. i \in Nat \ {0} /\ i - 1 \in 0..k
      BY <1>2, <2>2
    <3>2. f[i - 1] = Left(upper, i - 1)
      BY <3>1
    <3> HIDE DEF f
    <3> QED BY <3>1, <3>2, LeftNext
  <2>3. [i \in 0..k |-> Left(upper, i)]
            = [i \in 0..k |-> IF i = 0 THEN Full ELSE f[i - 1] - Lesser(upper, f[i - 1])]
    BY <2>1, <2>2
  <2> QED BY <2>3
<1>5. Remains(remaining)
  <2> HIDE DEF Remains
  <2> QED BY <1>4
<1> HIDE DEF remaining
<1>6. /\ remaining[0] = Full
      /\ \A i \in 1..k : remaining[i] = remaining[i - 1] - Lesser(upper, remaining[i - 1])
  <2>1. remaining[0] = Full
    BY <1>2, <1>5
  <2>2. ASSUME NEW i \in 1..k
        PROVE  remaining[i] = remaining[i - 1] - Lesser(upper, remaining[i - 1])
    <3>1. i \in 0..k /\ i # 0
      BY <1>2
    <3> QED BY <1>5, <3>1
  <2> QED BY <2>1, <2>2
<1> HIDE DEF Remains
<1>7. \A i \in 0..k : remaining[i] = Left(upper, i)
  <2> DEFINE F == {i \in 0..k : remaining[i] = Left(upper, i)}
  <2>1. 0 \in F
    <3>1. Left(upper, 0) = Full
      BY FrontierAssumption DEF Left
    <3> QED BY <1>2, <1>6, <3>1
  <2>2. ASSUME NEW i \in 1..k, i - 1 \in F PROVE i \in F
    <3>1. i \in Nat \ {0} /\ i \in 0..k
      BY <1>2
    <3>2. remaining[i - 1] = Left(upper, i - 1)
      BY <2>2
    <3>3. remaining[i] = Left(upper, i)
      BY <1>6, <3>1, <3>2, LeftNext
    <3> QED BY <3>1, <3>3
  <2> HIDE DEF F
  <2>3. \A i \in 0..k : i \in F
    BY <1>2, <2>1, <2>2, AllSteps
  <2> QED BY <2>3 DEF F
<1>8. order \in [1..k -> T] /\ \A i, j \in 1..k : i < j => order[i] # order[j]
  BY <1>3 DEF Ranks, k
<1>9. ASSUME NEW i \in 1..k PROVE rank(order[i]) = i
  <2>1. \A j \in 1..k : order[j] = order[i] => j = i
    BY <1>2, <1>8
  <2>2. DOMAIN order = 1..k
    BY <1>8
  <2> QED BY <2>1, <2>2
<1> HIDE DEF rank
<1>10. ASSUME NEW i \in 1..k
       PROVE  end[order[i]] = Left(upper, i - 1) - Left(upper, i)
  <2>1. order[i] \in T
    BY <1>8
  <2>2. end[order[i]] = remaining[i - 1] - remaining[i]
    BY <1>1, <1>9, <2>1
  <2>3. i - 1 \in 0..k /\ i \in 0..k
    BY <1>2
  <2> QED BY <1>7, <2>2, <2>3
<1>11. end \in [T -> Int]
  <2>1. ASSUME NEW t \in T PROVE end[t] \in Int
    <3>1. PICK i \in 1..k : order[i] = t
      BY <1>3
    <3>2. end[t] = Left(upper, i - 1) - Left(upper, i)
      BY <1>10, <3>1
    <3>3. i \in Nat \ {0}
      BY <1>2
    <3> QED BY <3>2, <3>3, LeftNext
  <2>2. end = [t \in T |-> end[t]]
    BY <1>1
  <2> QED BY <2>1, <2>2
<1> QED BY <1>10, <1>11 DEF end, order, k

\* A total over the first tickers, one more at a time.
LEMMA TotalOfBest ==
    ASSUME NEW T, IsFiniteSet(T), NEW mu, NEW order, Ranks(order, T, mu),
           NEW w, \A t \in T : w[t] \in Int, NEW j \in 1..Cardinality(T)
    PROVE  /\ Best(order, j) \subseteq T /\ Best(order, 0) = {}
           /\ Total(Best(order, j - 1), w) \in Int
           /\ Total(Best(order, j), w) = Total(Best(order, j - 1), w) + w[order[j]]
<1> DEFINE k == Cardinality(T)
<1>1. k \in Nat
  BY FS_CardinalityType
<1>2. order \in [1..k -> T] /\ \A m, n \in 1..k : m < n => order[m] # order[n]
  BY DEF Ranks
<1> HIDE DEF k
<1>3. j \in 1..k
  BY DEF k
<1>4. Best(order, j) \subseteq T /\ Best(order, j - 1) \subseteq T
  BY <1>1, <1>2, <1>3 DEF Best
<1>5. order[j] \in Best(order, j)
  BY <1>1, <1>3 DEF Best
<1>6. Best(order, j - 1) = Best(order, j) \ {order[j]}
  <2>1. ASSUME NEW i \in 1..(j - 1) PROVE order[i] # order[j] /\ i \in 1..j
    BY <1>1, <1>2, <1>3
  <2>2. ASSUME NEW i \in 1..j, order[i] # order[j] PROVE i \in 1..(j - 1)
    BY <1>1, <1>3, <2>2
  <2> QED BY <2>1, <2>2 DEF Best
<1>7. IsFiniteSet(Best(order, j)) /\ IsFiniteSet(Best(order, j - 1))
  BY <1>4, FS_Subset
<1>8. \A t \in Best(order, j) : w[t] \in Int
  BY <1>4
<1>9. Total(Best(order, j), w) = w[order[j]] + Total(Best(order, j) \ {order[j]}, w)
  BY <1>5, <1>7, <1>8, TotalWithout
<1>10. Total(Best(order, j - 1), w) \in Int
  <2>1. \A t \in Best(order, j - 1) : w[t] \in Int
    BY <1>4
  <2> QED BY <1>7, <2>1, TotalInt
<1>11. w[order[j]] \in Int
  BY <1>5, <1>8
<1>12. Best(order, 0) = {}
  BY DEF Best
<1>13. Total(Best(order, j), w) = w[order[j]] + Total(Best(order, j - 1), w)
  BY <1>6, <1>9
<1>14. Total(Best(order, j), w) = Total(Best(order, j - 1), w) + w[order[j]]
  BY <1>10, <1>11, <1>13
<1> QED BY <1>4, <1>10, <1>12, <1>14

\* A total of multiples is a multiple.
LEMMA TotalScaled ==
    ASSUME NEW T, IsFiniteSet(T), NEW w, \A t \in T : \E i \in Int : w[t] = Step * i
    PROVE  \E i \in Int : Total(T, w) = Step * i
<1> DEFINE OK(U) == \E i \in Int : Total(U, w) = Step * i
           F == {U \in SUBSET T : ~OK(U)}
<1>1. SUFFICES ASSUME F # {} PROVE FALSE
  OBVIOUS
<1>2. PICK U \in F : \A V \in F : V \subseteq U => V = U
  <2>1. F \subseteq SUBSET T
    OBVIOUS
  <2> HIDE DEF F
  <2> QED BY <1>1, <2>1, SmallestSubset
<1>3. U \in SUBSET T /\ ~OK(U) /\ IsFiniteSet(U)
  BY FS_Subset
<1>4. U # {}
  <2>1. Total({}, w) = Step * 0
    BY TotalEmpty, FrontierAssumption
  <2>2. OK({})
    BY <2>1
  <2> HIDE DEF OK, F
  <2> QED BY <1>3, <2>2
<1>5. Pick(U) \in T /\ Rest(U) \subseteq U /\ Rest(U) # U
  BY <1>3, <1>4, PickIsIn
<1>6. OK(Rest(U))
  <2>1. Rest(U) \in SUBSET T
    BY <1>3, <1>5
  <2>2. Rest(U) \notin F
    BY <1>2, <1>5
  <2> QED BY <2>1, <2>2
<1>7. PICK i \in Int : Total(Rest(U), w) = Step * i
  BY <1>6
<1>8. PICK j \in Int : w[Pick(U)] = Step * j
  BY <1>5
<1>9. Total(U, w) = w[Pick(U)] + Total(Rest(U), w)
  BY <1>3, <1>4, TotalPick
<1>10. Step * j + Step * i = Step * (j + i) /\ j + i \in Int
  BY FrontierAssumption
<1>11. Total(U, w) = Step * (j + i)
  BY <1>7, <1>8, <1>9, <1>10
<1> QED BY <1>3, <1>10, <1>11

\* On the grid, what is left is too.
LEMMA LeftScaled ==
    ASSUME NEW u \in Nat, NEW f \in Int, Full = Step * f, NEW i \in Nat
    PROVE  \E n \in Int : Left(Step * u, i) = Step * n
<1>1. Step \in Nat /\ i * (Step * u) = Step * (i * u)
  BY FrontierAssumption
<1>2. CASE i * (Step * u) <= Full
  <2> DEFINE v == i * u
  <2>1. v \in Int
    OBVIOUS
  <2>2. Left(Step * u, i) = Step * f - Step * v
    BY <1>1, <1>2 DEF Left
  <2> HIDE DEF v
  <2>3. Step * f - Step * v = Step * (f - v) /\ f - v \in Int
    BY <1>1, <2>1
  <2> QED BY <2>2, <2>3
<1>3. CASE ~(i * (Step * u) <= Full)
  <2>1. Left(Step * u, i) = Step * 0
    BY <1>1, <1>3 DEF Left
  <2> QED BY <2>1
<1> QED BY <1>2, <1>3

\* A multiple of Step up to Full is a weight of the grid.
LEMMA OnGrid ==
    ASSUME NEW x \in 0..Full, NEW n \in Int, x = Step * n
    PROVE  x \in {Step * i : i \in 0..(Full \div Step)}
<1> DEFINE q == Full \div Step
           m == Full % Step
<1>1. /\ Full = Step * q + m /\ q \in Int /\ m \in Int
      /\ 0 <= m /\ m < Step /\ Step \in Int /\ 0 < Step
  BY FrontierAssumption
<1> HIDE DEF q, m
<1>2. n >= 0
  <2>1. SUFFICES ASSUME n <= -1 PROVE FALSE
    OBVIOUS
  <2>2. Step * n <= Step * (-1)
    BY <1>1, <2>1
  <2> QED BY <1>1, <2>2
<1>3. n <= q
  <2>1. SUFFICES ASSUME n >= q + 1 PROVE FALSE
    BY <1>1
  <2>2. Step * n >= Step * (q + 1)
    BY <1>1, <2>1
  <2>3. Step * (q + 1) = Step * q + Step
    BY <1>1
  <2> DEFINE a == Step * n
             b == Step * q
  <2>4. a \in Int /\ b \in Int
    BY <1>1
  <2>5. a <= Full /\ Full = b + m /\ a >= b + Step
    BY <1>1, <2>2, <2>3
  <2> HIDE DEF a, b
  <2> QED BY <1>1, <2>4, <2>5
<1> QED BY <1>2, <1>3 DEF q

\* One more ticker: who has the better mean has it at least as good.
LEMMA BetterMean ==
    ASSUME NEW m \in Int, NEW n \in Int, m >= n, NEW d \in Int, d >= 0,
           NEW gain \in Int, gain >= m * d, NEW a \in Int, NEW b \in Int
    PROVE  gain + (a * n - b * n) >= n * (d + (a - b))
<1>1. m * d >= n * d
  BY SMTT(30)
<1>2. n * (d + (a - b)) = n * d + (a * n - b * n)
  BY SMTT(30)
<1> DEFINE x == n * d
           y == m * d
           z == a * n - b * n
<1>3. x \in Int /\ y \in Int /\ z \in Int
  OBVIOUS
<1>4. y >= x /\ gain >= y /\ n * (d + (a - b)) = x + z
  BY <1>1, <1>2
<1> HIDE DEF x, y, z
<1>5. gain + z >= x + z
  BY <1>3, <1>4
<1> QED BY <1>4, <1>5 DEF z

\* What any allocation within the bounds has in the first tickers is at most what the
\* right end has there, and both are Full in all of them.
LEMMA EndIsAhead ==
    ASSUME NEW T, IsFiniteSet(T), NEW mu, \A t \in T : mu[t] \in Int,
           NEW upper \in Nat, NEW w \in [T -> Int], \A t \in T : 0 <= w[t] /\ w[t] <= upper,
           Sum(w) = Full
    PROVE  LET order == Ranking(T, mu)
               end == MaxReturnAllocation(T, mu, upper)
               k == Cardinality(T)
           IN  /\ k \in Nat \ {0}
               /\ \A j \in 0..k : /\ Total(Best(order, j), w) \in Int
                                  /\ Total(Best(order, j), end) = Full - Left(upper, j)
                                  /\ Total(Best(order, j), w) <= Total(Best(order, j), end)
               /\ Best(order, k) = T
               /\ Total(T, w) = Full
               /\ Total(T, end) = Full
<1> DEFINE order == Ranking(T, mu)
           end == MaxReturnAllocation(T, mu, upper)
           k == Cardinality(T)
           W(j) == Total(Best(order, j), w)
           E(j) == Total(Best(order, j), end)
<1>1. Ranks(order, T, mu) /\ (\A t \in T : \E i \in 1..k : order[i] = t)
  BY RankingRanks
<1>2. /\ end \in [T -> Int]
      /\ \A i \in 1..k : end[order[i]] = Left(upper, i - 1) - Left(upper, i)
  BY AllocationTakes
<1> HIDE DEF order, end
<1>3. /\ \A t \in T : w[t] \in Int /\ end[t] \in Int
      /\ \A i \in 1..k : order[i] \in T
  BY <1>1, <1>2 DEF Ranks
<1>4. Total(T, w) = Full /\ Full \in Nat \ {0}
  BY SumIsTotal, FrontierAssumption
<1>5. k \in Nat \ {0}
  <2>1. T # {}
    BY <1>4, TotalEmpty
  <2> QED BY <2>1, FS_CardinalityType, FS_EmptySet
<1>6. ASSUME NEW j \in 1..k
      PROVE  /\ W(j - 1) \in Int /\ W(j) = W(j - 1) + w[order[j]]
             /\ E(j) = E(j - 1) + end[order[j]]
  BY <1>1, <1>3, TotalOfBest
<1>7. Best(order, k) = T
  BY <1>1, <1>3 DEF Best
<1>8. W(0) = 0 /\ E(0) = 0
  <2>1. Best(order, 0) = {}
    BY DEF Best
  <2> QED BY <2>1, TotalEmpty
<1>9. W(k) = Full
  BY <1>4, <1>7
<1> HIDE DEF W, E, k
<1>10. \A j \in 0..k : W(j) \in Int /\ W(j) <= j * upper
  <2> DEFINE F == {j \in 0..k : W(j) \in Int /\ W(j) <= j * upper}
  <2>1. 0 \in F
    BY <1>5, <1>8
  <2>2. ASSUME NEW j \in 1..k, j - 1 \in F PROVE j \in F
    <3> DEFINE a == (j - 1) * upper
    <3>1. W(j - 1) \in Int /\ W(j - 1) <= a /\ a \in Int /\ j * upper = a + upper /\ j \in 0..k
      <4>1. j \in Int /\ j - 1 \in Int /\ j \in 0..k
        BY <1>5
      <4>2. (j - 1) * upper \in Int /\ j * upper = (j - 1) * upper + upper
        BY <4>1, SMTT(30)
      <4> QED BY <2>2, <4>1, <4>2
    <3>2. W(j) = W(j - 1) + w[order[j]] /\ w[order[j]] \in Int /\ w[order[j]] <= upper
      BY <1>3, <1>6
    <3> HIDE DEF a
    <3>3. W(j) \in Int /\ W(j) <= j * upper
      BY <3>1, <3>2
    <3> QED BY <3>1, <3>3
  <2> HIDE DEF F
  <2>3. \A j \in 0..k : j \in F
    BY <1>5, <2>1, <2>2, AllSteps
  <2> QED BY <2>3 DEF F
<1>11. \A j \in 0..k : W(j) <= Full
  <2> DEFINE F == {i \in 0..k : W(k - i) <= Full}
  <2>1. 0 \in F
    BY <1>4, <1>5, <1>9
  <2>2. ASSUME NEW i \in 1..k, i - 1 \in F PROVE i \in F
    <3> DEFINE j == k - i + 1
    <3>1. j \in 1..k /\ j - 1 = k - i /\ k - (i - 1) = j /\ i \in 0..k /\ k - i \in 0..k
      BY <1>5
    <3>2. W(j) <= Full
      BY <2>2, <3>1
    <3> HIDE DEF j
    <3>3. W(j) = W(j - 1) + w[order[j]] /\ w[order[j]] \in Int /\ 0 <= w[order[j]]
      BY <1>3, <1>6, <3>1
    <3>4. W(j - 1) \in Int /\ W(j - 1) = W(k - i)
      BY <1>10, <3>1
    <3>5. W(k - i) <= Full
      BY <1>4, <3>2, <3>3, <3>4
    <3> QED BY <3>1, <3>5
  <2> HIDE DEF F
  <2>3. \A i \in 0..k : i \in F
    BY <1>5, <2>1, <2>2, AllSteps
  <2>4. ASSUME NEW j \in 0..k PROVE W(j) <= Full
    <3>1. k - j \in 0..k /\ k - (k - j) = j
      BY <1>5
    <3> QED BY <2>3, <3>1 DEF F
  <2> QED BY <2>4
<1>12. \A j \in 0..k : E(j) = Full - Left(upper, j)
  <2> DEFINE F == {j \in 0..k : E(j) = Full - Left(upper, j)}
  <2>1. 0 \in F
    <3>1. Left(upper, 0) = Full
      BY <1>4 DEF Left
    <3> QED BY <1>4, <1>5, <1>8, <3>1
  <2>2. ASSUME NEW j \in 1..k, j - 1 \in F PROVE j \in F
    <3>1. j \in Nat \ {0} /\ j \in 0..k
      BY <1>5
    <3>2. E(j - 1) = Full - Left(upper, j - 1)
      BY <2>2
    <3>3. E(j) = E(j - 1) + (Left(upper, j - 1) - Left(upper, j))
      BY <1>2, <1>6 DEF k
    <3>4. Left(upper, j) \in Nat /\ Left(upper, j - 1) \in Nat
      BY <3>1, LeftNext
    <3>5. E(j) = Full - Left(upper, j)
      BY <1>4, <3>2, <3>3, <3>4
    <3> QED BY <3>1, <3>5
  <2> HIDE DEF F
  <2>3. \A j \in 0..k : j \in F
    BY <1>5, <2>1, <2>2, AllSteps
  <2> QED BY <2>3 DEF F
<1>13. ASSUME NEW j \in 0..k PROVE W(j) <= E(j)
  <2> DEFINE a == j * upper
  <2>1. W(j) \in Int /\ W(j) <= a /\ W(j) <= Full /\ a \in Int
    <3>1. a \in Int
      BY <1>5
    <3> QED BY <1>10, <1>11, <3>1
  <2>2. Left(upper, j) = IF a <= Full THEN Full - a ELSE 0
    BY DEF Left
  <2>3. E(j) = Full - Left(upper, j)
    BY <1>12
  <2> HIDE DEF a
  <2> QED BY <1>4, <2>1, <2>2, <2>3
<1>14. E(k) = Full
  <2> DEFINE a == k * upper
  <2>1. k \in 0..k /\ a \in Int
    BY <1>5
  <2>2. Full <= a
    BY <1>9, <1>10, <2>1
  <2>3. Left(upper, k) = IF a <= Full THEN Full - a ELSE 0
    BY DEF Left
  <2>4. E(k) = Full - Left(upper, k)
    BY <1>12, <2>1
  <2> HIDE DEF a
  <2> QED BY <1>4, <2>1, <2>2, <2>3, <2>4
<1>15. Total(T, end) = Full
  BY <1>7, <1>14 DEF E
<1> QED BY <1>4, <1>5, <1>7, <1>10, <1>12, <1>13, <1>15 DEF W, E, order, end, k

\* The right end is an allocation the optimizer may answer.
LEMMA EndIsFeasible ==
    ASSUME NEW T, IsFiniteSet(T), NEW mu, \A t \in T : mu[t] \in Int,
           NEW u \in Nat, NEW w \in Feasible(T, Step * u)
    PROVE  MaxReturnAllocation(T, mu, Step * u) \in Feasible(T, Step * u)
<1> DEFINE order == Ranking(T, mu)
           upper == Step * u
           end == MaxReturnAllocation(T, mu, upper)
           k == Cardinality(T)
<1>1. /\ w \in [T -> Int] /\ upper \in Nat /\ Sum(w) = Full
      /\ \A t \in T : 0 <= w[t] /\ w[t] <= upper
      /\ \A t \in T : \E i \in Int : w[t] = Step * i
  <2>1. \A i \in 0..(Full \div Step) : i \in Int /\ Step * i \in Int /\ 0 <= Step * i
    BY FrontierAssumption
  <2>2. upper \in Nat
    BY FrontierAssumption
  <2>3. /\ w \in [T -> {Step * i : i \in 0..(Full \div Step)}]
        /\ Sum(w) = Full /\ \A t \in T : w[t] <= upper
    BY DEF Feasible
  <2> HIDE DEF upper
  <2>4. ASSUME NEW t \in T
        PROVE  \E i \in Int : w[t] = Step * i /\ w[t] \in Int /\ 0 <= w[t]
    <3>1. w[t] \in {Step * i : i \in 0..(Full \div Step)}
      BY <2>3
    <3> QED BY <2>1, <3>1
  <2> QED BY <2>2, <2>3, <2>4
<1> HIDE DEF upper
<1>2. Total(T, w) = Full /\ k \in Nat \ {0} /\ Total(T, end) = Full
  BY <1>1, EndIsAhead
<1>3. /\ end \in [T -> Int]
      /\ \A i \in 1..k : end[order[i]] = Left(upper, i - 1) - Left(upper, i)
  <2>1. upper \in Nat
    BY <1>1
  <2> QED BY <2>1, AllocationTakes
<1>4. \A t \in T : \E i \in 1..k : order[i] = t
  BY RankingRanks
<1> HIDE DEF order, end, k
<1>5. PICK f \in Int : Full = Step * f
  <2>1. \E i \in Int : Total(T, w) = Step * i
    BY <1>1, TotalScaled
  <2> QED BY <1>2, <2>1
<1>6. ASSUME NEW t \in T
      PROVE  end[t] \in {Step * i : i \in 0..(Full \div Step)} /\ end[t] <= upper
  <2>1. PICK i \in 1..k : order[i] = t
    BY <1>4
  <2> DEFINE before == Left(upper, i - 1)
             after == Left(upper, i)
  <2>2. end[t] = before - after /\ i \in Nat \ {0} /\ i - 1 \in Nat
    BY <1>2, <1>3, <2>1
  <2>3. before \in Nat /\ after \in Nat /\ after <= before /\ before - after <= upper
    BY <1>1, <2>2, LeftNext
  <2>4. before <= Full
    <3> DEFINE a == (i - 1) * upper
    <3>1. a \in Nat
      BY <1>1, <2>2
    <3>2. before = IF a <= Full THEN Full - a ELSE 0
      BY DEF Left
    <3> HIDE DEF a, before
    <3> QED BY <3>1, <3>2, FrontierAssumption
  <2>5. PICK m \in Int : before = Step * m
    BY <1>5, <2>2, LeftScaled DEF upper
  <2>6. PICK n \in Int : after = Step * n
    BY <1>5, <2>2, LeftScaled DEF upper
  <2> HIDE DEF before, after
  <2>7. end[t] \in 0..Full /\ end[t] <= upper
    BY <2>2, <2>3, <2>4, FrontierAssumption
  <2>8. end[t] = Step * (m - n) /\ m - n \in Int
    <3>1. Step * m - Step * n = Step * (m - n) /\ m - n \in Int
      BY FrontierAssumption
    <3> QED BY <2>2, <2>5, <2>6, <3>1
  <2>9. end[t] \in {Step * i2 : i2 \in 0..(Full \div Step)}
    BY <2>7, <2>8, OnGrid
  <2> QED BY <2>7, <2>9
<1>7. Sum(end) = Full
  BY <1>2, <1>3, SumIsTotal
<1>8. end \in [T -> {Step * i : i \in 0..(Full \div Step)}]
  BY <1>3, <1>6
<1> QED BY <1>6, <1>7, <1>8 DEF Feasible, end, upper

\* No allocation within the bounds has a better return than the right end.
LEMMA EndIsBest ==
    ASSUME NEW T, IsFiniteSet(T), NEW mu \in [T -> Int],
           NEW upper \in Nat, NEW w \in [T -> Int], \A t \in T : 0 <= w[t] /\ w[t] <= upper,
           Sum(w) = Full
    PROVE  Return(w, mu) <= Return(MaxReturnAllocation(T, mu, upper), mu)
<1> DEFINE order == Ranking(T, mu)
           end == MaxReturnAllocation(T, mu, upper)
           k == Cardinality(T)
           earns(v) == [t \in T |-> v[t] * mu[t]]
           W(j) == Total(Best(order, j), w)
           E(j) == Total(Best(order, j), end)
           RW(j) == Total(Best(order, j), earns(w))
           RE(j) == Total(Best(order, j), earns(end))
           mean(j) == mu[order[j]]
<1>1. /\ k \in Nat \ {0}
      /\ \A j \in 0..k : W(j) \in Int /\ E(j) = Full - Left(upper, j) /\ W(j) <= E(j)
      /\ Best(order, k) = T /\ Total(T, w) = Full /\ Total(T, end) = Full
  BY EndIsAhead
<1>2. Ranks(order, T, mu)
  BY RankingRanks
<1>3. end \in [T -> Int]
  BY AllocationTakes
<1> HIDE DEF order, end
<1>4. /\ \A i \in 1..k : order[i] \in T /\ mean(i) \in Int
      /\ \A i, j \in 1..k : i < j => mean(i) >= mean(j)
  BY <1>2 DEF Ranks
<1>5. \A t \in T : /\ w[t] \in Int /\ end[t] \in Int
                   /\ earns(w)[t] \in Int /\ earns(end)[t] \in Int
  BY <1>3
<1>6. ASSUME NEW j \in 1..k
      PROVE  /\ W(j - 1) \in Int /\ W(j) = W(j - 1) + w[order[j]]
             /\ E(j - 1) \in Int /\ E(j) = E(j - 1) + end[order[j]]
             /\ RW(j - 1) \in Int /\ RW(j) = RW(j - 1) + w[order[j]] * mean(j)
             /\ RE(j - 1) \in Int /\ RE(j) = RE(j - 1) + end[order[j]] * mean(j)
             /\ w[order[j]] \in Int /\ end[order[j]] \in Int
  <2> HIDE DEF earns
  <2>1. /\ W(j - 1) \in Int /\ W(j) = W(j - 1) + w[order[j]]
        /\ E(j - 1) \in Int /\ E(j) = E(j - 1) + end[order[j]]
    BY <1>2, <1>5, TotalOfBest
  <2>2. /\ RW(j - 1) \in Int /\ RW(j) = RW(j - 1) + earns(w)[order[j]]
        /\ RE(j - 1) \in Int /\ RE(j) = RE(j - 1) + earns(end)[order[j]]
    BY <1>2, <1>5, TotalOfBest
  <2>3. order[j] \in T
    BY <1>4
  <2> QED BY <1>5, <2>1, <2>2, <2>3 DEF earns
<1>7. W(0) = 0 /\ E(0) = 0 /\ RW(0) = 0 /\ RE(0) = 0
  <2>1. Best(order, 0) = {}
    BY DEF Best
  <2> QED BY <2>1, TotalEmpty
<1>8. ASSUME NEW v \in [T -> Int] PROVE Return(v, mu) = Total(T, earns(v))
  <2>1. DOMAIN v = T
    OBVIOUS
  <2>2. Return(v, mu) = Sum(earns(v))
    BY <2>1 DEF Return
  <2>3. DOMAIN earns(v) = T
    OBVIOUS
  <2> HIDE DEF earns
  <2> QED BY <2>2, <2>3, SumIsTotal
<1>9. Return(w, mu) = RW(k) /\ Return(end, mu) = RE(k) /\ W(k) = Full /\ E(k) = Full
  BY <1>1, <1>3, <1>8
<1> HIDE DEF W, E, RW, RE, mean, earns, k
<1>10. \A j \in 0..k : j > 0 => RE(j) - RW(j) >= mean(j) * (E(j) - W(j))
  <2> DEFINE F == {j \in 0..k : j > 0 => RE(j) - RW(j) >= mean(j) * (E(j) - W(j))}
  <2>1. 0 \in F
    BY <1>1
  <2>2. ASSUME NEW j \in 1..k, j - 1 \in F PROVE j \in F
    <3> DEFINE m == IF j = 1 THEN mean(j) ELSE mean(j - 1)
               n == mean(j)
               d == E(j - 1) - W(j - 1)
               gain == RE(j - 1) - RW(j - 1)
               a == end[order[j]]
               b == w[order[j]]
    <3>1. j \in 0..k /\ j - 1 \in 0..k /\ (j # 1 => j - 1 \in 1..k)
      BY <1>1
    <3>2. n \in Int /\ m \in Int /\ m >= n
      BY <1>1, <1>4, <3>1
    <3>3. d \in Int /\ d >= 0
      <4>1. W(j - 1) <= E(j - 1)
        BY <1>1, <3>1
      <4>2. W(j - 1) \in Int /\ E(j - 1) \in Int
        BY <1>6
      <4> DEFINE x == W(j - 1)
                 y == E(j - 1)
      <4>3. x \in Int /\ y \in Int /\ x <= y
        BY <4>1, <4>2
      <4>4. d = y - x
        OBVIOUS
      <4> HIDE DEF x, y, d
      <4> QED BY <4>3, <4>4
    <3>4. gain \in Int /\ gain >= m * d
      <4>1. CASE j = 1
        <5>1. d = 0 /\ gain = 0
          BY <1>7, <4>1
        <5> HIDE DEF d, gain, m
        <5> QED BY <3>2, <5>1
      <4>2. CASE j # 1
        <5>1. gain >= mean(j - 1) * d
          BY <1>1, <2>2, <3>1, <4>2
        <5>2. gain \in Int
          BY <1>6
        <5> HIDE DEF d, gain
        <5> QED BY <4>2, <5>1, <5>2
      <4> QED BY <4>1, <4>2
    <3>5. a \in Int /\ b \in Int
      BY <1>6
    <3>6. RE(j) - RW(j) = gain + (a * n - b * n) /\ E(j) - W(j) = d + (a - b)
      <4> DEFINE x == a * n
                 y == b * n
      <4>1. x \in Int /\ y \in Int
        BY <3>2, <3>5
      <4>2. /\ RE(j) = RE(j - 1) + x /\ RW(j) = RW(j - 1) + y
            /\ E(j) = E(j - 1) + a /\ W(j) = W(j - 1) + b
            /\ RE(j - 1) \in Int /\ RW(j - 1) \in Int /\ E(j - 1) \in Int /\ W(j - 1) \in Int
        BY <1>6
      <4> HIDE DEF x, y, a, b
      <4>3. /\ RE(j) - RW(j) = (RE(j - 1) - RW(j - 1)) + (x - y)
            /\ E(j) - W(j) = (E(j - 1) - W(j - 1)) + (a - b)
        BY <3>5, <4>1, <4>2
      <4> QED BY <4>3 DEF x, y
    <3> HIDE DEF m, n, d, gain, a, b
    <3>7. gain + (a * n - b * n) >= n * (d + (a - b))
      BY <3>2, <3>3, <3>4, <3>5, BetterMean
    <3>8. RE(j) - RW(j) >= mean(j) * (E(j) - W(j))
      BY <3>6, <3>7 DEF n
    <3> QED BY <3>1, <3>8
  <2> HIDE DEF F
  <2>3. \A j \in 0..k : j \in F
    BY <1>1, <2>1, <2>2, AllSteps
  <2> QED BY <2>3 DEF F
<1>11. RE(k) - RW(k) >= 0 /\ RE(k) \in Int /\ RW(k) \in Int
  <2>1. k \in 0..k /\ k > 0 /\ k \in 1..k
    BY <1>1
  <2>2. RE(k) - RW(k) >= mean(k) * (E(k) - W(k))
    BY <1>10, <2>1
  <2>3. E(k) - W(k) = 0
    BY <1>9, FrontierAssumption
  <2>4. mean(k) \in Int
    BY <1>4, <2>1
  <2>5. mean(k) * 0 = 0
    BY <2>4
  <2>6. RE(k) \in Int /\ RW(k) \in Int
    <3> DEFINE x == end[order[k]] * mean(k)
               y == w[order[k]] * mean(k)
    <3>1. x \in Int /\ y \in Int
      BY <1>6, <2>1, <2>4
    <3>2. /\ RE(k - 1) \in Int /\ RE(k) = RE(k - 1) + x
          /\ RW(k - 1) \in Int /\ RW(k) = RW(k - 1) + y
      BY <1>6, <2>1
    <3> HIDE DEF x, y
    <3> QED BY <3>1, <3>2
  <2> QED BY <2>2, <2>3, <2>5, <2>6
<1>12. RW(k) <= RE(k)
  BY <1>11
<1> QED BY <1>9, <1>12 DEF end

\* The greedy allocation of the sweep's right end is an optimum: for every finite set of
\* tickers, all integer means and every upper bound on the grid, it obeys the bounds if
\* anything does, and no allocation that obeys them has a higher expected return.
THEOREM GreedyIsOptimal ==
    ASSUME NEW T, IsFiniteSet(T), NEW means \in SUBSET Int, NEW bounds,
           \A upper \in bounds : \E u \in Nat : upper = Step * u
    PROVE  SweepReachesBest(T, means, bounds)
<1> SUFFICES ASSUME NEW upper \in bounds, NEW mu \in [T -> means], Feasible(T, upper) # {}
             PROVE  LET end == MaxReturnAllocation(T, mu, upper)
                    IN  /\ end \in Feasible(T, upper)
                        /\ \A w \in Feasible(T, upper) : Return(w, mu) <= Return(end, mu)
  BY DEF SweepReachesBest
<1>1. mu \in [T -> Int] /\ \A t \in T : mu[t] \in Int
  OBVIOUS
<1>2. PICK u \in Nat : upper = Step * u
  OBVIOUS
<1>3. upper \in Nat
  BY <1>2, FrontierAssumption
<1>4. MaxReturnAllocation(T, mu, upper) \in Feasible(T, upper)
  <2>1. PICK w : w \in Feasible(T, Step * u)
    BY <1>2
  <2> QED BY <1>1, <1>2, <2>1, EndIsFeasible
<1>5. ASSUME NEW w \in Feasible(T, upper)
      PROVE  Return(w, mu) <= Return(MaxReturnAllocation(T, mu, upper), mu)
  <2>1. \A i \in 0..(Full \div Step) : Step * i \in Int /\ 0 <= Step * i
    BY FrontierAssumption
  <2>2. /\ w \in [T -> {Step * i : i \in 0..(Full \div Step)}]
        /\ Sum(w) = Full /\ \A t \in T : w[t] <= upper
    BY DEF Feasible
  <2>3. ASSUME NEW t \in T PROVE w[t] \in Int /\ 0 <= w[t]
    <3>1. w[t] \in {Step * i : i \in 0..(Full \div Step)}
      BY <2>2
    <3> QED BY <2>1, <3>1
  <2>4. w \in [T -> Int]
    BY <2>2, <2>3
  <2> QED BY <1>1, <1>3, <2>2, <2>3, <2>4, EndIsBest
<1> QED BY <1>4, <1>5

-------------------------------------------------------------------------------
(* The frontier of the selected tickers.                                    *)

\* The selected tickers are a list of known ones, and so is the one to be added.
TickersInv ==
    /\ state.tickers \in Seq(Universe)
    /\ pressed[1] = "add" => pressed[2] \in Universe

\* list.remove leaves a list.
LEMMA RemovedIsList ==
    ASSUME NEW S, NEW s \in Seq(S), NEW t
    PROVE  Lists!RemoveFirst(s, t) \in Seq(S)
<1> DEFINE I == {i \in 1..Len(s) : s[i] = t}
<1>1. CASE I = {}
  BY <1>1 DEF Lists!RemoveFirst
<1>2. CASE I # {}
  <2>1. IsFiniteSet(I)
    <3>1. IsFiniteSet(1..Len(s)) /\ I \subseteq 1..Len(s)
      BY FS_Interval
    <3> QED BY <3>1, FS_Subset
  <2>2. PICK i \in I : \A j \in I : i <= j
    <3> DEFINE mu == [j \in I |-> j]
    <3>1. \A j \in I : mu[j] \in Int /\ mu[j] = j
      OBVIOUS
    <3> HIDE DEF mu, I
    <3>2. \E i \in I : \A j \in I : mu[i] <= mu[j]
      BY <1>2, <2>1, <3>1, LeastExists
    <3> QED BY <3>1, <3>2
  <2>3. Min(I) \in I
    BY <2>2 DEF Min
  <2>4. Lists!RemoveFirst(s, t) = Lists!RemoveAt(s, Min(I))
    BY <1>2 DEF Lists!RemoveFirst, Lists!SelectInSeq, Lists!Min, Min
  <2> DEFINE n == Min(I)
  <2>5. n \in 1..Len(s)
    BY <2>3
  <2> HIDE DEF n, I
  <2>6. Lists!RemoveAt(s, n) \in Seq(S)
    BY <2>5 DEF Lists!RemoveAt
  <2> QED BY <2>4, <2>6 DEF n
<1> QED BY <1>1, <1>2

\* No other step changes the tickers, or lets a button be pressed that was not.
LEMMA OtherTickers ==
    ASSUME TickersInv, state'.tickers = state.tickers,
           \/ pressed' \in {pressed, Nothing}
           \/ pressed'[1] # "add"
           \/ pressed'[2] \in Universe
    PROVE  TickersInv'
BY DEF TickersInv, Nothing

\* Every step keeps the list of tickers a list.
LEMMA TickersStep == ASSUME SessionInv, WeightsInv, TickersInv, [Next]_vars PROVE TickersInv'
<1>1. IsState(state) /\ FormInv
  BY DEF SessionInv, Shape, WeightsInv
<1>2. CASE User
  <2>1. state'.tickers = state.tickers
    <3>1. CASE state' = state
      BY <3>1
    <3>2. CASE ClickApply
      BY <1>1, <3>2 DEF ClickApply, IsState
    <3>3. CASE ClickCancel
      BY <1>1, <3>3 DEF ClickCancel, IsState
    <3> QED BY <1>2, <3>1, <3>2, <3>3
        DEF User, AddTicker, RemoveTicker, ClickCompute, SetMode, SetWeight, SetDates,
            MovePoint, ClickRun, SetWidget, Touch
  <2>2. \/ pressed' = Nothing
        \/ pressed'[1] # "add"
        \/ pressed'[2] \in Universe
    BY <1>2 DEF User, AddTicker, RemoveTicker, ClickCompute, SetMode, SetWeight, SetDates,
                MovePoint, ClickRun, ClickApply, ClickCancel, SetWidget, Touch, Interrupt
  <2> QED BY <2>1, <2>2, OtherTickers
<1>3. CASE RenderTop
  <2>1. pressed' \in {pressed, Nothing}
    BY <1>3 DEF RenderTop, Rerun
  <2>2. CASE pressed[1] = "add"
    <3>1. CASE state' = state
      BY <2>1, <3>1, OtherTickers
    <3>2. CASE state' = [state EXCEPT !.tickers = Append(@, pressed[2]),
                                      !.weights[pressed[2]] = 0]
      <4>1. state'.tickers = Append(state.tickers, pressed[2])
        BY <1>1, <3>2 DEF IsState
      <4>2. state'.tickers \in Seq(Universe)
        BY <2>2, <4>1 DEF TickersInv
      <4> QED BY <2>1, <4>2 DEF TickersInv, Nothing
    <3> QED BY <1>3, <3>1, <3>2 DEF RenderTop
  <2>3. CASE pressed[1] # "add"
    BY <1>3, <2>1, <2>3, OtherTickers DEF RenderTop
  <2> QED BY <2>2, <2>3
<1>4. CASE RemovePressed
  <2>1. pressed' = Nothing
    BY <1>4 DEF RemovePressed, Rerun
  <2>2. PICK weights : state' = [state EXCEPT !.tickers = Lists!RemoveFirst(@, pressed[2]),
                                              !.weights = weights]
    BY <1>4 DEF RemovePressed
  <2>3. state'.tickers = Lists!RemoveFirst(state.tickers, pressed[2])
    BY <1>1, <2>2 DEF IsState
  <2>4. state'.tickers \in Seq(Universe)
    BY <2>3, RemovedIsList DEF TickersInv
  <2> QED BY <2>1, <2>4 DEF TickersInv, Nothing
<1>5. CASE CommitWeights
  <2>1. pressed' = pressed
    BY <1>5 DEF CommitWeights
  <2>2. PICK weights, committed :
           state' = [state EXCEPT !.weights = weights, !.committed = committed]
    BY <1>5 DEF CommitWeights
  <2>3. state'.tickers = state.tickers
    BY <1>1, <2>2 DEF IsState
  <2> QED BY <2>1, <2>3, OtherTickers
<1>6. CASE Gate
  <2>1. pressed' = pressed /\ state' = [state EXCEPT !.runFromMain = FlagAfterGate]
    BY <1>6 DEF Gate
  <2>2. state'.tickers = state.tickers
    BY <1>1, <2>1 DEF IsState
  <2> QED BY <2>1, <2>2, OtherTickers
<1>7. CASE RenderFrontier
  <2>1. pressed' = pressed /\ ComputeFrontier
    BY <1>7 DEF RenderFrontier
  <2>2. PICK curve : state' = [state EXCEPT !.curve = curve]
    BY <1>1, <2>1, ComputedCurve
  <2>3. state'.tickers = state.tickers
    BY <1>1, <2>2 DEF IsState
  <2> QED BY <2>1, <2>3, OtherTickers
<1>8. CASE RenderStepThree
  <2>1. pressed' = Nothing
    BY <1>8 DEF RenderStepThree, PressedAfter
  <2>2. state' = state \/ state' = [state EXCEPT !.runFromMain = TRUE]
    BY <1>8 DEF RenderStepThree
  <2>3. state'.tickers = state.tickers
    BY <1>1, <2>2 DEF IsState
  <2> QED BY <2>1, <2>3, OtherTickers
<1>9. CASE Backtest \/ Show
  <2>1. pressed' = pressed
    BY <1>9
    DEF Backtest, Show, StartBacktest, KeepConfig, SendRequest, OpenRun, CompleteRun,
        ReturnResult, FailRun, Crash, SetCompleted, KeepResult, SetFailed, ClearResult
  <2>2. \/ state' = state
        \/ \E c : state' = [state EXCEPT !.lastConfig = c]
        \/ \E s : state' = [state EXCEPT !.status = s]
        \/ \E r : state' = [state EXCEPT !.result = r]
    BY <1>9
    DEF Backtest, Show, StartBacktest, KeepConfig, SendRequest, OpenRun, CompleteRun,
        ReturnResult, FailRun, Crash, SetCompleted, KeepResult, SetFailed, ClearResult
  <2>3. state'.tickers = state.tickers
    BY <1>1, <2>2 DEF IsState
  <2> QED BY <2>1, <2>3, OtherTickers
<1>10. CASE UNCHANGED vars
  BY <1>10, OtherTickers DEF vars
<1> QED BY <1>2, <1>3, <1>4, <1>5, <1>6, <1>7, <1>8, <1>9, <1>10
    DEF Next, Script, RenderWeights

\* The tickers of a list are finitely many.
LEMMA ListedIsFinite ==
    ASSUME NEW S, NEW s \in Seq(S)
    PROVE  IsFiniteSet({s[i] : i \in DOMAIN s})
<1> DEFINE T == {s[i] : i \in DOMAIN s}
<1>1. DOMAIN s = 1..Len(s) /\ Len(s) \in Nat
  OBVIOUS
<1>2. IsFiniteSet(DOMAIN s)
  BY <1>1, FS_Interval
<1>3. s \in Surjection(DOMAIN s, T)
  <2>1. s = [i \in DOMAIN s |-> s[i]]
    BY <1>1
  <2>2. s \in [DOMAIN s -> T]
    BY <2>1
  <2> QED BY <2>2 DEF Surjection
<1> QED BY <1>2, <1>3, FS_Surjection

\* Whatever tickers are selected, their frontier ends at the best return the bounds admit.
THEOREM FrontierEndsAtBest == Spec => []FrontierReachesBest
<1>1. Init => TickersInv
  <2> SUFFICES ASSUME Init PROVE TickersInv
    OBVIOUS
  <2>1. pressed = Nothing /\ state.tickers = First
    BY DEF Init
  <2> QED BY <2>1, NothingPressed, SessionAssumption DEF TickersInv
<1>2. SessionInv /\ WeightsInv /\ TickersInv /\ [Next]_vars => TickersInv'
  BY TickersStep
<1>3. TickersInv => FrontierReachesBest
  <2> SUFFICES ASSUME TickersInv PROVE FrontierReachesBest
    OBVIOUS
  <2> DEFINE bounds == {Step * i : i \in 1..(Full \div Step)}
  <2>1. IsFiniteSet(Selected)
    BY ListedIsFinite DEF TickersInv, Selected
  <2>2. \A upper \in bounds : \E u \in Nat : upper = Step * u
    <3>1. \A i \in 1..(Full \div Step) : i \in Nat
      OBVIOUS
    <3> QED BY <3>1
  <2>3. 0..2 \in SUBSET Int
    OBVIOUS
  <2> HIDE DEF bounds
  <2>4. SweepReachesBest(Selected, 0..2, bounds)
    BY <2>1, <2>2, <2>3, GreedyIsOptimal
  <2> QED BY <2>4 DEF bounds, FrontierReachesBest
<1> QED BY <1>1, <1>2, <1>3, SessionInvariant, WeightsInvariant, PTL DEF Spec
===============================================================================
