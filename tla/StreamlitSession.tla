--------------------------- MODULE StreamlitSession ---------------------------
(***************************************************************************)
(* interface/streamlit/app.py: one browser session.  Every event of the     *)
(* user runs the script again from the top; an event that comes while it    *)
(* runs interrupts it at the next call of the library: every access to      *)
(* st.session_state is one, and so is the progress bar of the back-test.    *)
(* st.rerun() ends a run and starts the next; the widgets it had not        *)
(* reached may lose their values.  The frontier comes from Frontier, the    *)
(* rows of a back-test obey RunLifecycle.                                   *)
(*                                                                          *)
(* From Run to the result an access is a step of its own.  Before that one  *)
(* step is one part of the page: the rows of the tickers write weights_pct  *)
(* ticker by ticker, an interruption leaves it before or after all of them. *)
(*                                                                          *)
(* The library itself (which widget keeps its value, what an interrupted    *)
(* run leaves on the page) is external and modelled from how app.py uses it.*)
(***************************************************************************)
EXTENDS Frontier

CONSTANTS
    Universe,     \* _get_available_tickers()
    First,        \* selected_tickers of _init_state, a sequence
    WeightInputs, \* what is typed into a weight input, in units
    Means,        \* mean return of each ticker
    Bounds,       \* positions of the upper-bound slider, in units
    Points,       \* n_frontier_points
    Events        \* bound on the events of the user

ASSUME SessionAssumption ==
    /\ First \in Seq(Universe)
    /\ WeightInputs \subseteq 0..Full
    /\ Means \in [Universe -> Nat]
    /\ Points \in Nat \ {0, 1}
    /\ Events \in Nat

Lists == INSTANCE SequencesExt

None == [none |-> TRUE]
NoWeight == -1
Nothing == <<"nothing">>

VARIABLES
    state,    \* st.session_state: what the code itself keeps there
    widgets,  \* st.session_state: the values of the keyed widgets
    page,     \* what the browser shows and the user can act upon
    pc,       \* where the script run is, "idle" between runs
    pressed,  \* the button whose event started this script run
    config,   \* main()'s local variable, None or what the sidebar returned
    runs,     \* the rows of the back-tests in the database
    current,  \* the number of back-tests started
    events,   \* the number of events so far
    clicks,   \* those on the Run button
    ghost     \* what the last event showed the user, see below

vars == <<state, widgets, page, pc, pressed, config, runs, current,
          events, clicks, ghost>>

Selected == {state.tickers[i] : i \in DOMAIN state.tickers}

NoPage == [radio |-> FALSE, inputs |-> {}, removes |-> {}, size |-> 0,
           apply |-> None, cancel |-> FALSE, dates |-> FALSE, run |-> FALSE]

\* validated: the configuration the page had checked when Run was clicked;
\* applied: the weights of the point the user applied; cancelled: those in force when
\* F1 was cancelled; each until the next event.
NoGhost == [validated |-> None, applied |-> None, cancelled |-> None]

\* _init_state, and the first script run about to start.
Init ==
    /\ state = [tickers |-> First,
                weights |-> [t \in Universe |->
                                IF \E i \in DOMAIN First : First[i] = t
                                THEN Full \div Len(First) ELSE NoWeight],
                source |-> 0, committed |-> [t \in Universe |-> 0],
                curve |-> <<>>, runFromMain |-> FALSE,
                status |-> "idle", result |-> 0, lastConfig |-> None]
    /\ widgets = [mode |-> "none", pct |-> [t \in Universe |-> NoWeight],
                  dates |-> "none", point |-> 0]
    /\ page = NoPage
    /\ pc = "top"
    /\ pressed = Nothing
    /\ config = None
    /\ runs = [i \in 1..Events |-> [status |-> "none", rows |-> 0, over |-> FALSE,
                                    config |-> None]]
    /\ current = 0
    /\ events = 0
    /\ clicks = 0
    /\ ghost = NoGhost

-------------------------------------------------------------------------------
(* Events of the user.                                                      *)

\* The script starts again, whatever it was doing; a back-test that was in its daily
\* loop is abandoned there. Elsewhere in simulate() nothing calls the library: an
\* event that comes then is found by the first access after it, before its effect.
Interrupt(button) ==
    /\ events < Events
    /\ pc \notin {"saving", "completed"}
    /\ events' = events + 1
    /\ pc' = "top"
    /\ pressed' = button
    /\ config' = None
    /\ runs' = IF pc = "loop" THEN [runs EXCEPT ![current].over = TRUE] ELSE runs
    /\ UNCHANGED <<page, current>>

Touch(button) ==
    /\ Interrupt(button)
    /\ ghost' = NoGhost
    /\ UNCHANGED <<state, widgets, clicks>>

\* add_ticker_form; an unknown or a selected ticker only shows a message.
AddTicker(t) == Touch(<<"add", t>>)

RemoveTicker(t) == t \in page.removes /\ Touch(<<"remove", t>>)

\* f1_compute_btn_action, with the upper bound the slider shows.
ClickCompute(upper) == Touch(<<"compute", upper>>)

SetWidget(field, value) ==
    /\ Interrupt(Nothing)
    /\ widgets' = [widgets EXCEPT ![field] = value]
    /\ ghost' = NoGhost
    /\ UNCHANGED <<state, clicks>>

SetMode(mode) == page.radio /\ SetWidget("mode", mode)

SetWeight(t, pct) ==
    t \in page.inputs /\ SetWidget("pct", [widgets.pct EXCEPT ![t] = pct])

SetDates(dates) == page.dates /\ SetWidget("dates", dates)

MovePoint(point) ==
    /\ page.size = Len(state.curve)
    /\ point \in 1..page.size
    /\ SetWidget("point", point)

\* The button of Bước 3: what it was enabled by is what the page shows.
ClickRun ==
    /\ page.run
    /\ Interrupt(<<"run">>)
    /\ clicks' = clicks + 1
    /\ ghost' = NoGhost
    /\ UNCHANGED <<state, widgets>>

\* Mutant: the callback leaves the keys of the weight inputs.
InputsKept == widgets.pct

\* The keys weight_pct_* are deleted, so that the inputs pick up the new values.
InputsAfterApply == [t \in Universe |-> NoWeight]

\* _apply_f1_weights_callback with the arguments of the last rendering.
ClickApply ==
    /\ page.apply # None
    /\ Interrupt(Nothing)
    /\ state' = [state EXCEPT !.weights = page.apply.weights,
                              !.source = page.apply.point]
    /\ widgets' = [widgets EXCEPT !.mode = "none",
                                  !.pct = InputsAfterApply]
    /\ ghost' = [NoGhost EXCEPT !.applied = page.apply.weights]
    /\ UNCHANGED clicks

\* _clear_f1_weights_callback
ClickCancel ==
    /\ page.cancel
    /\ Interrupt(Nothing)
    /\ state' = [state EXCEPT !.source = 0]
    /\ widgets' = [widgets EXCEPT !.mode = "none"]
    /\ ghost' = [NoGhost EXCEPT !.cancelled = state.weights]
    /\ UNCHANGED clicks

User ==
    \/ \E t \in Universe : AddTicker(t) \/ RemoveTicker(t)
    \/ \E upper \in Bounds : ClickCompute(upper)
    \/ \E mode \in {"equal", "manual"} : SetMode(mode)
    \/ \E t \in Universe, pct \in WeightInputs : SetWeight(t, pct)
    \/ \E dates \in {"range", "one_day", "reversed"} : SetDates(dates)
    \/ \E point \in 1..Points : MovePoint(point)
    \/ ClickRun
    \/ ClickApply
    \/ ClickCancel

-------------------------------------------------------------------------------
(* One run of the script: the sidebar.                                      *)

ScriptUnchanged == UNCHANGED <<events, clicks, runs, current>>

\* st.rerun() from the sidebar; what it did not reach keeps its value or not.
Rerun(kept, lost) ==
    /\ pc' = "top"
    /\ pressed' = Nothing
    /\ widgets' \in {kept, lost}
    /\ UNCHANGED <<page, config, ghost>>

Addable(t) == t \notin Selected

\* From the top to the form that adds a ticker.
RenderTop ==
    /\ pc = "top"
    /\ IF pressed[1] = "add" /\ Addable(pressed[2])
       THEN /\ state' = [state EXCEPT !.tickers = Append(@, pressed[2]),
                                      !.weights[pressed[2]] = 0]
            /\ Rerun(widgets, [widgets EXCEPT !.mode = "none", !.pct = InputsAfterApply,
                                              !.dates = "none", !.point = 0])
       ELSE /\ pc' = "weights"
            /\ UNCHANGED <<state, widgets, page, pressed, config, ghost>>
    /\ ScriptUnchanged

\* The radio shows "equal" unless it has a value; it is left out after an apply.
WeightMode == IF state.source # 0 THEN "manual"
              ELSE IF widgets.mode = "none" THEN "equal" ELSE widgets.mode

\* An input without a value of its own starts from weights_pct.
InputOf(t) ==
    IF widgets.pct[t] # NoWeight THEN widgets.pct[t]
    ELSE IF state.weights[t] # NoWeight THEN state.weights[t]
    ELSE Full \div Len(state.tickers)

WeightsShown ==
    [t \in Selected |-> IF WeightMode = "equal" THEN Full \div Len(state.tickers)
                        ELSE InputOf(t)]

\* weights_pct of the tickers the run has reached is what their rows show.
Reach(tickers) ==
    [t \in Universe |-> IF t \in tickers THEN WeightsShown[t] ELSE state.weights[t]]

InputsReached(tickers) ==
    [t \in Universe |-> IF WeightMode = "manual" /\ t \in tickers
                        THEN WeightsShown[t] ELSE widgets.pct[t]]

RemovePressed ==
    /\ pressed[1] = "remove"
    /\ pressed[2] \in Selected
    /\ LET t == pressed[2]
           before == {state.tickers[i] :
                         i \in {j \in DOMAIN state.tickers :
                                   \E k \in DOMAIN state.tickers :
                                       k >= j /\ state.tickers[k] = t}}
           reached == IF WeightMode = "equal" THEN Selected ELSE before
           inputs == [InputsReached(before) EXCEPT ![t] = NoWeight]
       IN  /\ state' = [state EXCEPT
                          !.tickers = Lists!RemoveFirst(@, t),
                          !.weights = [Reach(reached) EXCEPT ![t] = NoWeight]]
           /\ Rerun([widgets EXCEPT !.pct = inputs],
                    [widgets EXCEPT !.dates = "none", !.point = 0,
                                    !.pct = [u \in Universe |->
                                                IF u \in before THEN inputs[u]
                                                ELSE NoWeight]])
    /\ ScriptUnchanged

\* The rows of the tickers; their weights are committed as they are shown.
CommitWeights ==
    /\ ~(pressed[1] = "remove" /\ pressed[2] \in Selected)
    /\ state' = [state EXCEPT
                   !.weights = Reach(Selected),
                   !.committed = [t \in Universe |->
                                     IF t \in Selected THEN WeightsShown[t] ELSE 0]]
    /\ widgets' = [widgets EXCEPT
                     !.pct = InputsReached(Selected),
                     !.mode = IF state.tickers # <<>> /\ state.source = 0
                              THEN WeightMode ELSE @]
    /\ page' = [page EXCEPT
                  !.radio = state.tickers # <<>> /\ state.source = 0,
                  !.removes = Selected,
                  !.inputs = IF WeightMode = "manual" THEN Selected ELSE {}]
    /\ pc' = "gate"
    /\ UNCHANGED <<pressed, config, ghost>>
    /\ ScriptUnchanged

RenderWeights == pc = "weights" /\ (RemovePressed \/ CommitWeights)

Positive(weights) == {t \in Universe : weights[t] > 0}

Within(weights, tolerance) ==
    Sum(weights) \in (Full - tolerance)..(Full + tolerance)

OnePercent == Full \div 100

\* weights_ok and dates_ok of the sidebar; the capital input admits no less than 1.
SidebarAccepts(weights, dates) ==
    /\ Within(weights, OnePercent)
    /\ Positive(weights) # {}
    /\ dates \in {"range", "one_day"}

\* Mutant: session_state.get for session_state.pop.
FlagRead == state.runFromMain

\* session_state.pop("run_from_main")
FlagAfterGate == FALSE

\* run_from_main is consumed, whether or not the configuration is accepted.
Gate ==
    /\ pc = "gate"
    /\ config' = IF state.runFromMain /\ SidebarAccepts(state.committed, widgets.dates)
                 THEN [weights |-> state.committed, dates |-> widgets.dates]
                 ELSE None
    /\ state' = [state EXCEPT !.runFromMain = FlagAfterGate]
    /\ pc' = "f1"
    /\ UNCHANGED <<widgets, page, pressed, ghost>>
    /\ ScriptUnchanged

-------------------------------------------------------------------------------
(* The main area.                                                           *)

\* The frontier of the selected tickers over the whole history; a failure of any
\* kind deletes the previous result.
ComputeFrontier ==
    IF pressed[1] = "compute" /\ Cardinality(Selected) >= 2
    THEN \/ /\ state' = [state EXCEPT !.curve = <<>>]
            /\ widgets' = widgets
         \/ \E curve \in Curves(Selected, Means, pressed[2], Points) :
               /\ state' = [state EXCEPT !.curve = curve]
               /\ \E best \in DOMAIN curve : widgets' = [widgets EXCEPT !.point = best]
    ELSE UNCHANGED <<state, widgets>>

\* new_weights_pct of a point: its tickers, and zero for the selected ones it lacks.
PointWeights(point) ==
    [t \in Universe |-> IF t \in DOMAIN point /\ point[t] > 0 THEN point[t]
                        ELSE IF t \in Selected THEN 0 ELSE NoWeight]

\* Where the slider stands: its value, or the middle if it has none.
PointShown(point, curve) ==
    IF point = 0 THEN Len(curve) \div 2 + 1 ELSE Lesser(point, Len(curve))

\* The slider over a curve of one point has no range and raises: the rest of the
\* page is not rendered and the script run is over.
RenderFrontier ==
    /\ pc = "f1"
    /\ ComputeFrontier
    /\ LET curve == state'.curve
           point == PointShown(widgets'.point, curve)
       IN  IF Len(curve) = 1
           THEN /\ pc' = "idle"
                /\ config' = None
                /\ page' = [page EXCEPT !.size = 0, !.apply = None, !.cancel = FALSE,
                                        !.dates = FALSE, !.run = FALSE]
           ELSE /\ pc' = "step3"
                /\ page' = [page EXCEPT
                              !.size = Len(curve),
                              !.apply = IF curve = <<>> \/ state.source # 0 THEN None
                                        ELSE [weights |-> PointWeights(curve[point]),
                                              point |-> point],
                              !.cancel = curve # <<>> /\ state.source # 0]
                /\ UNCHANGED config
    /\ UNCHANGED <<pressed, ghost>>
    /\ ScriptUnchanged

\* Mutant: the sum of the weights is not looked at.
StepAcceptsAnySum(weights, dates) ==
    /\ Cardinality(Positive(weights)) >= 2
    /\ dates = "range"

\* _all_ok of Bước 3; the tolerance of 0.1 % is less than a unit.
StepAccepts(weights, dates) ==
    /\ Cardinality(Positive(weights)) >= 2
    /\ Sum(weights) = Full
    /\ dates = "range"

\* Mutant: the run that the click starts finds the button pressed again.
PressedStill == pressed

\* A button is pressed for one script run.
PressedAfter == Nothing

\* The dates, which start as the whole range, and the Run button: it sets
\* run_from_main and calls st.rerun(), whether or not it is enabled by now.
RenderStepThree ==
    /\ pc = "step3"
    /\ LET dates == IF widgets.dates = "none" THEN "range" ELSE widgets.dates
           accepted == StepAccepts(state.committed, dates)
       IN  /\ widgets' = [widgets EXCEPT !.dates = dates]
           /\ page' = [page EXCEPT !.dates = TRUE, !.run = accepted]
           /\ IF pressed = <<"run">>
              THEN /\ state' = [state EXCEPT !.runFromMain = TRUE]
                   /\ ghost' = [ghost EXCEPT !.validated =
                                  IF accepted
                                  THEN [weights |-> state.committed, dates |-> dates]
                                  ELSE None]
                   /\ pc' = "top"
                   /\ config' = None
              ELSE /\ pc' = IF config = None THEN "show" ELSE "start"
                   /\ UNCHANGED <<state, ghost, config>>
    /\ pressed' = PressedAfter
    /\ ScriptUnchanged

-------------------------------------------------------------------------------
(* The back-test.                                                           *)

\* SimulateRequest.__post_init__
RequestAccepts(weights, dates) ==
    /\ Within(weights, OnePercent)
    /\ dates \in {"range", "one_day"}

\* Mutant: run_status is not set before the run.
StatusBefore == state.status

\* run_status from the start of a back-test to its end.
StatusMeanwhile == "running"

\* The configuration came through the gate: run_status first.
StartBacktest ==
    /\ pc = "start"
    /\ state' = [state EXCEPT !.status = StatusMeanwhile]
    /\ pc' = "configure"
    /\ UNCHANGED <<widgets, page, pressed, config, runs, current, events, clicks, ghost>>

\* last_config, whatever becomes of its back-test.
KeepConfig ==
    /\ pc = "configure"
    /\ state' = [state EXCEPT !.lastConfig = config]
    /\ pc' = "request"
    /\ UNCHANGED <<widgets, page, pressed, config, runs, current, events, clicks, ghost>>

\* The request, the progress bar and the call of simulate().
SendRequest ==
    /\ pc = "request"
    /\ IF RequestAccepts(config.weights, config.dates)
       THEN pc' = "saving" /\ current' = current + 1
       ELSE pc' = "rejected" /\ current' = current
    /\ UNCHANGED <<state, widgets, page, pressed, config, runs, events, clicks, ghost>>

\* run_repo.save, with the configuration the request carries.
OpenRun ==
    /\ pc = "saving"
    /\ runs' = [runs EXCEPT ![current] = [@ EXCEPT !.status = "running", !.config = config]]
    /\ pc' = "loop"
    /\ UNCHANGED <<state, widgets, page, pressed, config, current, events, clicks, ghost>>

\* update_status("completed"), after the daily loop.
CompleteRun ==
    /\ pc = "loop"
    /\ runs' = [runs EXCEPT ![current].status = "completed"]
    /\ pc' = "completed"
    /\ UNCHANGED <<state, widgets, page, pressed, config, current, events, clicks, ghost>>

\* save_batch, and simulate() returns.
ReturnResult ==
    /\ pc = "completed"
    /\ runs' = [runs EXCEPT ![current] = [@ EXCEPT !.rows = 1, !.over = TRUE]]
    /\ pc' = "returned"
    /\ ghost' = NoGhost
    /\ UNCHANGED <<state, widgets, page, pressed, config, current, events, clicks>>

\* run_status says so before last_result is replaced.
SetCompleted ==
    /\ pc = "returned"
    /\ state' = [state EXCEPT !.status = "completed"]
    /\ pc' = "keeping"
    /\ UNCHANGED <<widgets, page, pressed, config, runs, current, events, clicks, ghost>>

KeepResult ==
    /\ pc = "keeping"
    /\ state' = [state EXCEPT !.result = current]
    /\ pc' = "show"
    /\ UNCHANGED <<widgets, page, pressed, config, runs, current, events, clicks, ghost>>

\* Mutant: whatever raises, the row is marked.
MarksAnywhere == TRUE

\* The ValueErrors after which update_status("failed") is called.
MarksFailed == pc = "loop"

\* A ValueError ends simulate(); the run row is marked first if it is one of those
\* the simulator marks.
FailRun ==
    /\ pc \in {"saving", "loop", "completed"}
    /\ \/ runs' = [runs EXCEPT ![current].over = TRUE]
       \/ /\ MarksFailed
          /\ runs' = [runs EXCEPT ![current] = [@ EXCEPT !.status = "failed", !.over = TRUE]]
    /\ pc' = "raised"
    /\ ghost' = NoGhost
    /\ UNCHANGED <<state, widgets, page, pressed, config, current, events, clicks>>

\* The ValueError of the request or of simulate(): only after the second is the last
\* result dropped.
SetFailed ==
    /\ pc \in {"rejected", "raised"}
    /\ state' = [state EXCEPT !.status = "failed"]
    /\ pc' = IF pc = "raised" THEN "clearing" ELSE "show"
    /\ UNCHANGED <<widgets, page, pressed, config, runs, current, events, clicks, ghost>>

ClearResult ==
    /\ pc = "clearing"
    /\ state' = [state EXCEPT !.result = 0]
    /\ pc' = "show"
    /\ UNCHANGED <<widgets, page, pressed, config, runs, current, events, clicks, ghost>>

\* Any other exception leaves the script where it was.
Crash ==
    /\ pc \in {"saving", "loop", "completed"}
    /\ runs' = [runs EXCEPT ![current].over = TRUE]
    /\ pc' = "idle"
    /\ config' = None
    /\ ghost' = NoGhost
    /\ UNCHANGED <<state, widgets, page, pressed, current, events, clicks>>

\* The result or the error is rendered and the script run is over: the widgets it
\* did not render lose their values.
Show ==
    /\ pc = "show"
    /\ pc' = "idle"
    /\ config' = None
    /\ widgets' = [widgets EXCEPT
                     !.mode = IF page.radio THEN @ ELSE "none",
                     !.pct = [t \in Universe |->
                                 IF t \in page.inputs THEN @[t] ELSE NoWeight],
                     !.point = IF page.size > 0 THEN @ ELSE 0]
    /\ UNCHANGED <<state, page, pressed, runs, current, events, clicks, ghost>>

Backtest ==
    \/ StartBacktest \/ KeepConfig \/ SendRequest
    \/ OpenRun \/ CompleteRun \/ ReturnResult \/ FailRun \/ Crash
    \/ SetCompleted \/ KeepResult \/ SetFailed \/ ClearResult

Script == RenderTop \/ RenderWeights \/ Gate \/ RenderFrontier \/ RenderStepThree
          \/ Backtest \/ Show

Next == User \/ Script

\* The script goes on by itself; the user need not do anything.
Spec == Init /\ [][Next]_vars /\ WF_vars(Script)

-------------------------------------------------------------------------------
(* Properties.                                                              *)

TypeOK ==
    /\ state.weights \in [Universe -> {NoWeight} \cup 0..Full]
    /\ state.committed \in [Universe -> 0..Full]
    /\ state.source \in 0..Points
    /\ state.status \in {"idle", "running", "completed", "failed"}
    /\ state.result \in 0..current
    /\ Len(state.tickers) = Cardinality(Selected)
    /\ widgets.mode \in {"none", "equal", "manual"}
    /\ widgets.pct \in [Universe -> {NoWeight} \cup 0..Full]
    /\ widgets.dates \in {"none", "range", "one_day", "reversed"}
    /\ widgets.point \in 0..Points
    /\ pc \in {"idle", "top", "weights", "gate", "f1", "step3", "start", "configure",
               "request", "saving", "loop", "completed", "returned", "keeping",
               "rejected", "raised", "clearing", "show"}
    /\ current \in 0..Events

\* Whenever the page says completed, the last back-test started was completed and
\* stored with its decisions, last_config is the configuration it ran with, and the
\* script run that ran it shows its result; what any other script run shows is a stored
\* result too. Runs are interrupted, fail and raise anywhere between the assignments to
\* run_status, last_config and last_result.
CompletedIsLatest ==
    state.status = "completed" =>
        /\ current # 0
        /\ runs[current].config = state.lastConfig
        /\ runs[current].status = "completed"
        /\ runs[current].rows = 1
        /\ pc = "show" /\ config # None => state.result = current
        /\ state.result # 0 => /\ runs[state.result].status = "completed"
                               /\ runs[state.result].rows = 1

\* The result and the configuration that are rendered together (app.py:3231) are of one
\* run. An event between the assignments of run_status and last_result refutes it.
ResultIsOfLastConfig ==
    pc = "show" /\ state.status = "completed" /\ state.result # 0 =>
        runs[state.result].config.weights = state.lastConfig.weights

\* "user knows which weight set produced these results" (app.py:2227): a result that is
\* shown under the name of the point just applied was computed with its weights.
SourceIsOfResult ==
    ghost.applied # None /\ pc = "show" /\ state.status = "completed" /\ state.result # 0 =>
        runs[state.result].config.weights = state.committed

\* A click on Run starts at most one back-test, however often the script runs again.
OneRunPerClick == current <= clicks

\* Unless the user does something else meanwhile, the back-test that a click starts
\* is the one the page had validated, and it is not dropped on the way: the two
\* validations, the rerun between them and the widgets agree.
RunsWhatWasValidated ==
    ghost.validated # None =>
        \/ state.runFromMain
        \/ config = ghost.validated

\* The weights of an applied point are the weights committed for the next run, ticker
\* by ticker, and not what a widget remembers. (A ticker added after the page was
\* rendered is not among them: it takes an equal share on top.)
AppliedIsCommitted ==
    ghost.applied # None /\ pc \notin {"top", "weights"} =>
        \A t \in Universe :
            ghost.applied[t] # NoWeight =>
                state.committed[t] = IF t \in Selected THEN ghost.applied[t] ELSE 0

\* "Keep weights_pct dict so manual inputs show previous F1 values as starting point"
\* (app.py:2441): after F1 is cancelled the weights are still those of the point.
CancelKeepsWeights ==
    ghost.cancelled # None /\ pc \notin {"top", "weights"} =>
        \A t \in Selected : state.weights[t] = ghost.cancelled[t]

\* A validated click is served: its back-test ends, unless the user does something else.
ClickIsServed == ghost.validated # None ~> ghost.validated = None

\* Each row behaves as RunLifecycle promises, also when the user interrupts its run.
Run(i) == INSTANCE RunLifecycle WITH status <- runs[i].status,
                                     rows <- runs[i].rows,
                                     over <- runs[i].over

RowsObeyLifecycle ==
    [][\A i \in 1..Events : Run(i)!Next \/ runs'[i] = runs[i]]_vars

\* Whatever tickers are selected when a frontier is computed, and whatever their mean
\* returns and the bound, its right end is the best return the bounds admit.
FrontierReachesBest ==
    pc = "f1" /\ pressed[1] = "compute" =>
        SweepReachesBest(Selected, 0..2, {Step * i : i \in 1..(Full \div Step)})
===============================================================================
