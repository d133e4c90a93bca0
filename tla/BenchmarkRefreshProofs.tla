------------------------ MODULE BenchmarkRefreshProofs ------------------------
(***************************************************************************)
(* Theorems about RefreshAudit and BenchmarkRefresh, for every number of    *)
(* jobs and steps, every set of series and every history of the vendor.     *)
(***************************************************************************)
EXTENDS BenchmarkRefresh, TLAPS

Results == {None, "0", "1"}
Statuses == {None, "pending", "succeeded", "failed"}
Outcomes == {None, "success", "failure", "cancelled", "skipped"}

\* Types of a job and its audit rows.
AuditTypes ==
    /\ job \in 0..Jobs
    /\ step \in 0..(Steps + 1)
    /\ pc \in {"start", "script", "end_0", "end_1", "between"}
    /\ runId \in BOOLEAN
    /\ exit \in [Invocations -> Results]
    /\ status \in [Invocations -> Statuses]
    /\ outcome \in [Invocations -> Outcomes]

\* Whether an invocation is still to come.
Ahead(i) == \/ i[1] > job
            \/ i[1] = job /\ i[2] > step
            \/ i[1] = job /\ i[2] = step /\ pc = "start"

\* Nothing is known of what is still to come; inside a step the row is as far as the
\* step is, and a row that is known by its identifier is pending.
StepInv ==
    /\ step # Steps + 1 => job # 0
    /\ pc = "between" <=> step \notin 1..Steps
    /\ \A i \in Invocations : Ahead(i) =>
           exit[i] = None /\ status[i] = None /\ outcome[i] # "success"
    /\ pc \in {"script", "end_0", "end_1"} =>
           /\ status[Here] \in {None, "pending"}
           /\ runId => status[Here] = "pending"
           /\ outcome[Here] # "success"
    /\ pc \in {"start", "between"} => ~runId
    /\ pc = "script" => exit[Here] = None
    /\ pc = "end_0" => exit[Here] = "0"
    /\ pc = "end_1" => exit[Here] = "1"

\* The inductive invariant of the audit.
AuditInv == AuditTypes /\ StepInv /\ AuditAgrees

LEMMA AuditInit == Init => AuditInv
<1> SUFFICES ASSUME Init PROVE AuditInv
  OBVIOUS
<1>1. \A i \in Invocations : exit[i] = None /\ status[i] = None /\ outcome[i] = None
  BY DEF Init, Blank
<1>2. AuditTypes
  <2>1. job \in 0..Jobs /\ step \in 0..(Steps + 1)
    BY JobsAssumption, StepsAssumption DEF Init
  <2>2. Blank \in [Invocations -> {None}]
    BY DEF Blank
  <2> QED BY <2>1, <2>2 DEF Init, AuditTypes, Results, Statuses, Outcomes
<1>3. StepInv
  BY <1>1, StepsAssumption DEF Init, StepInv, None
<1>4. AuditAgrees
  BY <1>1 DEF AuditAgrees, None
<1> QED BY <1>2, <1>3, <1>4 DEF AuditInv

\* The invocation of a running step is one of the table's.
LEMMA HereIsOne ==
    ASSUME AuditInv, step \in 1..Steps
    PROVE  Here \in Invocations /\ ~(\E i \in Invocations : i = Here /\ i[2] > step)
  BY JobsAssumption, StepsAssumption
  DEF AuditInv, AuditTypes, StepInv, Here, Invocations

LEMMA InvocationTypes ==
    ASSUME NEW i \in Invocations PROVE i[1] \in 1..Jobs /\ i[2] \in 1..Steps
  BY DEF Invocations

\* What is ahead after a step of the same job was ahead before, and is not here.
LEMMA StillAhead ==
    ASSUME AuditInv, step \in 1..Steps, job' = job,
           \/ step' = step /\ pc' \in {"script", "end_0", "end_1"}
           \/ step' \in {step + 1, Steps + 1},
           NEW i \in Invocations, Ahead(i)'
    PROVE  Ahead(i) /\ i # Here
<1>1. i[1] \in 1..Jobs /\ i[2] \in 1..Steps
  BY InvocationTypes
<1>2. job \in Nat /\ step \in Nat /\ Steps \in Nat
  BY StepsAssumption, JobsAssumption DEF AuditInv, AuditTypes
<1>3. i[1] > job \/ (i[1] = job /\ i[2] > step)
  BY <1>1, <1>2 DEF Ahead
<1>4. i # Here
  BY <1>2, <1>3, <1>1 DEF Here
<1> QED BY <1>3, <1>4 DEF Ahead

\* A step of the job that goes on inside its invocation: the row stays open.
LEMMA InsideStep ==
    ASSUME AuditInv, step \in 1..Steps, UNCHANGED <<job, step, outcome>>,
           outcome[Here] # "success",
           NEW e \in Results, NEW s \in {None, "pending"},
           exit' = [exit EXCEPT ![Here] = e],
           status' = [status EXCEPT ![Here] = s],
           runId' \in BOOLEAN, runId' => s = "pending",
           \/ pc' = "script" /\ e = None
           \/ pc' = "end_0" /\ e = "0"
           \/ pc' = "end_1" /\ e = "1"
    PROVE  AuditInv'
<1>1. Here \in Invocations /\ Here' = Here
  BY HereIsOne DEF Here
<1>2. exit'[Here] = e /\ status'[Here] = s
  BY <1>1 DEF AuditInv, AuditTypes
<1>3. \A i \in Invocations \ {Here} : exit'[i] = exit[i] /\ status'[i] = status[i]
  BY DEF AuditInv, AuditTypes
<1>4. AuditTypes'
  BY DEF AuditInv, AuditTypes, Statuses
<1>5. ASSUME NEW i \in Invocations, Ahead(i)'
      PROVE  exit'[i] = None /\ status'[i] = None /\ outcome'[i] # "success"
  BY <1>3, <1>5, StillAhead DEF AuditInv, StepInv
<1>6. StepInv'
  BY <1>1, <1>2, <1>5 DEF AuditInv, StepInv, AuditTypes
<1>7. AuditAgrees'
  BY <1>1, <1>2, <1>3 DEF AuditInv, AuditAgrees, None
<1> QED BY <1>4, <1>6, <1>7 DEF AuditInv

\* A step that is over, with a row that agrees with the exit status of its script.
LEMMA LeavingStep ==
    ASSUME AuditInv, step \in 1..Steps, UNCHANGED <<job, exit>>,
           NEW s \in Statuses, NEW o \in Outcomes,
           status' = [status EXCEPT ![Here] = s],
           outcome' = [outcome EXCEPT ![Here] = o],
           s = "succeeded" => exit[Here] = "0",
           s = "failed" => exit[Here] = "1",
           o = "success" => s = "succeeded",
           step' \in {step + 1, Steps + 1}, ~runId',
           runId' \in BOOLEAN,
           pc' = IF step' = Steps + 1 THEN "between" ELSE "start"
    PROVE  AuditInv'
<1>1. Here \in Invocations
  BY HereIsOne
<1>2. outcome'[Here] = o /\ status'[Here] = s
  BY <1>1 DEF AuditInv, AuditTypes
<1>3. \A i \in Invocations \ {Here} : outcome'[i] = outcome[i] /\ status'[i] = status[i]
  BY DEF AuditInv, AuditTypes
<1>4. AuditTypes'
  <2>1. step' \in 0..(Steps + 1)
    BY StepsAssumption
  <2>2. pc' \in {"between", "start"}
    OBVIOUS
  <2>3. status' \in [Invocations -> Statuses] /\ outcome' \in [Invocations -> Outcomes]
    BY DEF AuditInv, AuditTypes
  <2> QED BY <2>1, <2>2, <2>3 DEF AuditInv, AuditTypes
<1>5. ASSUME NEW i \in Invocations, Ahead(i)'
      PROVE  exit'[i] = None /\ status'[i] = None /\ outcome'[i] # "success"
  BY <1>3, <1>5, StillAhead DEF AuditInv, StepInv
<1>6. pc' = "between" <=> step' \notin 1..Steps
  BY StepsAssumption DEF AuditInv, AuditTypes
<1>7. StepInv'
  <2>1. job' # 0
    BY StepsAssumption DEF AuditInv, StepInv
  <2>2. pc' \in {"between", "start"}
    OBVIOUS
  <2> QED BY <1>5, <1>6, <2>1, <2>2 DEF StepInv
<1>8. AuditAgrees'
  BY <1>1, <1>2, <1>3 DEF AuditInv, AuditAgrees
<1> QED BY <1>4, <1>7, <1>8 DEF AuditInv

LEMMA AuditStep == AuditInv /\ [Next]_vars => AuditInv'
<1> SUFFICES ASSUME AuditInv, [Next]_vars PROVE AuditInv'
  OBVIOUS
<1>1. CASE UNCHANGED vars
  BY <1>1 DEF vars, AuditInv, AuditTypes, StepInv, AuditAgrees, Ahead, Here
<1>2. CASE Dispatch
  <2>1. AuditTypes' /\ AuditAgrees'
    BY <1>2, JobsAssumption, StepsAssumption
    DEF Dispatch, Over, AuditInv, AuditTypes, AuditAgrees
  <2>2. ASSUME NEW i \in Invocations, Ahead(i)' PROVE Ahead(i)
    <3>1. i[1] \in Nat /\ job \in Nat
      BY InvocationTypes, JobsAssumption DEF AuditInv, AuditTypes
    <3>2. i[1] > job
      BY <1>2, <2>2, <3>1 DEF Dispatch, Ahead
    <3> QED BY <3>2 DEF Ahead
  <2>3. StepInv'
    BY <1>2, <2>2, JobsAssumption, StepsAssumption
    DEF Dispatch, Over, AuditInv, AuditTypes, StepInv
  <2> QED BY <2>1, <2>3 DEF AuditInv
<1>3. CASE Prepare
  <2>1. PICK o \in Outcomes : /\ o # "success"
                              /\ \/ outcome' = outcome
                                 \/ outcome' = [outcome EXCEPT ![<<job, 1>>] = o]
    BY <1>3 DEF Prepare, Outcomes
  <2>2. AuditTypes'
    BY <1>3, <2>1, StepsAssumption DEF Prepare, AuditInv, AuditTypes
  <2>3. \A i \in Invocations : outcome'[i] = "success" => outcome[i] = "success"
    BY <2>1 DEF AuditInv, AuditTypes
  <2>4. ASSUME NEW i \in Invocations, Ahead(i)' PROVE Ahead(i)
    <3>1. i[1] \in Nat /\ i[2] \in Nat \ {0} /\ job \in Nat
      BY InvocationTypes, JobsAssumption DEF AuditInv, AuditTypes
    <3>2. job' = job /\ step = 0
      BY <1>3 DEF Prepare
    <3>3. i[1] > job \/ i[1] = job
      BY <2>4, <3>2 DEF Ahead
    <3> QED BY <3>1, <3>2, <3>3 DEF Ahead
  <2>5. (pc' = "between" <=> step' \notin 1..Steps) /\ (pc' # "between" => pc' = "start")
    BY <1>3, StepsAssumption DEF Prepare, AuditInv, AuditTypes, StepInv
  <2>6. StepInv'
    <3>1. step = 0 /\ UNCHANGED <<job, runId, exit, status>>
      BY <1>3 DEF Prepare
    <3>2. job # 0
      BY <3>1, StepsAssumption DEF AuditInv, StepInv
    <3>3. pc = "between" /\ ~runId'
      BY <1>3, <3>1 DEF AuditInv, StepInv
    <3> QED BY <2>3, <2>4, <2>5, <3>1, <3>2, <3>3 DEF AuditInv, StepInv
  <2>7. AuditAgrees'
    BY <1>3, <2>3 DEF Prepare, AuditInv, AuditAgrees
  <2> QED BY <2>2, <2>6, <2>7 DEF AuditInv
<1>4. CASE StartAudit
  <2>1. step \in 1..Steps /\ Ahead(Here)
    BY <1>4 DEF StartAudit, AuditInv, StepInv, Ahead, Here
  <2>2. Here \in Invocations
    BY <2>1, HereIsOne
  <2>3. exit[Here] = None /\ status[Here] = None /\ outcome[Here] # "success"
    BY <2>1, <2>2 DEF AuditInv, StepInv
  <2>4. exit' = [exit EXCEPT ![Here] = None]
    BY <1>4, <2>3 DEF StartAudit, AuditInv, AuditTypes
  <2>5. PICK s \in {None, "pending"} : status' = [status EXCEPT ![Here] = s]
    BY <1>4, <2>3 DEF StartAudit, AuditInv, AuditTypes
  <2>6. status'[Here] = s
    BY <2>2, <2>5 DEF AuditInv, AuditTypes
  <2>7. runId' \in BOOLEAN /\ (runId' => s = "pending")
    BY <1>4, <2>6 DEF StartAudit
  <2> QED BY <1>4, <2>1, <2>3, <2>4, <2>5, <2>7, InsideStep DEF StartAudit, Results
<1>5. CASE RunScript
  <2>1. step \in 1..Steps /\ outcome[Here] # "success"
    BY <1>5 DEF RunScript, AuditInv, StepInv
  <2>2. status' = [status EXCEPT ![Here] = status[Here]]
    BY <1>5 DEF RunScript, AuditInv, AuditTypes
  <2>3. status[Here] \in {None, "pending"} /\ (runId => status[Here] = "pending")
    BY <1>5 DEF RunScript, AuditInv, StepInv
  <2>4. runId' = runId /\ runId \in BOOLEAN /\ UNCHANGED <<job, step, outcome>>
    BY <1>5 DEF RunScript, AuditInv, AuditTypes
  <2>5. \/ pc' = "end_0" /\ exit' = [exit EXCEPT ![Here] = "0"]
        \/ pc' = "end_1" /\ exit' = [exit EXCEPT ![Here] = "1"]
    BY <1>5 DEF RunScript
  <2> HIDE DEF None
  <2>6. "0" \in Results /\ "1" \in Results
    BY DEF Results
  <2> QED BY <2>1, <2>2, <2>3, <2>4, <2>5, <2>6, InsideStep
<1>6. CASE EndSucceeded \/ EndFailed \/ Timeout
  <2>1. step \in 1..Steps
    BY <1>6 DEF EndSucceeded, EndFailed, Timeout, AuditInv, StepInv
  <2>2. Here \in Invocations
    BY <2>1, HereIsOne
  <2>3. status[Here] # "succeeded" /\ status[Here] # "failed"
    <3>1. CASE pc = "start"
      BY <2>2, <3>1 DEF AuditInv, StepInv, Ahead, Here, None
    <3>2. CASE pc \in {"script", "end_0", "end_1"}
      BY <3>2 DEF AuditInv, StepInv, None
    <3> QED BY <2>1, <3>1, <3>2 DEF AuditInv, AuditTypes, StepInv
  <2>4. ASSUME NEW to, Update(to)
        PROVE  status' = [status EXCEPT ![Here] = to]
    <3>1. pc \in {"script", "end_0", "end_1"} => status[Here] = "pending"
      BY <2>4 DEF Update, AuditInv, StepInv
    <3>2. pc \notin {"start", "between"}
      BY <2>1, <2>4 DEF Update, AuditInv, StepInv
    <3> QED BY <2>4, <3>1, <3>2 DEF Update, AuditInv, AuditTypes
  <2>5. status' = status => status' = [status EXCEPT ![Here] = status[Here]]
    BY DEF AuditInv, AuditTypes
  <2>6. status[Here] \in Statuses
    BY <2>2 DEF AuditInv, AuditTypes
  <2>7. CASE EndSucceeded
    <3>1. PICK s \in Statuses, o \in {"success", "failure"} :
              /\ status' = [status EXCEPT ![Here] = s]
              /\ Leave(o)
              /\ s = "succeeded" \/ (s = status[Here] /\ o = "failure")
      <4>1. \/ Update("succeeded") /\ (Leave("success") \/ Leave("failure"))
            \/ status' = status /\ Leave("failure")
        BY <2>7 DEF EndSucceeded
      <4>2. "succeeded" \in Statuses
        BY DEF Statuses
      <4> QED BY <2>4, <2>5, <2>6, <4>1, <4>2
    <3>2. exit[Here] = "0"
      BY <2>7 DEF EndSucceeded, AuditInv, StepInv
    <3>3. step' = Steps + 1 <=> step = Steps
      BY <2>1, <3>1, StepsAssumption DEF Leave
    <3> QED BY <2>1, <2>3, <3>1, <3>2, <3>3, LeavingStep DEF Leave, Outcomes, Statuses
  <2>8. CASE EndFailed
    <3>1. PICK s \in Statuses :
              /\ status' = [status EXCEPT ![Here] = s]
              /\ s = "failed" \/ s = status[Here]
      BY <2>4, <2>5, <2>6, <2>8 DEF EndFailed, Statuses
    <3>2. exit[Here] = "1" /\ Leave("failure")
      BY <2>8 DEF EndFailed, AuditInv, StepInv
    <3>3. step' = Steps + 1 <=> step = Steps
      BY <2>1, <3>2, StepsAssumption DEF Leave
    <3> QED BY <2>1, <2>3, <3>1, <3>2, <3>3, LeavingStep DEF Leave, Outcomes, Statuses
  <2>9. CASE Timeout
    <3>1. PICK s \in Statuses :
              /\ status' = [status EXCEPT ![Here] = s]
              /\ \/ s \in {status[Here], "pending"}
                 \/ pc = "end_0" /\ s = "succeeded"
                 \/ pc = "end_1" /\ s = "failed"
      BY <2>4, <2>5, <2>6, <2>9 DEF Timeout, Statuses
    <3>2. /\ s = "succeeded" => exit[Here] = "0"
          /\ s = "failed" => exit[Here] = "1"
      BY <2>3, <3>1 DEF AuditInv, StepInv
    <3> QED BY <2>1, <2>9, <3>1, <3>2, LeavingStep DEF Timeout, Outcomes
  <2> QED BY <1>6, <2>7, <2>8, <2>9
<1> QED BY <1>1, <1>2, <1>3, <1>4, <1>5, <1>6 DEF Next

\* The audit's part of a step of the whole is a step of the audit.
LEMMA AuditPart == [RefreshNext]_refreshVars => [Next]_vars
  BY DEF RefreshNext, refreshVars, Revise, StartScript, FetchSeries, UpsertSeries,
         ReturnZero, Raise, Kill, Workflow, Next, vars, script

\* The script, its audit row and GitHub never tell different stories, whatever fails.
THEOREM AuditIsTrue == RefreshSpec => []AuditAgrees
<1>1. RefreshInit => AuditInv
  BY AuditInit DEF RefreshInit
<1>2. AuditInv /\ [RefreshNext]_refreshVars => AuditInv'
  BY AuditStep, AuditPart
<1>3. AuditInv => AuditAgrees
  BY DEF AuditInv
<1> QED BY <1>1, <1>2, <1>3, PTL DEF RefreshSpec

-------------------------------------------------------------------------------
(* The series.                                                              *)

Upserts == 1..Len(Series)

\* Types of the script and its tables.
SeriesTypes ==
    /\ revision \in Nat
    /\ phase \in Upserts \cup {Off, Fetching, Len(Series) + 1}
    /\ batch \in [Keys -> Nat]
    /\ stored \in [Keys -> Nat]

\* A running script has stored what it fetched up to the upsert that is next, and
\* what it fetched is no older than what is there; nothing there is of the future.
ScriptInv ==
    /\ phase # Off => Running
    /\ \A k \in Keys : stored[k] <= revision /\ batch[k] <= revision
    /\ \A k \in Keys : phase \in Upserts => batch[k] = NoRow \/ stored[k] <= batch[k]
    /\ \A i \in Upserts : \A k \in Series[i] : phase > i => stored[k] >= batch[k]

\* A script that returned 0 has stored all it fetched.
ReturnInv ==
    job # 0 /\ exit[<<job, BenchmarkStep>>] = "0" =>
        \A k \in Keys : stored[k] >= batch[k]

\* The inductive invariant of the composition.
RefreshInv == AuditInv /\ SeriesTypes /\ ScriptInv /\ ReturnInv

LEMMA SeriesFacts ==
    /\ Len(Series) \in Nat
    /\ DOMAIN Series = Upserts
    /\ \A k \in Keys : \E i \in Upserts : k \in Series[i]
    /\ \A i \in Upserts : \A k \in Series[i] : k \in Keys
<1>1. Len(Series) \in Nat /\ DOMAIN Series = Upserts
  BY BenchmarkAssumption DEF Upserts
<1> QED BY <1>1, BenchmarkAssumption

\* The invocation of the script is one of the table's.
LEMMA ScriptInvocation ==
    ASSUME AuditInv, job # 0 PROVE <<job, BenchmarkStep>> \in Invocations
  BY BenchmarkAssumption, StepsAssumption, JobsAssumption
  DEF AuditInv, AuditTypes, Invocations, BenchmarkStep

LEMMA RefreshInitially == RefreshInit => RefreshInv
<1> SUFFICES ASSUME RefreshInit PROVE RefreshInv
  OBVIOUS
<1>1. AuditInv
  BY AuditInit DEF RefreshInit
<1>2. SeriesTypes
  BY DEF RefreshInit, SeriesTypes, NoRows, NoRow
<1>3. ScriptInv
  BY SeriesFacts DEF RefreshInit, ScriptInv, NoRows, NoRow, Off, Upserts
<1>4. ReturnInv
  BY DEF RefreshInit, Init, ReturnInv
<1> QED BY <1>1, <1>2, <1>3, <1>4 DEF RefreshInv

\* What a fetch answers is the newest version, or nothing.
LEMMA FetchedIsNewest == \A v \in Fetched : v = NoRow \/ v = revision
<1> SUFFICES ASSUME NEW v \in Fetched, v # NoRow PROVE v = revision
  OBVIOUS
<1>1. PICK rows \in {<<revision>>} \cup {<<r, revision>> : r \in 1..revision} :
          v = LastWins(rows)
  BY DEF Fetched
<1>2. CASE rows = <<revision>>
  BY <1>1, <1>2 DEF LastWins
<1>3. CASE rows # <<revision>>
  <2>1. PICK r \in 1..revision : rows = <<r, revision>>
    BY <1>1, <1>3
  <2> QED BY <1>1, <2>1 DEF LastWins
<1> QED BY <1>2, <1>3

\* An upsert that is due writes the batch's version of its keys and nothing older.
LEMMA UpsertOfDue ==
    ASSUME SeriesTypes, ScriptInv, phase \in Upserts
    PROVE  LET new == Upserted(Series[phase])
           IN  /\ new \in [Keys -> Nat]
               /\ \A k \in Keys : new[k] >= stored[k] /\ new[k] \in {stored[k], batch[k]}
               /\ \A k \in Series[phase] : new[k] >= batch[k]
<1> DEFINE new == Upserted(Series[phase])
<1>1. \A k \in Keys : new[k] = IF k \in Series[phase] /\ batch[k] # NoRow
                                THEN batch[k] ELSE stored[k]
  BY DEF Upserted
<1>2. new \in [Keys -> Nat]
  BY DEF Upserted, SeriesTypes
<1>3. \A k \in Keys : batch[k] \in Nat /\ stored[k] \in Nat
  BY DEF SeriesTypes
<1>4. \A k \in Keys : new[k] >= stored[k] /\ new[k] \in {stored[k], batch[k]}
  BY <1>1, <1>3 DEF ScriptInv
<1>5. \A k \in Series[phase] : k \in Keys
  BY SeriesFacts
<1>6. \A k \in Series[phase] : new[k] >= batch[k]
  BY <1>1, <1>3, <1>5 DEF NoRow
<1> QED BY <1>2, <1>4, <1>6

\* While the script runs its exit status is not known: what it does to the series is
\* not yet what a returned script did.
LEMMA RunningIsOpen ==
    ASSUME AuditInv, Running PROVE job # 0 /\ exit[<<job, BenchmarkStep>>] # "0"
  BY BenchmarkAssumption, StepsAssumption
  DEF AuditInv, AuditTypes, StepInv, Running, BenchmarkStep, Here, None

\* The steps of the script but the last one.
LEMMA ScriptStep ==
    ASSUME RefreshInv, StartScript \/ FetchSeries \/ UpsertSeries
    PROVE  (SeriesTypes /\ ScriptInv /\ ReturnInv)'
<1>1. Running /\ UNCHANGED <<vars, revision>>
  BY DEF StartScript, FetchSeries, UpsertSeries
<1>2. ReturnInv'
  BY <1>1, RunningIsOpen DEF RefreshInv, ReturnInv, vars
<1>3. Running'
  BY <1>1 DEF Running, vars
<1>4. revision \in Nat /\ revision' = revision
  BY <1>1 DEF RefreshInv, SeriesTypes
<1>5. CASE StartScript
  <2>1. SeriesTypes'
    BY <1>4, <1>5 DEF StartScript, RefreshInv, SeriesTypes, NoRows, NoRow
  <2>2. ScriptInv'
    BY <1>3, <1>4, <1>5, SeriesFacts
    DEF StartScript, RefreshInv, ScriptInv, NoRows, NoRow, Fetching, Upserts
  <2> QED BY <1>2, <2>1, <2>2
<1>6. CASE FetchSeries
  <2>1. Len(Series) \in Nat
    BY SeriesFacts
  <2>2. \A k \in Keys : batch'[k] = NoRow \/ batch'[k] = revision
    BY <1>6, FetchedIsNewest DEF FetchSeries
  <2>3. batch' \in [Keys -> Nat]
    <3>1. batch' \in [Keys -> Fetched]
      BY <1>6 DEF FetchSeries
    <3>2. \A v \in Fetched : v \in Nat
      BY <1>4, FetchedIsNewest DEF NoRow
    <3> QED BY <3>1, <3>2
  <2>4. SeriesTypes'
    BY <1>4, <1>6, <2>1, <2>3 DEF FetchSeries, RefreshInv, SeriesTypes, Upserts
  <2>5. ScriptInv'
    BY <1>3, <1>4, <1>6, <2>1, <2>2, SeriesFacts
    DEF FetchSeries, RefreshInv, ScriptInv, NoRow, Upserts
  <2> QED BY <1>2, <2>4, <2>5
<1>7. CASE UpsertSeries
  <2>1. Len(Series) \in Nat /\ phase \in Upserts /\ phase' = phase + 1
    BY <1>7, SeriesFacts DEF UpsertSeries, Upserts
  <2>2. /\ stored' \in [Keys -> Nat]
        /\ \A k \in Keys : stored'[k] >= stored[k] /\ stored'[k] \in {stored[k], batch[k]}
        /\ \A k \in Series[phase] : stored'[k] >= batch[k]
    BY <1>7, <2>1, UpsertOfDue DEF UpsertSeries, RefreshInv
  <2>3. batch' = batch
    BY <1>7 DEF UpsertSeries
  <2>4. SeriesTypes'
    BY <1>4, <2>1, <2>2, <2>3 DEF RefreshInv, SeriesTypes, Upserts
  <2>5. \A k \in Keys : batch[k] \in Nat /\ stored[k] \in Nat
    BY DEF RefreshInv, SeriesTypes
  <2>6. \A k \in Keys : stored'[k] <= revision' /\ batch'[k] <= revision'
    BY <1>4, <2>2, <2>3 DEF RefreshInv, ScriptInv
  <2>7. \A k \in Keys : batch'[k] = NoRow \/ stored'[k] <= batch'[k]
    BY <2>1, <2>2, <2>3, <2>5 DEF RefreshInv, ScriptInv
  <2>8. ASSUME NEW i \in Upserts, NEW k \in Series[i], phase' > i
        PROVE  stored'[k] >= batch'[k]
    <3>1. k \in Keys
      BY SeriesFacts
    <3>2. i = phase \/ phase > i
      BY <2>1, <2>8 DEF Upserts
    <3>3. stored'[k] \in Nat
      BY <2>2, <3>1
    <3> QED BY <2>2, <2>3, <2>5, <3>1, <3>2, <3>3 DEF RefreshInv, ScriptInv
  <2>9. ScriptInv'
    BY <1>3, <2>6, <2>7, <2>8 DEF ScriptInv
  <2> QED BY <1>2, <2>4, <2>9
<1> QED BY <1>5, <1>6, <1>7

\* An interrupted script has stored some prefix of its series, or the one after it.
LEMMA InterruptedStep ==
    ASSUME RefreshInv, Interrupted
    PROVE  /\ SeriesTypes' /\ ScriptInv'
           /\ \A k \in Keys : stored'[k] >= stored[k]
           /\ batch' = batch
           /\ ~Running => stored' = stored
<1>1. phase' = Off /\ batch' = batch /\ revision' = revision
  BY DEF Interrupted
<1>2. stored' = stored \/ (phase \in Upserts /\ stored' = Upserted(Series[phase]))
  BY SeriesFacts DEF Interrupted
<1>3. /\ stored' \in [Keys -> Nat]
      /\ \A k \in Keys : stored'[k] >= stored[k] /\ stored'[k] \in {stored[k], batch[k]}
  BY <1>2, UpsertOfDue DEF RefreshInv, SeriesTypes
<1>4. Len(Series) \in Nat
  BY SeriesFacts
<1>5. ~(Off \in Upserts) /\ ~(\E i \in Upserts : Off > i)
  BY <1>4 DEF Off, Upserts
<1>6. SeriesTypes'
  BY <1>1, <1>3 DEF RefreshInv, SeriesTypes
<1>7. ScriptInv'
  BY <1>1, <1>3, <1>5 DEF RefreshInv, ScriptInv
<1>8. ~Running => stored' = stored
  BY <1>2, <1>5 DEF RefreshInv, ScriptInv
<1> QED BY <1>1, <1>3, <1>6, <1>7, <1>8

LEMMA RefreshStep == RefreshInv /\ [RefreshNext]_refreshVars => RefreshInv'
<1> SUFFICES ASSUME RefreshInv, [RefreshNext]_refreshVars PROVE RefreshInv'
  OBVIOUS
<1>1. AuditInv'
  BY AuditStep, AuditPart DEF RefreshInv
<1>2. CASE UNCHANGED refreshVars
  BY <1>1, <1>2 DEF refreshVars, vars, script, RefreshInv, SeriesTypes, ScriptInv, ReturnInv, Running
<1>3. CASE Revise
  <2>1. UNCHANGED <<vars, script>> /\ revision' = revision + 1
    BY <1>3 DEF Revise
  <2>2. SeriesTypes'
    BY <2>1 DEF RefreshInv, SeriesTypes, script
  <2>3. ScriptInv'
    <3>1. \A k \in Keys : stored'[k] <= revision' /\ batch'[k] <= revision'
      BY <2>1 DEF RefreshInv, SeriesTypes, ScriptInv, script
    <3> QED BY <2>1, <3>1 DEF RefreshInv, ScriptInv, script, vars, Running
  <2> QED BY <1>1, <2>1, <2>2, <2>3 DEF RefreshInv, ReturnInv, script, vars
<1>4. CASE StartScript \/ FetchSeries \/ UpsertSeries
  BY <1>1, <1>4, ScriptStep DEF RefreshInv
<1>5. CASE ReturnZero
  <2>1. /\ Running /\ phase = Len(Series) + 1 /\ phase' = Off
        /\ UNCHANGED <<job, revision, batch, stored>>
    BY <1>5 DEF ReturnZero, RunScript
  <2>2. \A k \in Keys : stored[k] >= batch[k]
    <3>1. \A i \in Upserts : phase > i
      BY <2>1, SeriesFacts DEF Upserts
    <3> QED BY <3>1, SeriesFacts DEF RefreshInv, ScriptInv
  <2>3. SeriesTypes'
    BY <2>1 DEF RefreshInv, SeriesTypes
  <2>4. ~(Off \in Upserts) /\ ~(\E i \in Upserts : Off > i)
    BY SeriesFacts DEF Off, Upserts
  <2>5. ScriptInv'
    BY <2>1, <2>4 DEF RefreshInv, ScriptInv
  <2> QED BY <1>1, <2>1, <2>2, <2>3, <2>5 DEF RefreshInv, ReturnInv
<1>6. CASE Raise
  <2>1. Running /\ job' = job /\ exit'[Here] = "1" /\ Here = <<job, BenchmarkStep>>
    BY <1>6 DEF Raise, RunScript, Running, Here
  <2>2. ReturnInv'
    BY <2>1 DEF ReturnInv
  <2> QED BY <1>1, <1>6, <2>2, InterruptedStep DEF RefreshInv, Raise
<1>7. CASE Kill
  <2>1. job' = job /\ exit' = exit
    BY <1>7 DEF Kill, Timeout
  <2>2. ReturnInv'
    <3>1. CASE Running
      BY <2>1, <3>1, RunningIsOpen DEF RefreshInv, ReturnInv
    <3>2. CASE ~Running
      BY <1>7, <2>1, <3>2, InterruptedStep DEF Kill, RefreshInv, ReturnInv
    <3> QED BY <3>1, <3>2
  <2> QED BY <1>1, <1>7, <2>2, InterruptedStep DEF RefreshInv, Kill
<1>8. CASE Workflow
  <2>1. UNCHANGED <<revision, script>>
    BY <1>8 DEF Workflow
  <2>2. ~Running
    <3>1. CASE Dispatch \/ Prepare
      <4>1. step = Steps + 1 \/ step = 0
        BY <3>1 DEF Dispatch, Over, Prepare
      <4> QED BY <4>1, BenchmarkAssumption, StepsAssumption DEF Running, BenchmarkStep
    <3>2. CASE StartAudit \/ EndSucceeded \/ EndFailed
      BY <3>2 DEF StartAudit, EndSucceeded, EndFailed, Running
    <3>3. CASE step # BenchmarkStep /\ RunScript
      BY <3>3 DEF Running
    <3> QED BY <1>8, <3>1, <3>2, <3>3 DEF Workflow
  <2>3. phase = Off
    BY <2>2 DEF RefreshInv, ScriptInv
  <2>4. SeriesTypes' /\ ScriptInv'
    BY <2>1, <2>3 DEF RefreshInv, SeriesTypes, ScriptInv, script
  <2>5. CASE Dispatch
    <3>1. job' = job + 1 /\ exit' = exit
      BY <2>5 DEF Dispatch
    <3>2. job \in Nat /\ job' \in 0..Jobs
      BY <1>1, JobsAssumption DEF RefreshInv, AuditInv, AuditTypes
    <3>3. <<job', BenchmarkStep>> \in Invocations
      BY <3>1, <3>2, BenchmarkAssumption, StepsAssumption, JobsAssumption DEF Invocations, BenchmarkStep
    <3>4. Ahead(<<job', BenchmarkStep>>)
      BY <3>1, <3>2 DEF Ahead
    <3>5. exit[<<job', BenchmarkStep>>] = None
      BY <3>3, <3>4 DEF RefreshInv, AuditInv, StepInv
    <3>6. ReturnInv'
      BY <3>1, <3>5 DEF ReturnInv, None
    <3> QED BY <1>1, <2>4, <3>6 DEF RefreshInv
  <2>6. CASE ~Dispatch
    <3>1. job' = job
      BY <1>8, <2>6 DEF Workflow, Prepare, StartAudit, RunScript, EndSucceeded, EndFailed, Leave
    <3>2. job # 0 => exit'[<<job, BenchmarkStep>>] = exit[<<job, BenchmarkStep>>]
      <4>1. CASE step # BenchmarkStep /\ RunScript
        <5>1. PICK e : exit' = [exit EXCEPT ![Here] = e]
          BY <4>1 DEF RunScript
        <5>2. Here # <<job, BenchmarkStep>>
          BY <4>1 DEF Here
        <5> QED BY <5>1, <5>2, ScriptInvocation DEF RefreshInv, AuditInv, AuditTypes
      <4>2. CASE ~(step # BenchmarkStep /\ RunScript)
        BY <1>8, <2>6, <4>2
        DEF Workflow, Prepare, StartAudit, EndSucceeded, EndFailed, Leave
      <4> QED BY <4>1, <4>2
    <3>3. ReturnInv'
      BY <2>1, <3>1, <3>2 DEF RefreshInv, ReturnInv, script
    <3> QED BY <1>1, <2>4, <3>3 DEF RefreshInv
  <2> QED BY <2>5, <2>6
<1> QED BY <1>2, <1>3, <1>4, <1>5, <1>6, <1>7, <1>8 DEF RefreshNext

LEMMA RefreshInductive == RefreshSpec => []RefreshInv
  BY RefreshInitially, RefreshStep, PTL DEF RefreshSpec

\* A row that says "succeeded" is of a run whose every fetched row is in the schema, in
\* that version or a newer one, however many series, commits, lost answers and
\* interrupted runs there are.
THEOREM GreenRunIsStored == RefreshSpec => []GreenIsStored
<1>1. RefreshInv => GreenIsStored
  <2> SUFFICES ASSUME RefreshInv, job # 0, status[<<job, BenchmarkStep>>] = "succeeded"
               PROVE  \A k \in Keys : stored[k] >= batch[k]
    BY DEF GreenIsStored
  <2>1. <<job, BenchmarkStep>> \in Invocations
    BY ScriptInvocation DEF RefreshInv
  <2> QED BY <2>1 DEF RefreshInv, AuditInv, AuditAgrees, ReturnInv
<1> QED BY <1>1, RefreshInductive, PTL

\* However runs, failures and revisions follow each other, no row is removed or
\* replaced by an older version of it.
THEOREM RowsOnlyGetNewer == RefreshSpec => RevisionsOnlyGrow
<1>1. RefreshInv /\ [RefreshNext]_refreshVars
          => [\A k \in Keys : stored'[k] >= stored[k]]_refreshVars
  <2> SUFFICES ASSUME RefreshInv, RefreshNext
               PROVE  \A k \in Keys : stored'[k] >= stored[k]
    OBVIOUS
  <2>1. \A k \in Keys : stored[k] \in Nat
    BY DEF RefreshInv, SeriesTypes
  <2>2. CASE Raise \/ Kill
    BY <2>2, InterruptedStep DEF Raise, Kill
  <2>3. CASE UpsertSeries
    BY <2>3, UpsertOfDue, SeriesFacts DEF UpsertSeries, RefreshInv, Upserts
  <2>4. CASE stored' = stored
    BY <2>1, <2>4
  <2>5. CASE Revise \/ Workflow
    BY <2>4, <2>5 DEF Revise, Workflow, script
  <2>6. CASE StartScript \/ FetchSeries \/ ReturnZero
    BY <2>4, <2>6 DEF StartScript, FetchSeries, ReturnZero
  <2> QED BY <2>2, <2>3, <2>5, <2>6 DEF RefreshNext
<1> QED BY <1>1, RefreshInductive, PTL DEF RefreshSpec, RevisionsOnlyGrow
===============================================================================
