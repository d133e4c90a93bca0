--------------------------- MODULE BenchmarkRefresh ---------------------------
(***************************************************************************)
(* scripts/sync_benchmarks.py --today as the second step of the workflow    *)
(* RefreshAudit models: the series are fetched one by one, a fetch that     *)
(* fails is only a warning, and each series is upserted by a commit of its  *)
(* own.  The script may raise and the job may be killed between any two.    *)
(* A row's value is the number of the vendor's revision it was published    *)
(* in; a key is a date with a tenor or a bank.                              *)
(***************************************************************************)
EXTENDS RefreshAudit, Sequences

CONSTANTS Keys,      \* of the rows of the three tables
          Series,    \* the sequence of the upserts: the keys of one table each
          Revisions  \* bound on the vendor's revisions

\* The step of sync_benchmarks.py in the job.
BenchmarkStep == 2

ASSUME BenchmarkAssumption ==
    /\ Revisions \in Nat \ {0}
    /\ Series \in Seq(SUBSET Keys)
    /\ Keys = UNION {Series[i] : i \in DOMAIN Series}
    /\ BenchmarkStep <= Steps

VARIABLES
    revision,  \* of the vendor's data
    phase,     \* Off, Fetching, or 1..Len(Series): the upsert that is next
    batch,     \* per key, the value fetched by the run of the last job
    stored     \* per key, the value in the benchmark schema

script == <<phase, batch, stored>>
refreshVars == <<vars, revision, script>>

Off == -1
Fetching == 0

NoRow == 0
NoRows == [k \in Keys |-> NoRow]

RefreshInit ==
    /\ Init
    /\ revision = 1
    /\ phase = Off
    /\ batch = NoRows
    /\ stored = NoRows

\* The vendor publishes or corrects rows.
Revise ==
    /\ revision < Revisions
    /\ revision' = revision + 1
    /\ UNCHANGED <<vars, script>>

-------------------------------------------------------------------------------
(* The script.                                                              *)

Running == step = BenchmarkStep /\ pc = "script"

\* main: --today.
StartScript ==
    /\ Running
    /\ phase = Off
    /\ phase' = Fetching
    /\ batch' = NoRows
    /\ UNCHANGED <<vars, revision, stored>>

\* Mutant: "if key not in seen".
FirstWins(rows) == rows[1]

\* "vnstock can return multiple rows per key": the last one wins.
LastWins(rows) == rows[Len(rows)]

\* A fetch fails or has no row of the key, or it has one, perhaps after an older version.
Fetched ==
    {NoRow} \cup
    {LastWins(rows) : rows \in {<<revision>>} \cup {<<r, revision>> : r \in 1..revision}}

\* fetch_bond_yields, fetch_policy_rates, fetch_deposit_rates: what fails is skipped.
FetchSeries ==
    /\ Running
    /\ phase = Fetching
    /\ batch' \in [Keys -> Fetched]
    /\ phase' = 1
    /\ UNCHANGED <<vars, revision, stored>>

\* INSERT ... ON CONFLICT DO UPDATE of one series.
Upserted(keys) ==
    [k \in Keys |-> IF k \in keys /\ batch[k] # NoRow THEN batch[k] ELSE stored[k]]

\* upsert_bond_yields, upsert_policy_rates, upsert_deposit_rates: one commit each.
UpsertSeries ==
    /\ Running
    /\ phase \in 1..Len(Series)
    /\ stored' = Upserted(Series[phase])
    /\ phase' = phase + 1
    /\ UNCHANGED <<vars, revision, batch>>

\* main() returns: exit status 0.
ReturnZero ==
    /\ Running
    /\ phase = Len(Series) + 1
    /\ RunScript
    /\ exit'[Here] = "0"
    /\ phase' = Off
    /\ UNCHANGED <<revision, batch, stored>>

\* A call in progress when the script stops: its commit is done, or is not.
Interrupted ==
    /\ phase' = Off
    /\ stored' \in {stored} \cup
                   {Upserted(Series[i]) : i \in {phase} \cap DOMAIN Series}
    /\ UNCHANGED <<revision, batch>>

\* Mutant: main catches what sync_benchmarks raises and only logs it.
RaiseSwallowed ==
    /\ Running
    /\ RunScript
    /\ exit'[Here] = "0"
    /\ Interrupted

\* The script cannot be started, a row lacks a column or breaks a CHECK, a connection
\* or a commit fails, or its answer is lost: nothing is caught, exit status 1.
Raise ==
    /\ Running
    /\ RunScript
    /\ exit'[Here] = "1"
    /\ Interrupted

\* The job's timeout.
Kill == Timeout /\ Interrupted

\* The rest of the workflow, and the scripts of the other steps.
Workflow ==
    /\ \/ Dispatch
       \/ Prepare
       \/ StartAudit
       \/ step # BenchmarkStep /\ RunScript
       \/ EndSucceeded
       \/ EndFailed
    /\ UNCHANGED <<revision, script>>

RefreshNext ==
    \/ Revise
    \/ StartScript
    \/ FetchSeries
    \/ UpsertSeries
    \/ ReturnZero
    \/ Raise
    \/ Kill
    \/ Workflow

RefreshSpec == RefreshInit /\ [][RefreshNext]_refreshVars

-------------------------------------------------------------------------------
(* Properties.                                                              *)

\* An audit row that says "succeeded" is of a run whose every fetched row is in the
\* schema, that version or a newer one: nothing goes missing behind a green step,
\* although the rows are in three commits and the answer of each may be lost.
GreenIsStored ==
    job # 0 /\ status[<<job, BenchmarkStep>>] = "succeeded" =>
        \A k \in Keys : stored[k] >= batch[k]

\* However runs, failures and revisions follow each other, a row is never removed nor
\* replaced by an older version of it.
RevisionsOnlyGrow == [][\A k \in Keys : stored'[k] >= stored[k]]_refreshVars
===============================================================================
