------------------------------ MODULE CompanyData ------------------------------
(***************************************************************************)
(* The three scripts that fill the schema "fundamentals", each run by hand, *)
(* one at a time: seed_vn30_history.py (a file edited between runs, one     *)
(* transaction, and a check after its commit), fetch_metadata.py (a commit  *)
(* per ticker) and fetch_fundamentals.py (one transaction for all tickers). *)
(* Any of them may be stopped between two steps.                            *)
(***************************************************************************)
EXTENDS FiniteSets, FiniteSetsExt, Folds, Integers

CONSTANTS
    Files,      \* the versions of the seed file: [events, rows], two sets
    First,      \* the first of them
    Universe,   \* VN30_UNIVERSE
    Statements, \* STATEMENT_METHODS
    Filings,    \* bound on the vendor's restatements
    Runs        \* bound on the number of runs

ASSUME FilesAssumption == First \in Files

ASSUME BoundsAssumption == Filings \in Nat \ {0} /\ Runs \in Nat

VARIABLES
    file,         \* data/seed/vn30_history.yaml
    expected,     \* the EXPECTED_ constants of seed_vn30_history.py
    events,       \* the rows of vn30_membership_event
    snapshot,     \* the rows <<effective date, ticker>> of vn30_membership_snapshot
    seedVerified, \* the assertions of the last seed run passed
    isCurrent,    \* per ticker, is_current in vn30_constituent; "none" without a row
    current,      \* current_set of fetch_metadata
    incomplete,   \* a ticker failed, or is not one of its --tickers
    allCurrent,   \* a full metadata run ended without a failure since the last seed
    filing,       \* the vendor's version of the statements
    metrics,      \* per ticker and statement, the version stored; 0 for none
    transaction,  \* metrics as the transaction of fetch_fundamentals has it
    script,       \* "none", "seed", "verify", "metadata" or "fundamentals"
    todo,         \* what the script has not treated yet
    runs          \* the number of runs so far

seedVars == <<events, snapshot, seedVerified>>
metadataVars == <<isCurrent, current, incomplete, allCurrent>>
metricVars == <<filing, metrics, transaction>>
vars == <<file, expected, seedVars, metadataVars, metricVars, script, todo, runs>>

Idle == script = "none"

Start(s) ==
    /\ Idle
    /\ runs < Runs
    /\ runs' = runs + 1
    /\ script' = s

\* The EXPECTED_ constants that fit a seed file, or the counts of the tables.
Counts(log, rows) ==
    [events  |-> Cardinality(log),
     rows    |-> Cardinality(rows),
     tickers |-> Cardinality({r[2] : r \in rows})]

Dates(rows) == {r[1] : r \in rows}
Members(rows, date) == {r[2] : r \in {q \in rows : q[1] = date}}

Init ==
    /\ file = First
    /\ expected = Counts(First.events, First.rows)
    /\ events = {}
    /\ snapshot = {}
    /\ seedVerified = FALSE
    /\ isCurrent = [t \in Universe |-> "none"]
    /\ current = {}
    /\ incomplete = FALSE
    /\ allCurrent = FALSE
    /\ filing = 1
    /\ metrics = [k \in Universe \X Statements |-> 0]
    /\ transaction = metrics
    /\ script = "none"
    /\ todo = {}
    /\ runs = 0

-------------------------------------------------------------------------------
(* The world.                                                               *)

\* A period is added or corrected; the EXPECTED_ constants are edited with it, or not.
EditFile ==
    /\ Idle
    /\ file' \in Files
    /\ expected' \in {expected, Counts(file'.events, file'.rows)}
    /\ UNCHANGED <<seedVars, metadataVars, metricVars, script, todo, runs>>

Restate ==
    /\ filing < Filings
    /\ filing' = filing + 1
    /\ UNCHANGED <<file, expected, seedVars, metadataVars, metrics, transaction,
                   script, todo, runs>>

\* The process stops; what it has not committed is gone.
Crash ==
    /\ ~Idle
    /\ script' = "none"
    /\ todo' = {}
    /\ transaction' = metrics
    /\ current' = {}
    /\ incomplete' = FALSE
    /\ UNCHANGED <<file, expected, seedVars, isCurrent, allCurrent, filing, metrics, runs>>

-------------------------------------------------------------------------------
(* seed_vn30_history.py                                                     *)

LatestEvent(log) == CHOOSE e \in log : \A f \in log : f.date <= e.date

Applied(e, members) == (members \ e.removed) \cup e.added

\* "current -= removed; current |= added", for the events up to a date, the latest last.
Folded(log, baseline, date) ==
    MapThenFoldSet(Applied, baseline, LAMBDA e : e, LatestEvent,
                   {e \in log : e.date <= date})

Baseline(rows) == Members(rows, Min(Dates(rows)))

\* reconcile_yaml: a snapshot without an event of its date is only the first one.
Reconciled(log, rows) ==
    \A d \in Dates(rows) :
        \/ /\ \E e \in log : e.date = d
           /\ Members(rows, d) = Folded(log, Baseline(rows), d)
        \/ /\ d = Min(Dates(rows))
           /\ ~\E e \in log : e.date = d

StartSeed ==
    /\ Reconciled(file.events, file.rows)
    /\ Start("seed")
    /\ seedVerified' = FALSE
    /\ UNCHANGED <<file, expected, events, snapshot, metadataVars, metricVars, todo>>

\* Events only into an empty table, snapshot rows ON CONFLICT DO NOTHING; one commit.
CommitSeed ==
    /\ script = "seed"
    /\ events' = IF events = {} THEN file.events ELSE events
    /\ snapshot' = snapshot \cup file.rows
    /\ allCurrent' = (allCurrent /\ snapshot' = snapshot)
    /\ script' = "verify"
    /\ UNCHANGED <<file, expected, seedVerified, isCurrent, current, incomplete, metricVars,
                   todo, runs>>

\* Mutant: only the constituent rows and the tickers are counted.
RowsAsExpected ==
    LET n == Counts(events, snapshot)
    IN n.rows = expected.rows /\ n.tickers = expected.tickers

AsExpected == Counts(events, snapshot) = expected

\* verify_db: after the commit, its assertions raise or pass.
VerifyDb ==
    /\ script = "verify"
    /\ seedVerified' = AsExpected
    /\ script' = "none"
    /\ UNCHANGED <<file, expected, events, snapshot, metadataVars, metricVars, todo, runs>>

-------------------------------------------------------------------------------
(* fetch_metadata.py                                                        *)

\* get_current_vn30_tickers.
LatestMembers == IF snapshot = {} THEN {} ELSE Members(snapshot, Max(Dates(snapshot)))

\* --tickers, or all of them.
StartMetadata ==
    /\ Start("metadata")
    /\ todo' \in (SUBSET Universe) \ {{}}
    /\ current' = LatestMembers
    /\ incomplete' = (todo' # Universe)
    /\ UNCHANGED <<file, expected, seedVars, isCurrent, allCurrent, metricVars>>

\* Mutant: is_current is left out of the ON CONFLICT DO UPDATE.
UpsertedOnce(t) ==
    IF isCurrent[t] = "none" THEN IF t \in current THEN "yes" ELSE "no" ELSE isCurrent[t]

\* upsert_constituent.
Upserted(t) == IF t \in current THEN "yes" ELSE "no"

\* A ticker is committed, or an error (of the vendor, or a NULL sector the table
\* refuses) is logged and the next one taken; the exit status is 0 in any case.
TreatTicker ==
    /\ script = "metadata"
    /\ \E t \in todo, treated \in BOOLEAN :
        /\ todo' = todo \ {t}
        /\ isCurrent' = IF treated THEN [isCurrent EXCEPT ![t] = Upserted(t)] ELSE isCurrent
        /\ incomplete' = (todo' # {} /\ (incomplete \/ ~treated))
        /\ allCurrent' = (todo' = {} /\ ~incomplete /\ treated)
    /\ script' = IF todo' = {} THEN "none" ELSE script
    /\ current' = IF todo' = {} THEN {} ELSE current
    /\ UNCHANGED <<file, expected, seedVars, metricVars, runs>>

-------------------------------------------------------------------------------
(* fetch_fundamentals.py                                                    *)

StartFundamentals ==
    /\ Start("fundamentals")
    /\ \E T \in (SUBSET Universe) \ {{}}, S \in (SUBSET Statements) \ {{}} : todo' = T \X S
    /\ UNCHANGED <<file, expected, seedVars, metadataVars, metricVars>>

\* Mutant: ON CONFLICT DO UPDATE.
StoredLatest(k) == filing

\* insert_rows: ON CONFLICT DO NOTHING.
Stored(k) == IF transaction[k] = 0 THEN filing ELSE transaction[k]

\* sync_ticker_statement: the vendor has rows, or none.
SyncStatement ==
    /\ script = "fundamentals"
    /\ \E k \in todo :
        /\ todo' = todo \ {k}
        /\ \/ transaction' = [transaction EXCEPT ![k] = Stored(k)]
           \/ transaction' = transaction
    /\ UNCHANGED <<file, expected, seedVars, metadataVars, filing, metrics, script, runs>>

\* A fetch or an insert that raises ends the run: conn.close() rolls all of it back.
AbortFundamentals ==
    /\ script = "fundamentals"
    /\ transaction' = metrics
    /\ todo' = {}
    /\ script' = "none"
    /\ UNCHANGED <<file, expected, seedVars, metadataVars, filing, metrics, runs>>

CommitFundamentals ==
    /\ script = "fundamentals"
    /\ todo = {}
    /\ metrics' = transaction
    /\ script' = "none"
    /\ UNCHANGED <<file, expected, seedVars, metadataVars, filing, transaction, todo, runs>>

Next ==
    \/ EditFile
    \/ Restate
    \/ Crash
    \/ StartSeed
    \/ CommitSeed
    \/ VerifyDb
    \/ StartMetadata
    \/ TreatTicker
    \/ StartFundamentals
    \/ SyncStatement
    \/ AbortFundamentals
    \/ CommitFundamentals

Spec == Init /\ [][Next]_vars

-------------------------------------------------------------------------------
(* Properties.                                                              *)

TypeOK ==
    /\ file \in Files
    /\ seedVerified \in BOOLEAN
    /\ isCurrent \in [Universe -> {"none", "yes", "no"}]
    /\ metrics \in [Universe \X Statements -> 0..Filings]
    /\ transaction \in [Universe \X Statements -> 0..Filings]
    /\ script \in {"none", "seed", "verify", "metadata", "fundamentals"}
    /\ script = "metadata" => todo \subseteq Universe
    /\ script = "fundamentals" => todo \subseteq Universe \X Statements
    /\ script # "fundamentals" => transaction = metrics
    /\ script # "metadata" => current = {} /\ ~incomplete

\* "Folding the event log at any effective_date must produce the same 30-ticker set as
\* querying vn30_membership_snapshot for that date" (migrations/006): it does when the
\* last seed run passed its assertions, although they only count, whatever versions of
\* the file and of the expected counts came before.
VerifiedLogFolds ==
    seedVerified =>
        \A d \in Dates(snapshot) :
            Members(snapshot, d) = Folded(events, Baseline(snapshot), d)

\* After a metadata run of all tickers in which none failed, the current constituents
\* are those of the latest snapshot, whatever partial, failed and interrupted runs
\* left before.
CurrentIsLatest ==
    allCurrent => {t \in Universe : isCurrent[t] = "yes"} = LatestMembers \cap Universe

\* fetch_fundamentals stores all it fetched or nothing, around what is there already
\* ("ON CONFLICT DO NOTHING preserves earliest ingested_at"): the table changes only by
\* a run that has treated each of its tickers and statements, and a statement once
\* stored is not replaced by a restated one, although the transaction of a run may
\* have been opened, filled and rolled back before.
EarliestIsKept ==
    [][\A k \in DOMAIN metrics :
          metrics'[k] # metrics[k] => metrics[k] = 0 /\ todo = {}]_vars

\* The claim of migrations/006 without the condition.
LogFolds ==
    \A d \in Dates(snapshot) : Members(snapshot, d) = Folded(events, Baseline(snapshot), d)
===============================================================================
