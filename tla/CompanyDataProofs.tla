--------------------------- MODULE CompanyDataProofs ---------------------------
(***************************************************************************)
(* Theorems about CompanyData, for every set of seed files, tickers and     *)
(* statements and every number of runs and restatements.                    *)
(***************************************************************************)
EXTENDS CompanyData, FiniteSetTheorems, TLAPS

Keys == Universe \X Statements

IsLatest(t) == (isCurrent[t] = "yes") <=> t \in LatestMembers

\* A metadata run compares with the members it read at its start, which nobody changes
\* under it; as long as it is complete, what it has treated agrees with them.
MetadataInv ==
    /\ script = "metadata" => current = LatestMembers
    /\ (script = "metadata" /\ ~incomplete) => \A t \in Universe \ todo : IsLatest(t)
    /\ allCurrent => \A t \in Universe : IsLatest(t)

\* The open transaction has what is committed.
TransactionInv ==
    /\ filing \in 1..Filings
    /\ \A k \in Keys : metrics[k] # 0 => transaction[k] = metrics[k]

\* The inductive invariant.
CompanyInv == TypeOK /\ MetadataInv /\ TransactionInv

-------------------------------------------------------------------------------

\* The inductive invariant holds initially.
LEMMA CompanyInit == Init => CompanyInv
<1> SUFFICES ASSUME Init PROVE CompanyInv
  OBVIOUS
<1>1. TypeOK
  <2>1. metrics \in [Universe \X Statements -> 0..Filings]
    <3>1. 0 \in 0..Filings
      BY BoundsAssumption
    <3> QED BY <3>1 DEF Init
  <2>2. isCurrent \in [Universe -> {"none", "yes", "no"}]
    BY DEF Init
  <2> QED BY <2>1, <2>2, FilesAssumption DEF Init, TypeOK
<1>2. MetadataInv
  BY DEF Init, MetadataInv
<1>3. TransactionInv
  BY BoundsAssumption DEF Init, TransactionInv
<1> QED BY <1>1, <1>2, <1>3 DEF CompanyInv

\* Steps that leave the constituents and the snapshots alone and run no metadata.
LEMMA MetadataFrame ==
    ASSUME CompanyInv, UNCHANGED <<isCurrent, snapshot, allCurrent>>,
           script' # "metadata"
    PROVE  MetadataInv'
<1>1. LatestMembers' = LatestMembers
  BY DEF LatestMembers
<1> QED BY <1>1 DEF CompanyInv, MetadataInv, IsLatest

\* What happens around the scripts keeps it.
LEMMA WorldStep == ASSUME CompanyInv, EditFile \/ Restate \/ Crash PROVE CompanyInv'
<1>1. LatestMembers' = LatestMembers
  BY DEF EditFile, Restate, Crash, seedVars, LatestMembers
<1>2. TypeOK'
  BY DEF EditFile, Restate, Crash, seedVars, metadataVars, metricVars, Idle, CompanyInv, TypeOK
<1>3. MetadataInv'
  BY <1>1 DEF EditFile, Restate, Crash, seedVars, metadataVars, Idle, CompanyInv,
              MetadataInv, IsLatest
<1>4. TransactionInv'
  BY BoundsAssumption
  DEF EditFile, Restate, Crash, metricVars, Idle, CompanyInv, TransactionInv
<1> QED BY <1>2, <1>3, <1>4 DEF CompanyInv

\* The seed resets what was said of the latest snapshot.
LEMMA SeedStep == ASSUME CompanyInv, StartSeed \/ CommitSeed \/ VerifyDb PROVE CompanyInv'
<1>1. TypeOK'
  <2>1. seedVerified' \in BOOLEAN
    BY DEF StartSeed, CommitSeed, VerifyDb, AsExpected, CompanyInv, TypeOK
  <2> QED BY <2>1 DEF StartSeed, Start, Idle, CommitSeed, VerifyDb, metadataVars, metricVars,
                      CompanyInv, TypeOK
<1>2. MetadataInv'
  <2>1. CASE snapshot' = snapshot /\ allCurrent' = allCurrent
    BY <2>1, MetadataFrame DEF StartSeed, Start, CommitSeed, VerifyDb, metadataVars
  <2>2. CASE ~(snapshot' = snapshot /\ allCurrent' = allCurrent)
    <3>1. CommitSeed /\ ~allCurrent'
      BY <2>2 DEF StartSeed, CommitSeed, VerifyDb, metadataVars, CompanyInv, MetadataInv
    <3> QED BY <3>1 DEF CommitSeed, MetadataInv
  <2> QED BY <2>1, <2>2
<1>3. TransactionInv'
  BY DEF StartSeed, CommitSeed, VerifyDb, metricVars, CompanyInv, TransactionInv
<1> QED BY <1>1, <1>2, <1>3 DEF CompanyInv

\* A metadata run brings the rows up to the members it read.
LEMMA MetadataStep == ASSUME CompanyInv, StartMetadata \/ TreatTicker PROVE CompanyInv'
<1>1. LatestMembers' = LatestMembers
  BY DEF StartMetadata, TreatTicker, seedVars, LatestMembers
<1>2. TransactionInv'
  BY DEF StartMetadata, TreatTicker, metricVars, CompanyInv, TransactionInv
<1>3. CASE StartMetadata
  <2>1. /\ todo' \subseteq Universe /\ current' = LatestMembers
        /\ incomplete' = (todo' # Universe) /\ script' = "metadata"
        /\ UNCHANGED <<file, expected, seedVars, isCurrent, allCurrent, metricVars>>
    BY <1>3 DEF StartMetadata, Start
  <2>2. script # "fundamentals"
    BY <1>3 DEF StartMetadata, Start, Idle
  <2>3. TypeOK'
    BY <2>1, <2>2 DEF CompanyInv, TypeOK, seedVars, metricVars
  <2>4. MetadataInv'
    BY <1>1, <2>1 DEF CompanyInv, MetadataInv, IsLatest
  <2> QED BY <1>2, <2>3, <2>4 DEF CompanyInv
<1>4. CASE TreatTicker
  <2>1. PICK t \in todo, treated \in BOOLEAN :
           /\ todo' = todo \ {t}
           /\ isCurrent' = IF treated THEN [isCurrent EXCEPT ![t] = Upserted(t)] ELSE isCurrent
           /\ incomplete' = (todo' # {} /\ (incomplete \/ ~treated))
           /\ allCurrent' = (todo' = {} /\ ~incomplete /\ treated)
    BY <1>4 DEF TreatTicker
  <2>2. /\ script = "metadata" /\ script' = (IF todo' = {} THEN "none" ELSE script)
        /\ current' = (IF todo' = {} THEN {} ELSE current)
        /\ UNCHANGED <<file, expected, seedVars, metricVars, runs>>
    BY <1>4 DEF TreatTicker
  <2>3. /\ t \in Universe /\ todo \subseteq Universe /\ current = LatestMembers
        /\ isCurrent \in [Universe -> {"none", "yes", "no"}]
    BY <2>1, <2>2 DEF CompanyInv, TypeOK, MetadataInv
  <2>4. Upserted(t) \in {"yes", "no"} /\ ((Upserted(t) = "yes") <=> t \in LatestMembers)
    BY <2>3 DEF Upserted
  <2>5. isCurrent' \in [Universe -> {"none", "yes", "no"}]
    BY <2>1, <2>3, <2>4
  <2>6. TypeOK'
    BY <2>1, <2>2, <2>5 DEF CompanyInv, TypeOK, seedVars, metricVars
  <2>7. ASSUME ~incomplete, treated PROVE \A u \in Universe \ todo' : IsLatest(u)'
    <3>1. \A u \in Universe \ todo : IsLatest(u)
      BY <2>2, <2>7 DEF CompanyInv, MetadataInv
    <3>2. isCurrent' = [isCurrent EXCEPT ![t] = Upserted(t)]
      BY <2>1, <2>7
    <3>3. \A u \in Universe : isCurrent'[u] = IF u = t THEN Upserted(t) ELSE isCurrent[u]
      BY <2>3, <3>2
    <3> QED BY <1>1, <2>1, <2>4, <3>1, <3>3 DEF IsLatest
  <2>8. MetadataInv'
    BY <1>1, <2>1, <2>2, <2>3, <2>7 DEF MetadataInv
  <2> QED BY <1>2, <2>6, <2>8 DEF CompanyInv
<1> QED BY <1>3, <1>4

\* What the transaction changes it has not found stored.
LEMMA FundamentalsStep ==
    ASSUME CompanyInv,
           \/ StartFundamentals \/ SyncStatement \/ AbortFundamentals \/ CommitFundamentals
    PROVE  CompanyInv'
<1>1. MetadataInv'
  BY MetadataFrame
  DEF StartFundamentals, Start, SyncStatement, AbortFundamentals, CommitFundamentals,
      seedVars, metadataVars
<1>2. CASE SyncStatement
  <2>1. PICK k \in todo :
           /\ todo' = todo \ {k}
           /\ \/ transaction' = [transaction EXCEPT ![k] = Stored(k)]
              \/ transaction' = transaction
    BY <1>2 DEF SyncStatement
  <2>2. /\ script = "fundamentals"
        /\ UNCHANGED <<file, expected, seedVars, metadataVars, filing, metrics, script, runs>>
    BY <1>2 DEF SyncStatement
  <2>3. /\ k \in Keys /\ transaction \in [Keys -> 0..Filings] /\ filing \in 1..Filings
        /\ todo \subseteq Keys
    BY <2>1, <2>2 DEF CompanyInv, TypeOK, TransactionInv, Keys
  <2>4. Stored(k) \in 0..Filings /\ (transaction[k] # 0 => Stored(k) = transaction[k])
    BY <2>3, BoundsAssumption DEF Stored
  <2>5. transaction' \in [Keys -> 0..Filings]
    BY <2>1, <2>3, <2>4
  <2>6. \A j \in Keys : transaction[j] # 0 => transaction'[j] = transaction[j]
    BY <2>1, <2>3, <2>4
  <2>7. TypeOK'
    BY <2>1, <2>2, <2>3, <2>5 DEF CompanyInv, TypeOK, Keys, seedVars, metadataVars
  <2>8. TransactionInv'
    BY <2>2, <2>6 DEF CompanyInv, TransactionInv
  <2> QED BY <1>1, <2>7, <2>8 DEF CompanyInv
<1>3. CASE StartFundamentals
  <2>1. todo' \subseteq Keys
    BY <1>3 DEF StartFundamentals, Keys
  <2>2. TypeOK'
    BY <1>3, <2>1 DEF StartFundamentals, Start, Idle, Keys, CompanyInv, TypeOK, seedVars,
                      metadataVars, metricVars
  <2>3. TransactionInv'
    BY <1>3 DEF StartFundamentals, metricVars, CompanyInv, TransactionInv
  <2> QED BY <1>1, <2>2, <2>3 DEF CompanyInv
<1>4. CASE AbortFundamentals \/ CommitFundamentals
  <2>1. TypeOK'
    BY <1>4 DEF AbortFundamentals, CommitFundamentals, CompanyInv, TypeOK, seedVars, metadataVars
  <2>2. TransactionInv'
    BY <1>4 DEF AbortFundamentals, CommitFundamentals, CompanyInv, TransactionInv
  <2> QED BY <1>1, <2>1, <2>2 DEF CompanyInv
<1> QED BY <1>2, <1>3, <1>4

\* Every step keeps it.
LEMMA CompanyStep == CompanyInv /\ [Next]_vars => CompanyInv'
<1> SUFFICES ASSUME CompanyInv, [Next]_vars PROVE CompanyInv'
  OBVIOUS
<1>1. CASE Next
  BY <1>1, WorldStep, SeedStep, MetadataStep, FundamentalsStep DEF Next
<1>2. CASE UNCHANGED vars
  <2>1. LatestMembers' = LatestMembers
    BY <1>2 DEF vars, seedVars, LatestMembers
  <2> QED BY <1>2, <2>1 DEF vars, seedVars, metadataVars, metricVars, CompanyInv, TypeOK,
                            MetadataInv, TransactionInv, IsLatest
<1> QED BY <1>1, <1>2

LEMMA CompanyInvariant == Spec => []CompanyInv
BY CompanyInit, CompanyStep, PTL DEF Spec

-------------------------------------------------------------------------------
(* The theorems.                                                            *)

\* is_current of vn30_constituent agrees with the latest snapshot after a complete
\* fetch_metadata, whatever partial and interrupted runs came before.
THEOREM FullRunMakesCurrent == Spec => []CurrentIsLatest
<1>1. CompanyInv => CurrentIsLatest
  BY DEF CompanyInv, MetadataInv, CurrentIsLatest, IsLatest
<1> QED BY <1>1, CompanyInvariant, PTL

\* A stored statement is never replaced, and nothing is stored before a run of
\* fetch_fundamentals has treated all it was asked for.
THEOREM FirstFilingStays == Spec => EarliestIsKept
<1> DEFINE Keeps == \A k \in DOMAIN metrics :
                       metrics'[k] # metrics[k] => metrics[k] = 0 /\ todo = {}
<1>1. CompanyInv /\ [Next]_vars => [Keeps]_vars
  <2> SUFFICES ASSUME CompanyInv, Next, ~(UNCHANGED vars) PROVE Keeps
    OBVIOUS
  <2>1. DOMAIN metrics = Keys
    BY DEF CompanyInv, TypeOK, Keys
  <2>2. CASE CommitFundamentals
    BY <2>1, <2>2 DEF CommitFundamentals, CompanyInv, TransactionInv
  <2>3. CASE ~CommitFundamentals
    <3>1. metrics' = metrics
      BY <2>3 DEF Next, EditFile, Restate, Crash, StartSeed, CommitSeed, VerifyDb,
                  StartMetadata, TreatTicker, StartFundamentals, SyncStatement,
                  AbortFundamentals, metricVars
    <3> QED BY <3>1
  <2> QED BY <2>2, <2>3
<1> QED BY <1>1, CompanyInvariant, PTL DEF Spec, EarliestIsKept

-------------------------------------------------------------------------------
(* The seed of the history.                                                 *)

\* What a seed file is: dates, no change before the first period, and as many rows as
\* every other version with as many events ("12 periods x 30 tickers", "11 events").
SeedFiles ==
    \A f \in Files :
        /\ IsFiniteSet(f.rows)
        /\ \A r \in f.rows : r[1] \in Int
        /\ \A e \in f.events : e.date \in Int /\ Min(Dates(f.rows)) <= e.date
        /\ \A g \in Files : Cardinality(f.events) = Cardinality(g.events) =>
                                Cardinality(f.rows) = Cardinality(g.rows)

\* The events are those of one version that was seeded, whose rows are there too among
\* those of the other versions; what was verified has the counts of some version.
SeedInv ==
    /\ IsFiniteSet(snapshot)
    /\ \E f \in Files : expected = Counts(f.events, f.rows)
    /\ script = "seed" => Reconciled(file.events, file.rows)
    /\ script \in {"seed", "verify"} => ~seedVerified
    /\ \/ events = {} /\ snapshot = {}
       \/ \E f \in Files : /\ Reconciled(f.events, f.rows)
                           /\ events = f.events
                           /\ f.rows \subseteq snapshot
    /\ seedVerified => \E f \in Files : Counts(events, snapshot) = Counts(f.events, f.rows)

\* No event up to a date leaves the baseline as it is.
LEMMA EmptyFold ==
    ASSUME NEW log, NEW baseline, NEW date, {e \in log : e.date <= date} = {}
    PROVE  Folded(log, baseline, date) = baseline
BY DEF Folded, MapThenFoldSet

\* What reconcile_yaml accepts folds, if no event is before the first period.
LEMMA ReconciledFolds ==
    ASSUME SeedFiles, NEW f \in Files, Reconciled(f.events, f.rows), NEW d \in Dates(f.rows)
    PROVE  Members(f.rows, d) = Folded(f.events, Baseline(f.rows), d)
<1>1. CASE /\ \E e \in f.events : e.date = d
           /\ Members(f.rows, d) = Folded(f.events, Baseline(f.rows), d)
  BY <1>1
<1>2. CASE /\ d = Min(Dates(f.rows))
           /\ ~\E e \in f.events : e.date = d
  <2>1. d \in Int
    BY DEF SeedFiles, Dates
  <2>2. \A e \in f.events : e.date \in Int /\ d <= e.date /\ e.date # d
    BY <1>2 DEF SeedFiles
  <2>3. {e \in f.events : e.date <= d} = {}
    BY <2>1, <2>2
  <2>4. Folded(f.events, Baseline(f.rows), d) = Baseline(f.rows)
    BY <2>3, EmptyFold
  <2> QED BY <1>2, <2>4 DEF Baseline
<1> QED BY <1>1, <1>2 DEF Reconciled

\* Nothing is seeded at the start.
LEMMA SeedInit == Init => SeedInv
<1> SUFFICES ASSUME Init PROVE SeedInv
  OBVIOUS
<1>1. expected = Counts(First.events, First.rows) /\ First \in Files
  BY FilesAssumption DEF Init
<1> QED BY <1>1, FS_EmptySet DEF Init, SeedInv

\* Only the seed's own steps touch its tables, and nobody edits the file under it.
LEMMA SeedFrame ==
    ASSUME SeedInv, UNCHANGED <<file, expected, seedVars>>, script' \notin {"seed", "verify"}
    PROVE  SeedInv'
<1>1. events' = events /\ snapshot' = snapshot /\ seedVerified' = seedVerified
  BY DEF seedVars
<1> QED BY <1>1 DEF SeedInv

\* A file is written as it was reconciled; the events are loaded once, the rows of every
\* version that is seeded.
LEMMA SeedInvStep ==
    ASSUME SeedInv, SeedFiles, CompanyInv, [Next]_vars PROVE SeedInv'
<1>1. CASE EditFile
  <2>1. /\ script = "none" /\ script' = "none" /\ file' \in Files
        /\ \/ expected' = expected
           \/ expected' = Counts(file'.events, file'.rows)
        /\ events' = events /\ snapshot' = snapshot /\ seedVerified' = seedVerified
    BY <1>1 DEF EditFile, Idle, seedVars
  <2>2. \E f \in Files : expected' = Counts(f.events, f.rows)
    BY <2>1 DEF SeedInv
  <2> QED BY <2>1, <2>2 DEF SeedInv
<1>2. CASE StartSeed
  <2>1. /\ Reconciled(file.events, file.rows) /\ script' = "seed" /\ ~seedVerified'
        /\ UNCHANGED <<file, expected, events, snapshot>>
    BY <1>2 DEF StartSeed, Start
  <2> QED BY <2>1 DEF SeedInv
<1>3. CASE CommitSeed
  <2>1. /\ script = "seed" /\ script' = "verify"
        /\ events' = IF events = {} THEN file.events ELSE events
        /\ snapshot' = snapshot \cup file.rows
        /\ UNCHANGED <<file, expected, seedVerified>>
    BY <1>3 DEF CommitSeed
  <2>2. file \in Files /\ Reconciled(file.events, file.rows) /\ IsFiniteSet(file.rows)
    BY <2>1 DEF CompanyInv, TypeOK, SeedInv, SeedFiles
  <2>3. IsFiniteSet(snapshot')
    BY <2>1, <2>2, FS_Union DEF SeedInv
  <2>4. \E f \in Files : /\ Reconciled(f.events, f.rows)
                         /\ events' = f.events
                         /\ f.rows \subseteq snapshot'
    <3>1. CASE events = {}
      BY <2>1, <2>2, <3>1
    <3>2. CASE events # {}
      <4>1. PICK f \in Files : /\ Reconciled(f.events, f.rows)
                               /\ events = f.events
                               /\ f.rows \subseteq snapshot
        BY <3>2 DEF SeedInv
      <4> QED BY <2>1, <3>2, <4>1
    <3> QED BY <3>1, <3>2
  <2>5. ~seedVerified' /\ script' = "verify" /\ \E f \in Files : expected' = Counts(f.events, f.rows)
    BY <2>1 DEF SeedInv
  <2> QED BY <2>3, <2>4, <2>5 DEF SeedInv
<1>4. CASE VerifyDb
  <2>1. /\ script' = "none" /\ seedVerified' = (Counts(events, snapshot) = expected)
        /\ UNCHANGED <<file, expected, events, snapshot>>
    BY <1>4 DEF VerifyDb, AsExpected
  <2>2. \E f \in Files : expected = Counts(f.events, f.rows)
    BY DEF SeedInv
  <2>3. seedVerified' => \E f \in Files : Counts(events', snapshot') = Counts(f.events, f.rows)
    BY <2>1, <2>2
  <2> QED BY <2>1, <2>3 DEF SeedInv
<1>5. CASE Restate \/ UNCHANGED vars
  <2>1. UNCHANGED <<file, expected, events, snapshot, seedVerified, script>>
    BY <1>5 DEF Restate, vars, seedVars
  <2> QED BY <2>1 DEF SeedInv
<1>6. CASE Crash \/ StartMetadata \/ TreatTicker \/ StartFundamentals \/ SyncStatement
           \/ AbortFundamentals \/ CommitFundamentals
  <2>1. UNCHANGED <<file, expected, seedVars>> /\ script' \notin {"seed", "verify"}
    BY <1>6 DEF Crash, StartMetadata, Start, TreatTicker, StartFundamentals, SyncStatement,
                AbortFundamentals, CommitFundamentals
  <2> QED BY <2>1, SeedFrame
<1> QED BY <1>1, <1>2, <1>3, <1>4, <1>5, <1>6 DEF Next

\* Counting is enough: what the assertions of verify_db accept is the version whose events
\* were loaded, with no row of another, and that one was reconciled before it was written.
LEMMA VerifiedFolds ==
    ASSUME SeedFiles, SeedInv
    PROVE  VerifiedLogFolds
<1> SUFFICES ASSUME seedVerified, NEW d \in Dates(snapshot)
             PROVE  Members(snapshot, d) = Folded(events, Baseline(snapshot), d)
  BY DEF VerifiedLogFolds
<1>1. snapshot # {}
  BY DEF Dates
<1>2. PICK f \in Files : /\ Reconciled(f.events, f.rows)
                         /\ events = f.events
                         /\ f.rows \subseteq snapshot
  BY <1>1 DEF SeedInv
<1>3. PICK g \in Files : Counts(events, snapshot) = Counts(g.events, g.rows)
  BY DEF SeedInv
<1>4. /\ Cardinality(events) = Cardinality(g.events)
      /\ Cardinality(snapshot) = Cardinality(g.rows)
  BY <1>3 DEF Counts
<1>5. Cardinality(f.rows) = Cardinality(snapshot)
  BY <1>2, <1>4 DEF SeedFiles
<1>6. snapshot = f.rows
  BY <1>2, <1>5, FS_Subset DEF SeedInv
<1> QED BY <1>2, <1>6, ReconciledFolds

\* The fold of the event log gives the snapshot of every date after a run of
\* seed_vn30_history.py whose assertions passed (migrations/006), whatever edits, crashes
\* and failed runs came before: the assertions only count, and that is enough for files
\* with the same number of tickers in every period and no event before the first.
THEOREM VerifiedSeedFolds ==
    ASSUME SeedFiles
    PROVE  Spec => []VerifiedLogFolds
<1>1. Init => SeedInv
  BY SeedInit
<1>2. CompanyInv /\ SeedInv /\ [Next]_vars => SeedInv'
  BY SeedInvStep
<1>3. SeedInv => VerifiedLogFolds
  BY VerifiedFolds
<1> QED BY <1>1, <1>2, <1>3, CompanyInvariant, PTL DEF Spec
===============================================================================
