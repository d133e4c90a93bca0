---------------------------- MODULE MigrationRunner ----------------------------
(***************************************************************************)
(* scripts/apply_migrations.py: invocations of the migration runner, one   *)
(* after the other, against one database.                                  *)
(*                                                                         *)
(* Files 1..N are the .sql files in alphabetical order.  Some of them have *)
(* a BEGIN ... COMMIT of their own (007, 008, 011, 015, 016).  psycopg2    *)
(* opens one transaction with the first query of an invocation; a COMMIT   *)
(* inside a file ends it behind psycopg2's back, and since psycopg2 issues *)
(* no second BEGIN, every later execute() of that invocation commits alone.*)
(***************************************************************************)
EXTENDS Integers, FiniteSetsExt

CONSTANTS N,               \* number of migration files
          OwnTransaction,  \* the files that contain BEGIN and COMMIT
          Rerunnable,      \* the files that may be executed twice
          Contents         \* what a file may contain

Files == 1..N

None == "none"

ASSUME NAssumption == N \in Nat \ {0}

ASSUME OwnTransactionAssumption == OwnTransaction \subseteq Files

ASSUME RerunnableAssumption == Rerunnable \subseteq Files

ASSUME ContentsAssumption == None \notin Contents

VARIABLES
    disk,     \* the files of migrations/
    db,       \* committed: [effects, tracked]
    work,     \* what the session sees: committed and its own changes
    inTx,     \* the server is inside the session's transaction
    before,   \* db when the invocation began
    pc,       \* "idle", "execute", "record" or "commit"
    pending,  \* the checksums of the files to apply
    exit      \* how the last invocation ended

vars == <<disk, db, work, inTx, before, pc, pending, exit>>

Database == [effects : [Files -> Contents \cup {None}],
             tracked : [Files -> Contents \cup {None}]]

Fresh == [effects |-> [f \in Files |-> None], tracked |-> [f \in Files |-> None]]

Done(database, f) == database.effects[f] # None

Recorded(database, f) == database.tracked[f] # None

NotPending == [f \in Files |-> None]

\* Mutant: the files are not sorted.
IsAnyPending(f) == f \in Files /\ pending[f] # None

IsNext(f) == /\ f \in Files /\ pending[f] # None
             /\ \A g \in Files : g < f => pending[g] = None

-------------------------------------------------------------------------------
Init ==
    /\ disk \in [Files -> Contents]
    /\ db = Fresh
    /\ work = Fresh
    /\ inTx = FALSE
    /\ before = Fresh
    /\ pc = "idle"
    /\ pending = NotPending
    /\ exit = "none"

\* A developer edits a file (the runner compares checksums of the contents).
EditFile ==
    /\ \E f \in Files, c \in Contents : disk' = [disk EXCEPT ![f] = c]
    /\ UNCHANGED <<db, work, inTx, before, pc, pending, exit>>

Drifted == \E f \in Files : Recorded(db, f) /\ db.tracked[f] # disk[f]

\* get_applied_migrations() and the checksums; nothing is written on the ways
\* that end here (drift, nothing pending, --dry-run).
Refuse ==
    /\ pc = "idle"
    /\ Drifted
    /\ exit' = "drift"
    /\ UNCHANGED <<disk, db, work, inTx, before, pc, pending>>

NothingToApply ==
    /\ pc = "idle"
    /\ ~Drifted
    /\ \A f \in Files : Recorded(db, f)
    /\ exit' = "ok"
    /\ UNCHANGED <<disk, db, work, inTx, before, pc, pending>>

DryRun ==
    /\ pc = "idle"
    /\ ~Drifted
    /\ exit' = "dry_run"
    /\ UNCHANGED <<disk, db, work, inTx, before, pc, pending>>

\* Mutant: the connection is in autocommit mode.
BeginAutocommit ==
    /\ pc = "idle"
    /\ ~Drifted
    /\ \E f \in Files : ~Recorded(db, f)
    /\ pending' = [f \in Files |-> IF Recorded(db, f) THEN None ELSE disk[f]]
    /\ work' = db
    /\ before' = db
    /\ inTx' = FALSE
    /\ pc' = "execute"
    /\ exit' = "none"
    /\ UNCHANGED <<disk, db>>

Begin ==
    /\ pc = "idle"
    /\ ~Drifted
    /\ \E f \in Files : ~Recorded(db, f)
    /\ pending' = [f \in Files |-> IF Recorded(db, f) THEN None ELSE disk[f]]
    /\ work' = db
    /\ before' = db
    /\ inTx' = TRUE
    /\ pc' = "execute"
    /\ exit' = "none"
    /\ UNCHANGED <<disk, db>>

-------------------------------------------------------------------------------
(* apply_migration(): the file is read again, executed, then recorded.      *)

MayExecute(f) == ~Done(work, f) \/ f \in Rerunnable

\* Mutant: the file is recorded before it is executed.
RecordFirst ==
    /\ pc = "execute"
    /\ \E f \in Files :
        /\ IsNext(f)
        /\ MayExecute(f)
        /\ work' = [work EXCEPT !.tracked[f] = pending[f]]
        /\ inTx' = (inTx /\ f \notin OwnTransaction)
        /\ db' = IF inTx' THEN db ELSE work'
    /\ pc' = "record"
    /\ UNCHANGED <<disk, before, pending, exit>>

Execute ==
    /\ pc = "execute"
    /\ \E f \in Files :
        /\ IsNext(f)
        /\ MayExecute(f)
        /\ work' = [work EXCEPT !.effects[f] = disk[f]]
        /\ inTx' = (inTx /\ f \notin OwnTransaction)
        /\ db' = IF inTx' THEN db ELSE work'
    /\ pc' = "record"
    /\ UNCHANGED <<disk, before, pending, exit>>

\* INSERT INTO public._migrations ... ON CONFLICT DO NOTHING, with the
\* checksum taken when the invocation began.
Record ==
    /\ pc = "record"
    /\ \E f \in Files :
        /\ IsNext(f)
        /\ work' = [work EXCEPT !.tracked[f] = IF @ = None THEN pending[f] ELSE @]
        /\ pending' = [pending EXCEPT ![f] = None]
        /\ pc' = IF \E g \in Files : g > f /\ pending[g] # None
                 THEN "execute" ELSE "commit"
        /\ db' = IF inTx THEN db ELSE work'
    /\ UNCHANGED <<disk, inTx, before, exit>>

\* conn.commit() after the last file.
Commit ==
    /\ pc = "commit"
    /\ db' = work
    /\ inTx' = FALSE
    /\ pc' = "idle"
    /\ exit' = "ok"
    /\ UNCHANGED <<disk, work, before, pending>>

\* What a ROLLBACK, or the loss of the connection, leaves: db as it is.
Abandon(how) ==
    /\ work' = db
    /\ inTx' = FALSE
    /\ pc' = "idle"
    /\ pending' = NotPending
    /\ exit' = how
    /\ UNCHANGED <<disk, db, before>>

\* A statement fails: a file that cannot run twice, or any other SQL error.
Fail == pc \in {"execute", "record", "commit"} /\ Abandon("raised")

Crash == pc \in {"execute", "record", "commit"} /\ Abandon("crashed")

Next == \/ EditFile
        \/ Refuse
        \/ NothingToApply
        \/ DryRun
        \/ Begin
        \/ Execute
        \/ Record
        \/ Commit
        \/ Fail
        \/ Crash

Spec == Init /\ [][Next]_vars

-------------------------------------------------------------------------------
(* Properties.                                                              *)

\* Types of the files, the database and the session.
TypeOK ==
    /\ disk \in [Files -> Contents]
    /\ db \in Database /\ work \in Database /\ before \in Database
    /\ inTx \in BOOLEAN
    /\ pc \in {"idle", "execute", "record", "commit"}
    /\ pending \in [Files -> Contents \cup {None}]
    /\ exit \in {"none", "ok", "drift", "dry_run", "raised", "crashed"}

\* Committed migrations are a prefix of the files, whatever was committed
\* halfway by a file's own COMMIT and wherever invocations failed or crashed:
\* a file in effect has every earlier file recorded, so at most one file can be
\* in effect without its record, and it is the next one to be applied.
CommittedIsPrefix ==
    \A f \in Files : Done(db, f) => \A g \in Files : g < f => Recorded(db, g)

\* A file that _migrations lists has its statements in effect: a crash never
\* leaves a record for a schema change that is not there.
RecordedIsInEffect == \A f \in Files : Recorded(db, f) => Done(db, f)

\* Only an invocation that executed a file with a COMMIT of its own can end
\* halfway and leave something of its batch committed, and only such a file, or
\* one after it, can be left in effect without a record: up to the first such
\* file of every invocation, the batch is atomic.
PartialBatchNeedsOwnCommit ==
    /\ (pc # "idle" \/ exit \in {"raised", "crashed"}) /\ db # before =>
           \E g \in OwnTransaction : Done(db, g) /\ ~Recorded(before, g)
    /\ \A f \in Files : Done(db, f) /\ ~Recorded(db, f) =>
           \/ Done(before, f) /\ ~Recorded(before, f)
           \/ \E g \in OwnTransaction : g <= f /\ Done(db, g) /\ ~Recorded(before, g)

\* "All pending migrations for one invocation run in a single transaction. Any
\* failure rolls the whole batch back." (apply_migrations.py)
FailureRollsBack == exit = "raised" => db = before
===============================================================================
