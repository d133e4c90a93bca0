------------------------- MODULE MigrationRunnerProofs -------------------------
(***************************************************************************)
(* What is committed is a prefix of the migrations, for every number of    *)
(* files, wherever their own COMMITs are and whatever fails or crashes;    *)
(* and what is left of the atomic batch that the runner promises.          *)
(***************************************************************************)
EXTENDS MigrationRunner, TLAPS

Prefix(database) ==
    \A f \in Files : Done(database, f) =>
        \A g \in Files : g < f => Recorded(database, g)

InEffect(database) == \A f \in Files : Recorded(database, f) => Done(database, f)

\* The inductive invariant: the session's view is as regular as the committed
\* state, and what is pending is what the session has not recorded.
SessionInv ==
    /\ TypeOK
    /\ Prefix(db) /\ InEffect(db)
    /\ Prefix(work) /\ InEffect(work)
    /\ pc # "idle" => \A f \in Files : pending[f] = None <=> Recorded(work, f)
    /\ pc = "record" => \A f \in Files : IsNext(f) => Done(work, f)

\* A fresh database has no migration at all.
LEMMA SessionInit == Init => SessionInv
<1> SUFFICES ASSUME Init PROVE SessionInv
  OBVIOUS
<1>1. TypeOK
  BY DEF Init, TypeOK, Database, Fresh, NotPending
<1>2. \A f \in Files : ~Done(Fresh, f) /\ ~Recorded(Fresh, f)
  BY DEF Fresh, Done, Recorded
<1> QED
  BY <1>1, <1>2 DEF Init, SessionInv, Prefix, InEffect

\* Executing the next file keeps the session regular: every earlier file is
\* already recorded in it.
LEMMA ExecuteRegular ==
    ASSUME SessionInv, pc = "execute", NEW f \in Files, IsNext(f),
           work' = [work EXCEPT !.effects[f] = disk[f]]
    PROVE  /\ Prefix(work)' /\ InEffect(work)'
           /\ work' \in Database
           /\ Done(work, f)'
           /\ \A g \in Files : Recorded(work, g)' <=> Recorded(work, g)
<1> USE DEF SessionInv
<1>1. work \in Database /\ disk[f] \in Contents /\ disk[f] # None
  BY ContentsAssumption DEF TypeOK
<1>2. /\ work'.tracked = work.tracked
      /\ work'.effects = [work.effects EXCEPT ![f] = disk[f]]
      /\ work' \in Database
  BY <1>1 DEF Database
<1>3. \A g \in Files : Recorded(work, g)' <=> Recorded(work, g)
  BY <1>2 DEF Recorded
<1>4. \A g \in Files : Done(work, g)' <=> g = f \/ Done(work, g)
  BY <1>1, <1>2 DEF Done, Database
<1>5. \A g \in Files : g < f => Recorded(work, g)
  BY DEF IsNext
<1>6. \A h \in Files : Done(work, h) => \A g \in Files : g < h => Recorded(work, g)
  BY DEF Prefix
<1>7. \A h \in Files : Done(work, h)' => \A g \in Files : g < h => Recorded(work, g)'
  BY <1>3, <1>4, <1>5, <1>6
<1>8. Prefix(work)' /\ InEffect(work)'
  BY <1>3, <1>4, <1>7 DEF Prefix, InEffect
<1> QED
  BY <1>2, <1>3, <1>4, <1>8

\* Recording the file that was executed keeps it regular.
LEMMA RecordRegular ==
    ASSUME SessionInv, pc = "record", NEW f \in Files, IsNext(f),
           work' = [work EXCEPT !.tracked[f] = IF @ = None THEN pending[f] ELSE @]
    PROVE  /\ Prefix(work)' /\ InEffect(work)'
           /\ work' \in Database
           /\ \A g \in Files : Recorded(work, g)' <=> g = f \/ Recorded(work, g)
<1> USE DEF SessionInv
<1> DEFINE v == IF work.tracked[f] = None THEN pending[f] ELSE work.tracked[f]
<1>1. /\ work \in Database
      /\ pending[f] \in Contents \cup {None} /\ pending[f] # None
  BY DEF TypeOK, IsNext
<1>2. v \in Contents \cup {None} /\ v # None
  BY <1>1 DEF Database
<1>3. /\ work'.effects = work.effects
      /\ work'.tracked = [work.tracked EXCEPT ![f] = v]
      /\ work' \in Database
  BY <1>1, <1>2 DEF Database
<1>4. \A g \in Files : Done(work, g)' <=> Done(work, g)
  BY <1>3 DEF Done
<1>5. \A g \in Files : Recorded(work, g)' <=> g = f \/ Recorded(work, g)
  BY <1>1, <1>2, <1>3 DEF Recorded, Database
<1>6. Done(work, f)
  OBVIOUS
<1>7. \A h \in Files : Done(work, h)' => \A g \in Files : g < h => Recorded(work, g)'
  BY <1>4, <1>5 DEF Prefix
<1>8. Prefix(work)' /\ InEffect(work)'
  BY <1>4, <1>5, <1>6, <1>7 DEF Prefix, InEffect
<1> QED
  BY <1>3, <1>5, <1>8

\* Every step of the runner, of a developer, or of a failure keeps it.
LEMMA SessionStep == SessionInv /\ [Next]_vars => SessionInv'
<1> SUFFICES ASSUME SessionInv, [Next]_vars PROVE SessionInv'
  OBVIOUS
<1> USE DEF SessionInv
<1>1. CASE UNCHANGED vars
  BY <1>1 DEF vars, TypeOK, Prefix, InEffect, Done, Recorded, IsNext
<1>2. CASE EditFile
  <2>1. disk' \in [Files -> Contents]
    BY <1>2 DEF EditFile, TypeOK
  <2> QED
    BY <1>2, <2>1 DEF EditFile, TypeOK, Prefix, InEffect, Done, Recorded, IsNext
<1>3. CASE Refuse \/ NothingToApply \/ DryRun
  <2>1. /\ UNCHANGED <<disk, db, work, inTx, before, pc, pending>>
        /\ exit' \in {"drift", "ok", "dry_run"}
    BY <1>3 DEF Refuse, NothingToApply, DryRun
  <2> QED
    BY <2>1 DEF TypeOK, Prefix, InEffect, Done, Recorded, IsNext
<1>4. CASE Begin
  <2>1. /\ pending' = [f \in Files |-> IF Recorded(db, f) THEN None ELSE disk[f]]
        /\ work' = db /\ before' = db /\ inTx' = TRUE /\ pc' = "execute"
        /\ exit' = "none" /\ UNCHANGED <<disk, db>>
    BY <1>4 DEF Begin
  <2>2. TypeOK'
    BY <2>1 DEF TypeOK
  <2>3. \A f \in Files : pending'[f] = None <=> Recorded(work, f)'
    BY <2>1, ContentsAssumption DEF TypeOK, Recorded
  <2> QED
    BY <2>1, <2>2, <2>3 DEF Prefix, InEffect, Done, Recorded
<1>5. CASE Execute
  <2>1. PICK f \in Files : /\ IsNext(f)
                           /\ work' = [work EXCEPT !.effects[f] = disk[f]]
                           /\ inTx' = (inTx /\ f \notin OwnTransaction)
                           /\ db' = IF inTx' THEN db ELSE work'
    BY <1>5 DEF Execute
  <2>2. pc = "execute" /\ pc' = "record" /\ UNCHANGED <<disk, before, pending, exit>>
    BY <1>5 DEF Execute
  <2>3. /\ Prefix(work)' /\ InEffect(work)' /\ work' \in Database /\ Done(work, f)'
        /\ \A g \in Files : Recorded(work, g)' <=> Recorded(work, g)
    BY <2>1, <2>2, ExecuteRegular
  <2>4. db' \in Database /\ Prefix(db)' /\ InEffect(db)'
    BY <2>1, <2>3 DEF TypeOK, Prefix, InEffect, Done, Recorded
  <2>5. TypeOK'
    BY <2>1, <2>2, <2>3, <2>4 DEF TypeOK
  <2>6. \A g \in Files : pending'[g] = None <=> Recorded(work, g)'
    BY <2>2, <2>3
  <2>7. \A g \in Files : IsNext(g)' => Done(work, g)'
    <3> SUFFICES ASSUME NEW g \in Files, IsNext(g)' PROVE Done(work, g)'
      OBVIOUS
    <3>1. IsNext(g)
      BY <2>2 DEF IsNext
    <3>2. ~(f < g) /\ ~(g < f) /\ f \in Int /\ g \in Int
      BY <2>1, <3>1 DEF IsNext, Files
    <3>3. f = g
      BY <3>2
    <3> QED
      BY <2>3, <3>3
  <2> QED
    BY <2>2, <2>3, <2>4, <2>5, <2>6, <2>7
<1>6. CASE Record
  <2>1. PICK f \in Files :
          /\ IsNext(f)
          /\ work' = [work EXCEPT !.tracked[f] = IF @ = None THEN pending[f] ELSE @]
          /\ pending' = [pending EXCEPT ![f] = None]
          /\ pc' = IF \E g \in Files : g > f /\ pending[g] # None
                   THEN "execute" ELSE "commit"
          /\ db' = IF inTx THEN db ELSE work'
    BY <1>6 DEF Record
  <2>2. pc = "record" /\ UNCHANGED <<disk, inTx, before, exit>>
    BY <1>6 DEF Record
  <2>3. /\ Prefix(work)' /\ InEffect(work)' /\ work' \in Database
        /\ \A g \in Files : Recorded(work, g)' <=> g = f \/ Recorded(work, g)
    BY <2>1, <2>2, RecordRegular
  <2>4. db' \in Database /\ Prefix(db)' /\ InEffect(db)'
    BY <2>1, <2>3 DEF TypeOK, Prefix, InEffect, Done, Recorded
  <2>5. pc' \in {"execute", "commit"}
    BY <2>1
  <2>6. TypeOK'
    BY <2>1, <2>2, <2>3, <2>4, <2>5 DEF TypeOK
  <2>7. \A g \in Files : pending'[g] = None <=> Recorded(work, g)'
    BY <2>1, <2>2, <2>3 DEF TypeOK
  <2> QED
    BY <2>3, <2>4, <2>5, <2>6, <2>7
<1>7. CASE Commit
  <2>1. db' = work /\ work' = work /\ inTx' = FALSE /\ pc' = "idle" /\ exit' = "ok"
        /\ UNCHANGED <<disk, before, pending>>
    BY <1>7 DEF Commit
  <2> QED
    BY <2>1 DEF TypeOK, Prefix, InEffect, Done, Recorded
<1>8. CASE Fail \/ Crash
  <2>1. /\ work' = db /\ db' = db /\ inTx' = FALSE /\ pc' = "idle"
        /\ pending' = NotPending /\ exit' \in {"raised", "crashed"}
        /\ UNCHANGED <<disk, before>>
    BY <1>8 DEF Fail, Crash, Abandon
  <2> QED
    BY <2>1 DEF TypeOK, NotPending, Prefix, InEffect, Done, Recorded
<1> QED
  BY <1>1, <1>2, <1>3, <1>4, <1>5, <1>6, <1>7, <1>8 DEF Next

\* Committed migrations are always a prefix of the files, with at most one file
\* in effect and not recorded.
THEOREM CommittedPrefix == Spec => []CommittedIsPrefix
<1>1. SessionInv => CommittedIsPrefix
  BY DEF SessionInv, Prefix, CommittedIsPrefix
<1> QED
  BY SessionInit, SessionStep, <1>1, PTL DEF Spec

\* A recorded migration is in effect.
THEOREM RecordsAreTrue == Spec => []RecordedIsInEffect
<1>1. SessionInv => RecordedIsInEffect
  BY DEF SessionInv, InEffect, RecordedIsInEffect
<1> QED
  BY SessionInit, SessionStep, <1>1, PTL DEF Spec

-------------------------------------------------------------------------------
(* The batch and the files with a COMMIT of their own.                      *)

\* Nothing that was recorded before is pending; an invocation whose transaction
\* is gone has executed, of its own batch, a file with a COMMIT of its own; and one
\* that reaches its last commit has recorded every file.
BatchInv ==
    /\ PartialBatchNeedsOwnCommit
    /\ pc # "idle" => \A f \in Files : Recorded(before, f) => Recorded(work, f)
    /\ pc # "idle" /\ ~inTx =>
           \E g \in OwnTransaction : Done(work, g) /\ ~Recorded(before, g)
    /\ pc = "commit" => \A f \in Files : Recorded(work, f)

\* What is committed behind psycopg2's back: it holds a file of this batch with its
\* own COMMIT, every file before that one is recorded.
LEMMA CommittedHalfway ==
    ASSUME db' = work', before' = before, Prefix(work)',
           \E g \in OwnTransaction : Done(work, g)' /\ ~Recorded(before, g)'
    PROVE  PartialBatchNeedsOwnCommit'
<1>1. PICK g \in OwnTransaction : Done(work, g)' /\ ~Recorded(before, g)'
  OBVIOUS
<1>2. g \in Files /\ Done(db, g)'
  BY <1>1, OwnTransactionAssumption DEF Done
<1>3. ASSUME NEW f \in Files, Done(db, f)', ~Recorded(db, f)'
      PROVE  g <= f
  <2>1. ~(f < g)
    BY <1>1, <1>2, <1>3 DEF Prefix, Done, Recorded
  <2> QED BY <1>2, <2>1 DEF Files
<1> QED BY <1>1, <1>2, <1>3 DEF PartialBatchNeedsOwnCommit

\* At first nothing is in effect.
LEMMA BatchInit == Init => BatchInv
  BY DEF Init, BatchInv, PartialBatchNeedsOwnCommit, Done, Recorded, Fresh

\* Executing a file keeps it: the transaction ends only with a file of this batch.
LEMMA BatchExecute ==
    ASSUME SessionInv, BatchInv, Execute
    PROVE  BatchInv'
<1>1. PICK f \in Files : /\ IsNext(f)
                         /\ work' = [work EXCEPT !.effects[f] = disk[f]]
                         /\ inTx' = (inTx /\ f \notin OwnTransaction)
                         /\ db' = IF inTx' THEN db ELSE work'
  BY DEF Execute
<1>2. pc = "execute" /\ pc' = "record" /\ before' = before /\ exit' = exit
  BY DEF Execute
<1>3. /\ Prefix(work)' /\ Done(work, f)'
      /\ \A g \in Files : Recorded(work, g)' <=> Recorded(work, g)
  BY <1>1, <1>2, ExecuteRegular
<1>4. ASSUME NEW g \in Files, Done(work, g) PROVE Done(work, g)'
  BY <1>1, <1>3, <1>4 DEF Done, SessionInv, TypeOK, Database
<1>5. ~Recorded(before, f)
  BY <1>1, <1>2 DEF BatchInv, SessionInv, IsNext
<1>6. ASSUME ~inTx'
      PROVE  \E g \in OwnTransaction : Done(work, g)' /\ ~Recorded(before, g)'
  <2>1. CASE inTx
    <3>1. f \in OwnTransaction
      BY <1>1, <1>6, <2>1 DEF SessionInv, TypeOK
    <3> QED BY <1>2, <1>3, <1>5, <3>1 DEF Recorded
  <2>2. CASE ~inTx
    BY <1>2, <1>4, <2>2, OwnTransactionAssumption DEF BatchInv, Recorded
  <2> QED BY <2>1, <2>2
<1>7. PartialBatchNeedsOwnCommit'
  <2>1. CASE inTx'
    BY <1>1, <1>2, <2>1 DEF BatchInv, PartialBatchNeedsOwnCommit, Done, Recorded
  <2>2. CASE ~inTx'
    BY <1>1, <1>2, <1>3, <1>6, <2>2, CommittedHalfway
  <2> QED BY <2>1, <2>2
<1>8. \A g \in Files : Recorded(before, g)' => Recorded(work, g)'
  BY <1>2, <1>3 DEF BatchInv, Recorded
<1> QED BY <1>2, <1>6, <1>7, <1>8 DEF BatchInv

\* Recording a file keeps it.
LEMMA BatchRecord ==
    ASSUME SessionInv, BatchInv, Record
    PROVE  BatchInv'
<1>1. PICK f \in Files :
        /\ IsNext(f)
        /\ work' = [work EXCEPT !.tracked[f] = IF @ = None THEN pending[f] ELSE @]
        /\ pc' = IF \E g \in Files : g > f /\ pending[g] # None
                 THEN "execute" ELSE "commit"
        /\ db' = IF inTx THEN db ELSE work'
  BY DEF Record
<1>2. pc = "record" /\ inTx' = inTx /\ before' = before /\ exit' = exit
  BY DEF Record
<1>3. /\ Prefix(work)'
      /\ \A g \in Files : Recorded(work, g)' <=> g = f \/ Recorded(work, g)
  BY <1>1, <1>2, RecordRegular
<1>4. \A g \in Files : Done(work, g)' <=> Done(work, g)
  BY <1>1 DEF Done, SessionInv, TypeOK, Database
<1>5. ~inTx => \E g \in OwnTransaction : Done(work, g)' /\ ~Recorded(before, g)'
  BY <1>2, <1>4, OwnTransactionAssumption DEF BatchInv, Recorded
<1>6. PartialBatchNeedsOwnCommit'
  <2>1. CASE inTx
    BY <1>1, <1>2, <2>1 DEF BatchInv, PartialBatchNeedsOwnCommit, Done, Recorded
  <2>2. CASE ~inTx
    BY <1>1, <1>2, <1>3, <1>5, <2>2, CommittedHalfway
  <2> QED BY <2>1, <2>2
<1>7. \A g \in Files : Recorded(before, g)' => Recorded(work, g)'
  BY <1>2, <1>3 DEF BatchInv, Recorded
<1>8. ASSUME pc' = "commit", NEW g \in Files PROVE Recorded(work, g)'
  <2>1. pending[g] = None \/ g = f
    BY <1>1, <1>8 DEF IsNext, Files
  <2> QED BY <1>2, <1>3, <2>1 DEF SessionInv
<1> QED BY <1>2, <1>5, <1>6, <1>7, <1>8 DEF BatchInv

\* Every step of the runner, of a developer, or of a failure keeps it.
LEMMA BatchStep == SessionInv /\ BatchInv /\ [Next]_vars => BatchInv'
<1> SUFFICES ASSUME SessionInv, BatchInv, [Next]_vars PROVE BatchInv'
  OBVIOUS
<1>1. CASE EditFile \/ UNCHANGED vars
  <2>1. UNCHANGED <<db, work, inTx, before, pc, exit>>
    BY <1>1 DEF EditFile, vars
  <2> QED BY <2>1 DEF BatchInv, PartialBatchNeedsOwnCommit, Done, Recorded
<1>2. CASE Refuse \/ NothingToApply \/ DryRun
  <2>1. /\ UNCHANGED <<db, work, inTx, before, pc>> /\ pc = "idle"
        /\ exit' \notin {"raised", "crashed"}
    BY <1>2 DEF Refuse, NothingToApply, DryRun
  <2> QED BY <2>1 DEF BatchInv, PartialBatchNeedsOwnCommit, Done, Recorded
<1>3. CASE Begin
  BY <1>3 DEF Begin, BatchInv, PartialBatchNeedsOwnCommit, Done, Recorded
<1>4. CASE Commit
  BY <1>4 DEF Commit, BatchInv, PartialBatchNeedsOwnCommit, Done, Recorded
<1>5. CASE Fail \/ Crash
  BY <1>5 DEF Fail, Crash, Abandon, BatchInv, PartialBatchNeedsOwnCommit, Done, Recorded
<1> QED BY <1>1, <1>2, <1>3, <1>4, <1>5, BatchExecute, BatchRecord DEF Next

\* What an invocation that failed or crashed leaves of its batch, and every
\* migration left without its record, follows a file of that batch with a COMMIT
\* of its own: "any failure rolls the whole batch back" up to the first such file.
THEOREM BatchIsAtomicUpToOwnCommit == Spec => []PartialBatchNeedsOwnCommit
<1>1. BatchInv => PartialBatchNeedsOwnCommit
  BY DEF BatchInv
<1>2. SessionInv /\ BatchInv /\ [Next]_vars => (SessionInv /\ BatchInv)'
  BY SessionStep, BatchStep
<1> QED BY SessionInit, BatchInit, <1>1, <1>2, PTL DEF Spec
===============================================================================
