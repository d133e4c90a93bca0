----------------------------- MODULE RefreshAudit -----------------------------
(***************************************************************************)
(* .github/workflows/daily-data-refresh.yml with scripts/audit_log.py: each *)
(* step of the job starts an audit row, runs a synchronisation script and  *)
(* ends the row.  The shell runs under "set +e": no failure but the ones   *)
(* the step looks at stops it.  Jobs are one at a time (the concurrency    *)
(* group).  A database call may fail before or after its commit.           *)
(***************************************************************************)
EXTENDS Integers

CONSTANTS Jobs,   \* how many times the workflow is dispatched
          Steps   \* sync_prices is step 1; the later ones have "if: always()"

ASSUME JobsAssumption == Jobs \in Nat

ASSUME StepsAssumption == Steps \in Nat \ {0}

None == "none"

VARIABLES
    job,      \* the job that runs or has run last
    step,     \* its step; 0 before the first, Steps + 1 when it is over
    pc,       \* "start", "script", "end" in a step, "between" steps
    runId,    \* the step's $RUN_ID is set
    exit,     \* per job and step, how the script exited: 0, 1 or None
    status,   \* per job and step, the status of its row in data_refresh_run
    outcome   \* per job and step, what GitHub shows

vars == <<job, step, pc, runId, exit, status, outcome>>

Invocations == (1..Jobs) \X (1..Steps)

Blank == [i \in Invocations |-> None]

Here == <<job, step>>

Over == step = Steps + 1

Init ==
    /\ job = 0
    /\ step = Steps + 1
    /\ pc = "between"
    /\ runId = FALSE
    /\ exit = Blank
    /\ status = Blank
    /\ outcome = Blank

Dispatch ==
    /\ Over
    /\ job < Jobs
    /\ job' = job + 1
    /\ step' = 0
    /\ UNCHANGED <<pc, runId, exit, status, outcome>>

\* The steps before: checkout, installation, authentication. If one fails the
\* first synchronisation step is skipped, the others ("if: always()") are not.
Prepare ==
    /\ step = 0
    /\ \/ /\ step' = 1
          /\ pc' = "start"
          /\ outcome' = outcome
       \/ /\ step' = 2
          /\ pc' = IF Steps = 1 THEN "between" ELSE "start"
          /\ outcome' = [outcome EXCEPT ![<<job, 1>>] = "skipped"]
    /\ UNCHANGED <<job, runId, exit, status>>

\* RUN_ID=$(audit_log.py start ...): the pending row is committed, or not; the
\* identifier is printed only after the commit returned.
StartAudit ==
    /\ pc = "start"
    /\ status' \in {status, [status EXCEPT ![Here] = "pending"]}
    /\ runId' \in {FALSE, status'[Here] = "pending"}
    /\ pc' = "script"
    /\ UNCHANGED <<job, step, exit, outcome>>

\* python scripts/sync_*.py --today; EXIT_CODE=$?
RunScript ==
    /\ pc = "script"
    /\ \/ /\ exit' = [exit EXCEPT ![Here] = "0"]
          /\ pc' = "end_0"
       \/ /\ exit' = [exit EXCEPT ![Here] = "1"]
          /\ pc' = "end_1"
    /\ UNCHANGED <<job, step, runId, status, outcome>>

\* The UPDATE of a pending row by its identifier; without one it raises.
Update(to) ==
    /\ runId
    /\ status' = [status EXCEPT ![Here] = IF @ = "pending" THEN to ELSE @]

Leave(shown) ==
    /\ outcome' = [outcome EXCEPT ![Here] = shown]
    /\ step' = step + 1
    /\ pc' = IF step = Steps THEN "between" ELSE "start"
    /\ runId' = FALSE
    /\ UNCHANGED <<job, exit>>

\* Mutant: "audit_log.py end ... || true".
EndSucceededAnyway ==
    /\ pc = "end_0"
    /\ \/ Update("succeeded")
       \/ status' = status
    /\ Leave("success")

\* EXIT_CODE = 0: the step ends with the exit status of audit_log.py end, which
\* is 1 if the call failed, before the commit or after it.
EndSucceeded ==
    /\ pc = "end_0"
    /\ \/ Update("succeeded") /\ Leave("success")
       \/ Update("succeeded") /\ Leave("failure")
       \/ status' = status /\ Leave("failure")

\* EXIT_CODE # 0: the step ends with it, whatever audit_log.py end did.
EndFailed ==
    /\ pc = "end_1"
    /\ \/ Update("failed")
       \/ status' = status
    /\ Leave("failure")

\* timeout-minutes: the step is killed, perhaps after the commit of the call it is
\* in; the next one ("if: always()") still runs, unless the runner is lost.
Timeout ==
    /\ step \in 1..Steps
    /\ outcome' = [outcome EXCEPT ![Here] = "cancelled"]
    /\ step' \in {step + 1, Steps + 1}
    /\ pc' = IF step' = Steps + 1 THEN "between" ELSE "start"
    /\ runId' = FALSE
    /\ \/ status' = status
       \/ pc = "start" /\ status' = [status EXCEPT ![Here] = "pending"]
       \/ pc = "end_0" /\ Update("succeeded")
       \/ pc = "end_1" /\ Update("failed")
    /\ UNCHANGED <<job, exit>>

Next == \/ Dispatch
        \/ Prepare
        \/ StartAudit
        \/ RunScript
        \/ EndSucceeded
        \/ EndFailed
        \/ Timeout

Spec == Init /\ [][Next]_vars

-------------------------------------------------------------------------------
(* Properties.                                                              *)

\* Script, audit trail and GitHub agree: a closed row tells how the script of its
\* invocation ended, and a green step has its row, closed as succeeded, although under
\* set +e nothing but the last exit status stops a step and each call of audit_log.py
\* may fail before or after its commit.
AuditAgrees ==
    \A i \in Invocations :
        /\ status[i] = "succeeded" => exit[i] = "0"
        /\ status[i] = "failed" => exit[i] = "1"
        /\ outcome[i] = "success" => status[i] = "succeeded"

\* "Scheduler sets status=pending at script start, updates to succeeded/failed on
\* exit." (migrations/014): a step whose script exited leaves no pending row.
UpdatedOnExit ==
    \A i \in Invocations :
        outcome[i] \in {"success", "failure"} => status[i] # "pending"

\* "1 row per script invocation." (migrations/014)
RowPerInvocation == \A i \in Invocations : exit[i] # None => status[i] # None
===============================================================================
