----------------------------- MODULE RunLifecycle -----------------------------
(***************************************************************************)
(* What the run table and the decision table promise a reader, whatever    *)
(* the back-test computes: a run is opened once, closed at most once, and  *)
(* its decision rows appear all together, only after it is completed and   *)
(* by the last write of the call.                                          *)
(***************************************************************************)
EXTENDS Naturals

VARIABLES status,  \* simulation.rebalance_run.status, "none" before the INSERT
          rows,    \* number of simulation.rebalance_decision rows of the run
          over     \* the call that owns the run is over, by return or exception

lifecycle == <<status, rows, over>>

Init == status = "none" /\ rows = 0 /\ over = FALSE

\* run_repo.save(): the row exists before anything is computed.
Open == status = "none" /\ ~over /\ status' = "running" /\ UNCHANGED <<rows, over>>

\* update_status("failed"), immediately followed by the re-raise.
Fail == status = "running" /\ ~over /\ status' = "failed" /\ over' = TRUE
        /\ UNCHANGED rows

\* update_status("completed", kpis)
Complete == status = "running" /\ ~over /\ status' = "completed"
            /\ UNCHANGED <<rows, over>>

\* save_batch(): one commit.
Persist == status = "completed" /\ ~over /\ rows' \in Nat /\ over' = TRUE
           /\ UNCHANGED status

\* The call ends without another write: killed, or an exception nobody marks.
Stop == ~over /\ over' = TRUE /\ UNCHANGED <<status, rows>>

Next == Open \/ Fail \/ Complete \/ Persist \/ Stop

Spec == Init /\ [][Next]_lifecycle

===============================================================================
