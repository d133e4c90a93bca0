------------------------- MODULE MCPredictionTracker -------------------------
(* A week with a weekend day and a holiday; the horizon and the look-back   *)
(* keep the order of the code's 21 and 14 days.                             *)
EXTENDS PredictionTracker

CONSTANTS t1, t2, r1, r2

MCWeekend == {3}

MCHolidays == {5}

===============================================================================
