-------------------------- MODULE MCStreamlitSession --------------------------
(***************************************************************************)
(* Constants of StreamlitSession for TLC: the two tickers of _init_state    *)
(* and a third to add.                                                      *)
(***************************************************************************)
EXTENDS StreamlitSession

MCFirst == <<"VCB", "FPT">>

MCMeans == [t \in Universe |-> IF t = "VCB" THEN 2 ELSE 1]
===============================================================================
