------------------------ MODULE MCRebalanceSimulator ------------------------
(***************************************************************************)
(* Small instances of RebalanceSimulator for TLC.  The lots are the real   *)
(* ones (10 shares, then 100), with the reform inside the range; amounts   *)
(* are chosen so that a batch can be feasible, fall below one lot, or lose *)
(* its budget to the rounding of its SELLs.                                *)
(***************************************************************************)
EXTENDS RebalanceSimulator

CONSTANTS A, B

MCTickers == {A, B}

\* Two days of one January, one of February, one of the next January.
MCDays == {1, 2, 40, 367}

MCMonthOrdinal == [d \in MCDays |-> IF d < 32 THEN 0 ELSE IF d < 60 THEN 1 ELSE 12]

\* HSX_LOT_RULES around the reform of 2021-01-04.
MCLotRules == {[lot |-> 10, from |-> 1, to |-> 1], [lot |-> 100, from |-> 2, to |-> 999]}

\* The same rules when the range starts before the first one.
MCLateLotRules == {r \in MCLotRules : r.from > 1}

\* Any day may miss the bar of one ticker or of both; after the first day a
\* price may have moved, A downwards and B upwards.
MCHistories ==
    {h \in [MCDays -> [MCTickers -> {NoPrice, 70, 100, 130}]] :
        /\ \A d \in MCDays : h[d][A] # 130 /\ h[d][B] # 70
        /\ \A t \in MCTickers : h[1][t] \in {NoPrice, 100}}

\* The price of A stays.
MCFlatHistories == {h \in MCHistories : \A d \in MCDays : h[d][A] # 70}

StandardFees == [brokerage |-> 100, impact |-> 10, tax |-> 10]
ZeroFees     == [brokerage |-> 0, impact |-> 0, tax |-> 0]
WildFees     == [brokerage |-> 150, impact |-> 10, tax |-> 10]

Request(s, p, a, c, f) ==
    [strategy |-> s, param |-> p, weights |-> [t \in MCTickers |-> IF t = A THEN a ELSE 100 - a],
     capital |-> c, fees |-> f]

\* The three strategies, each with a capital that leaves little idle cash.
MCRequests ==
    {Request("threshold_band", 500, 60, 130000, StandardFees),
     Request("calendar_monthly", 0, 60, 41000, StandardFees),
     Request("fixed_window", 39, 60, 60000, StandardFees)}

\* Requests that leave by each error path, and one that completes.
MCErrorRequests ==
    {Request("threshold_band", 500, 0, 60000, StandardFees),
     Request("threshold_band", 0, 60, 60000, StandardFees),
     Request("fixed_window", 1, 60, 60000, ZeroFees),
     Request("hybrid", 500, 60, 60000, StandardFees),
     Request("calendar_monthly", 0, 60, 41000, WildFees),
     Request("calendar_monthly", 0, 60, 41000, StandardFees)}
=============================================================================
