----------------------------- MODULE MCPriceSync -----------------------------
(* Three days, the second of which is of a weekend; two tickers in the order *)
(* of VN30_UNIVERSE, or in any order of a --tickers list.                    *)
EXTENDS PriceSync

CONSTANTS t1, t2, a, b

MCWeekend == {2}

MCUniverse == {<<t1, t2>>}

MCAnyOrder == {<<t1, t2>>, <<t2, t1>>, <<t2>>}

===============================================================================
