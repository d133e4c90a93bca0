---------------------------- MODULE MCCompanyData ----------------------------
(***************************************************************************)
(* An index of two tickers over up to three dates, in five versions of the  *)
(* seed file: the first, the next period, a corrected ticker, a corrected   *)
(* date, and one whose events do not fold into its snapshots.               *)
(***************************************************************************)
EXTENDS CompanyData

CONSTANTS a, b, c, d

MCUniverse == {a, b, c}

Change(date, added, removed) == [date |-> date, added |-> added, removed |-> removed]

Period(date, tickers) == {date} \X tickers

MCFirst == [events |-> {Change(2, {c}, {b})},
            rows   |-> Period(1, {a, b}) \cup Period(2, {a, c})]

NextPeriod == [events |-> MCFirst.events \cup {Change(3, {d}, {a})},
               rows   |-> MCFirst.rows \cup Period(3, {c, d})]

Corrected == [events |-> {Change(2, {c}, {a})},
              rows   |-> Period(1, {a, b}) \cup Period(2, {b, c})]

Moved == [events |-> {Change(3, {c}, {b})},
          rows   |-> Period(1, {a, b}) \cup Period(3, {a, c})]

Slip == [events |-> {Change(2, {c}, {})},
         rows   |-> MCFirst.rows]

MCFiles == {MCFirst, NextPeriod, Corrected, Moved, Slip}
===============================================================================
