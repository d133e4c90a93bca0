------------------------------ MODULE PriceTable ------------------------------
(***************************************************************************)
(* What prices.daily_ohlcv promises to whoever reads it: it only grows, by  *)
(* closing prices of sessions, and every ticker has all up to its last.     *)
(* PriceSync implements it; PredictionTracker reads a table that does.      *)
(***************************************************************************)
EXTENDS Integers

CONSTANTS Days,
          TradingDays,
          Tickers,
          Closes,  \* the closing prices
          None     \* no row

VARIABLE prices

Complete(table) ==
    \A t \in Tickers, d \in Days :
        table[t][d] # None => \A e \in TradingDays : e < d => table[t][e] # None

OnSessions(table) == \A t \in Tickers, d \in Days : table[t][d] # None => d \in TradingDays

Table == {table \in [Tickers -> [Days -> Closes \cup {None}]] :
              Complete(table) /\ OnSessions(table)}

Keeps(old, new) == \A t \in Tickers, d \in Days : old[t][d] # None => new[t][d] = old[t][d]

Init == prices \in Table

Next == prices' \in Table /\ Keeps(prices, prices')

Spec == Init /\ [][Next]_prices
===============================================================================
