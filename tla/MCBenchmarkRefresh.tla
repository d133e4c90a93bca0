-------------------------- MODULE MCBenchmarkRefresh --------------------------
(***************************************************************************)
(* A tenor of the bonds and a bank, the first series and the last, of a day.*)
(***************************************************************************)
EXTENDS BenchmarkRefresh

CONSTANTS tenor, bank

MCSeries == <<{tenor}, {bank}>>
===============================================================================
