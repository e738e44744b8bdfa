------------------------------ MODULE MCKalshiFeed ------------------------------
(***************************************************************************)
(* Small instances of KalshiFeed: two tickers, so that one is added while  *)
(* the other is removed, subscribed again or waits for its answer.         *)
(***************************************************************************)
EXTENDS KalshiFeed

CONSTANTS t1, t2
===============================================================================
