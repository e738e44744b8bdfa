------------------------------ MODULE MCExecution ------------------------------
(***************************************************************************)
(* Instances of Execution for TLC: quarters of a hundredth of a contract   *)
(* as grains, so that an excess is rounded up, down or from halfway; a     *)
(* half and nearly all of the money as fractions; prices with and without  *)
(* a fraction of a cent; the two platforms in either order and both legs   *)
(* on Polymarket.                                                          *)
(***************************************************************************)
EXTENDS Execution

KalshiPoly == [anchor |-> "kalshi", match |-> "poly"]

PolyKalshi == [anchor |-> "poly", match |-> "kalshi"]

PolyPoly == [anchor |-> "poly", match |-> "poly"]

MCRoutes == {KalshiPoly, PolyKalshi, PolyPoly}

MCFractions == {[num |-> 1, den |-> 2], [num |-> 99, den |-> 100]}
===============================================================================
