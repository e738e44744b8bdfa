------------------------------- MODULE MCPicker -------------------------------
(***************************************************************************)
(* Small instances of Picker.  Two arbs share the Kalshi market "k"; the   *)
(* first buys its left side and the second its right side, so that one     *)
(* ticker update is an opportunity for one, for both or for none of them.  *)
(***************************************************************************)
EXTENDS Picker

CONSTANTS a, b, k, p, q

MCAnchorOf == [c \in Arbs |-> k]
MCMatchOf == [c \in Arbs |-> IF c = a THEN p ELSE q]
MCAnchorSide == [c \in Arbs |-> IF c = a THEN "left" ELSE "right"]
MCLeftSides == [c \in Arbs |-> "left"]

(* Left costs 40 or 60, the right side of a Kalshi market 65 or 45.         *)
MCQuotes == {[bid |-> 35, ask |-> 40], [bid |-> 55, ask |-> 60]}

(* One price at which every pair of left legs is an opportunity.            *)
MCCheap == {[bid |-> 40, ask |-> 45]}
===============================================================================
