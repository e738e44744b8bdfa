------------------------------- MODULE MCPolyFeed -------------------------------
(***************************************************************************)
(* Small instances of PolyFeed: several assets, so that one is added while *)
(* another is removed or subscribed again.                                 *)
(***************************************************************************)
EXTENDS PolyFeed

CONSTANTS a1, a2, a3
===============================================================================
