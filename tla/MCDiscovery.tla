------------------------------ MODULE MCDiscovery ------------------------------
(***************************************************************************)
(* A small instance of Discovery: one tag, and of it a market of each      *)
(* platform that are similar to each other.                                *)
(***************************************************************************)
EXTENDS Discovery

CONSTANTS k, p, kalshi, polymarket, t, live

MCPlatformOf == [m \in Markets |-> IF m = k THEN kalshi ELSE polymarket]
MCTagOf == [m \in Markets |-> t]
MCSimilar(m, n) == TRUE
===============================================================================
