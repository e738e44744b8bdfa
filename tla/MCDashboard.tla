------------------------------ MODULE MCDashboard ------------------------------
(***************************************************************************)
(* A small instance of Dashboard: one arb.                                 *)
(***************************************************************************)
EXTENDS Dashboard

CONSTANT a
===============================================================================
