----------------------------- MODULE MCHealthChecker -----------------------------
(***************************************************************************)
(* Constant values for checking module HealthChecker: two backends at two  *)
(* addresses, probed by one checker.                                       *)
(***************************************************************************)
EXTENDS HealthChecker

CONSTANTS a1, a2

MCAddrOf == <<a1, a2>>
=================================================================================
