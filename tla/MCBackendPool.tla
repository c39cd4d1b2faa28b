------------------------------ MODULE MCBackendPool ------------------------------
(***************************************************************************)
(* Constant values for checking module BackendPool: three backends, of     *)
(* which the first and the last share an address.                          *)
(***************************************************************************)
EXTENDS BackendPool

CONSTANTS a1, a2

MCAddrOf == <<a1, a2, a1>>
=================================================================================
