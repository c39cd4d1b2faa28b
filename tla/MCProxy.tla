--------------------------------- MODULE MCProxy ---------------------------------
(***************************************************************************)
(* Constant values for checking module Proxy: two connections whose        *)
(* clients hash to different backends.                                     *)
(***************************************************************************)
EXTENDS Proxy, TLC

CONSTANTS c1, c2

MCHashOf == c1 :> 3 @@ c2 :> 4
=================================================================================
