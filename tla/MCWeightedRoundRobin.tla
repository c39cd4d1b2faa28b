-------------------------- MODULE MCWeightedRoundRobin --------------------------
(***************************************************************************)
(* Constant values for checking module WeightedRoundRobin.                 *)
(***************************************************************************)
EXTENDS WeightedRoundRobin

MCWeightOf == <<2, 1>>
MCI64Min == -1000
=================================================================================
