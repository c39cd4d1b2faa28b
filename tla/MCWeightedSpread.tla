---------------------------- MODULE MCWeightedSpread ----------------------------
(***************************************************************************)
(* Constant values for checking module WeightedSpread, and what it extends *)
(* under a changing rotation.  With three backends a slice of two can be   *)
(* followed by another slice of two.  One weight is zero, as the           *)
(* configuration allows.  The callers are interchangeable.                 *)
(***************************************************************************)
EXTENDS WeightedSpread, TLC

MCWeightOf == <<1, 0, 1>>
MCI64Min == -1000
MCSymmetry == Permutations(Callers)
=================================================================================
