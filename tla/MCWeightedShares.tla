---------------------------- MODULE MCWeightedShares ----------------------------
(***************************************************************************)
(* Constant values for checking module WeightedShares, with the trails of  *)
(* module Drift beside it: the weights that the README takes as its        *)
(* example.  The trails restrict no step, so what holds of TrailsSpec is   *)
(* what holds of SharesSpec.  The callers are interchangeable.             *)
(***************************************************************************)
EXTENDS Drift, TLC

MCWeightOf == <<5, 1, 1>>
MCI64Min == -1000
MCSymmetry == Permutations(Callers)
=================================================================================
