------------------------------ MODULE MCPlanStorage ------------------------------
(***************************************************************************)
(* A small instance of PlanStorage: the plan cache holds two of three      *)
(* signatures, the backing budget two small backings or, alone and over    *)
(* it, the large one.                                                      *)
(***************************************************************************)
EXTENDS PlanStorage, TLC

CONSTANTS named, plain, large, c1, c2, c3, c4, p

KeyBytes == [k \in Keys |-> IF k = large THEN 3 ELSE 1]

Symmetry == Permutations(Calls)
=================================================================================
