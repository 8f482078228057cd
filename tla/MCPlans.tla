-------------------------------- MODULE MCPlans --------------------------------
(* Instances of Plans for TLC.                                             *)
EXTENDS Plans, TLC

RowSymmetry == Permutations(Plans) \cup Permutations(Steps)
===============================================================================
