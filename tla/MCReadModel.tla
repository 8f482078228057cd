---------------------------- MODULE MCReadModel -----------------------------
(* Instances of ReadModel for TLC.                                         *)
EXTENDS ReadModel, TLC

ValueSymmetry == Permutations(Values) \cup Permutations(Labels)
=============================================================================
