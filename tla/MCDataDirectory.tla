----------------------------- MODULE MCDataDirectory -----------------------------
(* Instances of DataDirectory for TLC.                                     *)
EXTENDS DataDirectory, TLC

(* Projects and requests are interchangeable.                              *)
DataSymmetry == Permutations(Projects) \cup Permutations(Callers) \cup Permutations(Files)
===============================================================================
