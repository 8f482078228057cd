---------------------------- MODULE MCCredentials ----------------------------
(* Instances of Credentials for TLC.                                       *)
EXTENDS Credentials, TLC

SlotSymmetry == Permutations(Sessions)
===============================================================================
