---------------------------- MODULE MCReplayRing ----------------------------
(* Instances of ReplayRing for TLC.                                        *)
EXTENDS ReplayRing, TLC

ProjectSymmetry == Permutations(Projects)
=============================================================================
