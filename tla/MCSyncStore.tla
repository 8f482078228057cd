---------------------------- MODULE MCSyncStore -----------------------------
(* Instances of SyncStore for TLC.                                         *)
EXTENDS SyncStore, TLC

(* Ids of one kind are interchangeable; so are contents and labels.        *)
IdSymmetry == Permutations(Comments) \cup Permutations(Values) \cup Permutations(Labels)
=============================================================================
