---------------------------- MODULE MCEventSocket ----------------------------
(* Instances of EventSocket for TLC.                                       *)
EXTENDS EventSocket
===============================================================================
