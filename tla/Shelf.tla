--------------------------------- MODULE Shelf ---------------------------------
(***************************************************************************)
(* What an instance promises about its projects, whatever its processes    *)
(* are doing to the files on disk: a project is live or archived, never    *)
(* gone, and archiving and unarchiving keep what its documents attach.     *)
(* After a power cut the instance is back where it last settled.           *)
(***************************************************************************)
EXTENDS FiniteSets

CONSTANTS Projects, Contents

VARIABLES
    shelf,      \* where each project is and which contents it attaches
    settled,    \* the shelf that survives a power cut
    missing     \* contents on record whose bytes are gone

vars == <<shelf, settled, missing>>

Init ==
    /\ shelf = [p \in Projects |-> [place |-> "live", holds |-> {}]]
    /\ settled = shelf
    /\ missing = {}

Moves(p, from, to) ==
    /\ shelf[p].place = from
    /\ shelf' = [shelf EXCEPT ![p] = [place |-> to, holds |-> shelf[p].holds]]
    /\ UNCHANGED settled

Archive(p) == Moves(p, "live", "archived")

Unarchive(p) == Moves(p, "archived", "live")

Attach(p, c) ==
    /\ shelf[p].place = "live"
    /\ shelf' = [shelf EXCEPT ![p] = [place |-> "live", holds |-> shelf[p].holds \cup {c}]]
    /\ UNCHANGED settled

(* A file that is deleted leaves every live project that attached it.      *)
Detach(group, c) ==
    /\ \A p \in group : shelf[p].place = "live"
    /\ shelf' = [p \in Projects |->
                    IF p \in group THEN [place |-> "live", holds |-> shelf[p].holds \ {c}] ELSE shelf[p]]
    /\ UNCHANGED settled

Settle == settled' = shelf /\ UNCHANGED shelf

PowerCut == shelf' = settled /\ UNCHANGED settled

(* Bytes are lost in a power cut and in no other step.                     *)
Next ==
    \/ /\ missing' \subseteq missing
       /\ \/ UNCHANGED <<shelf, settled>>
          \/ Settle
          \/ \E p \in Projects : Archive(p) \/ Unarchive(p) \/ \E c \in Contents : Attach(p, c)
          \/ \E group \in SUBSET Projects, c \in Contents : Detach(group, c)
    \/ PowerCut /\ missing' \subseteq Contents

Spec == Init /\ [][Next]_vars
===============================================================================
