---------------------------- MODULE ChangeStream ----------------------------
(***************************************************************************)
(* What the tables of a project promise to whoever follows them by seq: a  *)
(* numbered stream that holds the latest entry of each row.                *)
(*                                                                         *)
(* A write puts the rows that it changes behind everything written before, *)
(* in some order of their own.  An entry changes in no other way, and only *)
(* one that reports its row gone is ever dropped, for good.                *)
(***************************************************************************)
EXTENDS Naturals

CONSTANTS
    Ids,        \* the rows
    Gone,       \* what the entry of a deleted row says
    NoEntry     \* a row that is not in the stream, yet or any more

VARIABLES
    head,       \* the greatest number drawn so far
    entry,      \* row -> [seq, says], or NoEntry
    dropped     \* rows whose entry was dropped

stream == <<head, entry, dropped>>

StreamInit ==
    /\ head = 0
    /\ entry = [id \in Ids |-> NoEntry]
    /\ dropped = {}

(* The rows of S are written; `gone` leave the stream.                     *)
Write(S) ==
    LET gone == dropped' \ dropped IN
    /\ dropped \subseteq dropped' /\ S \cap dropped' = {}
    /\ \A id \in gone : entry[id] # NoEntry /\ entry[id].says = Gone
    /\ \A id \in Ids \ S : entry'[id] = IF id \in gone THEN NoEntry ELSE entry[id]
    /\ \A id \in S : entry'[id] # NoEntry /\ entry'[id].seq \in (head + 1)..head'
    /\ \A x, y \in S : entry'[x].seq = entry'[y].seq => x = y
    /\ head' >= head

StreamNext == \E S \in SUBSET Ids : Write(S)

StreamSpec == StreamInit /\ [][StreamNext]_stream
=============================================================================
