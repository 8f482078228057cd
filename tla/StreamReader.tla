---------------------------- MODULE StreamReader ----------------------------
(***************************************************************************)
(* What a replica that follows the stream promises to who looks at it.     *)
(*                                                                         *)
(* It reads when it likes and as far as it likes.  Up to where it has read *)
(* it shows the rows as the stream reports them; of the rows past that     *)
(* point it may show what the stream reports now or something older, and   *)
(* never something older than it has shown before.                         *)
(***************************************************************************)
EXTENDS ChangeStream

CONSTANT Mirrored   \* the rows it keeps, a subset of Ids

VARIABLES
    view,           \* row -> [seq, says], or NoEntry
    upto            \* how far it has read

reader == <<view, upto>>

(* What may be shown of a row after reading up to k.                       *)
TrueTo(id, shown, k) ==
    /\ shown # NoEntry =>
          \/ id \in dropped
          \/ /\ entry[id] # NoEntry
             /\ shown.seq < entry[id].seq \/ shown = entry[id]
    /\ entry[id] # NoEntry /\ entry[id].seq <= k =>
          (shown # NoEntry <=> entry[id].says # Gone)

NotBack(old, new) == old # NoEntry /\ new # NoEntry => new.seq >= old.seq

Read ==
    /\ UNCHANGED stream
    /\ upto' \in upto..head
    /\ \A id \in Mirrored : TrueTo(id, view'[id], upto') /\ NotBack(view[id], view'[id])

Init == StreamInit /\ view = [id \in Mirrored |-> NoEntry] /\ upto = 0

Next ==
    \/ UNCHANGED reader /\ StreamNext
    \/ Read

Spec == Init /\ [][Next]_<<stream, reader>>
=============================================================================
