---------------------------- MODULE FrameChannel ----------------------------
(***************************************************************************)
(* What a viewer's connection promises to the decoder that feeds it: a     *)
(* queue of frames with one reader.  Frames, numbered as they are put in,  *)
(* are delivered in that order and at most once; one may be dropped when   *)
(* it is its turn; an error text, 0, overtakes those that wait; a channel  *)
(* that was closed neither takes nor delivers.                             *)
(***************************************************************************)
EXTENDS Naturals, Sequences

CONSTANT MaxFrame    \* bound: frames put in

VARIABLES last, waiting, delivered, open

vars == <<last, waiting, delivered, open>>

Init == last = 0 /\ waiting = <<>> /\ delivered = <<>> /\ open = TRUE

Put ==
    /\ open /\ last < MaxFrame
    /\ last' = last + 1
    /\ waiting' = Append(waiting, last + 1)
    /\ UNCHANGED <<delivered, open>>

Deliver ==
    /\ open /\ waiting # <<>>
    /\ delivered' = Append(delivered, Head(waiting))
    /\ waiting' = Tail(waiting)
    /\ UNCHANGED <<last, open>>

Drop ==
    /\ open /\ waiting # <<>>
    /\ waiting' = Tail(waiting)
    /\ UNCHANGED <<last, delivered, open>>

Report ==
    /\ open
    /\ delivered' = Append(delivered, 0)
    /\ UNCHANGED <<last, waiting, open>>

Close == open /\ open' = FALSE /\ UNCHANGED <<last, waiting, delivered>>

Next == Put \/ Deliver \/ Drop \/ Report \/ Close

Spec == Init /\ [][Next]_vars
=============================================================================
