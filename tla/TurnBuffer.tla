------------------------------- MODULE TurnBuffer -------------------------------
(***************************************************************************)
(* What a session promises about the audio it is given: frames are kept in *)
(* arrival order, a commit hands over everything that no earlier commit    *)
(* handed over, and the buffer forgets only as a whole, when the turn is   *)
(* cleared or the session ends.                                            *)
(***************************************************************************)
EXTENDS Naturals, Sequences

CONSTANT Frames

VARIABLES
    accepted,   \* the frames taken in since the buffer was last emptied
    delivered   \* how many of them commits have handed over

vars == <<accepted, delivered>>

Init ==
    /\ accepted = <<>>
    /\ delivered = 0

Accept(frame) ==
    /\ accepted' = Append(accepted, frame)
    /\ UNCHANGED delivered

Deliver ==
    /\ delivered' = Len(accepted)
    /\ UNCHANGED accepted

Forget ==
    /\ accepted' = <<>>
    /\ delivered' = 0

Next ==
    \/ \E frame \in Frames : Accept(frame)
    \/ Deliver
    \/ Forget

Spec == Init /\ [][Next]_vars
=============================================================================
