----------------------------- MODULE AudioOwnership -----------------------------
(***************************************************************************)
(* What the early-audio contract of internal/voice/contracts.go promises   *)
(* the gateway: a turn's audio may be offered once, and once offered it    *)
(* may be taken, by one caller, for good.                                  *)
(***************************************************************************)
CONSTANT Callers

VARIABLES
    offered,    \* the turn has an audio stream to hand out
    owners      \* the callers that hold the stream

vars == <<offered, owners>>

Init ==
    /\ offered = FALSE
    /\ owners = {}

Offer ==
    /\ ~offered
    /\ offered' = TRUE
    /\ UNCHANGED owners

Take(c) ==
    /\ offered
    /\ owners = {}
    /\ owners' = {c}
    /\ UNCHANGED offered

Next ==
    \/ Offer
    \/ \E c \in Callers : Take(c)

Spec == Init /\ [][Next]_vars
=============================================================================
