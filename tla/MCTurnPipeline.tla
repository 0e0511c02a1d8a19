----------------------------- MODULE MCTurnPipeline -----------------------------
(* One turn with small buffers; the configurations choose the adapter and    *)
(* whether faults happen.                                                     *)
EXTENDS TurnPipeline, TLC
=============================================================================
