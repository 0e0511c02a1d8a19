-------------------------- MODULE MCTurnResponseFuture --------------------------
(* The future with several callers of each kind: the gateway has one of each *)
(* (turn_flow.go:142 and :152), the interface allows more.                    *)
EXTENDS TurnResponseFuture, TLC

CONSTANTS w1, w2, a1, a2
MCWaiters == {w1, w2}
MCAudioWaiters == {a1, a2}
=============================================================================
