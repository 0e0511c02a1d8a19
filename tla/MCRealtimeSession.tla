--------------------------- MODULE MCRealtimeSession ---------------------------
(* The session with two identifiers and two payloads, its counters bounded.  *)
EXTENDS RealtimeSession, TLC

CONSTANTS
    MaxFrames,      \* frames ingested between two clearings
    MaxTurns        \* turns of one session

Bounded ==
    /\ session.frames <= MaxFrames
    /\ session.turns <= MaxTurns
=============================================================================
