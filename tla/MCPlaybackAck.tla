---------------------------- MODULE MCPlaybackAck ----------------------------
(* Two turns of two segments: a clause of 4 runes in 500 ms, then one of 6 in *)
(* 700 ms.  The response has a space between them, after which the forms      *)
(* differ.                                                                    *)
EXTENDS PlaybackAck

MCTurns == {1, 2}
MCTextAfter == [f \in Forms |-> [k \in 0 .. 2 |->
    IF k = 0 THEN 0 ELSE IF k = 1 THEN 4 ELSE IF f = "response" THEN 11 ELSE 10]]
MCTexts == {[form |-> f, runes |-> MCTextAfter[f][k]] : f \in Forms, k \in 0 .. 2}
MCBlanks == [f \in Forms |-> IF f = "response" THEN {5} ELSE {}]
MCDurationAfter == [k \in 0 .. 2 |-> IF k = 0 THEN 0 ELSE IF k = 1 THEN 500 ELSE 1200]
=============================================================================
