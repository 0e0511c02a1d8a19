---------------------------- MODULE MCInputPreview ----------------------------
(* Instances of InputPreview for TLC.  The replies are chosen so that the       *)
(* detector's classes occur: a command, hinted or not, its correction, an       *)
(* acknowledgement, and no text at all.                                         *)
EXTENDS InputPreview

Reply(text, hint) == [text |-> text, hint |-> hint]

MCReplies ==
    {Reply(<<"dakai", "deng">>, TRUE), Reply(<<"dakai", "deng">>, FALSE),
     Reply(<<"dakai", "deng", "budui">>, FALSE), Reply(<<"haode">>, FALSE), Reply(<<>>, FALSE)}

MCJudgements ==
    {[status |-> "correction", intent |-> "correction", family |-> "unknown",
      slots |-> "unknown", waitDelta |-> 0, confidence |-> 80]}

MCSlotParses ==
    {[domain |-> "smart_home", family |-> "unknown", query |-> FALSE, status |-> "partial",
      actionability |-> "wait_more", riskConfirm |-> FALSE, confidence |-> 70]}
=============================================================================
