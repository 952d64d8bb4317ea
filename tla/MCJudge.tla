------------------------------- MODULE MCJudge -------------------------------
(* Outcomes and answers for TLC.                                           *)
EXTENDS Judge

(* The last one is a row from before incomplete runs were scored False.     *)
AllOutcomes == {[why |-> {"ok"}, pass |-> TRUE], [why |-> {"cli_error"}, pass |-> TRUE]}

(* Scores, prose, and a call that printed nothing.                          *)
AllAnswers == {[scores |-> TRUE, usage |-> TRUE], [scores |-> FALSE, usage |-> TRUE], Silent}
=============================================================================
