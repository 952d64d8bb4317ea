-------------------------- MODULE AcceptanceBudget --------------------------
(***************************************************************************)
(* What the broker promises (runner/broker.py, module docstring): a budget *)
(* of K looks.  Requests are served one at a time; each spends a unit on   *)
(* receipt, whatever comes of it; a unit within K buys a look unless the   *)
(* broker faults; the first unit beyond K ends the run, and nothing is     *)
(* bought afterwards.                                                      *)
(***************************************************************************)
EXTENDS Naturals

CONSTANT K

VARIABLES
  spent,    \* units spent, refused ones included
  looks,    \* graded answers handed out
  serving,  \* a unit was spent and its request is not resolved yet
  over      \* the budget was exceeded: the run is to end

vars == <<spent, looks, serving, over>>

Init == spent = 0 /\ looks = 0 /\ serving = FALSE /\ over = FALSE

Spend ==
  /\ ~serving
  /\ spent' = spent + 1
  /\ serving' = TRUE
  /\ UNCHANGED <<looks, over>>

Look ==
  /\ serving /\ spent <= K /\ ~over
  /\ looks' = looks + 1
  /\ serving' = FALSE
  /\ UNCHANGED <<spent, over>>

(* The unit is burnt: counting successes only would be a free probe.        *)
Fault ==
  /\ serving /\ spent <= K
  /\ serving' = FALSE
  /\ UNCHANGED <<spent, looks, over>>

End ==
  /\ serving /\ spent > K
  /\ over' = TRUE
  /\ serving' = FALSE
  /\ UNCHANGED <<spent, looks>>

Next == Spend \/ Look \/ Fault \/ End

Spec == Init /\ [][Next]_vars /\ WF_vars(Look \/ Fault \/ End)
=============================================================================
