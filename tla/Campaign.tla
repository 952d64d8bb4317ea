------------------------------- MODULE Campaign -------------------------------
(***************************************************************************)
(* What a resumable sweep promises about its corpus: every cell may be     *)
(* attempted again and again until an attempt is scored, and a scored cell *)
(* stays scored and is never attempted again.                              *)
(***************************************************************************)
EXTENDS Integers

CONSTANT Cells

VARIABLES
  scored,      \* the cells that have their measurement
  attempts     \* how many attempts of every cell are on record

(* An attempt of a cell without a measurement, which may give it one.       *)
Attempt(c) ==
  /\ c \notin scored
  /\ attempts' = [attempts EXCEPT ![c] = @ + 1]
  /\ scored' \in {scored, scored \cup {c}}

Init == scored = {} /\ attempts = [c \in Cells |-> 0]

Next == \E c \in Cells : Attempt(c)

Spec == Init /\ [][Next]_<<scored, attempts>>
=============================================================================
