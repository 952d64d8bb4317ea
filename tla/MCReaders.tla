------------------------------ MODULE MCReaders ------------------------------
(* Rows and bounds for TLC.                                                *)
EXTENDS Readers

Run == [model |-> "fable", effort |-> "low", harness |-> FALSE, driver |-> "claude-code",
        task |-> "t1", rep |-> 1, why |-> {"ok"}, pass |-> TRUE, turns |-> 3, out |-> 20,
        tin |-> 7, truth |-> 7, tin_status |-> "measured", acceptance |-> 1, clean |-> TRUE]

Capped(row) == [row EXCEPT !.why = {"cap_exhausted"}, !.pass = FALSE, !.out = 10,
                           !.acceptance = 2]
High(row) == [row EXCEPT !.effort = "high"]

FewRows ==
  { Run, [Run EXCEPT !.pass = FALSE, !.turns = 9, !.acceptance = Unset],
    Capped(Run), [High(Run) EXCEPT !.pass = FALSE, !.out = 19],
    [Run EXCEPT !.why = {"timeout"}, !.pass = FALSE, !.driver = "pi"],
    [Run EXCEPT !.why = {"cli_error"}, !.turns = Unset, !.out = 1],
    [Run EXCEPT !.driver = NoDriver, !.tin = 1, !.tin_status = "recovered_in_ledger"],
    [Run EXCEPT !.harness = TRUE, !.task = "t3", !.tin = 1, !.tin_status = "quarantined"],
    [Run EXCEPT !.model = "sol", !.pass = FALSE, !.clean = FALSE],
    [Run EXCEPT !.model = "sol", !.effort = "high", !.out = 0] }

LedgerOfRun == RunId(Run) :> 7

FewJudgments == {[run |-> RunId(Run), claude |-> 8, codex |-> Unset],
                 [run |-> RunId(High(Run)), claude |-> 6, codex |-> 9]}

FewProbes ==
  {[effort |-> e, out |-> n, tin |-> 1, reachable |-> TRUE] :
     e \in {"low", "medium", "high"}, n \in {10, 19, 20}}
  \cup {[effort |-> e, out |-> 0, tin |-> 1, reachable |-> TRUE] : e \in {"low", "high"}}
  \cup {[effort |-> "low", out |-> 0, tin |-> 0, reachable |-> r] : r \in BOOLEAN}

(* The ladder of the probe is a file of its own; corpora that are judged or *)
(* read with a turn cap are short.                                          *)
Bounds ==
  { [rows |-> 3, judgments |-> 0, caps |-> {Unset, 5}, probes |-> 0],
    [rows |-> 2, judgments |-> 2, caps |-> {Unset, 5}, probes |-> 0],
    [rows |-> 1, judgments |-> 0, caps |-> {Unset, Mistyped}, probes |-> 0],
    [rows |-> 0, judgments |-> 0, caps |-> {}, probes |-> 2] }
=============================================================================
