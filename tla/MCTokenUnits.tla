---------------------------- MODULE MCTokenUnits ----------------------------
(* Cells, sessions and bounds for TLC.                                     *)
EXTENDS TokenUnits

(* Two runs of a local model, one with a dot in its run_id, whose logs come *)
(* into one directory; and a codex run with a dot.                          *)
CellFamily == [c \in {"g-1", "g.1", "b.1"} |-> IF c = "b.1" THEN "codex" ELSE "local"]
CellSlug == [c \in {"g-1", "g.1", "b.1"} |-> IF c = "b.1" THEN "b-1" ELSE "g-1"]

Req(fresh, read, out) == [fresh |-> fresh, creation |-> 0, read |-> read, out |-> out]

(* Two requests, the second out of the cache; and one with as much input.   *)
SomeTruths == {<<Req(2, 0, 1), Req(1, 2, 1)>>, <<Req(5, 0, 1)>>}

(* The runs of the corpus; and runs in scoped homes.                        *)
Bounds ==
  {[runs |-> 2, visits |-> 1, snapshots |-> 2, scoped |-> FALSE],
   [runs |-> 2, visits |-> 0, snapshots |-> 0, scoped |-> TRUE]}
=============================================================================
