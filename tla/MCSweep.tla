------------------------------- MODULE MCSweep -------------------------------
(* Matrices for TLC.  Ids are short names of run_ids.                       *)
EXTENDS Sweep, TLC

Plain(id) == [id |-> id, valid |-> TRUE, expressible |-> TRUE, launchable |-> TRUE,
              metered |-> FALSE, usd |-> 0]
Metered(id, usd) == [Plain(id) EXCEPT !.metered = TRUE, !.usd = usd]
Impossible(id) == [Plain(id) EXCEPT !.expressible = FALSE]
Unsupported(id) == [Plain(id) EXCEPT !.launchable = FALSE]
Bad(id) == [Impossible(id) EXCEPT !.valid = FALSE]

One == [p \in Procs |-> Ids]

(* One sweep with a cell of every kind but the one that would reject it,    *)
(* and one that has the run_id of a cell that cannot exist.                 *)
MixedMatrix == <<Plain("a"), Impossible("b"), Plain("b"), Unsupported("c"),
                 Metered("d", 2), Metered("e", 3)>>

(* Two sweeps side by side, and a bad row in neither.                       *)
SharedMatrix == <<Plain("a"), Impossible("b"), Unsupported("c"), Plain("d"), Bad("e")>>
SharedMine == ("p" :> {"a", "b"}) @@ ("q" :> {"c", "d"})
=============================================================================
