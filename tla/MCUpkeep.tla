------------------------------ MODULE MCUpkeep ------------------------------
(* Sessions and corpora for TLC.                                           *)
EXTENDS Upkeep, TLC

Ask(fresh, created, read, out) ==
  [fresh |-> fresh, created |-> created, read |-> read, out |-> out]
AllSessions == {<<Ask(1, 2, 0, 1), Ask(1, 0, 3, 2)>>, <<Ask(5, 0, 0, 1)>>}
AllFamilies == ("a" :> "kimi") @@ ("b" :> "codex") @@ ("x" :> "gone")

Old(id, archived) ==
  [id |-> id, session |-> <<Ask(1, 2, 0, 1), Ask(1, 0, 3, 2)>>, complete |-> TRUE,
   archived |-> archived]

Cut(id) == [Old(id, FALSE) EXCEPT !.complete = FALSE, !.session = <<Ask(5, 0, 0, 1)>>]

(* No row, rows of both parsers with and without a transcript, a model that *)
(* has left the registry, one run_id twice.                                 *)
AllLegacies == {<<>>, <<Old("a", TRUE), Old("b", TRUE)>>, <<Old("a", FALSE), Old("x", TRUE)>>,
                <<Cut("a"), Old("a", TRUE)>>, <<Old("a", FALSE)>>}
=============================================================================
