----------------------------- MODULE MCProduct -----------------------------
(* Models, tasks and requests for TLC.                                     *)
EXTENDS Product, TLC

(* kimi can be run, opus has no price, and a model whose price was verified *)
(* meanwhile has no invocation path yet.                                    *)
Floors == ("kimi" :> 2) @@ ("priced" :> 2) @@ ("opus" :> 2)
Floor == "kimi" :> 2

Ask(model, tasks, cap) == [model |-> model, tasks |-> tasks, cap |-> cap, key |-> TRUE]

(* The same tasks under two caps; no prompt; no path, and then no key is    *)
(* needed; neither a price nor a cap.                                       *)
AllRequests ==
  {Ask("kimi", <<"a", "b">>, 5),
   Ask("kimi", <<"a", "b">>, 9),
   Ask("kimi", <<"gone">>, 9),
   [Ask("priced", <<"a">>, 5) EXCEPT !.key = FALSE],
   Ask("opus", <<"a">>, NoCap)}

OneRequest == {Ask("kimi", <<"a", "b", "a">>, 3)}
=============================================================================
