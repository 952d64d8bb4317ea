------------------------------- MODULE MCStage0 -------------------------------
(* A registry with the probed row, what a human may add, and servers.       *)
EXTENDS Stage0

Serving ==
  [parallel |-> 1, context_length |-> 8, max_tokens_floor |-> 2, temperature |-> 0,
   seed |-> 4, quant |-> Unknown]

(* The declared cap is above the floor.                                     *)
DeclaredServing ==
  [parallel |-> 1, context_length |-> 8, max_tokens |-> 3, temperature |-> 0, seed |-> 4]

Request(model) ==
  [model |-> model, driver |-> "claude-code", serving |-> Serving, prefill_tok_s |-> 4,
   bypass |-> TRUE, authorized |-> TRUE, client_timeout_ms |-> 0]

Glm == Request("glm")
Other == Request("other")
TheRequests == {Glm, Other, [Other EXCEPT !.authorized = FALSE]}

Pi == [Glm EXCEPT !.driver = "pi"]

TheRegistry == <<NewRow(Glm), NewRow(Pi)>>

(* The probe's own, one that asks for another seed, and one pi cannot run.  *)
Probe1 == [driver |-> "claude-code", level |-> 3, serving |-> DeclaredServing]
TheConfigs ==
  {Probe1, [Probe1 EXCEPT !.serving.seed = 5], [Probe1 EXCEPT !.driver = "pi"]}

Up(parallel) == [state |-> "up", context_length |-> 8, parallel |-> parallel]
TheServers == {Up(1), Up(2)}

Pass == [why |-> {"ok"}, pass |-> TRUE, turns |-> 4, acceptance_requests |-> 1]
Exhausted ==
  [why |-> {"cap_exhausted"}, pass |-> FALSE, turns |-> 7, acceptance_requests |-> 10]
TimedOut == [why |-> {"timeout"}, pass |-> FALSE, turns |-> 0, acceptance_requests |-> 0]
Mocked == [why |-> {"mock"}, pass |-> TRUE, turns |-> 0, acceptance_requests |-> -1]

(* The first rep decides what the five amount to.                           *)
TheEndings ==
  [r \in 1..5 |-> {Pass, Mocked} \cup (IF r = 1 THEN {Exhausted, TimedOut} ELSE {})]
=============================================================================
