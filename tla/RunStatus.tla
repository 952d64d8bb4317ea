------------------------------ MODULE RunStatus ------------------------------
(***************************************************************************)
(* runner/run_status.py: which rows are measurements of the model.         *)
(*                                                                         *)
(* An exit_reason is the set of its '+'-joined parts, the empty set for a  *)
(* missing one.                                                            *)
(***************************************************************************)
EXTENDS Integers

(* EXIT_REASON_CLASS, by class.                                             *)
Infra == {"cli_error", "auth_unavailable", "broker_failed", "no_completion",
          "kimi_key_missing", "verify_timeout", "driver_unsupported"}
Mock == {"mock", "mock_fail", "mock_patch_failed"}
Scored == {"ok", "cap_exhausted"}

KnownReasons ==
  Scored \cup Infra \cup Mock \cup {"timeout", "turn_cap", "structurally_impossible"}

EXIT_REASON_CLASS ==
  [r \in KnownReasons |->
     CASE r \in Scored -> "scored"
       [] r \in Infra -> "infra"
       [] r \in Mock -> "mock"
       [] OTHER -> r]

ClassOf(part) ==
  IF part \in KnownReasons THEN EXIT_REASON_CLASS[part] ELSE "unclassified"

(* The worse of two classes wins: _SEVERITY, worst first.                   *)
Severity ==
  [c \in {"unclassified", "structurally_impossible", "timeout", "turn_cap", "infra",
          "mock", "scored"} |->
     CASE c = "unclassified" -> 0 [] c = "structurally_impossible" -> 1
       [] c = "timeout" -> 2      [] c = "turn_cap" -> 3
       [] c = "infra" -> 4        [] c = "mock" -> 5
       [] c = "scored" -> 6]

(* Mutant: only the first part is looked at, the one before the '+'.        *)
StatusClassOfBest(why) ==
  IF why = {} THEN "unclassified"
  ELSE ClassOf(CHOOSE r \in why :
                 \A s \in why : Severity[ClassOf(s)] <= Severity[ClassOf(r)])

StatusClass(why) ==
  IF why = {} THEN "unclassified"
  ELSE ClassOf(CHOOSE r \in why :
                 \A s \in why : Severity[ClassOf(r)] <= Severity[ClassOf(s)])

InDenominator(why) == StatusClass(why) = "scored"
=============================================================================
