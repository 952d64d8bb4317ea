--------------------------- MODULE ServingRegistry ---------------------------
(***************************************************************************)
(* runner/serving_registry.py: the rows of models.yaml, one per model and  *)
(* driver, and the gates that read them.                                   *)
(*                                                                         *)
(* A registry is a sequence of rows.  The values of the pinned fields are  *)
(* numbers here, Unknown and Text standing for the sentinel "unknown" and  *)
(* for anything that is not a number.  The YAML subset, the table and the  *)
(* messages are left out.                                                  *)
(***************************************************************************)
EXTENDS Integers, Sequences, FiniteSets

Unknown == -1
Text == -2

SERVING_FIELDS ==
  {"parallel", "context_length", "max_tokens_floor", "temperature", "seed", "quant"}
FLOOR_FIELDS == {"max_tokens_floor"}
PREFLIGHT_FIELDS == {"context_length", "parallel"}

(* REQUEST_ALIASES: a run asks for max_tokens, the row calls it a floor.    *)
Aliased(field) == IF field = "max_tokens" THEN "max_tokens_floor" ELSE field

DRIVER_CAPABILITIES ==
  [d \in {"claude-code", "pi"} |->
     [hooks |-> d = "claude-code", subagents |-> d = "claude-code",
      max_harness_level |-> IF d = "claude-code" THEN 5 ELSE 2]]
DRIVERS == DOMAIN DRIVER_CAPABILITIES

NoProbe == [identical |-> 0, of |-> 0]

-----------------------------------------------------------------------------
(* Rows.                                                                    *)

IsOf(row, model, driver) == row.model = model /\ row.driver = driver
Has(rows, model, driver) == \E i \in DOMAIN rows : IsOf(rows[i], model, driver)

(* find_row: the first one.                                                 *)
FindRow(rows, model, driver) ==
  LET first == CHOOSE i \in DOMAIN rows :
                 /\ IsOf(rows[i], model, driver)
                 /\ \A j \in 1..(i - 1) : ~IsOf(rows[j], model, driver)
  IN rows[first]

ModelsWithRows(rows) == {rows[i].model : i \in DOMAIN rows}

(* _validate_client_timeout_ms; 0 is a row without one.                     *)
ClientTimeoutRefused(request) ==
  request.client_timeout_ms # 0 /\ request.client_timeout_ms < 0

(* new_row's rules 2, 3, 6, 7 and the client's timeout.  Rule 1 is in what  *)
(* NewRow writes: nobody may declare determinism.                           *)
NewRowRefused(request) ==
  \/ request.driver \notin DRIVERS
  \/ SERVING_FIELDS \ DOMAIN request.serving # {}
  \/ request.bypass /\ ~request.authorized
  \/ request.prefill_tok_s = 0
  \/ ClientTimeoutRefused(request)

NewRow(request) ==
  [model |-> request.model, driver |-> request.driver,
   serving |-> [f \in SERVING_FIELDS |-> request.serving[f]],
   noise_probe |-> NoProbe, deterministic_loops |-> FALSE]

(* record_noise_probe.                                                      *)
RecordNoiseProbe(row, identical, of) ==
  [row EXCEPT !.noise_probe = [identical |-> identical, of |-> of],
              !.deterministic_loops = of >= 5 /\ identical = of]

-----------------------------------------------------------------------------
(* The gate: declared configuration against the row.                        *)

(* One field of check_run_config: refused when it is not pinned, when a     *)
(* floor is no number on either side or is undercut, when anything else     *)
(* differs.                                                                 *)
Agrees(row, field, want) ==
  LET pinned == Aliased(field)
  IN /\ pinned \in SERVING_FIELDS
     /\ IF pinned \in FLOOR_FIELDS
        THEN /\ {want, row.serving[pinned]} \subseteq Nat
             /\ want >= row.serving[pinned]
        ELSE want = row.serving[pinned]

CheckRunConfig(row, requested) ==
  /\ DOMAIN requested # {}
  /\ \A f \in DOMAIN requested : Agrees(row, f, requested[f])

(* check_cell_expressible, as the runner asks it.                           *)
Expressible(row, level) == level <= DRIVER_CAPABILITIES[row.driver].max_harness_level

(* check_dispatch, and what run.py's main makes of a cell: a model without  *)
(* a row is not gated, and only claude-code has launch code.                *)
Dispatch(rows, model, driver, requested, level) ==
  IF model \in ModelsWithRows(rows) THEN
    IF driver \notin DRIVERS \/ ~Has(rows, model, driver) THEN "rejected"
    ELSE LET row == FindRow(rows, model, driver)
         IN IF ~Expressible(row, level) THEN "structurally_impossible"
            ELSE IF ~CheckRunConfig(row, requested) THEN "rejected"
            ELSE IF driver # "claude-code" THEN "driver_unsupported" ELSE "gated"
  ELSE IF driver # "claude-code" THEN "driver_unsupported" ELSE "ungated"

-----------------------------------------------------------------------------
(* The preflight: the live server against the row.                          *)

(* cmd_preflight: 0 agrees, 3 differs, 4 cannot be inspected, 5 not loaded. *)
(* Context is looked at before parallel, and a missing value ends the look. *)
Preflight(rows, model, driver, live) ==
  IF ~Has(rows, model, driver) \/ live.state = "unreadable" THEN 4
  ELSE IF live.state = "unloaded" THEN 5
  ELSE LET row == FindRow(rows, model, driver)
       IN IF \E f \in PREFLIGHT_FIELDS : live[f] = Unknown THEN 4
          ELSE IF \E f \in PREFLIGHT_FIELDS : live[f] # row.serving[f] THEN 3
          ELSE 0

(* cmd_validate: an empty registry is unenforced; determinism needs a       *)
(* probe; a model needs an entry in the roster.                             *)
Validate(rows, roster) ==
  IF rows = <<>> THEN 2
  ELSE IF \E i \in DOMAIN rows :
            \/ rows[i].model \notin roster
            \/ rows[i].deterministic_loops /\ rows[i].noise_probe = NoProbe
       THEN 1 ELSE 0
=============================================================================
