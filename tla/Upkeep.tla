-------------------------------- MODULE Upkeep --------------------------------
(***************************************************************************)
(* The maintenance passes of runner/usage_ledger.py over a corpus that     *)
(* sweeps go on extending: retrofit, which appends the ledger rows that    *)
(* are missing, and the two stamps, which rewrite results.jsonl with       *)
(* labels on its rows.                                                     *)
(*                                                                         *)
(* A sweep is kept to what the passes read of it (execute_run): it writes  *)
(* the transcript of the attempt over the one before, appends the row and  *)
(* then the ledger row, and may die in between.  The module docstring      *)
(* calls the passes offline: Live says whether they are.                   *)
(***************************************************************************)
EXTENDS Usage, Jsonl

CONSTANTS
  Runs,          \* run_ids
  Family,        \* of the model of each; one outside the registry is "gone"
  Sessions,      \* what a run may consume
  Legacies,      \* attempts from before the fix of the parser, on file at first
  Live,          \* sweeps go on while a pass is under way
  MaxAttempts, MaxPasses, MaxTears   \* bounds

ASSUME UpkeepAssumption ==
  /\ Family \in [Runs -> DOMAIN FAMILY_PARSE_BRANCH \cup {"gone"}]
  /\ \A id \in Runs : id # Garbled.id
  /\ Sessions \subseteq Seq(Request)
  /\ \A s \in Sessions : s # <<>> /\ Consumed(s) # 0
  /\ \A legacy \in Legacies :
       /\ legacy \in Seq([id : Runs, session : Sessions, complete : BOOLEAN, archived : BOOLEAN])
       /\ \A j, k \in DOMAIN legacy :   \* a later attempt has overwritten the transcript
            j < k /\ legacy[j].id = legacy[k].id /\ legacy[j].archived => legacy[k].archived
  /\ Live \in BOOLEAN
  /\ MaxAttempts \in Nat /\ MaxPasses \in Nat /\ MaxTears \in Nat

VARIABLES
  results, usage,   \* the two files
  transcripts,      \* results/transcripts: the attempt whose output is there, or 0
  attempts,         \* history: every launch
  legacy,           \* how many of them are from before the fix
  runner,           \* the sweep: where it is, and its attempt
  pass              \* the maintenance pass: where it is, and what it holds

corpus == <<results, usage, transcripts, attempts, legacy, runner>>
vars == <<corpus, pass>>

Kinds == {"retrofit", "stamp-provenance", "stamp-invocation-mode"}
Statuses == {"measured", "recovered_in_ledger", "quarantined"}
Absent == "absent"

Row(id, k, tokens, version, status, mode) ==
  [id |-> id, attempt |-> k, tokens_in |-> tokens, version |-> version,
   status |-> status, mode |-> mode]

RowType == [id : Runs, attempt : Nat, tokens_in : Nat, version : 0..USAGE_PARSER_VERSION,
            status : Statuses \cup {Absent},
            mode : {"single_shot", "multi_turn", "unknown", Absent}]

Recoveries == {"measured", "not_applicable_zero_tokens", "unfixable_floor_only"}

UsageType ==
  [u : [id : Runs, kind : {"worker"}, tokens_in : Nat, usd : Int, status : Recoveries],
   of : Nat]

(* Types.  No row has a version or a status without the other, and a pass   *)
(* holds rows of the file only.                                             *)
TypeOK ==
  /\ results \in Files(RowType \cup {Garbled})
  /\ usage \in Files(UsageType \cup {Garbled})
  /\ \A row \in Parsed(results) : row.version = 0 <=> row.status = Absent
  /\ transcripts \in [Runs -> 0..Len(attempts)]
  /\ \A k \in DOMAIN attempts : attempts[k].id \in Runs /\ attempts[k].session \in Sessions
  /\ legacy \in 0..Len(attempts)
  /\ runner.pc \in {"idle", "row", "usage"} /\ runner.attempt \in 0..Len(attempts)
  /\ pass.pc \in {"idle", "scan", "stream", "rows", "ledger", "replace", "done"}
  /\ pass.kind \in Kinds /\ pass.apply \in BOOLEAN /\ pass.begun \in Nat
  /\ pass.already \subseteq Runs /\ pass.at \in Nat \ {0}
  /\ pass.rows \in Seq(RowType)
  /\ pass.ledger \in [Runs -> Recoveries \cup {"none"}]

-----------------------------------------------------------------------------
Output(k) ==
  IF attempts[k].complete THEN Emitted(Family[attempts[k].id], attempts[k].session)
  ELSE CutOff

DetailOf(k) == ParseUsageDetailed(Family[attempts[k].id], Output(k))

(* The formula before the fix, which nothing computes any more.             *)
RecordedBefore(a) ==
  CASE ~a.complete -> 0
    [] a.complete /\ Family[a.id] = "codex" -> Consumed(a.session)
    [] OTHER -> a.session[Len(a.session)].fresh

(* Rows from before the fix have none of the labels.                        *)
Init ==
  \E old \in Legacies :
    /\ attempts = old
    /\ legacy = Len(old)
    /\ results = [Empty EXCEPT !.lines =
                    [k \in DOMAIN old |->
                       Row(old[k].id, k, RecordedBefore(old[k]), 0, Absent, Absent)]]
    /\ usage = Empty
    /\ transcripts = [id \in Runs |->
         LET kept == {k \in DOMAIN old : old[k].id = id /\ old[k].archived}
         IN IF kept = {} THEN 0 ELSE CHOOSE k \in kept : \A j \in kept : j <= k]
    /\ runner = [pc |-> "idle", attempt |-> 0]
    /\ pass = [pc |-> "idle", kind |-> "retrofit", apply |-> FALSE, begun |-> 0,
               already |-> {}, at |-> 1, rows |-> <<>>,
               ledger |-> [id \in Runs |-> "none"]]

Resting(p) == p \in {"idle", "done"}

-----------------------------------------------------------------------------
(* The sweep.                                                               *)

MayTear(cut) == cut = "whole" \/ results.torn + usage.torn < MaxTears

(* A run_id with a row that ended by itself is not run again.               *)
Launch(id) ==
  /\ runner.pc = "idle"
  /\ Live \/ Resting(pass.pc)
  /\ Family[id] # "gone"
  /\ \A row \in Parsed(results) : row.id = id => ~attempts[row.attempt].complete
  /\ Len(attempts) - legacy < MaxAttempts
  /\ \E session \in Sessions, complete \in BOOLEAN :
       attempts' = Append(attempts, [id |-> id, session |-> session,
                                     complete |-> complete, archived |-> TRUE])
  /\ transcripts' = [transcripts EXCEPT ![id] = Len(attempts')]
  /\ runner' = [pc |-> "row", attempt |-> Len(attempts')]
  /\ UNCHANGED <<results, usage, legacy, pass>>

RecordRow ==
  /\ runner.pc = "row"
  /\ LET k == runner.attempt
         family == Family[attempts[k].id]
         row == Row(attempts[k].id, k, DetailOf(k).tokens_in, USAGE_PARSER_VERSION,
                    TokensInStatus(family, USAGE_PARSER_VERSION, "none"),
                    InvocationMode(family))
     IN \E cut \in Cuts : MayTear(cut) /\ results' = Written(results, row, cut)
  /\ runner' = [runner EXCEPT !.pc = "usage"]
  /\ UNCHANGED <<usage, transcripts, attempts, legacy, pass>>

RecordUsage ==
  /\ runner.pc = "usage"
  /\ LET k == runner.attempt
         id == attempts[k].id
         line == [u |-> BuildUsageRow(id, "worker", Family[id], DetailOf(k),
                                      DetailOf(k).tokens_in),
                  of |-> k]
     IN \E cut \in Cuts : MayTear(cut) /\ usage' = Written(usage, line, cut)
  /\ runner' = [runner EXCEPT !.pc = "idle"]
  /\ UNCHANGED <<results, transcripts, attempts, legacy, pass>>

KillRunner ==
  /\ runner.pc # "idle"
  /\ runner' = [runner EXCEPT !.pc = "idle"]
  /\ UNCHANGED <<results, usage, transcripts, attempts, legacy, pass>>

-----------------------------------------------------------------------------
(* The passes.                                                              *)

(* A pass that is over holds nothing.                                       *)
Over(pc) ==
  pass' = [pass EXCEPT !.pc = pc, !.already = {}, !.at = 1, !.rows = <<>>,
                       !.ledger = [id \in Runs |-> "none"]]
Raised == Over("idle")

First(kind) == IF kind = "retrofit" THEN "scan" ELSE "rows"

(* main: there is a corpus to work on, and --apply or not.                  *)
Begin(kind) ==
  /\ Resting(pass.pc)
  /\ Live \/ runner.pc = "idle"
  /\ pass.begun < MaxPasses
  /\ results.lines # <<>>
  /\ \E apply \in BOOLEAN :
       /\ kind = "retrofit" => ~apply
       /\ pass' = [pass EXCEPT !.pc = First(kind), !.kind = kind, !.begun = @ + 1,
                               !.apply = apply]
  /\ UNCHANGED corpus

(* retrofit reads once which run_ids are ledgered.                          *)
RetrofitScan ==
  /\ pass.pc = "scan"
  /\ pass' = [pass EXCEPT !.pc = "stream", !.at = 1,
                          !.already = {line.u.id : line \in Parsed(usage)}]
  /\ UNCHANGED corpus

(* The row retrofit writes: from the transcript if there is one this module *)
(* can parse, and from the stored number otherwise.                         *)
Retrofitted(row) ==
  LET id == row.id
      k == transcripts[id]
      detail == IF k # 0 /\ ParsesClaudeJson(Family[id])
                THEN ParseUsageDetailed(Family[id], Output(k)) ELSE NoDetail
  IN [u |-> BuildUsageRow(id, "worker", Family[id], detail, row.tokens_in),
      of |-> IF detail = NoDetail THEN row.attempt ELSE k]

(* Mutant: the run_ids written by this pass are not remembered.             *)
RetrofitLineForgetting ==
  /\ pass.pc = "stream"
  /\ pass.at <= Len(results.lines)
  /\ LET row == results.lines[pass.at]
     IN \/ /\ row = Garbled \/ row.id \in pass.already
           /\ usage' = usage
        \/ /\ row # Garbled /\ row.id \notin pass.already
           /\ \E cut \in Cuts : MayTear(cut) /\ usage' = Written(usage, Retrofitted(row), cut)
  /\ pass' = [pass EXCEPT !.at = @ + 1]
  /\ UNCHANGED <<results, transcripts, attempts, legacy, runner>>

RetrofitLine ==
  /\ pass.pc = "stream"
  /\ pass.at <= Len(results.lines)
  /\ LET row == results.lines[pass.at]
     IN \/ /\ row = Garbled \/ row.id \in pass.already
           /\ usage' = usage
           /\ pass' = [pass EXCEPT !.at = @ + 1]
        \/ /\ row # Garbled /\ row.id \notin pass.already
           /\ \E cut \in Cuts : MayTear(cut) /\ usage' = Written(usage, Retrofitted(row), cut)
           /\ pass' = [pass EXCEPT !.at = @ + 1, !.already = @ \cup {row.id}]
  /\ UNCHANGED <<results, transcripts, attempts, legacy, runner>>

RetrofitEnd ==
  /\ pass.pc = "stream"
  /\ pass.at > Len(results.lines)
  /\ Over("done")
  /\ UNCHANGED corpus

Strict(file) == \A i \in DOMAIN file.lines : file.lines[i] # Garbled

(* Mutant: lines that cannot be parsed are left out of the copy.            *)
StampRowsLeniently ==
  /\ pass.pc = "rows"
  /\ pass' = [pass EXCEPT !.rows = SelectSeq(results.lines, LAMBDA row : row # Garbled),
                          !.pc = IF pass.kind = "stamp-provenance" THEN "ledger"
                                 ELSE "replace"]
  /\ UNCHANGED corpus

(* The stamps read strictly: one line that cannot be parsed stops them.     *)
StampRows ==
  /\ pass.pc = "rows"
  /\ \/ ~Strict(results) /\ Raised
     \/ /\ Strict(results)
        /\ pass' = [pass EXCEPT !.rows = results.lines,
                                !.pc = IF pass.kind = "stamp-provenance" THEN "ledger"
                                       ELSE "replace"]
  /\ UNCHANGED corpus

LedgerOf(id) ==
  {i \in DOMAIN usage.lines : usage.lines[i] # Garbled /\ usage.lines[i].u.id = id}

(* One ledger row per run_id, the last one.                                 *)
StampLedger ==
  /\ pass.pc = "ledger"
  /\ \/ ~Strict(usage) /\ Raised
     \/ /\ Strict(usage)
        /\ pass' = [pass EXCEPT !.pc = "replace",
                     !.ledger = [id \in Runs |->
                                   IF LedgerOf(id) = {} THEN "none"
                                   ELSE usage.lines[Max(LedgerOf(id))].u.status]]
  /\ UNCHANGED corpus

Version(row) ==
  IF row.version # 0 THEN row.version ELSE ParserVersionAt(row.attempt <= legacy)

(* stamp_provenance, one row.  No recorded number is rewritten.             *)
Provenance(row) ==
  [row EXCEPT !.version = Version(row),
              !.status = TokensInStatus(Family[row.id], Version(row), pass.ledger[row.id])]

(* stamp_invocation_mode, one row.                                          *)
Moded(row) == [row EXCEPT !.mode = IF @ = Absent THEN InvocationMode(Family[row.id]) ELSE @]

Stamped(row) == IF pass.kind = "stamp-provenance" THEN Provenance(row) ELSE Moded(row)

(* model_family raises on a model outside the registry; only one of the two *)
(* stamps catches that.                                                     *)
Resolves ==
  pass.kind = "stamp-provenance" =>
    \A i \in DOMAIN pass.rows : Family[pass.rows[i].id] # "gone"

(* The labelled copy takes the place of results.jsonl in one rename.        *)
StampReplace ==
  /\ pass.pc = "replace"
  /\ \/ ~Resolves /\ Raised /\ UNCHANGED results
     \/ /\ Resolves
        /\ IF pass.apply
           THEN results' = [results EXCEPT !.open = FALSE, !.lines =
                              [i \in DOMAIN pass.rows |-> Stamped(pass.rows[i])]]
           ELSE UNCHANGED results
        /\ Over("done")
  /\ UNCHANGED <<usage, transcripts, attempts, legacy, runner>>

KillPass ==
  /\ ~Resting(pass.pc)
  /\ Raised
  /\ UNCHANGED corpus

-----------------------------------------------------------------------------
Sweep == (\E id \in Runs : Launch(id)) \/ RecordRow \/ RecordUsage \/ KillRunner

PassStep == RetrofitScan \/ RetrofitLine \/ RetrofitEnd \/ StampRows \/ StampLedger
              \/ StampReplace

Next == Sweep \/ (\E kind \in Kinds : Begin(kind)) \/ PassStep \/ KillPass

Spec == Init /\ [][Next]_vars

-----------------------------------------------------------------------------
(* Safety.                                                                  *)

(* A retry, a retrofit after a crash, and a second retrofit may each write  *)
(* a ledger row of one run_id: never do two readable rows count the tokens  *)
(* of the same attempt (retrofit: "without duplicating old rows").          *)
SpentOnce ==
  \A i, j \in DOMAIN usage.lines :
    usage.lines[i] # Garbled /\ usage.lines[j] # Garbled
      => (usage.lines[i].of = usage.lines[j].of => i = j)

(* When a retrofit comes to its end every run_id on file has a ledger row,  *)
(* whatever was killed before; only a cut append to the ledger undoes that. *)
RetrofitLeavesNoGap ==
  [][pass.pc = "stream" /\ pass'.pc = "done" /\ usage.torn = 0
       => \A row \in Parsed(results) : \E line \in Parsed(usage) : line.u.id = row.id]_vars

(* recovered_tokens_in: the join a reader makes on a recovered row.         *)
RecoveredTokensIn(id) ==
  LET rows == {i \in LedgerOf(id) : usage.lines[i].u.status = "measured"}
  IN IF rows = {} THEN -1 ELSE usage.lines[Max(rows)].u.tokens_in

(* The row of the last attempt at its run: nothing was written over what it *)
(* printed.                                                                 *)
Last(k) == \A j \in DOMAIN attempts : attempts[j].id = attempts[k].id => j <= k

Recovered(row) == RecoveredTokensIn(row.id) = DetailOf(row.attempt).tokens_in

(* What a label promises.  "measured": the number on the row is what the    *)
(* attempt consumed (or nothing, if its output was cut off).                *)
(* "recovered_in_ledger", on the row of the last attempt at a run: the join *)
(* finds what the output of that attempt says, unless the ledger was        *)
(* spoiled meanwhile; never what an earlier attempt said, never nothing.    *)
(* (Of the rows of earlier attempts no more is true than that they join to  *)
(* the same: execute_run has written over what they printed.)               *)
LabelsAreTrue ==
  \A row \in Parsed(results) :
    /\ row.status = "measured" =>
         row.tokens_in = IF attempts[row.attempt].complete
                         THEN Consumed(attempts[row.attempt].session) ELSE 0
    /\ row.status = "recovered_in_ledger" /\ Last(row.attempt) /\ usage.torn = 0 =>
         Recovered(row)

Recorded(line) ==
  IF line = Garbled THEN line
  ELSE [id |-> line.id, attempt |-> line.attempt, tokens_in |-> line.tokens_in]

(* No pass and no sweep takes a row away or changes a number on it, whoever *)
(* dies where; an append may spoil the line before it if that was cut.      *)
(* ("Labelling, never recomputation".)                                      *)
RowsSurvive ==
  [][\A i \in DOMAIN results.lines :
       /\ i \in DOMAIN results'.lines
       /\ \/ Recorded(results'.lines[i]) = Recorded(results.lines[i])
          \/ results.open /\ i = Len(results.lines) /\ results'.lines[i] = Garbled]_vars

(* The passes keep the record, at both ends: what was recorded is still     *)
(* there when they rewrite it, and what was not ledgered is there when a    *)
(* retrofit says it is done; and what they write has its type (TypeOK).     *)
PassesKeepTheRecord == []TypeOK /\ RowsSurvive /\ RetrofitLeavesNoGap
=============================================================================
