-------------------------------- MODULE Sweep --------------------------------
(***************************************************************************)
(* Sweeps of runner/run.py: main, and what execute_run persists.           *)
(*                                                                         *)
(* An invocation walks the rows of its matrix: it validates all of them,   *)
(* records once the cells that cannot exist or cannot be launched, skips   *)
(* the cells results.jsonl says are done, and runs the others one after    *)
(* the other, appending a row to results.jsonl and then one to usage.jsonl *)
(* for each.  Sweeps are interrupted and invoked again, and several run    *)
(* at once on cells of their own, all appending to the same two files.     *)
(*                                                                         *)
(* The model run itself is one step (BrokeredRun has its inside), ended by *)
(* any of Outcomes.  Left out: the corpus guard, --mock, printing.         *)
(***************************************************************************)
EXTENDS Jsonl, RunStatus, FiniteSets

CONSTANTS
  Matrix,          \* the rows of the matrix, in the order build_runs gives
  Procs,           \* sweeps that may run at the same time
  Mine,            \* the run_ids the --only filter of each leaves
  Limits,          \* values of --limit; Len(Matrix) is no limit
  MaxUsd,          \* --max-usd
  Outcomes,        \* exit_reasons a run may end with
  MaxInvocations,  \* bound: invocations of run.py
  MaxTears         \* bound: appends that do not write their whole line

Rows == DOMAIN Matrix
Ids == {Matrix[i].id : i \in Rows}

(* What execute_run can hand to append_row: a reason of run_cli, or         *)
(* no_completion, and a verify_timeout joined to it.                        *)
RunReasons == {"ok", "cap_exhausted", "timeout", "cli_error", "auth_unavailable",
               "broker_failed", "no_completion", "kimi_key_missing"}
Endings == {{r} : r \in RunReasons} \cup {{r, "verify_timeout"} : r \in RunReasons}

ASSUME SweepAssumption ==
  /\ Matrix \in Seq([id : STRING, valid : BOOLEAN, expressible : BOOLEAN,
                     launchable : BOOLEAN, metered : BOOLEAN, usd : Nat])
  /\ \A i \in Rows : Matrix[i].id # Garbled.id
  /\ Mine \in [Procs -> SUBSET Ids]
  /\ Limits \subseteq Nat
  /\ MaxUsd \in Nat
  /\ Outcomes \subseteq Endings
  /\ MaxInvocations \in Nat /\ MaxTears \in Nat

VARIABLES
  results,      \* results.jsonl
  usage,        \* usage.jsonl
  pc,           \* where each sweep is
  todo,         \* the rows its current loop has not come to
  already,      \* the run_ids its last read of results.jsonl gave
  cur,          \* the row being run, or 0
  opt,          \* --limit and --dry-run
  tokens,       \* whether the row in hand has the tokens of its run
  spent,        \* kimi_spent
  paid,         \* history: what the runs of the invocation cost
  unread,       \* history: what those of them cost whose output told no tokens
  invoked,      \* history: invocations
  crashed       \* history: invocations that did not come to their end

files == <<results, usage>>
procs == <<pc, todo, already, cur, opt, tokens, spent>>
money == <<paid, unread>>
vars == <<files, procs, money, invoked, crashed>>

Statuses == {"structurally_impossible", "driver_unsupported"}

Lines == [id : Ids, row : Rows, why : Endings \cup {{s} : s \in Statuses}] \cup {Garbled}

(* Types.  A file has an unfinished line only if it has a line, and a sweep *)
(* that runs or ledgers a cell knows which: every appended row is of a cell *)
(* of the matrix, with a reason execute_run can build.                      *)
TypeOK ==
  /\ results \in Files(Lines)
  /\ usage \in Files(Lines)
  /\ results.open => results.lines # <<>>
  /\ usage.open => usage.lines # <<>>
  /\ pc \in [Procs -> {"idle", "impossible", "unsupported", "scan", "loop", "running",
                       "ledger", "finished"}]
  /\ todo \in [Procs -> SUBSET Rows]
  /\ already \in [Procs -> SUBSET Ids]
  /\ cur \in [Procs -> Rows \cup {0}]
  /\ \A p \in Procs : pc[p] \in {"running", "ledger"} => cur[p] \in Rows
  /\ opt \in [Procs -> [limit : Nat, dry : BOOLEAN]]
  /\ tokens \in [Procs -> BOOLEAN]
  /\ {spent, paid, unread} \subseteq [Procs -> Nat]
  /\ {invoked, crashed} \subseteq Nat

NoOptions == [limit |-> 0, dry |-> FALSE]

Init ==
  /\ results = Empty
  /\ usage = Empty
  /\ pc = [p \in Procs |-> "idle"]
  /\ todo = [p \in Procs |-> {}]
  /\ already = [p \in Procs |-> {}]
  /\ cur = [p \in Procs |-> 0]
  /\ opt = [p \in Procs |-> NoOptions]
  /\ tokens = [p \in Procs |-> FALSE]
  /\ spent = [p \in Procs |-> 0]
  /\ paid = [p \in Procs |-> 0]
  /\ unread = [p \in Procs |-> 0]
  /\ invoked = 0
  /\ crashed = 0

-----------------------------------------------------------------------------
(* The gate: what the config-time loop makes of every row.                  *)

Kind(r) ==
  CASE ~r.valid -> "bad"
    [] r.valid /\ ~r.expressible -> "impossible"
    [] r.valid /\ r.expressible /\ ~r.launchable -> "unsupported"
    [] OTHER -> "dispatchable"

Walked(p) == {i \in Rows : Matrix[i].id \in Mine[p]}

OfKind(p, kind) == {i \in Walked(p) : Kind(Matrix[i]) = kind}

IdsOf(rows) == {Matrix[i].id : i \in rows}

(* runs once both `dropped` filters went over it, by run_id.                *)
Dispatched(p) ==
  {i \in Walked(p) : Matrix[i].id \notin IdsOf(OfKind(p, "impossible"))
                                        \cup IdsOf(OfKind(p, "unsupported"))}

(* Mutant: only a clean exit counts as done.                                *)
existing_ids_ok_only(file) == {l.id : l \in {k \in Parsed(file) : k.why = {"ok"}}}

existing_ids(file) ==
  {l.id : l \in {k \in Parsed(file) : k.why \in {{"ok"}, {"cap_exhausted"}}}}

(* recorded_impossible_ids and recorded_driver_unsupported_ids.             *)
recorded_ids(file, status) == {l.id : l \in {k \in Parsed(file) : k.why = {status}}}

(* pending[:limit], in the order of the matrix.                             *)
First(rows, n) == {i \in rows : Cardinality({j \in rows : j < i}) < n}

IsNext(i, rows) == i \in rows /\ \A j \in rows : i <= j

-----------------------------------------------------------------------------
Line(i, why) == [id |-> Matrix[i].id, row |-> i, why |-> why]

(* append_row and append_usage_row; a bounded number of them is cut.        *)
MayCut(cut) == cut # "whole" => results.torn + usage.torn < MaxTears

AppendRow(i, why) ==
  \E cut \in Cuts : MayCut(cut) /\ results' = Written(results, Line(i, why), cut)

AppendUsageRow(i, why) ==
  \E cut \in Cuts : MayCut(cut) /\ usage' = Written(usage, Line(i, why), cut)

Stopped(p) == pc[p] \in {"idle", "finished"}

(* One bad row rejects the whole matrix before anything is written.         *)
Invoke(p) ==
  /\ Stopped(p)
  /\ invoked < MaxInvocations
  /\ OfKind(p, "bad") = {}
  /\ \E limit \in Limits, dry \in BOOLEAN :
       opt' = [opt EXCEPT ![p] = [limit |-> limit, dry |-> dry]]
  /\ invoked' = invoked + 1
  /\ pc' = [pc EXCEPT ![p] = "impossible"]
  /\ todo' = [todo EXCEPT ![p] = OfKind(p, "impossible")]
  /\ already' = [already EXCEPT ![p] = recorded_ids(results, "structurally_impossible")]
  /\ cur' = [cur EXCEPT ![p] = 0]
  /\ tokens' = [tokens EXCEPT ![p] = FALSE]
  /\ spent' = [spent EXCEPT ![p] = 0]
  /\ paid' = [paid EXCEPT ![p] = 0]
  /\ unread' = [unread EXCEPT ![p] = 0]
  /\ UNCHANGED <<files, crashed>>

(* Mutant: the cell is dropped from the sweep and leaves no row.            *)
RecordStatusSilently(p, phase, status) ==
  /\ pc[p] = phase
  /\ \E i \in Rows : IsNext(i, todo[p]) /\ todo' = [todo EXCEPT ![p] = @ \ {i}]
  /\ UNCHANGED <<files, pc, already, cur, opt, tokens, spent, money, invoked, crashed>>

(* The next cell of a status loop gets its row unless it has one.           *)
RecordStatus(p, phase, status) ==
  /\ pc[p] = phase
  /\ \E i \in Rows :
       /\ IsNext(i, todo[p])
       /\ todo' = [todo EXCEPT ![p] = @ \ {i}]
       /\ IF Matrix[i].id \in already[p] THEN UNCHANGED files
          ELSE AppendRow(i, {status}) /\ UNCHANGED usage
  /\ UNCHANGED <<pc, already, cur, opt, tokens, spent, money, invoked, crashed>>

RecordImpossible(p) == RecordStatus(p, "impossible", "structurally_impossible")

RecordUnsupported(p) == RecordStatus(p, "unsupported", "driver_unsupported")

ReadUnsupported(p) ==
  /\ pc[p] = "impossible"
  /\ todo[p] = {}
  /\ pc' = [pc EXCEPT ![p] = "unsupported"]
  /\ todo' = [todo EXCEPT ![p] = OfKind(p, "unsupported")]
  /\ already' = [already EXCEPT ![p] = recorded_ids(results, "driver_unsupported")]
  /\ UNCHANGED <<files, cur, opt, tokens, spent, money, invoked, crashed>>

ReadDone(p) ==
  /\ pc[p] = "unsupported"
  /\ todo[p] = {}
  /\ already' = [already EXCEPT ![p] = existing_ids(results)]
  /\ pc' = [pc EXCEPT ![p] = IF opt[p].dry THEN "finished" ELSE "loop"]
  /\ todo' = [todo EXCEPT ![p] =
                First({i \in Dispatched(p) : Matrix[i].id \notin existing_ids(results)},
                      opt[p].limit)]
  /\ UNCHANGED <<files, cur, opt, tokens, spent, money, invoked, crashed>>

(* What a run costs, all of it spent once it is launched.                   *)
Usd(i) == IF Matrix[i].metered THEN Matrix[i].usd ELSE 0

OverBudget(p, i) == Matrix[i].metered /\ spent[p] >= MaxUsd

SkipMetered(p) ==
  /\ pc[p] = "loop"
  /\ \E i \in Rows : /\ IsNext(i, todo[p])
                     /\ OverBudget(p, i)
                     /\ todo' = [todo EXCEPT ![p] = @ \ {i}]
  /\ UNCHANGED <<files, pc, already, cur, opt, tokens, spent, money, invoked, crashed>>

Launch(p) ==
  /\ pc[p] = "loop"
  /\ \E i \in Rows : /\ IsNext(i, todo[p])
                     /\ ~OverBudget(p, i)
                     /\ cur' = [cur EXCEPT ![p] = i]
                     /\ todo' = [todo EXCEPT ![p] = @ \ {i}]
  /\ pc' = [pc EXCEPT ![p] = "running"]
  /\ UNCHANGED <<files, already, opt, tokens, spent, money, invoked, crashed>>

(* run_cli came back with an output, and execute_run with its row.  The     *)
(* tokens are on the result event the CLI prints last: a run that ended ok  *)
(* has one (without it the row says no_completion), one that was killed or  *)
(* failed may have none, and its row says 0.                                *)
Pay(p, why) ==
  /\ tokens' \in {[tokens EXCEPT ![p] = read] : read \in BOOLEAN}
  /\ "ok" \in why => tokens'[p]
  /\ paid' = [paid EXCEPT ![p] = @ + Usd(cur[p])]
  /\ unread' = [unread EXCEPT ![p] = IF tokens'[p] THEN @ ELSE @ + Usd(cur[p])]

(* Mutant: a run that failed goes unledgered.                               *)
RecordRunLedgeringOk(p) ==
  /\ pc[p] = "running"
  /\ \E why \in Outcomes :
       /\ Pay(p, why)
       /\ AppendRow(cur[p], why)
       /\ pc' = [pc EXCEPT ![p] = IF why = {"ok"} THEN "ledger" ELSE "loop"]
  /\ UNCHANGED <<usage, todo, already, cur, opt, spent, invoked, crashed>>

(* The run and its grade are over: append_row.                              *)
RecordRun(p) ==
  /\ pc[p] = "running"
  /\ \E why \in Outcomes : Pay(p, why) /\ AppendRow(cur[p], why)
  /\ pc' = [pc EXCEPT ![p] = "ledger"]
  /\ UNCHANGED <<usage, todo, already, cur, opt, spent, invoked, crashed>>

(* kimi_dollars of the tokens on the row in hand.                           *)
kimi_dollars(p) == IF tokens[p] THEN Usd(cur[p]) ELSE 0

(* append_usage_row, and back in main the spend meter.                      *)
Ledger(p) ==
  /\ pc[p] = "ledger"
  /\ AppendUsageRow(cur[p], {"ok"})
  /\ spent' = [spent EXCEPT ![p] = @ + kimi_dollars(p)]
  /\ tokens' = [tokens EXCEPT ![p] = FALSE]
  /\ pc' = [pc EXCEPT ![p] = "loop"]
  /\ cur' = [cur EXCEPT ![p] = 0]
  /\ UNCHANGED <<results, todo, already, opt, money, invoked, crashed>>

Finish(p) ==
  /\ pc[p] = "loop"
  /\ todo[p] = {}
  /\ pc' = [pc EXCEPT ![p] = "finished"]
  /\ UNCHANGED <<files, todo, already, cur, opt, tokens, spent, money, invoked, crashed>>

(* Killed, or an exception nobody catches (a broker that will not start, a  *)
(* git command that fails), or the exit for a K out of range, which comes   *)
(* after the status rows: the invocation is over where it stands, and what  *)
(* it held in memory is gone.                                               *)
Crash(p) ==
  /\ ~Stopped(p)
  /\ pc' = [pc EXCEPT ![p] = "idle"]
  /\ todo' = [todo EXCEPT ![p] = {}]
  /\ already' = [already EXCEPT ![p] = {}]
  /\ cur' = [cur EXCEPT ![p] = 0]
  /\ opt' = [opt EXCEPT ![p] = NoOptions]
  /\ tokens' = [tokens EXCEPT ![p] = FALSE]
  /\ spent' = [spent EXCEPT ![p] = 0]
  /\ crashed' = crashed + 1
  /\ UNCHANGED <<files, money, invoked>>

-----------------------------------------------------------------------------
Step(p) ==
  \/ RecordImpossible(p)
  \/ ReadUnsupported(p)
  \/ RecordUnsupported(p)
  \/ ReadDone(p)
  \/ SkipMetered(p)
  \/ Launch(p)
  \/ RecordRun(p)
  \/ Ledger(p)
  \/ Finish(p)

Next == \E p \in Procs : Invoke(p) \/ Step(p) \/ Crash(p)

Spec == Init /\ [][Next]_vars

-----------------------------------------------------------------------------
(* Safety.                                                                  *)

UniqueIds == \A i, j \in Rows : Matrix[i].id = Matrix[j].id => i = j
DisjointSweeps == \A p, q \in Procs : p # q => Mine[p] \cap Mine[q] = {}

(* No cell is measured twice: results.jsonl never holds two scored rows of  *)
(* one run_id, whatever crashes, cut appends and re-invocations do          *)
(* (existing_ids: "Re-running it would be retry-until-pass").               *)
ScoredOnce ==
  \A i, j \in DOMAIN results.lines :
    /\ InDenominator(results.lines[i].why)
    /\ InDenominator(results.lines[j].why)
    /\ results.lines[i].id = results.lines[j].id
    => i = j

(* The count of impossible and unsupported cells is one of cells and not of *)
(* invocations (recorded_impossible_ids), a corrupt line notwithstanding.   *)
StatusRowOnce ==
  \A s \in Statuses : \A i, j \in DOMAIN results.lines :
    /\ results.lines[i].why = {s}
    /\ results.lines[j].why = {s}
    /\ results.lines[i].id = results.lines[j].id
    => i = j

(* A cut append costs its own row and at most the next one, which is        *)
(* written on the same line; every other row stays readable.                *)
Intact(file) == {i \in DOMAIN file.lines : file.lines[i] # Garbled}

CutLosesAtMostTwo ==
  \A file \in {results, usage} :
    file.appended - Cardinality(Intact(file)) <= 2 * file.torn

(* The ledger never runs ahead of the corpus, row by row, and lags it by no *)
(* more than the sweeps between their two appends and the crashes there     *)
(* were: the meter misses a run only when the process died.                 *)
RunsOf(i) == {k \in DOMAIN results.lines : /\ results.lines[k].row = i
                                           /\ results.lines[k].why \in Endings}
LedgeredOf(i) == {k \in DOMAIN usage.lines : usage.lines[k].row = i}

LedgerGap ==
  LET runs     == UNION {RunsOf(i) : i \in Rows}
      ledgered == UNION {LedgeredOf(i) : i \in Rows}
  IN /\ \A i \in Rows : Cardinality(LedgeredOf(i)) <= Cardinality(RunsOf(i))
     /\ Cardinality(runs) <= Cardinality(ledgered) + crashed
                               + Cardinality({p \in Procs : pc[p] = "ledger"})

(* What an invocation pays beyond --max-usd is less than one run, the one   *)
(* that was under way when the cap was reached, and whatever was paid for   *)
(* runs that told no tokens: those are beyond the meter.                    *)
OvershootsByOneRun ==
  \A p \in Procs :
    paid[p] > unread[p] => \E i \in Walked(p) : paid[p] < MaxUsd + Usd(i) + unread[p]

(* An invocation that came to its end, and skipped nothing for --limit or   *)
(* --max-usd, has left a row under every run_id of its matrix: cells that   *)
(* do not exist are recorded, cells that do were run, and a cell that is    *)
(* dropped with another of its run_id leaves that one's row.                *)
EveryCellLeavesATrace ==
  \A p \in Procs :
    pc[p] = "finished" /\ ~opt[p].dry /\ opt[p].limit >= Len(Matrix) /\ spent[p] < MaxUsd
      => \A i \in Walked(p) :
           \E k \in DOMAIN results.lines : results.lines[k].id = Matrix[i].id

(* An invocation does all that its options ask for and no more: every cell  *)
(* has left its trace when it is finished, and of the runs it can read one  *)
(* at most is paid beyond --max-usd.  (No more holds: any number of runs it *)
(* cannot read may be paid as well.)                                        *)
OptionsAreKept == EveryCellLeavesATrace /\ OvershootsByOneRun

-----------------------------------------------------------------------------
(* The corpus, read with run_status, is a campaign in which a cell is       *)
(* attempted until it is scored and never again.                            *)
Campaign == INSTANCE Campaign WITH
  Cells    <- Ids,
  scored   <- {l.id : l \in {k \in Parsed(results) : InDenominator(k.why)}},
  attempts <- [c \in Ids |-> Cardinality({k \in DOMAIN results.lines :
                               /\ results.lines[k].id = c
                               /\ results.lines[k].why \in Endings})]

(* Sweeps that are interrupted, resumed and run side by side implement it.  *)
CampaignSpec == Campaign!Spec
=============================================================================
