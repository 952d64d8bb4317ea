# Verification of model-gauntlet

TLA+ specifications of the measuring instrument in this repository, the TLC
models that check them, and TLAPS proofs about them.

The instrument runs coding models on tasks and files one row per run. What it
must get right is not the grading of one run, which its tests cover, but what
surrounds it: a budget of feedback that several processes draw on at once, rows
in append-only files that several sweeps write and every later sweep resumes
from, money that is spent before it is counted.

## The system

| Part | State | Operations | Talks to |
|---|---|---|---|
| Acceptance broker (`runner/broker.py`) | request counter, `exhausted`, `failed`, the listening socket, one serving thread | `start`, `attach`, `_serve`/`_handle`, `_end_run`, `close` | the shims (unix socket), the runner (attributes it reads), the grader |
| Shim (`broker.shim_text`) | one process per `bash verify.sh` | connect, one request, one reply, exit status | the broker |
| Runner of one run (`runner/run.py`: `execute_run`, `run_cli`) | the process group, `exit_reason`, the row | launch, wait or kill, read the broker, close it, grade, append | broker, model CLI, the two files |
| Sweep (`run.py`: `main`) | position in the matrix, `done`, `kimi_spent` | gate, status rows, resume, skip, run | `results.jsonl`, `usage.jsonl` |
| Result files (`append_row`, `append_usage_row`) | two append-only JSONL files | append, skip-unparsable read | every sweep and every reader |
| Exit reasons (`runner/run_status.py`) | a table | `status_class`, `in_denominator`, `apply_turn_cap` | all readers |
| Ledger maintenance (`runner/usage_ledger.py`) | none of its own | `retrofit`, `stamp_provenance`, `stamp_invocation_mode` | the two files, in place |
| Stage-0 probe (`runner/stage0_probe.py`) | none of its own | preflight, run a sweep, tag in place, record the registry | sweep, `results.jsonl`, `models.yaml` |
| Serving registry (`runner/serving_registry.py`) | `models.yaml` | dispatch gate, preflight, add, record | sweep, probe |
| Judge (`runner/judge.py`) | `judgments.jsonl` | judge once each passing run, meter both calls | results, usage |
| Grading tree (`run.py`: `prepare_scratch`, `graded_run`, `tamper_report`) | one scratch tree per `run_id` | prepare, overlay, grade, report what the model changed | broker, runner, negative control, regrade |
| Negative control (`negative_control/`) | `negative-control-28.jsonl`, `regrade-36.jsonl` | `run_arms`, `score`, `regrade_36` | the grader, the scratch trees, `results.jsonl` |
| Credential homes (`run.py`: `scoped_codex_home`, `scoped_claude_home`) | one home per run, a link to the operator's credential | open, copy back, remove | model CLIs, the operator |
| Session logs (`runner/token_units.py`) | the snapshot of request series | locate, reduce, snapshot, cross-check | CLI logs, transcripts, ledger |
| Spend cap (`runner/spend_cap.py`) | none: the caller's window | `authorize`, `cost_of` | product executor |
| Product executor (`product/.../executor.py`, `disclosure.py`) | spend of one request | disclosure gate, authorize, invoke, ledger | `usage.jsonl`, the visitor |
| Readers (`tables.py`, `stats.py`, `ladder_from_results.py`, `effort_verdict.py`, `calibration_report.py`, `report_acceptance.py`) | none | partition, exclude, group, aggregate, test | finished files |

The hard behaviours: the broker thread, the runner thread and any number of
shim processes interleave; the wall clock fires while requests are queued;
processes outlive their leader; invocations die between two appends or in the
middle of one; sweeps run side by side and are resumed from what the files say;
passes rewrite in place what others append to; a model works in the tree it is
graded in; what is re-read later (transcripts, scratch trees, session logs, a
server's configuration) is not what it was when the row was made. And once the
rows are there, six readers cut them in six ways and must not publish six truths.
`PROJECT.json` lists every such place at its line, with the properties that
watch it or the reason there are none.

What makes each part correct, in a sentence: the budget of a run is exact; a row
carries the evidence of its reason; no cell is measured twice and none is
forgotten; the ledger explains the corpus; money is spent under a disclosed cap;
maintenance changes labels and never numbers; a judgment is of the run that
passed; what the registry says was measured under what it pins; a grade is of
the model's source alone; a login survives the runs that use it; a check against
a session log confirms only what was consumed; readers agree.

## The modules

### Broker, BrokeredRun: one run under the acceptance cap

`Broker` is `runner/broker.py`: `Accept` is `accept()` together with the locked
increment, `BeginGrade`/`Exhaust` the comparison with K, `GradeReturns`/
`GradeFaults` the two ends of a grade, `Refuse` and `EndRun` the two calls that
end a run, in their order. The kernel's part of a unix socket is modelled from
how the code depends on it: a bounded backlog, connections reset when the socket
goes away, and `close()` not waking a thread that is blocked in `accept()`.

`BrokeredRun` extends it with the runner thread, one action per point at which
another thread may come in between: start, launch, attach, wait, the three
reads, close, join, grade. The model is its leader plus its shims; it may do
anything in any order, except that a leader waits for the shims it runs in the
foreground. `Detached` shims were started in the background.

`AcceptanceBudget` is what the broker promises: units are spent one at a time,
a look costs a unit, a faulted look costs one too, and the unit after the last
ends the run. `BudgetSpec` says the detailed run implements it, with
`spent <- requests` and `looks <- Cardinality(Graded)`.

### Jsonl, RunStatus, Sweep: rows that sweeps resume from

`Jsonl` is an append-only file as the two append functions write it and every
reader of the runner reads it: a line may be cut in the middle or lack its
newline, the next append continues it, an unparsable line is skipped. It keeps
what decides which rows survive and nothing of their text.

`RunStatus` is the table of `run_status.py`; an `exit_reason` is the set of its
`+`-joined parts.

`Sweep` is `main`, with the run itself as one step that ends in any of
`Outcomes`. A cell is a row of `Matrix`, in dispatch order, with the verdicts of
the gate as fields. `Procs` sweeps append to the same files, are killed anywhere
(`Crash`) and are invoked again. `cur`, `todo`, `already`, `tokens` and `spent`
are what an invocation holds in memory and loses. When a run comes back, `Pay`
says whether its output held a result event: one that ended ok has one, any other
may have none, and then the row says 0 tokens and the meter of `--max-usd` adds
0 dollars (`kimi_dollars`). What the run cost is added to `paid`, and to `unread`
if the meter cannot see it: both are history.

`Campaign` is what resumption promises: a cell is attempted until an attempt is
scored and never again. `CampaignSpec` maps `scored` to the ids that
`run_status.in_denominator` accepts and `attempts` to the rows on file.

### Product: a visitor's money behind two gates

`Product` is `execute` of `executor.py` with `disclosure.py` and `spend_cap.py`
as its operators. `Execute` is everything up to the loop: some disclosure that
was shown (`Disclose`) has the fingerprint of this request. Per task the loop
takes one of `Refuse` (`SpendRefused`: no price, no measured floor, no cap, or a
floor the rest of the cap does not cover), `Unsupported` (no invocation path),
`Unprepared` (no `PROMPT.md`, no key: an exception), or `Invoke`, `Read` and
`Ledger`; `Report` ends it. The order of the guards is the order of the code.
`Raise` is an exception nobody catches, or a kill, at any of these points: what
the execution held is gone, what was launched and ledgered stays. A child whose
output carries no usage reads as zero. Executions of different visitors share
only the ledger and the disclosures. The ledger is a file of `Jsonl`: an append
may write a part of its row and the execution goes on as if it were whole.
`launched`, `paid` and `asked` (the rows handed to `append_usage_row`, in order)
are history: the code keeps none of them.

### Usage, Upkeep: the passes over the two files

`Usage` is `usage_ledger.py` without its files: `ParseUsageDetailed` on what the
CLIs of each family print, `TokensInStatus`, `BuildUsageRow`. A session is the
requests it made; what the CLI prints of it is derived (`Emitted`), so that a
parser can be wrong about it.

`Upkeep` is the three commands that work on the files afterwards. `RetrofitScan`,
`RetrofitLine` (one per row, each with its append) and `RetrofitEnd` are
`retrofit`; `StampRows`, `StampLedger` and `StampReplace` are the strict read,
the join and the rename of the two stamps. The sweep is kept to what the passes
can see of it: `Launch` overwrites the transcript of the cell, `RecordRow` and
`RecordUsage` append, `KillRunner` comes in between. `KillPass` ends a pass
anywhere. `Last` tells the row of the last attempt at a run from those whose
transcript has been written over. `Live` says whether the sweep goes on under a pass. The module's own
words are that the passes are offline, so the run sets it to FALSE; with TRUE
`PassesKeepTheRecord` fails, since a rename replaces rows appended after the read.

### Judge

`judge.py`: `Choose` reads the passing runs and those already judged, `Skip` and
`Look` are the two starts of `judge_one`, then both paid calls, both meterings
and the append, each a step, because `Die` may come in between any two of them.
A sweep goes on beside it (`Attempt`, `Recorded`) and prepares scratch trees
anew; `Cleaned` removes them. An answer is whether scores and usage can be read
off it; one whose usage cannot be read gets no ledger row. `called` (every call,
each of which is paid for), `mute` (those without usage), `found` and `died` are
history.

### ServingRegistry, Stage0

`ServingRegistry` has the rules of a row (`NewRowRefused`, `NewRow`), the gate
(`CheckRunConfig`, `Dispatch`), `Preflight` and `Validate` as operators on
sequences of rows. `Stage0` is the probe around a run of `run.py`: `Look`, the
gate, one step per rep, `Read`, `TruncateToTag`, `WriteTagged`, the derivation,
`TruncateToRecord`, `WriteRecorded`. Both rewrites of the code open the file for
writing and then write, so truncation is a step of its own; `Overwritten` is what
a second writer leaves behind. Beside it a human runs `add-model` in its three
steps, another sweep appends to the corpus, and the server is set up anew
between probes (`SetServer`; nobody changes it under a probe, and nothing in the
code would notice).

### Readers

One definition per published number, over rows that keep what the readers tell
apart: `Table1` to `Table6`, the sections of `stats.py`, the ladders and their
verdict (`Classify`), `AcceptanceSummary`, `Calibrated`. The gates they share,
`ScoredRows`, `TokenRows`, `ApplyTurnCap`, are separate, so that a reader that
forgets one is a different definition. A mean is its sum and its count; a cell of
a table is the set of its rows, its sums are `SumFunction` over that set, and an
effort ladder is a function from the tiers that have samples to their samples by
row. `RunsBackwards` divides by the mean of the bottom tier, which can be 0: then
the code's ratio is infinite and the verdict is not BACKWARDS. The state is the
corpus, the judgments, the probes and the registered turn cap, and grows a row at a
time. `ReadersAssumption` is what the writers of those files promise; `Upkeep` and
`BrokeredRun` are where the promises are kept.

### Grading, NegativeControl

A tree in `Grading` says what is at one path for each kind of file the code
treats differently. `Prepared`, `GradingTree`, `TamperReport` and `LocChanged`
are the functions of those names in `run.py`; `GradedRun` is the set of verdicts a
tree may get, with a timeout always among them. The actions are a run around
them: `PrepareScratch`, then the model (`Write`, `Commit` with or without amending,
`Look`), then `Report`, `Grade`, `Row`, `AppendRow`. `Repair` replaces the graded
suite at any moment, which is what ticket 29 does.

`NegativeControl` adds the two instruments that use the same functions later:
`run_arms.py` (`ArmGrade`, `ArmAgain`), `score.py` (`Score`), and
`regrade_36.py` (`GateBroken`, `GateSolution`, then `ReadProvenance` and
`RegradeRow` per row), each of them killed anywhere.

### CredentialHomes, TokenUnits

`CredentialHomes` is a refresh token that is good once, an operator's file, and
scoped homes that link to it: a refresh replaces the link (`Refresh`), teardown
copies it back in two steps (`CopyBack`, `Close`, because `copyfile` empties the
target first), SIGKILL leaves it (`Leave`).

`TokenUnits` extends it with the sessions: what a session consumed is the truth,
its log repeats lines or events (`Log`), `claude_series` and `codex_series`
reduce a log, `series_for_run` looks for it by family, `Snapshot`/`SnapshotRow`
file it and `crosscheck` compares. Others use the directory (`Visit`), logs are
pruned, runs are retried over their transcripts. `Slug` is what the claude CLI
makes of a run_id in the name of a directory, with a dash for each dot: `Log` puts
a log there, and `LogsOf` looks it up under the run_id, as `series_for_run` does.

## The runs

A type invariant is a conjunct of a property where a run checks it; for the
modules with theorems it is proved.

| Run | Instance | Shows |
|---|---|---|
| `brokered_run` | K = 2, three foreground shims and one detached, backlog 2 | the budget is exact from three sides, cap rows carry evidence, a model that was refused in the foreground never gets an unmarked row, no look after exhaustion |
| `brokered_run_live` | K = 1, two foreground shims and one detached | ended runs die without the wall clock, shims are released, the runner settles unless it waits for a running model, `BudgetSpec` |
| `sweep` | one sweep, a cell of every kind, metered cells of 2 and 3 dollars under a cap of 2, runs with and without a result event, two cells of one run_id, three invocations, `--limit` 1 or all | every run_id leaves a row, what is paid beyond the cap is less than one run and the runs that told no tokens, the ledger lags by crashes, `CampaignSpec` |
| `sweep_shared` | two sweeps with cells of their own, three invocations, joined reasons, one cut append | no cell scored twice, no status recorded twice, a cut append costs at most two rows |
| `product` | two visitors, five kinds of request, two executions, two cut appends | spending as disclosed, the report is the ledger, no row lost but by an exception, a kill or a cut |
| `product_unread` | violation | see Findings |
| `upkeep` | three run_ids of three families, five legacy corpora, two attempts, three passes, one cut append | no attempt counted twice, labels are true (a recovered one on the row of the last attempt), rows survive, a retrofit leaves no gap |
| `judge` | two runs, two attempts, two invocations, one cut append, useless answers | the attempt that passed is judged, once; unledgered are the calls that cannot be read and at most one per death |
| `stage0` | five reps, two invocations, six attempts, one row of another sweep, one kill, two servers | the registry is earned and whole, rows of the corpus are lost in a rewrite only |
| `readers` | ten kinds of rows, corpora of up to three, two judgments, turn caps, thirteen kinds of probe rows, some of 0 tokens | one denominator and one spend, drivers apart, advice measured, verdicts agree, void rows move nothing |
| `negative_control` | one run_id, three suites, ten kinds of edits | grades are of the source, rows tell what the model did, controls and regrades are earned |
| `token_units` | two homes; two local cells whose logs come into one directory, one of them named for it, and a codex cell with a dot; two kinds of sessions | the login survives, the check is honest, records are found where the directory has the name of the run_id |

Every property of a passing run has a mutant in `PROJECT.json`: a plausible bug
in one definition, under which the same run finds the property violated.

Bounds. K + 2 shims are enough for every order of K served requests, the refused
one and one behind it; a backlog smaller than that makes refusal by the kernel
happen. Three invocations of a sweep are an interrupted one, one that resumes it
and one that finds it finished; two invocations of the judge or the probe are one
that dies and one that takes over. Two cells per sweep and one of every kind cover
each pair of states a cell can be in. One cut append and the next one already
show the two ways a line can break; the theorem has any number. Two executions
are two visitors at once and one visitor after another; of the two caps one pays
for a single run and one for both. Three passes are any pass killed, another one
and the first again. Six attempts of five reps are one repetition; five is what
`--expected-reps` asks for. `Budgets` in `Readers`, `Grading` and `TokenUnits`
is a set of bounds, of which an initial state takes one: each goes into one
direction (deep edits, retries with a regrade, repairs on the way, the arms;
corpora without judgments, judged ones, the probe's own file), where all at once
would only multiply independent histories. Three rows are two populations and one
row that is void, or a pair and its tie. All other bounds are called `Max...` in
their modules. Runs over these modules set `CHECK_DEADLOCK FALSE` because an
instance stops when its bounds are used up; the brokered runs because a run is
over when its row is built.

Fairness. `Scheduling` is weak fairness of the runner thread and of the broker
thread's steps: they are threads of one process, and each grade is cut off after
600 s (`graded_run`). `BrokerStops` is left out: nothing makes a thread blocked
in `accept()` notice `close()`. The model under test is given no fairness and
neither is the wall clock, so nothing shown here leans on it.
The other modules check safety: their programs walk a list and exit, and what is
hard about them is where they are cut.

## Findings

* **A run nobody could read was free** (`product_unread`). The executor parses an
  output without a `result` object as zero tokens, ledgers that as measured and
  authorizes the next task as if nothing had been spent. `spend_cap.py` says the
  opposite of what that does.

The code also does the following, which no run reports; the models contain it and
the properties are stated around it.

* A connection queued when the wall clock fires is accepted after `run_cli` read
  `bk.exhausted`: the row has `acceptance_requests` = K + 1 and its own reason.
* When the leader exits by itself nothing kills its process group: what it left
  in the background may be alive during the final grade.
* `cap_exhausted` joined with `verify_timeout` is neither of the two reasons
  `existing_ids` accepts, and the cell is run again.
* The meter of `--max-usd` is in memory and starts at zero in every invocation,
  and adds nothing for a run without a result event: any number of runs that the
  wall clock kills are paid under a cap of one. The help text calls the option a
  "hard cap on cumulative Kimi (real-money) spend"; `OptionsAreKept` says what it
  does bound.
* A retried cell writes over its transcript, and its earlier rows stay. `retrofit`
  parses the transcript that is there, and every row of the run_id is labelled
  `recovered_in_ledger` and joined to it, where `usage_ledger.py` promises "the
  re-parsed truth" of the row. `LabelsAreTrue` is about the row of the last attempt.
* The claude CLI names a session directory with dashes for dots (so the marker in
  `token_units.py` itself, `model-gauntlet--scratch-`; the CLI is not in this
  repository), and `series_for_run` looks for the run_id with its dots: the rows
  of `glm-4.7-local` are filed as `no_independent_record` beside their logs. The
  test of issue #14 F2 does not show it, because the directory of its fixture has
  the dots. `RecordsAreFound` is about run_ids that are the names of their
  directories, and about rollouts, which are matched on the directory itself.
* A paid call of the judge whose usage cannot be read gets no ledger row (`mute`).
* The dispatch list is filtered by `run_id`, which carries neither the driver nor
  the rung: an expressible cell goes with an inexpressible one of the same id.
* A probe one of whose reps was retried counts more rows than it expects and
  never completes; over a truncated registry its reps are not gated.
* `score.py` has no "INCOMPLETE" for arms that were cut between two of them.
* The snapshot of `token_units.py` empties its file first: killed, it has lost
  the series whose logs have been pruned since.

## What is proved

Eight modules of proofs, each for every value of the constants, without bounds
on what happens how often.

`BrokeredRunProofs`, for every finite set of shims, every K the runner accepts
and every backlog: `TypeOK`, `ExactBudget`, `NoLookAfterExhaustion`,
`CapRowHasEvidence`, `RefusedRunIsMarked`: all that `brokered_run` checks. The
argument is a chain of invariants. `CountInv`: the answered connections, with the
one in service, carry distinct numbers, none above `requests`, so that numbers
are never reused. `QueueInv`: who is queued or being served has no answer yet, so
an answer is given once. `SpentInv`: every number from 1 to `requests` is on an
answered connection or on the one in service; at exhaustion that accounts for all
K units. `CapInv`: what the runner has read of the broker only becomes truer
afterwards, because `requests` grows and `exhausted` is never reset; that is why
three reads at three moments still agree. `LeaderInv` and `MarkInv`: once the
leader is reaped no shim it waited for can be refused any more, and the flag was
up before anybody was refused, so the reads that come after see it. None of the
properties is inductive alone. `LooksWithinK` follows from distinct numbers in
1..K and the library's cardinality theorems.

Its last theorem, `BudgetIsImplemented`, says that every step of the composition
is a step of `AcceptanceBudget` or leaves it alone, which is `BudgetSpec` but for
its fairness. `QueueInv` is what makes each graded look a new one, and `SpentInv` what
makes the unit behind it the next one.

`CorpusProofs`, its first half, for every matrix and any number of sweeps: `TypeOK`, and
`ScoredOnce` under two assumptions: run_ids are unique (`UniqueIds`) and the
sweeps that run at once have cells of their own (`DisjointSweeps`). The second
is how concurrent sweeps are used: each has its own config or `--only`
(`runner/tests/test_write_containment.py:201` speaks of them), and the code has
no lock that would make more safe. The inductive invariant adds `FreshInv`: a
cell a sweep still has to run, or is running, has no scored row on file. It
holds when the list is made because a reader skips broken lines and goes on, and
stays because a scored row is only appended by the sweep that has the cell.

It also proves the refinement `CampaignSpec` under the same two
assumptions and `MaxTears = 0`: a cut can take a scored row away that was
readable a moment before, and a campaign does not forget. `Whole` says that then
no line is left unfinished, so an append is an append.

It proves `OptionsAreKept` with no cut, whether run_ids are unique or not.
`BehindInv`: each row of the matrix that is behind the place a sweep is at has left
a row under its run_id on file, unless an option excused it. `MeteringInv`: the
meter has what was paid for runs that told their tokens, but for the one in hand,
and was below the cap when that one was launched.

And it proves the other promises about the files. `StatusRowOnce`, like
`ScoredOnce`, from `ListedInv`: what a status loop still has to record is not on
file unless its read saw it. `CutLosesAtMostTwo` with no assumption at all, for
any number of cuts, from `RoomInv`: an unfinished line already owes the rows that
the next append will spoil. `LedgerGap` with no cut and finitely many sweeps,
from `Balance`, which counts per row: ledgered rows and sweeps between their two
appends are together no more than the runs on file, and a crash is what moves a
run from the second to the ones that are never metered.

The second half of `CorpusProofs` proves all that `readers` checks, for corpora,
judgments and ladders of any length. `OnFile` (what is on file was written by its
writers) is the only invariant over steps; everything else is about the functions
the readers compute of it. A sum over a finite set may be taken in any order and
cut into parts (`SumTake`, `SumOfParts`, `CountOfParts`), so that the totals of a
table are those of its rows once its cells part them. What makes them part the rows
of a model is `KeyIsPopulation`: two rows have one `model_key` if and only if they
have one model and, where it has several drivers, one driver. `OneTruth` follows,
reader by reader. For `AdviceIsMeasured`, `BeatsIsOrder` says that the comparison of
configurations, though its means are compared across, is a strict order in which
what was not measured is last; so among finitely many there is one that no other
beats (`Unbeaten`). For `VoidRowsMoveNothing`, a line of a table depends on the
measured rows of its class alone (`OfMeasured`), and of two unbeaten configurations
neither beats the other.

`ConclusionsAgree` has three parts. A ladder's old and new verdict differ in
BACKWARDS only (`CarvedOutHolds`). A passing row that counts came to its end
(`PassingIsWhole`, by the severity order of `RunStatus`), so that the section of
the cost test that is not behind the token gate loses nothing by it. And
`ExactTestsAgree`: McNemar's closed form is the number of sign patterns at least as
extreme as the observed one, for any two numbers of discordant pairs. `choose`, a
quotient of factorials, is the number of subsets of a size (`WaysFactor`, by
Pascal's rule); a product of ones and twos is a power of 2 (`ProductIs`), hence the
products of a pattern compare as the number of its ups does (`AsExtreme`); flipping
is a bijection, and so is complement; and the bound at 1 matters when the pairs are
balanced, where the two tails overlap.

`ProductProofs`, for every set of visitors, requests, floors and costs and any
number of executions and cut appends: `TypeOK`, `SpentAsDisclosed`,
`LosesAtMostTheLastRun` and `ReportIsTheLedger`. For the first of the three, `GateInv` adds that an execution past the gate has a
disclosure with its fingerprint in `shown`, which only grows, and that the room
below the cap was checked against the spend as it is until the next run is read.
For the next, `TurnInv` says that turns of executions are distinct and not
above `executions`, and `LaunchInv` and `AskedInv` that the runs of a live
execution are launched and handed to the ledger up to the place its loop is at; an
execution that raises leaves its turn behind, and nobody gets it again. `FileInv`
ties the file to what it was handed: what can be read was handed to it, and while
no append is cut the two are the same sequence. `LostInv` counts what a cut
costs: an unfinished line already owes its own row and the next one, so the rows
that are gone and the rows that are owed stay within two per cut. For the report,
`ReportInv`: as long as an execution talks, the rows of its turn among those
handed over are those of the outcomes it holds, one by one (`Tells`), and add up
to its spend but for the run it has in hand (`Paid`); `OrderInv`: what can be read
of them in the file stands in the order of the report.

`TokenUnitsProofs` is about any number of homes, runs, sessions and snapshots, and
logs of any length. `LoginSurvives` comes from `HolderInv`: there is one holder of
the good token at a time; `LoginSurvivesTheRuns` carries it over to runs that are
launched, recorded and killed in the homes, since they touch the credential by
the actions of `CredentialHomes` only (`HomesAreUsedAsSuch`). `ClaudeSeries` and
`CodexSeries` say what the two reductions of `token_units.py` are for: the series
adds up to what its session consumed, however often the log repeats a line or an
event. From there `Truthful` is the invariant that whatever is on file is of a
session that was: a log is of one session, a row has the numbers of its own or
zero if it was killed (`LedgerTrue`), a line of the snapshot those of a session in
its directory (`SeriesTrue`), and visitors come after the runs (`VisitorsAfter`).
`CheckIsHonest` and `RecordsAreFound` follow. They need that a session put
something to its model (`TokenUnitsAssumption`): an empty one would reproduce the
zeros of a run that was killed.

`JudgeProofs` proves all that `judge` checks, for any number of runs, attempts and
invocations. `SweepInv`: a scored row is the only one of its run and the scratch
directory is still of that attempt, since a run that is scored is not run again;
with `SeenInv`, what a judge has in hand is the attempt that passed. `FoundInv` and
`TodoInv`: what was found to judge is judged or still listed, and no run twice.
`Unledgered` counts per run and head what was called, could be read and is neither
ledgered nor in hand; `LagInv` bounds it by the deaths, as only a death raises it.
There is one judge at a time.

`Stage0Proofs` proves all that `stage0` checks. `CorpusKept`: a row that was run or
appended is in the file, in the copy of the rewrite in hand, or was exposed to
one. `RegistryKept`: while no two rewrites meet, whoever holds a copy of
`models.yaml` holds all pairs. `RegistryEarned` says of each row, and of each copy,
that its noise probe is of a sample of attempts, one scored attempt per rep, under
the server it pins; it stands on `AttemptsShow` (who scored has passed the
preflight) and `AllCovered` (what is read back has a row of each rep).
`RegistryIsEarned` is proved under `OnePinPerPair`: no pair is ever added with
other pins than it had. The code does not see to that. A run_id does not name the
pins, so that a row lost in a race of two rewrites and added again for another
server would be credited with the reps that ran under the old one.

`UpkeepProofs`, for any cells, sessions, corpora from before the fix, attempts,
passes and cut appends. `LabelsAreTrue` holds also when sweeps go on under the
passes, from `RowsHonest`, `LinesHonest` and `LabelsBacked`: a number is the one of
its attempt; a label that points to the ledger has a row there; and no ledger row
of such a run is of an attempt earlier than its last one from before the fix
(`NotBefore`), since the transcripts of earlier ones were written over. So what the
row of the last attempt is joined to is its own. `SpentOnce` and
`PassesKeepTheRecord` need the passes to be offline, as the module says they are
(`~Live`), from `InHand` (what a runner has in hand is not ledgered yet),
`Streaming` (a retrofit knows all that is in the ledger) and `Copied` (a stamp
holds all rows of the file it replaces).

`GradingProofs` proves all that `negative_control` checks, for any number of
runs, edits, kills, repairs and re-grades; that there is a run at all
(`Runs # {}`) is an assumption. `GradeIsOfTheSource` rests on the lemma `Grades`
(the overlay leaves a tree nothing of its own but source and tests) and on
`SourceInv`: between its grade and its row a run keeps the tree that was graded.
`RowTellsWhatTheModelDid`, from `OfTheModel`: a workspace differs from what the
runner put there only in what a model wrote, so a report against the canonical
files is one about the model, but for a suite that was repaired on the way.
`ControlsAreEarned`, from `ArmsInv` and `LiftedInv`: who is past an arm, or past
the gates, has seen the suite reject, and suites are never made worse.
`RegradesAreOfTheirRows`, from `Kept` (a row a sweep counts as done is not run
again, so nobody writes to its tree) and `RegradeInv` (what was graded is of a
suite between the one the re-grade began with and the one whose hash is in hand).

The loops the code runs over lists and files (the sums of the ledger, the series
of a log, the comprehensions of the judge) are recursive functions in the modules,
or the folds of the community modules.
What is proved of them goes by induction over a set of numbers: the lemma
`Induction`, from the library's theorem that a set of naturals has a least element.

Only model-checked: liveness, which the prover cannot do, like anything with
ENABLED: `EndedRunsDie`, `ShimsAreReleased`, `RunSettles` and the fairness half of
`BudgetSpec` in `brokered_run_live`. Every safety property a passing run checks is
proved; `CapBoundsWhatIsPaid` is refuted (`product_unread`). No module uses a RECURSIVE
operator.

## Not modelled

* The sandbox profile is a string whose meaning is the kernel's; the corpus guard
  is a question about inodes and mount points.
* Rendering, the result surface, intake, the cards and the prose are formatting
  of finished numbers; the intervals of `stats.py` are real arithmetic.
* Endpoint probes are one-shot calls of external services; the reasoning probe of
  the registry is one of them.
* The YAML subset, `check_comparable` (nothing in the runner calls it) and the
  derived wall clocks of the registry; `provenance.py`; the staged mirror of the
  tasks.
* The import gate is a static check. `run_id` is one string format: `Sweep` keeps
  that two cells may share one. The tasks are inputs of the instrument, and so are
  the broken solutions of the negative control.

## Plan

Done: all the parts above, their abstract specifications, and proofs of every
safety property of the runs. What would add most next: the staged mirror of the
tasks beside `Grading`; which assumption of each theorem the code could be made to
enforce (`OnePinPerPair`, `DisjointSweeps`); and `check_comparable`, once something
calls it.
