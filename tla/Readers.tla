------------------------------- MODULE Readers -------------------------------
(***************************************************************************)
(* The readers of the results: tables.py, stats.py, ladder_from_results.py,*)
(* effort_verdict.py, calibration_report.py and report_acceptance.py, over *)
(* the dispositions of corpus_gates.py and run_status.py.                  *)
(*                                                                         *)
(* The corpus grows a row at a time, judgments come in, and the turn cap N *)
(* of amendment A3 is registered and registered again; what each reader    *)
(* would publish is a function of that.  The probes are the rows of the    *)
(* other ladder, the one of probe_endpoints.py.                            *)
(*                                                                         *)
(* A cell of a table is the set of the positions of its rows.  A mean is   *)
(* kept as its sum and its count.  Left out: the wording, the invocation   *)
(* modes, sweep and --passing-only filters, the intervals of Wilson and    *)
(* Clopper and Pearson, the agreement of the judges and the power search.  *)
(***************************************************************************)
EXTENDS RunStatus, Sequences, SequencesExt, FiniteSetsExt, Combinatorics

CONSTANTS
  RowsOfRuns,      \* rows the runner may append
  JudgmentRows,    \* rows the judge may append
  ProbeRows,       \* rows the probe may append
  RecoveredInput,  \* recovered input tokens, by run_id
  Budgets          \* bounds: how many rows, judgments and probes of a tier there
                   \* may be, and the turn caps that may be registered

VARIABLES
  corpus,       \* results.jsonl
  judgments,    \* judgments.jsonl
  config,       \* defaults.turn_cap_n
  probes,       \* ladder-*.jsonl
  budget        \* history: what may still be appended and registered

readerVars == <<corpus, judgments, config, probes, budget>>

Unset == -1
Mistyped == -2      \* any YAML value that is not an integer
NoDriver == "none"

TIER_ORDER == <<"low", "medium", "high", "xhigh", "max", "ultra">>
Efforts == {TIER_ORDER[i] : i \in DOMAIN TIER_ORDER}
Order(effort) == CHOOSE i \in DOMAIN TIER_ORDER : TIER_ORDER[i] = effort

ResultRow ==
  [model : {"fable", "sol"}, effort : Efforts, harness : BOOLEAN, driver : STRING,
   task : STRING, rep : Nat, why : SUBSET (KnownReasons \ {"turn_cap"}), pass : BOOLEAN,
   turns : Nat \cup {Unset}, out : Nat, tin : Nat, truth : Nat, tin_status : STRING,
   acceptance : Nat \cup {Unset}, clean : BOOLEAN]

(* A row on file never carries turn_cap, which only a reader gives it.      *)
RowsTypeOK ==
  /\ \A i \in DOMAIN corpus :
       corpus[i] \in ResultRow /\ (corpus[i].pass => "cap_exhausted" \notin corpus[i].why)
  /\ judgments \in Seq(JudgmentRows)
  /\ config \in Nat \cup {Unset, Mistyped}
  /\ probes \in Seq(ProbeRows)

-----------------------------------------------------------------------------
(* The dispositions.                                                        *)

(* resolve_turn_cap_n without a flag.  A mistyped cap is a ValueError in    *)
(* every reader: nothing is published.                                      *)
Publishes == config # Mistyped

(* apply_turn_cap, at read time.  A row without turns is not capped.        *)
ApplyTurnCap(row) ==
  IF config # Unset /\ row.turns # Unset /\ row.turns > config
  THEN [row EXCEPT !.why = {"turn_cap"}] ELSE row

Row(i) == ApplyTurnCap(corpus[i])
All == DOMAIN corpus

Summarizable(row) == row.why = {"ok"}
TokensInUsable(row) == row.tin_status = "measured"
TokensInRecoverable(row) == row.tin_status = "recovered_in_ledger"

(* partition_for_rate; the denominator of every pass rate.                  *)
ScoredRows(I) == {i \in I : InDenominator(Row(i).why)}

(* token_rows; the rows a mean of output tokens may average.                *)
TokenRows(I) == {i \in I : Summarizable(Row(i))}

Passing(I) == {i \in I : Row(i).pass}

Out(i) == Row(i).out
SumOut(I) == SumFunction([i \in I |-> Out(i)])

Rate(I) == LET s == ScoredRows(I) IN [n |-> Cardinality(s), passes |-> Cardinality(Passing(s))]

Spend(I) == LET s == TokenRows(I) IN [n |-> Cardinality(s), sum |-> SumOut(s)]

(* multi_driver_models: an unknown driver counts as one more.               *)
Mixed(I) ==
  {m \in {Row(i).model : i \in I} :
     Cardinality({Row(i).driver : i \in {j \in I : Row(j).model = m}}) > 1}

(* model_key: split by driver only where a model has several.               *)
ModelKey(i, mixed) ==
  IF Row(i).model \in mixed /\ Row(i).driver # NoDriver
  THEN <<Row(i).model, Row(i).driver>> ELSE <<Row(i).model>>

Grouped(I, Key(_)) == {{j \in I : Key(j) = Key(i)} : i \in I}

-----------------------------------------------------------------------------
(* Quality, and the true input.                                             *)

RunId(row) == <<row.model, row.effort, row.harness, row.task, row.rep>>

(* Twice the mean over the judges that gave a score; the last judgment of a *)
(* run_id wins.                                                             *)
QualityByRun(run) ==
  LET found == {i \in DOMAIN judgments : judgments[i].run = run}
      j == judgments[Max(found)]
  IN IF found = {} \/ (j.claude = Unset /\ j.codex = Unset) THEN Unset
     ELSE IF j.claude = Unset THEN 2 * j.codex
     ELSE IF j.codex = Unset THEN 2 * j.claude ELSE j.claude + j.codex

(* Mutant: a judgment counts whether or not the run came to its end.        *)
QualityOfAllPassing(I) ==
  LET judged == {i \in Passing(I) : QualityByRun(RunId(Row(i))) # Unset}
  IN [n |-> Cardinality(judged),
      sum |-> SumFunction([i \in judged |-> QualityByRun(RunId(Row(i)))])]

Quality(I) ==
  LET judged == {i \in Passing(ScoredRows(I)) :
                   Summarizable(Row(i)) /\ QualityByRun(RunId(Row(i))) # Unset}
  IN [n |-> Cardinality(judged),
      sum |-> SumFunction([i \in judged |-> QualityByRun(RunId(Row(i)))])]

Recovered(row) ==
  IF RunId(row) \in DOMAIN RecoveredInput THEN RecoveredInput[RunId(row)] ELSE Unset

ResolveTokensIn(row) ==
  IF TokensInUsable(row) THEN row.tin
  ELSE IF TokensInRecoverable(row) THEN Recovered(row) ELSE Unset

(* What the writers of the files promise: rows are typed, one that passes   *)
(* was not cut off (ticket 34), and an input that is said to be measured or *)
(* recovered is the true one (LabelsAreTrue of Upkeep).                     *)
ASSUME ReadersAssumption ==
  /\ \A row \in RowsOfRuns :
       /\ row \in ResultRow /\ (row.pass => "cap_exhausted" \notin row.why)
       /\ TokensInUsable(row) => row.tin = row.truth
       /\ TokensInRecoverable(row) => Recovered(row) \in {row.truth, Unset}
  /\ \A row \in ProbeRows : row.effort \in Efforts /\ row.out \in Nat
  /\ \A b \in Budgets : b.caps \subseteq Nat \cup {Unset, Mistyped}

-----------------------------------------------------------------------------
(* tables.py                                                                *)

(* A table is of the rows R, which are all there are.                       *)
PerModel(I) == LET mixed == Mixed(I)
                   Key(i) == ModelKey(i, mixed)
               IN Grouped(I, Key)

Table1(R) ==
  LET mixed == Mixed(R)
      Key(i) == <<ModelKey(i, mixed), Row(i).effort>>
  IN {[rows |-> I, rate |-> Rate(I), quality |-> Quality(I)] : I \in Grouped(R, Key)}

Table2(R) == {[rows |-> l.rows, rate |-> l.rate, spend |-> Spend(l.rows)] : l \in Table1(R)}

(* A model neither of whose arms was measured has no line.                  *)
Table3(R) ==
  LET Arm(I, harness) == {i \in I : Row(i).harness = harness}
      models == {I \in PerModel(R) : Rate(I).n > 0}
  IN {[rows |-> I, bare |-> Rate(Arm(I, FALSE)), bare_spend |-> Spend(Arm(I, FALSE)),
       harness |-> Rate(Arm(I, TRUE)), harness_spend |-> Spend(Arm(I, TRUE))] : I \in models}

T3(R) == {i \in R : Row(i).task = "t3"}

Table4(R) == {[rows |-> I, rate |-> Rate(I), spend |-> Spend(I)] : I \in PerModel(T3(R))}

(* Two measured runs and one with a spend, or a footnote.                   *)
Table5(R) ==
  LET mixed == Mixed(R)
      Key(i) == <<ModelKey(i, mixed), Row(i).effort, Row(i).harness, Row(i).task>>
      Toks(I) == {Out(i) : i \in TokenRows(ScoredRows(I))}
  IN {[rows |-> I, passes |-> Rate(I).passes, least |-> Min(Toks(I)), most |-> Max(Toks(I))] :
        I \in {J \in Grouped(R, Key) : Rate(J).n >= 2 /\ Toks(J) # {}}}

(* Configurations are ordered by pass rate and then by mean spend.  One     *)
(* with no spend loses every tie, one with no measured run to every other.  *)
Score(rs) == [rate |-> Rate(rs), spend |-> Spend(ScoredRows(rs))]

Cheaper(a, b) == a.n > 0 /\ (b.n = 0 \/ a.sum * b.n < b.sum * a.n)

(* Mutant: nothing measured reads as a rate of 0, and no spend as 0 tokens. *)
BeatsOrZero(a, b) ==
  LET pa == IF a.rate.n = 0 THEN 0 ELSE a.rate.passes
      pb == IF b.rate.n = 0 THEN 0 ELSE b.rate.passes
      na == IF a.rate.n = 0 THEN 1 ELSE a.rate.n
      nb == IF b.rate.n = 0 THEN 1 ELSE b.rate.n
  IN \/ pa * nb > pb * na
     \/ pa * nb = pb * na /\ b.spend.n > 0 /\ (a.spend.n = 0 \/ Cheaper(a.spend, b.spend))

Beats(a, b) ==
  \/ a.rate.n > 0 /\ b.rate.n = 0
  \/ a.rate.n > 0 /\ b.rate.n > 0 /\ a.rate.passes * b.rate.n > b.rate.passes * a.rate.n
  \/ /\ a.rate.n > 0 /\ b.rate.n > 0 /\ a.rate.passes * b.rate.n = b.rate.passes * a.rate.n
     /\ Cheaper(a.spend, b.spend)

(* The configurations a model, a set of rows, was run in.                   *)
Configs(I) == LET Key(i) == <<Row(i).effort, Row(i).harness>> IN Grouped(I, Key)

(* The first configuration in the file that no other beats.                 *)
Best(configs) ==
  LET unbeaten == {I \in configs : \A J \in configs : ~Beats(Score(J), Score(I))}
  IN CHOOSE I \in unbeaten : \A J \in unbeaten : Min(I) <= Min(J)

Advice(I) ==
  LET rs == ScoredRows(Best(Configs(I)))
      resolved == {i \in rs : ResolveTokensIn(Row(i)) # Unset}
  IN [rows |-> I, rate |-> Rate(rs), spend |-> Spend(rs), quality |-> Quality(rs),
      input |-> [n |-> Cardinality(resolved),
                 sum |-> SumFunction([i \in resolved |-> ResolveTokensIn(Row(i))])]]

Table6(R) == {Advice(I) : I \in PerModel(R)}

-----------------------------------------------------------------------------
(* stats.py.  Its gate comes first: no section sees a row that is not       *)
(* scored, and section 6 none that was cut off.                             *)

Measured == ScoredRows(All)
WholeOnes == TokenRows(Measured)

Section1 ==
  LET mixed == Mixed(Measured)
      Key(i) == <<ModelKey(i, mixed), Row(i).effort, Row(i).harness>>
  IN {[rows |-> I, rate |-> [n |-> Cardinality(I), passes |-> Cardinality(Passing(I))]] :
        I \in Grouped(Measured, Key)}

Bare(I) == {i \in I : ~Row(i).harness}
Of(I, model) == {i \in I : Row(i).model = model}
At(I, effort) == {i \in I : Row(i).effort = effort}
EffortsIn(I) == {Row(i).effort : i \in I}

(* The highest rate, then the least mean spend, then the higher effort.     *)
BestEffort(I) ==
  LET N(e) == Cardinality(At(I, e))
      P(e) == Cardinality(Passing(At(I, e)))
      S(e) == SumOut(At(I, e))
      Better(e, f) == \/ P(e) * N(f) > P(f) * N(e)
                      \/ /\ P(e) * N(f) = P(f) * N(e)
                         /\ \/ S(e) * N(f) < S(f) * N(e)
                            \/ S(e) * N(f) = S(f) * N(e) /\ Order(e) > Order(f)
  IN CHOOSE e \in EffortsIn(I) : \A f \in EffortsIn(I) \ {e} : Better(e, f)

Match(i) == <<Row(i).task, Row(i).rep>>
LastAt(I, k) == Max({i \in I : Match(i) = k})

BuildPairs(A, B) ==
  [k \in {Match(i) : i \in A} \cap {Match(i) : i \in B} |->
     <<Row(LastAt(A, k)).pass, Row(LastAt(B, k)).pass>>]

CellsOf(I) ==
  [m \in {"fable", "sol"} |->
     LET rows == Of(Bare(I), m) IN IF rows = {} THEN "none" ELSE BestEffort(rows)]

(* Section 2: each model at its best effort.                                *)
HeadToHead ==
  LET e == CellsOf(Measured)
  IN IF \E m \in DOMAIN e : e[m] = "none" THEN {}
     ELSE {BuildPairs(At(Of(Bare(Measured), "fable"), e["fable"]),
                      At(Of(Bare(Measured), "sol"), e["sol"]))}

(* Section 3: adjacent efforts of a model.                                  *)
EffortRungs ==
  LET At2(m, e) == At(Of(Bare(Measured), m), e)
      Next2(m, lo, hi) == /\ Order(lo) < Order(hi)
                          /\ \A e \in EffortsIn(Of(Bare(Measured), m)) :
                               Order(e) <= Order(lo) \/ Order(e) >= Order(hi)
  IN UNION {{BuildPairs(At2(m, p[2]), At2(m, p[1])) :
               p \in {q \in EffortsIn(Of(Bare(Measured), m)) \X EffortsIn(Of(Bare(Measured), m)) :
                        Next2(m, q[1], q[2])}} : m \in {"fable", "sol"}}

(* Section 4: bare and harnessed runs of a model at its best effort of those*)
(* both have.                                                               *)
HarnessPairs ==
  LET rows(m) == Of(Measured, m)
      bare(m) == Bare(rows(m))
      harnessed(m) == rows(m) \ bare(m)
      common(m) == EffortsIn(bare(m)) \cap EffortsIn(harnessed(m))
      effort(m) == IF common(m) = {} THEN BestEffort(bare(m))
                   ELSE BestEffort({i \in rows(m) : Row(i).effort \in common(m)})
  IN {BuildPairs(At(bare(m), effort(m)), At(harnessed(m), effort(m))) :
        m \in {n \in {"fable", "sol"} : bare(n) # {} /\ harnessed(n) # {}}}

(* Mutant: the tail is counted once.                                        *)
McNemarOneSided(b, c) ==
  LET m == IF b < c THEN b ELSE c
  IN MapThenSumSet(LAMBDA i : choose(b + c, i), 0..m)

(* Twice the binomial tail at 1/2, at most 1, as a share of 2^(b+c).        *)
McNemarExact(b, c) ==
  LET n == b + c
      m == IF b < c THEN b ELSE c
      tail == MapThenSumSet(LAMBDA i : choose(n, i), 0..m)
  IN IF 2 * tail > 2^n THEN 2^n ELSE 2 * tail

Discordant(pairs, who) == Cardinality({k \in DOMAIN pairs : pairs[k] = who})

(* A difference of logarithms is kept as the pair it is the quotient of:    *)
(* the sign patterns at least as extreme as the observed one.               *)
Product(S, f(_)) == FoldSet(LAMBDA x, p : f(x) * p, 1, S)

SignFlip(diffs) ==
  LET T == DOMAIN diffs
      Up(F) == Product(T, LAMBDA t : IF t \in F THEN diffs[t][2] ELSE diffs[t][1])
      Down(F) == Product(T, LAMBDA t : IF t \in F THEN diffs[t][1] ELSE diffs[t][2])
      High(F) == Max({Up(F), Down(F)})
      Low(F) == Min({Up(F), Down(F)})
  IN Cardinality({F \in SUBSET T : High(F) * Low({}) >= High({}) * Low(F)})

(* The median of log tokens, as the product of the two middle values; a run *)
(* of 0 tokens has the logarithm 0.                                         *)
MedianLog(I) ==
  LET s == SetToSortSeq(I, LAMBDA i, j : Out(i) < Out(j) \/ (Out(i) = Out(j) /\ i < j))
      LogTok(i) == IF Out(i) = 0 THEN 1 ELSE Out(i)
  IN LogTok(s[(Len(s) + 1) \div 2]) * LogTok(s[(Len(s) + 2) \div 2])

TaskCostDiffs(A, B) ==
  LET OnTask(I, t) == {i \in Passing(I) : Row(i).task = t}
      Tasks(I) == {Row(i).task : i \in Passing(I)}
  IN [t \in Tasks(A) \cap Tasks(B) |-> <<MedianLog(OnTask(A, t)), MedianLog(OnTask(B, t))>>]

(* Sections 5, 6a and 6b.                                                   *)
Section5 == TaskCostDiffs(Of(Measured, "fable"), Of(Measured, "sol"))

Section6a ==
  LET e == CellsOf(WholeOnes)
  IN TaskCostDiffs(At(Of(Bare(WholeOnes), "fable"), e["fable"]),
                   At(Of(Bare(WholeOnes), "sol"), e["sol"]))

Section6b ==
  LET Side(m) == Of(Bare(WholeOnes), m)
  IN [e \in EffortsIn(Side("fable")) \cap EffortsIn(Side("sol")) |->
        TaskCostDiffs(At(Side("fable"), e), At(Side("sol"), e))]

-----------------------------------------------------------------------------
(* effort_verdict.py and ladder_from_results.py                             *)

(* The samples of a tier are kept by the rows they are of, and the tiers by *)
(* their effort.  Means are in twelfths, and coefficients of variation in   *)
(* twentieths, rounded down.                                                *)
Count(f) == Cardinality(DOMAIN f)
Total(f) == SumFunction(f)
Mean(f) == (12 * Total(f)) \div Count(f)

Cv(f) ==
  LET squares == Total([x \in DOMAIN f |-> f[x] * f[x]])
  IN IF Count(f) < 2 \/ Total(f) = 0 THEN 0
     ELSE CHOOSE p \in 0..(20 * Count(f)) :
            /\ p * p * Total(f) * Total(f) <= 400 * (Count(f) * squares - Total(f) * Total(f))
            /\ (p + 1) * (p + 1) * Total(f) * Total(f)
                 > 400 * (Count(f) * squares - Total(f) * Total(f))

Lowest(efforts) == CHOOSE e \in efforts : \A f \in efforts : Order(e) <= Order(f)
Highest(efforts) == CHOOSE e \in efforts : \A f \in efforts : Order(f) <= Order(e)
Above(efforts, e) == {f \in efforts : Order(e) < Order(f)}

(* Steps that do not go down by more than a twentieth.                      *)
Ups(vals) ==
  LET efforts == DOMAIN vals
  IN Cardinality({e \in efforts :
       Above(efforts, e) # {} /\ 20 * vals[Lowest(Above(efforts, e))] >= 19 * vals[e]})

IsNoop(vals) == 10 * Max(Range(vals)) < 12 * Min(Range(vals))
IsSteep(vals) == 10 * Max(Range(vals)) >= 15 * Min(Range(vals))
IsMonotone(vals) == 10 * Ups(vals) >= 6 * (Count(vals) - 1)
RunsBackwards(vals) ==
  LET first == vals[Lowest(DOMAIN vals)]
  IN first > 0 /\ 20 * vals[Highest(DOMAIN vals)] <= 19 * first

(* The variation between the tiers is at least twice that within them.      *)
BeatsNoise(tiers, vals) ==
  LET repeated == {e \in DOMAIN tiers : Count(tiers[e]) >= 2}
      within == Total([e \in repeated |-> Cv(tiers[e])])
  IN Cv(vals) * Cardinality(repeated) >= 2 * within

Unreplicated(tiers) == \E e \in DOMAIN tiers : Count(tiers[e]) < 2

Classify(tiers) ==
  LET vals == [e \in DOMAIN tiers |-> Mean(tiers[e])]
  IN CASE Count(tiers) < 2 -> "INSUFFICIENT"
       [] Count(tiers) >= 2 /\ Unreplicated(tiers) -> "UNREPLICATED"
       [] OTHER -> IF IsNoop(vals) THEN "NO-OP"
                   ELSE IF IsSteep(vals) /\ IsMonotone(vals) /\ BeatsNoise(tiers, vals)
                        THEN "REAL"
                   ELSE IF RunsBackwards(vals) THEN "BACKWARDS" ELSE "AMBIGUOUS"

PreSplitVerdict(verdict) == IF verdict = "BACKWARDS" THEN "AMBIGUOUS" ELSE verdict

(* load_rows: what either axis can use.                                     *)
LoadRows(model) ==
  {i \in Of(All, model) : Summarizable(Row(i)) \/ InDenominator(Row(i).why)}

(* Mutant: the ladder is measured over the rows as they were loaded.        *)
TiersForLoaded(I) == [e \in EffortsIn(I) |-> [i \in At(I, e) |-> Out(i)]]

(* The tiers that have samples; the token gate is here.                     *)
TiersFor(I) ==
  LET kept == TokenRows(I) IN [e \in EffortsIn(kept) |-> [i \in At(kept, e) |-> Out(i)]]

(* One block per task, and per driver of a model that has several.          *)
BlocksFor(model) ==
  LET rows == LoadRows(model)
      mixed == Mixed(rows)
      Key(i) == <<Row(i).task>> \o Tail(ModelKey(i, mixed))
  IN Grouped(rows, Key)

ReportBlock(I) == [rows |-> I, rate |-> Rate(I), spend |-> Spend(I)]

(* What is printed beside the pass rate.                                    *)
AcceptanceSummary(I) ==
  LET s == ScoredRows(I)
      values == {Row(i).acceptance : i \in s} \ {Unset}
  IN [n |-> Cardinality(s),
      most |-> IF values = {} THEN Unset ELSE Max(values),
      distribution |-> {<<v, Cardinality({i \in s : Row(i).acceptance = v})>> : v \in values},
      none |-> Cardinality({i \in s : Row(i).acceptance = Unset}),
      exhausted |-> Cardinality({i \in s : Row(i).why = {"cap_exhausted"}})]

(* The ladder of the probe: calls that were answered, with a usage block.   *)
UsageBlockEmpty(row) == row.tin = 0 /\ row.out = 0

ProbeTiers ==
  LET kept == {i \in DOMAIN probes : probes[i].reachable /\ ~UsageBlockEmpty(probes[i])}
  IN [e \in {probes[i].effort : i \in kept} |->
        [i \in {j \in kept : probes[j].effort = e} |-> probes[i].out]]

-----------------------------------------------------------------------------
(* calibration_report.py reads the file as it is, without the turn cap.     *)

Calibrated(I) ==
  [verified |-> \A i \in I : corpus[i].clean /\ Summarizable(corpus[i]),
   n |-> Cardinality(I), passes |-> Cardinality({i \in I : corpus[i].pass})]

-----------------------------------------------------------------------------
ReadersInit ==
  /\ corpus = <<>> /\ judgments = <<>> /\ config = Unset /\ probes = <<>>
  /\ budget \in Budgets

RowComes ==
  /\ Len(corpus) < budget.rows
  /\ \E row \in RowsOfRuns : corpus' = Append(corpus, row)
  /\ UNCHANGED <<judgments, config, probes, budget>>

JudgmentComes ==
  /\ Len(judgments) < budget.judgments
  /\ \E j \in JudgmentRows : judgments' = Append(judgments, j)
  /\ UNCHANGED <<corpus, config, probes, budget>>

(* N is edited in the config; no row is touched.                            *)
Register ==
  /\ config' \in budget.caps
  /\ UNCHANGED <<corpus, judgments, probes, budget>>

(* The probe goes up the tiers of a model, and asks each several times.     *)
ProbeComes ==
  \E row \in ProbeRows :
    /\ \A i \in DOMAIN probes : Order(probes[i].effort) <= Order(row.effort)
    /\ Cardinality({i \in DOMAIN probes : probes[i].effort = row.effort}) < budget.probes
    /\ probes' = Append(probes, row)
    /\ UNCHANGED <<corpus, judgments, config, budget>>

ReadersNext == RowComes \/ JudgmentComes \/ Register \/ ProbeComes

ReadersSpec == ReadersInit /\ [][ReadersNext]_readerVars

-----------------------------------------------------------------------------
(* Properties.                                                              *)

OfModel(T, m) == {l \in T : \E i \in l.rows : Row(i).model = m}

Totals(T) == [n |-> SumFunction([l \in T |-> l.rate.n]),
              passes |-> SumFunction([l \in T |-> l.rate.passes])]

(* One corpus, one pass rate: every reader counts the same runs of a model, *)
(* and the same of them as passing, however it cuts the corpus into cells   *)
(* and drivers (issue 12 d: five tables once took every row of the cell     *)
(* while table 1 took the scored ones).                                     *)
OneDenominator ==
  Publishes =>
    LET table1 == Table1(All)
        table3 == Table3(All)
        section1 == Section1
        arms == {[rows |-> l.rows, arm |-> "bare", rate |-> l.bare] : l \in table3}
                \cup {[rows |-> l.rows, arm |-> "harness", rate |-> l.harness] : l \in table3}
    IN \A m \in {"fable", "sol"} :
         LET truth == Rate(Of(All, m))
             beside == AcceptanceSummary(LoadRows(m))
         IN /\ Totals(OfModel(table1, m)) = truth
            /\ Totals(OfModel(arms, m)) = truth
            /\ Totals(OfModel(section1, m)) = truth
            /\ Totals({ReportBlock(I) : I \in BlocksFor(m)}) = truth
            /\ beside.n = truth.n
            /\ beside.none + SumFunction([v \in beside.distribution |-> v[2]]) = truth.n

(* One corpus, one spend: the ladder of the tasks and table 2 average the   *)
(* same output tokens of a tier, and neither those of a run that was cut    *)
(* off (tables 2 to 6 and the ladder once published 752 and 1000 for one    *)
(* corpus).                                                                 *)
OneSpend ==
  Publishes =>
    LET table2 == Table2(All)
    IN \A m \in {"fable", "sol"} :
         LET blocks == BlocksFor(m)
             Sampled(I, e) == LET tiers == TiersFor(I)
                              IN IF e \in DOMAIN tiers THEN Total(tiers[e]) ELSE 0
         IN \A e \in EffortsIn(All) :
              LET lines == {l \in OfModel(table2, m) : EffortsIn(l.rows) = {e}}
              IN SumFunction([I \in blocks |-> Sampled(I, e)])
                   = SumFunction([l \in lines |-> l.spend.sum])

(* Two drivers are two populations (issue 25): no cell of table 1, table 4, *)
(* section 1 or the ladder has measured runs of two, an unknown one counted *)
(* as one of them.                                                          *)
DriversApart ==
  Publishes =>
    \A I \in PerModel(All) \cup PerModel(T3(All)) \cup PerModel(Measured)
               \cup BlocksFor("fable") \cup BlocksFor("sol") :
      Cardinality({Row(i).driver : i \in ScoredRows(I)}) <= 1

(* Absence is no evidence (issues 31 and 41): the configuration table 6     *)
(* advises was measured if any was, and of two with one rate it is not the  *)
(* one whose spend nobody knows.                                            *)
MeasuredConfigWins ==
  Publishes =>
    \A won \in Table6(All) : \A I \in Configs(won.rows) :
      LET other == Score(I)
      IN /\ other.rate.n > 0 => won.rate.n > 0
         /\ /\ other.rate.n > 0 /\ other.spend.n > 0
            /\ other.rate.passes * won.rate.n = won.rate.passes * other.rate.n
            => won.spend.n > 0

(* The input column of table 6 is a mean of true, cache-inclusive inputs,   *)
(* whatever the row itself says (ticket 31 AC 3).                           *)
InputIsTrue ==
  Publishes =>
    \A won \in Table6(All) :
      \E I \in SUBSET won.rows :
        /\ Cardinality(I) = won.input.n
        /\ SumFunction([i \in I |-> Row(i).truth]) = won.input.sum

(* The verdicts before ticket 42 split the direction off.                   *)
ClassifyBefore(tiers) ==
  LET vals == [e \in DOMAIN tiers |-> Mean(tiers[e])]
  IN IF Count(tiers) < 2 THEN "INSUFFICIENT"
     ELSE IF Unreplicated(tiers) THEN "UNREPLICATED"
     ELSE IF IsNoop(vals) THEN "NO-OP"
     ELSE IF IsSteep(vals) /\ IsMonotone(vals) /\ BeatsNoise(tiers, vals) THEN "REAL"
     ELSE "AMBIGUOUS"

(* BACKWARDS is carved out of AMBIGUOUS and nothing else (ticket 42): no    *)
(* ladder that was REAL or a NO-OP has moved, and one that is called        *)
(* backwards ends lower than it began.                                      *)
CarvedOutOfAmbiguous ==
  LET tiers == ProbeTiers
      verdict == Classify(tiers)
  IN /\ PreSplitVerdict(verdict) = ClassifyBefore(tiers)
     /\ verdict = "BACKWARDS" =>
          Mean(tiers[Highest(DOMAIN tiers)]) < Mean(tiers[Lowest(DOMAIN tiers)])

(* Two exact tests, one null: McNemar's, a closed form over the discordant  *)
(* pairs, counts what the sign-flip test of sections 5 and 6 enumerates     *)
(* when every discordant pair is a difference of one; also with one more of *)
(* each.                                                                    *)
McNemarIsASignFlip ==
  Publishes =>
    \A pairs \in HeadToHead \cup EffortRungs \cup HarnessPairs, x \in 0..1, y \in 0..1 :
      LET b == x + Discordant(pairs, <<TRUE, FALSE>>)
          c == y + Discordant(pairs, <<FALSE, TRUE>>)
      IN b + c > 0 =>
           McNemarExact(b, c) = SignFlip([i \in 1..(b + c) |-> IF i <= b THEN <<2, 1>> ELSE <<1, 2>>])

(* On a corpus of one effort per model and no harness the pooled cost test, *)
(* the one at the winning cell and the one tier for tier are one test: they *)
(* read the same runs though section 5 is not behind the token gate.        *)
OneCellOneTest ==
  LET one(m) == Cardinality(EffortsIn(Of(Measured, m))) = 1
  IN /\ Publishes
     /\ one("fable") /\ one("sol") /\ Bare(Measured) = Measured
     /\ \A m \in {"fable", "sol"} : Of(WholeOnes, m) # {}
     => /\ Section6a = Section5
        /\ \A e \in DOMAIN Section6b : Section6b[e] = Section5

(* A calibration that reports its grade as verified has the pass rate of    *)
(* the estimand though it divides by every row; with a turn cap it may not. *)
VerifiedGradeIsTheRate ==
  LET grade == Calibrated(All)
  IN config = Unset /\ grade.verified =>
       [n |-> grade.n, passes |-> grade.passes] = Rate(All)

(* What a table says of the measured runs.                                  *)
About(T) == {[l EXCEPT !.rows = @ \cap Measured] : l \in {k \in T : k.rows \cap Measured # {}}}

Published(R) ==
  << About(Table1(R)), About(Table2(R)), About(Table3(R)), About(Table4(R)), About(Table5(R)) >>

(* A run that is no measurement of the model, a timeout, a fault of the     *)
(* stack or a session over the cap, moves no published number: not a rate,  *)
(* not a spend, not a quality (ticket 34: a judged run that had not ended   *)
(* cleanly was averaged into the published one), and not the score of the   *)
(* configuration advised.  It may split a model's name by a driver nobody   *)
(* measured, and it may decide which of two configurations that tie in both *)
(* rate and spend is named: the one whose first row, void or not, is first. *)
VoidRowsMoveNothing ==
  Publishes =>
    /\ Published(All) = Published(Measured)
    /\ \A l \in About(Table6(All)) :
         \E k \in About(Table6(Measured)) :
           k.rows = l.rows /\ ~Beats(k, l) /\ ~Beats(l, k)

(* One corpus, one truth: whichever reader is asked, the same runs of the   *)
(* same population were counted, the same tokens averaged, and a            *)
(* calibration that calls itself verified agrees.  RowsTypeOK: no reader    *)
(* has written to the corpus.                                               *)
OneTruth ==
  /\ RowsTypeOK
  /\ OneDenominator /\ OneSpend /\ DriversApart
  /\ VerifiedGradeIsTheRate

(* The row of advice of table 6 rests on runs that were measured, and its   *)
(* input on tokens that were.                                               *)
AdviceIsMeasured == MeasuredConfigWins /\ InputIsTrue

(* Conclusions drawn in two ways are one: the verdict on a ladder before    *)
(* and after ticket 42, the two exact tests, and the three cuts of the cost *)
(* test.                                                                    *)
ConclusionsAgree == CarvedOutOfAmbiguous /\ McNemarIsASignFlip /\ OneCellOneTest
=============================================================================
