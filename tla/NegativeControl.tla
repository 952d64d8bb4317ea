--------------------------- MODULE NegativeControl ---------------------------
(***************************************************************************)
(* negative_control/: run_arms.py puts work that does not solve the task   *)
(* through the very functions a run is graded by, score.py counts the      *)
(* tasks whose suite let some of it pass, and, once such a suite is        *)
(* repaired, regrade_36.py grades again the rows it had graded, from the   *)
(* scratch trees, while sweeps and repairs go on.                          *)
(*                                                                         *)
(* One task.  Left out: the directories of the arms (each of its own),     *)
(* which test failed first, and the counts and hashes that are printed.    *)
(***************************************************************************)
EXTENDS Grading

VARIABLES
  arms,                 \* negative-control-28.jsonl
  apc, arm, passed,     \* run_arms: the arm, and what run_verify said of it
  cut,                  \* history: the last run_arms did not end by itself
  out,                  \* regrade-36.jsonl
  rpc, limit, baseline, broken, subjects, prov   \* regrade_36

armVars == <<arms, apc, arm, passed, cut>>
regradeVars == <<out, rpc, limit, baseline, broken, subjects, prov>>
vars == <<gradingVars, armVars, regradeVars>>

Exits == {"idle", "exit 0", "exit 1", "exit 3"}

(* Types.  Whatever is being graded again was found in results.jsonl.       *)
TypeOK ==
  /\ suite \in Suites /\ cur \in Runs /\ brokered \in BOOLEAN
  /\ why \subseteq KnownReasons
  /\ pc \in {"idle", "model", "tamper", "grade", "row"}
  /\ \A id \in Runs : scratch[id] = NoTree \/ scratch[id].of \in 1..spent.attempts
  /\ pc \notin {"idle"} => scratch[cur] # NoTree
  /\ \A i \in DOMAIN results : StatusClass(results[i].why) # "unclassified"
  /\ \A i \in DOMAIN results : results[i].pass => results[i].pass_raw = "pass"
  /\ apc \in {"idle", "grade", "again"} /\ arm \in {"empty", "broken"}
  /\ passed \in {"none", "pass", "fail"} /\ cut \in BOOLEAN
  /\ rpc \in Exits \cup {"gate broken", "gate solution", "provenance", "grade"}
  /\ limit \in {"none", "one", "gates"}
  /\ baseline \in 0..suite /\ prov \in 0..suite
  /\ subjects \in 0..Len(results) /\ Len(out) <= Len(results)
  /\ rpc = "grade" => Len(out) < subjects

Init ==
  /\ GradingInit
  /\ arms = <<>> /\ apc = "idle" /\ arm = "empty" /\ passed = "none" /\ cut = FALSE
  /\ out = <<>> /\ rpc = "idle" /\ limit = "none" /\ baseline = 0 /\ broken = "none"
  /\ subjects = 0 /\ prov = 0

-----------------------------------------------------------------------------
(* The arms.                                                                *)

With(src, v) == [TaskDir(v) EXCEPT !["src"] = src]

(* one: prepare_scratch, and apply_broken over it.                          *)
ArmTree(which, v) == With(IF which = "broken" THEN "linear" ELSE "base", v)

RunArms ==
  /\ apc = "idle"
  /\ Spend("arms")
  /\ apc' = "grade" /\ arm' = "empty" /\ cut' = FALSE
  /\ UNCHANGED <<suite, scratch, results, run, arms, passed, regradeVars>>

(* run_verify; its timeout is not caught.                                   *)
ArmGrade ==
  /\ apc = "grade"
  /\ \E verdict \in GradedRun(ArmTree(arm, suite), suite) :
       IF verdict = "timeout" THEN apc' = "idle" /\ cut' = TRUE /\ UNCHANGED passed
       ELSE apc' = "again" /\ passed' = verdict /\ UNCHANGED cut
  /\ UNCHANGED <<gradingVars, arms, arm, regradeVars>>

(* The second graded_run, for the tail of its output, and the row.          *)
ArmAgain ==
  /\ apc = "again"
  /\ \E verdict \in GradedRun(ArmTree(arm, suite), suite) :
       IF verdict = "timeout" THEN apc' = "idle" /\ cut' = TRUE /\ UNCHANGED <<arms, arm>>
       ELSE /\ arms' = Append(arms, [arm |-> arm, passed |-> passed, agrees |-> verdict = passed])
            /\ apc' = IF arm = "empty" THEN "grade" ELSE "idle"
            /\ arm' = "broken"
            /\ UNCHANGED cut
  /\ passed' = "none"
  /\ UNCHANGED <<gradingVars, regradeVars>>

ArmsKilled ==
  /\ apc # "idle"
  /\ apc' = "idle" /\ passed' = "none" /\ cut' = TRUE
  /\ UNCHANGED <<gradingVars, arms, arm, regradeVars>>

(* score.py: the tasks of which any row ever appended says "pass".          *)
Score == IF \E i \in DOMAIN arms : arms[i].passed = "pass" THEN 1 ELSE 0

Counted == IF arms # <<>> THEN 1 ELSE 0

-----------------------------------------------------------------------------
(* The re-grade.                                                            *)

Regrade ==
  /\ rpc \in Exits
  /\ Spend("regrades")
  /\ limit' \in {"none", "one", "gates"}
  /\ baseline' = suite
  /\ rpc' = "gate broken"
  /\ UNCHANGED <<suite, scratch, results, run, armVars, out, broken, subjects, prov>>

(* grade_one: what timed out, or never got as far as pytest, is no verdict. *)
GradeOne(tree, v) ==
  {IF g = "timeout" THEN "ungradable" ELSE g : g \in GradedRun(tree, v)}

GateBroken ==
  /\ rpc = "gate broken"
  /\ broken' \in GradeOne(With("linear", suite), suite)
  /\ rpc' = "gate solution"
  /\ UNCHANGED <<gradingVars, armVars, out, limit, baseline, subjects, prov>>

(* Mutant: what could not be graded was not accepted.                       *)
GatesHoldUngraded(b, s) == b # "pass" /\ s # "fail"

GatesHold(b, s) == b = "fail" /\ s = "pass"

(* With both gates held, the subjects are read and the output is emptied.   *)
GateSolution ==
  /\ rpc = "gate solution"
  /\ \E solution \in GradeOne(With("right", suite), suite) :
       IF ~GatesHold(broken, solution)
       THEN rpc' = "exit 1" /\ UNCHANGED <<out, subjects>>
       ELSE IF limit = "gates" THEN rpc' = "exit 0" /\ UNCHANGED <<out, subjects>>
       ELSE rpc' = "provenance" /\ out' = <<>> /\ subjects' = Len(results)
  /\ UNCHANGED <<gradingVars, armVars, limit, baseline, broken, prov>>

Todo == IF limit = "one" /\ subjects > 1 THEN 1 ELSE subjects

(* Mutant: the hashes are taken once, at the start.                         *)
ReadProvenanceOnce ==
  /\ rpc = "provenance" /\ Len(out) < Todo
  /\ prov' = baseline
  /\ rpc' = "grade"
  /\ UNCHANGED <<gradingVars, armVars, out, limit, baseline, broken, subjects>>

ReadProvenance ==
  /\ rpc = "provenance" /\ Len(out) < Todo
  /\ prov' = suite
  /\ rpc' = "grade"
  /\ UNCHANGED <<gradingVars, armVars, out, limit, baseline, broken, subjects>>

Class(verdict) ==
  CASE verdict = "ungradable" -> "U" [] verdict = "pass" -> "pass" [] OTHER -> "F"

RegradeRow ==
  /\ rpc = "grade"
  /\ LET i == Len(out) + 1
         w == scratch[results[i].id]
         tree == IF w = NoTree THEN <<>> ELSE w.tree
         grades == IF w = NoTree THEN {"ungradable"} ELSE GradeOne(w.tree, suite)
     IN \E verdict \in grades :
          out' = Append(out, [tree |-> tree, class |-> Class(verdict), by |-> suite,
                              sha |-> prov, matches |-> prov = baseline])
  /\ rpc' = "provenance"
  /\ UNCHANGED <<gradingVars, armVars, limit, baseline, broken, subjects, prov>>

ExitCode ==
  IF Len(out) # subjects THEN "exit 1"
  ELSE IF \E i \in DOMAIN out : out[i].class = "F" THEN "exit 3" ELSE "exit 0"

Finish ==
  /\ rpc = "provenance" /\ Len(out) = Todo
  /\ rpc' = ExitCode
  /\ UNCHANGED <<gradingVars, armVars, out, limit, baseline, broken, subjects, prov>>

RegradeKilled ==
  /\ rpc \notin Exits
  /\ rpc' = "idle"
  /\ UNCHANGED <<gradingVars, armVars, out, limit, baseline, broken, subjects, prov>>

-----------------------------------------------------------------------------
Next ==
  \/ GradingNext /\ UNCHANGED <<armVars, regradeVars>>
  \/ RunArms \/ ArmGrade \/ ArmAgain \/ ArmsKilled
  \/ Regrade \/ GateBroken \/ GateSolution \/ ReadProvenance \/ RegradeRow
  \/ Finish \/ RegradeKilled

Spec == Init /\ [][Next]_vars

-----------------------------------------------------------------------------
(* Safety.                                                                  *)

(* Score 0, of all the tasks, by a run_arms that ended by itself, means     *)
(* that the suite rejects work that does not solve the task.  A run_arms    *)
(* that is cut between its arms leaves the same score, and no "INCOMPLETE". *)
ZeroIsEarned ==
  Counted = 1 /\ Score = 0 /\ apc = "idle" /\ ~cut
    => \A src \in {"base", "linear"} : Verdict(suite, With(src, suite)) = "fail"

(* No row is lifted by a suite that was not shown to give both verdicts: of *)
(* the trees that are graded "pass" again, whenever the suite was repaired, *)
(* every one solves the task ("A run of 78 passes proves nothing until      *)
(* these two do").                                                          *)
LiftedRowsAreRight ==
  \A i \in DOMAIN out : out[i].class = "pass" => out[i].tree["src"] = "right"

(* The tree of a scored row is still the one its own attempt left when it   *)
(* is graded again: only a row that is not scored is run, and overwritten,  *)
(* once more.                                                               *)
ScoredRowsAreRegradedAsLeft ==
  \A i \in DOMAIN out :
    InDenominator(results[i].why) /\ out[i].tree # <<>> => out[i].tree = results[i].left.tree

(* A repair while the rows are graded is seen: the row that was in hand may *)
(* claim the suite it was not graded by, and no later row does.             *)
DriftShowsOnEveryLaterRow ==
  \A i, j \in DOMAIN out : i < j /\ out[j].matches => out[i].by = out[j].sha

(* Exit 0 is a disposition of every row there was, and of no failed one.    *)
ExitZeroLeavesNoneOut ==
  rpc = "exit 0" /\ limit # "gates" =>
    Len(out) = subjects /\ \A i \in DOMAIN out : out[i].class # "F"

(* A row tells what the model did, no more and no less: its tamper report   *)
(* and its count of changed lines are of the model's work, and neither is   *)
(* of the runner's own.  TypeOK: the grader, the control and the regrade    *)
(* each stay on trees that exist.                                           *)
RowTellsWhatTheModelDid == TypeOK /\ ReportIsOfTheModel /\ LocIsOfTheWork

(* The two instruments earn what they say of the suite: score 0 says it     *)
(* rejects, and a lifted row was accepted by a suite shown to do both.      *)
ControlsAreEarned == ZeroIsEarned /\ LiftedRowsAreRight

(* A regrade is of the rows it names: of the tree each scored row left, by  *)
(* the suite it claims (one row late at most), and of all of them when it   *)
(* exits 0.                                                                 *)
RegradesAreOfTheirRows ==
  /\ ScoredRowsAreRegradedAsLeft
  /\ DriftShowsOnEveryLaterRow
  /\ ExitZeroLeavesNoneOut
=============================================================================
