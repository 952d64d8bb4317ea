---------------------------- MODULE GradingProofs ----------------------------
(***************************************************************************)
(* Proofs about Grading and NegativeControl: grades depend on the source   *)
(* and the suite alone, and what the two instruments earn, for any number  *)
(* of runs, attempts, edits, repairs, kills and re-grades.                 *)
(***************************************************************************)
EXTENDS NegativeControl, TLAPS

(* Nothing is said of what a sequence holds.                                *)
IsASeq(s) == \E S : s \in Seq(S)

LEMMA Appended ==
  ASSUME NEW s, IsASeq(s), NEW e
  PROVE  /\ IsASeq(Append(s, e)) /\ Len(s) \in Nat /\ DOMAIN s = 1..Len(s)
         /\ Len(Append(s, e)) = Len(s) + 1 /\ DOMAIN Append(s, e) = 1..(Len(s) + 1)
         /\ \A i \in 1..Len(s) : Append(s, e)[i] = s[i]
         /\ Append(s, e)[Len(s) + 1] = e
<1>1. PICK S : s \in Seq(S)
  BY DEF IsASeq
<1> DEFINE T == S \cup {e}
<1>2. s \in Seq(T) /\ e \in T
  BY <1>1
<1> HIDE DEF T
<1>3. Append(s, e) \in Seq(T)
  BY <1>2
<1> QED
  BY <1>2, <1>3 DEF IsASeq

LEMMA EmptySeq == IsASeq(<<>>)
<1>1. <<>> \in Seq({})
  OBVIOUS
<1> QED
  BY <1>1 DEF IsASeq

-----------------------------------------------------------------------------
LEMMA GradedValues ==
  /\ \A u \in Suites : Graded(u) \in {"suite 1", "suite 2", "suite 3"}
  /\ \A u, v \in Suites : Graded(u) = Graded(v) => u = v
<1> DEFINE t == <<"suite 1", "suite 2", "suite 3">>
<1>1. t[1] = "suite 1" /\ t[2] = "suite 2" /\ t[3] = "suite 3"
  OBVIOUS
<1>2. \A u \in Suites : u = 1 \/ u = 2 \/ u = 3
  BY DEF Suites
<1>3. \A u \in Suites : Graded(u) = t[u]
  BY DEF Graded
<1> HIDE DEF t
<1>4. ASSUME NEW u \in Suites PROVE t[u] \in {"suite 1", "suite 2", "suite 3"}
  BY <1>1, <1>2
<1>5. ASSUME NEW u \in Suites, NEW v \in Suites, t[u] = t[v] PROVE u = v
  <2>1. CASE u = 1
    BY <1>1, <1>2, <1>5, <2>1
  <2>2. CASE u = 2
    BY <1>1, <1>2, <1>5, <2>2
  <2>3. CASE u = 3
    BY <1>1, <1>2, <1>5, <2>3
  <2> QED
    BY <1>2, <2>1, <2>2, <2>3
<1> QED
  BY <1>3, <1>4, <1>5

(* Whatever is at the other paths of a tree, the grading tree is graded as  *)
(* the task's suite grades the source: the overlay leaves the model nothing *)
(* but its source and tests of its own.                                     *)
LEMMA Grades ==
  ASSUME NEW v \in Suites, NEW tree
  PROVE  VerifySh(GradingTree(tree, v)) = {Verdict(v, tree)}
<1> DEFINE g == GradingTree(tree, v)
<1>1. /\ TaskDir(v)["verify.sh"] = "canonical" /\ TaskDir(v)["tests/test"] = Graded(v)
      /\ TaskDir(v)["tests/own"] = "absent" /\ TaskDir(v)["conftest.py"] = "absent"
      /\ TaskDir(v)["lock"] = "absent"
  BY DEF TaskDir, Paths
<1>2. Graded(v) # "absent" /\ \A u \in Suites : Graded(u) = Graded(v) => u = v
  BY GradedValues
<1>3. /\ DOMAIN CanonicalGradingFiles(v) = {"verify.sh", "tests/test"}
      /\ CanonicalGradingFiles(v)["verify.sh"] = "canonical"
      /\ CanonicalGradingFiles(v)["tests/test"] = Graded(v)
  BY <1>1, <1>2 DEF CanonicalGradingFiles, Apparatus, GRADED_TEST_DIRS
<1>4. /\ g["verify.sh"] = "canonical" /\ g["tests/test"] = Graded(v)
      /\ g["conftest.py"] = "absent" /\ g["lock"] = "absent" /\ g[".venv"] = "absent"
      /\ g["src"] = tree["src"] /\ g["tests/own"] = tree["tests/own"]
  BY <1>3 DEF GradingTree, Paths, NOT_GRADED_DIRS, Apparatus
<1> HIDE DEF g
<1>5. Verdict(v, g) = Verdict(v, tree)
  BY <1>4 DEF Verdict
<1>6. VerifySh(g) = {Verdict(u, g) : u \in {w \in Suites : g["tests/test"] = Graded(w)}}
  BY <1>4 DEF VerifySh
<1>7. {w \in Suites : g["tests/test"] = Graded(w)} = {v}
  BY <1>2, <1>4
<1> QED
  BY <1>5, <1>6, <1>7 DEF g

(* A verdict that is no timeout is the suite's on the source.               *)
LEMMA GradedRunIs ==
  ASSUME NEW v \in Suites, NEW tree, NEW says \in GradedRun(tree, v)
  PROVE  says = "timeout" \/ (says = Verdict(v, tree) /\ says \in {"pass", "fail"})
BY Grades DEF GradedRun, Verdict

-----------------------------------------------------------------------------
(***************************************************************************)
(* Between its grade and its row a run keeps the tree that was graded:     *)
(* whoever writes to a scratch tree is the model of the run under way, and *)
(* who cleans up leaves that tree alone.                                   *)
(***************************************************************************)
Placed ==
  /\ suite \in Suites /\ budget \in Budgets
  /\ IsASeq(results)
  /\ scratch = [id \in Runs |-> scratch[id]]
  /\ pc \in {"idle", "model", "tamper", "grade", "row"}
  /\ pc # "idle" => cur \in Runs

SourceInv ==
  /\ pc = "idle" => told = NoTold
  /\ pc # "row" => raw = NoVerdict
  /\ raw[1] # "none" => raw[1] = Verdict(raw[2], scratch[cur].tree)
  /\ told.says \notin {"nothing", "timeout"} => told.says = Verdict(told.by, told.of)
  /\ GradeIsOfTheSource

(* What the instruments do, they do beside the runs.                        *)
Instruments ==
  RunArms \/ ArmGrade \/ ArmAgain \/ ArmsKilled \/ Regrade \/ GateBroken \/ GateSolution
    \/ ReadProvenance \/ RegradeRow \/ Finish \/ RegradeKilled

LEMMA Beside ==
  ASSUME Instruments \/ UNCHANGED vars
  PROVE  UNCHANGED <<suite, scratch, results, run, budget>>
BY DEF Instruments, RunArms, ArmGrade, ArmAgain, ArmsKilled, Regrade, GateBroken, GateSolution,
       ReadProvenance, RegradeRow, Finish, RegradeKilled, vars, gradingVars, Spend

LEMMA NextPlaced == Placed /\ [Next]_vars => Placed'
<1> SUFFICES ASSUME Placed, [Next]_vars PROVE Placed'
  OBVIOUS
<1> USE DEF Placed
<1>1. CASE Repair
  <2>1. budget.last \in 1..3
    BY GradingAssumption DEF Suites
  <2>2. suite' \in Suites
    BY <1>1, <2>1 DEF Repair, Suites
  <2> QED
    BY <1>1, <2>2 DEF Repair, run
<1>2. ASSUME NEW id \in Runs, PrepareScratch(id) PROVE Placed'
  BY <1>2 DEF PrepareScratch, Spend
<1>3. ASSUME NEW id \in Runs, Cleaned(id) PROVE Placed'
  BY <1>3 DEF Cleaned, run
<1>4. CASE Write \/ Commit \/ ApplyMock
  BY <1>4 DEF Write, Commit, ApplyMock, Spend, run
<1>5. CASE Look \/ Gone \/ Report \/ Grade \/ Killed
  BY <1>5 DEF Look, Gone, Report, Grade, Killed, Idle, Spend
<1>6. CASE AppendRow
  BY <1>6, Appended DEF AppendRow, Idle
<1>7. CASE Instruments \/ UNCHANGED vars
  BY <1>7, Beside DEF run
<1> QED
  BY <1>1, <1>2, <1>3, <1>4, <1>5, <1>6, <1>7 DEF Next, GradingNext, Instruments

LEMMA NextSource == Placed /\ SourceInv /\ [Next]_vars => SourceInv'
<1> SUFFICES ASSUME Placed, SourceInv, [Next]_vars PROVE SourceInv'
  OBVIOUS
<1> USE DEF Placed, SourceInv
<1>1. CASE Repair \/ Instruments \/ UNCHANGED vars
  <2>1. UNCHANGED <<scratch, results, run>>
    BY <1>1, Beside DEF Repair
  <2> QED
    BY <2>1 DEF run, GradeIsOfTheSource
<1>2. ASSUME NEW id \in Runs, PrepareScratch(id) PROVE SourceInv'
  BY <1>2 DEF PrepareScratch, GradeIsOfTheSource, NoVerdict, NoTold
<1>3. ASSUME NEW id \in Runs, Cleaned(id) PROVE SourceInv'
  <2>1. UNCHANGED <<results, run>>
    BY <1>3 DEF Cleaned
  <2>2. pc # "idle" => scratch'[cur] = scratch[cur]
    BY <1>3 DEF Cleaned
  <2> QED
    BY <2>1, <2>2 DEF run, GradeIsOfTheSource, NoVerdict
<1>4. CASE Write \/ Commit \/ ApplyMock \/ Gone \/ Report
  <2>1. UNCHANGED <<results, told, raw>> /\ pc # "row" /\ pc # "idle" /\ pc' # "idle" /\ pc' # "row"
    BY <1>4 DEF Write, Commit, ApplyMock, Gone, Report, run
  <2> QED
    BY <2>1 DEF GradeIsOfTheSource, NoVerdict
<1>5. CASE Look
  <2>1. PICK says \in GradedRun(scratch[cur].tree, suite) :
          told' = [says |-> says, of |-> scratch[cur].tree, by |-> suite]
    BY <1>5 DEF Look
  <2>2. told'.says \notin {"nothing", "timeout"} => told'.says = Verdict(told'.by, told'.of)
    BY <2>1, GradedRunIs
  <2> QED
    BY <1>5, <2>2 DEF Look, GradeIsOfTheSource, NoVerdict
<1>6. CASE Grade
  <2>1. PICK verdict \in GradedRun(scratch[cur].tree, suite) :
          raw' = IF verdict = "timeout" THEN NoVerdict ELSE <<verdict, suite>>
    BY <1>6 DEF Grade
  <2>2. raw'[1] # "none" => raw'[1] = Verdict(raw'[2], scratch[cur].tree)
    BY <2>1, GradedRunIs DEF NoVerdict
  <2> QED
    BY <1>6, <2>2 DEF Grade, GradeIsOfTheSource
<1>7. CASE AppendRow
  <2>1. results' = Append(results, Row)
    BY <1>7 DEF AppendRow
  <2>2. /\ DOMAIN results' = 1..(Len(results) + 1) /\ DOMAIN results = 1..Len(results)
        /\ Len(results) \in Nat
        /\ \A i \in 1..Len(results) : results'[i] = results[i]
        /\ results'[Len(results) + 1] = Row
    BY <2>1, Appended
  <2>3. /\ Row.pass_raw = raw[1] /\ Row.by = raw[2] /\ Row.left = scratch[cur]
        /\ Row.told = told
    BY DEF Row
  <2>4. GradeIsOfTheSource'
    BY <2>2, <2>3 DEF GradeIsOfTheSource
  <2> QED
    BY <1>7, <2>4 DEF AppendRow, Idle, NoVerdict, NoTold
<1>8. CASE Killed
  BY <1>8 DEF Killed, Idle, NoVerdict, NoTold, GradeIsOfTheSource
<1> QED
  BY <1>1, <1>2, <1>3, <1>4, <1>5, <1>6, <1>7, <1>8 DEF Next, GradingNext, Instruments

LEMMA InitPlaced == Init => Placed /\ SourceInv
<1> SUFFICES ASSUME Init PROVE Placed /\ SourceInv
  OBVIOUS
<1>1. budget \in Budgets /\ suite = budget.first /\ results = <<>>
  BY DEF Init, GradingInit
<1>2. suite \in Suites
  BY <1>1, GradingAssumption
<1>3. Placed
  BY <1>1, <1>2, EmptySeq DEF Init, GradingInit, Placed
<1>4. GradeIsOfTheSource
  BY <1>1 DEF GradeIsOfTheSource
<1> QED
  BY <1>3, <1>4 DEF SourceInv, Init, GradingInit, NoVerdict, NoTold

(* Every verdict, of the broker and of the grade, is the suite's on the     *)
(* source, whatever else the model did to its tree.                         *)
THEOREM GradeIsOfTheSourceHolds == Spec => []GradeIsOfTheSource
<1>1. SourceInv => GradeIsOfTheSource
  BY DEF SourceInv
<1> QED
  BY <1>1, InitPlaced, NextPlaced, NextSource, PTL DEF Spec

-----------------------------------------------------------------------------
(* The arms, and the re-grade's two gates: who is at which step knows that  *)
(* the suite is no longer the first, the one that accepts "linear".         *)
ArmsInv ==
  /\ IsASeq(arms)
  /\ apc \in {"idle", "grade", "again"} /\ arm \in {"empty", "broken"}
  /\ apc = "again" => /\ passed \in {"pass", "fail"}
                      /\ arm = "broken" /\ passed = "fail" => suite # 1
  /\ apc = "idle" /\ ~cut /\ arms # <<>> =>
       /\ arms[Len(arms)].passed \in {"pass", "fail"}
       /\ arms[Len(arms)].passed = "fail" => suite # 1

LiftedInv ==
  /\ IsASeq(out)
  /\ rpc = "gate solution" /\ broken = "fail" => suite # 1
  /\ rpc \in {"provenance", "grade"} => suite # 1
  /\ LiftedRowsAreRight

LEMMA NotEmpty ==
  ASSUME NEW s, IsASeq(s), s # <<>>
  PROVE  Len(s) \in DOMAIN s
<1>1. PICK S : s \in Seq(S)
  BY DEF IsASeq
<1> QED
  BY <1>1

LEMMA LinearIsRejected ==
  ASSUME NEW v \in Suites
  PROVE  /\ Verdict(v, With("linear", v)) = "fail" <=> v # 1
         /\ Verdict(v, With("base", v)) = "fail"
<1>1. \A src : With(src, v)["src"] = src /\ With(src, v)["tests/own"] = "absent"
  BY DEF With, TaskDir, Paths
<1> QED
  BY <1>1 DEF Verdict, Accepts

LEMMA SuiteGrows == Placed /\ [Next]_vars => suite' \in Suites /\ suite' >= suite
<1> SUFFICES ASSUME Placed, [Next]_vars PROVE suite' \in Suites /\ suite' >= suite
  OBVIOUS
<1>1. suite' \in Suites
  BY NextPlaced DEF Placed
<1>2. CASE Repair
  BY <1>1, <1>2 DEF Repair, Placed, Suites
<1>3. CASE UNCHANGED suite
  BY <1>1, <1>3 DEF Placed, Suites
<1>4. Repair \/ UNCHANGED suite
  BY Beside DEF Next, GradingNext, Instruments, PrepareScratch, Cleaned, Write, Commit, ApplyMock,
    Look, Gone, Report, Grade, Killed, AppendRow, vars, gradingVars
<1> QED
  BY <1>2, <1>3, <1>4

(* A step of a run, or a repair, is none of an instrument's.                *)
LEMMA RunsBeside ==
  ASSUME [Next]_vars
  PROVE  Instruments \/ UNCHANGED <<armVars, regradeVars>>
BY DEF Next, Instruments, vars

LEMMA NextArms == Placed /\ ArmsInv /\ [Next]_vars => ArmsInv'
<1> SUFFICES ASSUME Placed, ArmsInv, [Next]_vars PROVE ArmsInv'
  OBVIOUS
<1>1. suite \in Suites /\ suite' \in Suites /\ (suite # 1 => suite' # 1)
  BY SuiteGrows DEF Placed, Suites
<1>2. CASE UNCHANGED armVars
  BY <1>1, <1>2 DEF ArmsInv, armVars
<1>3. CASE RunArms
  BY <1>3 DEF RunArms, ArmsInv
<1>4. CASE ArmGrade
  <2>1. UNCHANGED <<arms, arm, suite>>
    BY <1>4 DEF ArmGrade, gradingVars
  <2>2. PICK verdict \in GradedRun(ArmTree(arm, suite), suite) :
          IF verdict = "timeout" THEN apc' = "idle" /\ cut' = TRUE
          ELSE apc' = "again" /\ passed' = verdict
    BY <1>4 DEF ArmGrade
  <2>3. verdict = "timeout"
          \/ (verdict \in {"pass", "fail"} /\ (arm = "broken" /\ verdict = "fail" => suite # 1))
    BY <1>1, GradedRunIs, LinearIsRejected DEF ArmTree
  <2> QED
    BY <2>1, <2>2, <2>3 DEF ArmsInv
<1>5. CASE ArmAgain
  <2>1. UNCHANGED suite /\ apc = "again"
    BY <1>5 DEF ArmAgain, gradingVars
  <2>2. CASE apc' = "idle" /\ cut' = TRUE /\ UNCHANGED <<arms, arm>>
    BY <2>2 DEF ArmsInv
  <2>3. ASSUME NEW verdict,
               arms' = Append(arms, [arm |-> arm, passed |-> passed, agrees |-> verdict = passed]),
               apc' = IF arm = "empty" THEN "grade" ELSE "idle", arm' = "broken"
        PROVE  ArmsInv'
    <3> DEFINE row == [arm |-> arm, passed |-> passed, agrees |-> verdict = passed]
    <3>1. row.passed = passed
      OBVIOUS
    <3> HIDE DEF row
    <3>2. IsASeq(arms') /\ Len(arms') = Len(arms) + 1 /\ arms'[Len(arms) + 1] = row
      BY <2>3, Appended DEF ArmsInv, row
    <3>3. arms'[Len(arms')].passed = passed
      BY <3>1, <3>2
    <3> QED
      BY <2>1, <2>3, <3>2, <3>3 DEF ArmsInv
  <2> QED
    BY <1>5, <2>2, <2>3 DEF ArmAgain
<1>6. CASE ArmsKilled
  BY <1>6 DEF ArmsKilled, ArmsInv
<1>7. CASE Regrade \/ GateBroken \/ GateSolution \/ ReadProvenance \/ RegradeRow
             \/ Finish \/ RegradeKilled
  BY <1>2, <1>7 DEF Regrade, GateBroken, GateSolution, ReadProvenance, RegradeRow, Finish,
                    RegradeKilled, armVars
<1> QED
  BY <1>2, <1>3, <1>4, <1>5, <1>6, <1>7, RunsBeside DEF Instruments

(* Grading one tree again is grading it, and "U" for what has no verdict.   *)
LEMMA GradedOnce ==
  ASSUME NEW v \in Suites, NEW tree, NEW says \in GradeOne(tree, v)
  PROVE  says = "ungradable" \/ (says = Verdict(v, tree) /\ says \in {"pass", "fail"})
<1>1. PICK g \in GradedRun(tree, v) : says = IF g = "timeout" THEN "ungradable" ELSE g
  BY DEF GradeOne
<1> QED
  BY <1>1, GradedRunIs

(* What RegradeRow writes on the next row.                                  *)
LEMMA RegradedRow ==
  ASSUME Placed, IsASeq(out), RegradeRow
  PROVE  LET n == Len(out) + 1  w == scratch[results[n].id] IN
         /\ IsASeq(out') /\ Len(out) \in Nat
         /\ Len(out') = n /\ DOMAIN out = 1..Len(out) /\ DOMAIN out' = 1..n
         /\ \A i \in DOMAIN out : out'[i] = out[i]
         /\ out'[n].tree = (IF w = NoTree THEN <<>> ELSE w.tree)
         /\ out'[n].by = suite /\ out'[n].sha = prov /\ out'[n].matches = (prov = baseline)
         /\ out'[n].class = "pass" => w # NoTree /\ Verdict(suite, w.tree) = "pass"
<1> DEFINE n == Len(out) + 1
           w == scratch[results[n].id]
           tree == IF w = NoTree THEN <<>> ELSE w.tree
           row(c) == [tree |-> tree, class |-> Class(c), by |-> suite,
                      sha |-> prov, matches |-> prov = baseline]
<1>1. PICK verdict \in IF w = NoTree THEN {"ungradable"} ELSE GradeOne(w.tree, suite) :
        out' = Append(out, row(verdict))
  BY DEF RegradeRow
<1>2. /\ row(verdict).tree = tree /\ row(verdict).class = Class(verdict)
      /\ row(verdict).by = suite /\ row(verdict).sha = prov
      /\ row(verdict).matches = (prov = baseline)
  OBVIOUS
<1>3. Class(verdict) = "pass" => w # NoTree /\ Verdict(suite, w.tree) = "pass"
  <2>1. CASE w = NoTree
    BY <1>1, <2>1 DEF Class
  <2>2. CASE w # NoTree
    BY <1>1, <2>2, GradedOnce DEF Class, Placed
  <2> QED
    BY <2>1, <2>2
<1> HIDE DEF row
<1>4. /\ IsASeq(out') /\ Len(out) \in Nat /\ Len(out') = n
      /\ DOMAIN out = 1..Len(out) /\ DOMAIN out' = 1..n
      /\ \A i \in 1..Len(out) : out'[i] = out[i]
      /\ out'[n] = row(verdict)
  BY <1>1, Appended
<1> QED
  BY <1>2, <1>3, <1>4

LEMMA NextLifted == Placed /\ LiftedInv /\ [Next]_vars => LiftedInv'
<1> SUFFICES ASSUME Placed, LiftedInv, [Next]_vars PROVE LiftedInv'
  OBVIOUS
<1>1. suite \in Suites /\ suite' \in Suites /\ (suite # 1 => suite' # 1)
  BY SuiteGrows DEF Placed, Suites
<1>2. CASE UNCHANGED regradeVars
  BY <1>1, <1>2 DEF LiftedInv, regradeVars, LiftedRowsAreRight
<1>3. CASE Regrade
  BY <1>3 DEF Regrade, LiftedInv, LiftedRowsAreRight
<1>4. CASE GateBroken
  <2>1. broken' = "fail" => suite # 1
    BY <1>1, <1>4, GradedOnce, LinearIsRejected DEF GateBroken
  <2> QED
    BY <1>1, <1>4, <2>1 DEF GateBroken, LiftedInv, LiftedRowsAreRight
<1>5. CASE GateSolution
  <2>1. PICK solution : IF ~GatesHold(broken, solution)
                        THEN rpc' = "exit 1" /\ UNCHANGED out
                        ELSE IF limit = "gates" THEN rpc' = "exit 0" /\ UNCHANGED out
                        ELSE rpc' = "provenance" /\ out' = <<>>
    BY <1>5 DEF GateSolution
  <2>2. CASE rpc' = "provenance" /\ out' = <<>> /\ broken = "fail"
    <3>1. suite' # 1
      BY <1>1, <1>5, <2>2 DEF GateSolution, LiftedInv
    <3>2. LiftedRowsAreRight'
      BY <2>2 DEF LiftedRowsAreRight
    <3>3. IsASeq(out')
      BY <2>2, EmptySeq, Zenon
    <3> QED
      BY <2>2, <3>1, <3>2, <3>3 DEF LiftedInv
  <2>3. CASE rpc' \in {"exit 0", "exit 1"} /\ UNCHANGED out
    BY <2>3 DEF LiftedInv, LiftedRowsAreRight
  <2> QED
    BY <2>1, <2>2, <2>3 DEF GatesHold
<1>6. CASE ReadProvenance
  BY <1>1, <1>6 DEF ReadProvenance, LiftedInv, LiftedRowsAreRight
<1>7. CASE RegradeRow
  <2> DEFINE n == Len(out) + 1
             w == scratch[results[n].id]
  <2>1. /\ IsASeq(out') /\ Len(out) \in Nat /\ DOMAIN out = 1..Len(out) /\ DOMAIN out' = 1..n
        /\ \A i \in DOMAIN out : out'[i] = out[i]
        /\ out'[n].class = "pass" => out'[n].tree = w.tree /\ Verdict(suite, w.tree) = "pass"
    BY <1>7, RegradedRow DEF LiftedInv
  <2>2. suite # 1 /\ suite' = suite /\ rpc' = "provenance"
    BY <1>7 DEF RegradeRow, LiftedInv, gradingVars
  <2>3. out'[n].class = "pass" => out'[n].tree["src"] = "right"
    BY <2>1, <2>2 DEF Verdict, Accepts
  <2>4. LiftedRowsAreRight'
    <3> SUFFICES ASSUME NEW i \in DOMAIN out', out'[i].class = "pass"
                 PROVE  out'[i].tree["src"] = "right"
      BY DEF LiftedRowsAreRight
    <3>1. CASE i \in DOMAIN out
      BY <3>1, <2>1 DEF LiftedRowsAreRight, LiftedInv
    <3>2. CASE i = n
      BY <3>2, <2>3
    <3> QED
      BY <3>1, <3>2, <2>1
  <2> QED
    BY <2>1, <2>2, <2>4 DEF LiftedInv
<1>8. CASE Finish
  BY <1>8 DEF Finish, ExitCode, LiftedInv, LiftedRowsAreRight
<1>9. CASE RegradeKilled
  BY <1>9 DEF RegradeKilled, LiftedInv, LiftedRowsAreRight
<1>10. CASE RunArms \/ ArmGrade \/ ArmAgain \/ ArmsKilled
  BY <1>2, <1>10 DEF RunArms, ArmGrade, ArmAgain, ArmsKilled
<1> QED
  BY <1>2, <1>3, <1>4, <1>5, <1>6, <1>7, <1>8, <1>9, <1>10, RunsBeside DEF Instruments

LEMMA InitEarned == Init => ArmsInv /\ LiftedInv
BY EmptySeq DEF Init, ArmsInv, LiftedInv, LiftedRowsAreRight

LEMMA EarnedByInv == Placed /\ ArmsInv /\ LiftedInv => ControlsAreEarned
<1> SUFFICES ASSUME Placed, ArmsInv, LiftedInv PROVE ControlsAreEarned
  OBVIOUS
<1>1. ASSUME Counted = 1, Score = 0, apc = "idle", ~cut
      PROVE  \A src \in {"base", "linear"} : Verdict(suite, With(src, suite)) = "fail"
  <2>1. arms # <<>> /\ \A i \in DOMAIN arms : arms[i].passed # "pass"
    BY <1>1 DEF Counted, Score
  <2>2. Len(arms) \in DOMAIN arms
    BY <2>1, NotEmpty DEF ArmsInv
  <2>3. suite # 1 /\ suite \in Suites
    BY <1>1, <2>1, <2>2 DEF ArmsInv, Placed
  <2> QED
    BY <2>3, LinearIsRejected
<1> QED
  BY <1>1 DEF ControlsAreEarned, ZeroIsEarned, LiftedInv

(* Score 0 of a run_arms that ended by itself, and a "pass" on a row that   *)
(* is graded again, both say of the suite what a reader takes them to say,  *)
(* whenever it is repaired.                                                 *)
THEOREM ControlsAreEarnedHolds == Spec => []ControlsAreEarned
BY InitPlaced, InitEarned, NextPlaced, NextArms, NextLifted, EarnedByInv, PTL DEF Spec

-----------------------------------------------------------------------------
(* What a re-grade names.                                                   *)

Ended == {{"ok"}, {"cli_error"}, {"cap_exhausted"}, {"mock"}, {"mock_fail"}}
Whys == Ended \cup {e \cup {"verify_timeout"} : e \in Ended}
Counts == {{"ok"}, {"cap_exhausted"}}

LEMMA ScoredCounts ==
  ASSUME NEW w \in Whys, InDenominator(w)
  PROVE  w \in Counts
<1> DEFINE Parts == {"ok", "cli_error", "cap_exhausted", "mock", "mock_fail", "verify_timeout"}
           sev(r) == Severity[ClassOf(r)]
           m == CHOOSE r \in w : \A t \in w : sev(r) <= sev(t)
<1>1. /\ ClassOf("ok") = "scored" /\ ClassOf("cap_exhausted") = "scored"
      /\ ClassOf("cli_error") = "infra" /\ ClassOf("verify_timeout") = "infra"
      /\ ClassOf("mock") = "mock" /\ ClassOf("mock_fail") = "mock"
  BY DEF ClassOf, EXIT_REASON_CLASS, KnownReasons, Scored, Infra, Mock
<1>2. Severity["scored"] = 6 /\ Severity["infra"] = 4 /\ Severity["mock"] = 5
  BY DEF Severity
<1>3. \A r \in Parts : sev(r) \in Int /\ (ClassOf(r) = "scored" => sev(r) = 6)
  BY <1>1, <1>2
<1>4. w # {} /\ w \in SUBSET Parts
  BY DEF Whys, Ended
<1>5. \E r \in w : \A t \in w : sev(r) <= sev(t)
  <2>1. CASE w \in Ended
    <3>1. PICK r \in Parts : w = {r}
      BY <2>1 DEF Ended
    <3> QED
      BY <3>1, <1>3
  <2>2. CASE w \notin Ended
    <3>1. PICK r \in Parts : w = {r, "verify_timeout"}
      BY <2>2 DEF Whys, Ended
    <3>2. sev(r) <= sev("verify_timeout") \/ sev("verify_timeout") <= sev(r)
      BY <1>3
    <3> QED
      BY <3>1, <3>2, <1>3
  <2> QED
    BY <2>1, <2>2
<1>6. m \in w /\ \A t \in w : sev(m) <= sev(t)
  BY <1>5
<1>7. ClassOf(m) = "scored"
  BY <1>4 DEF InDenominator, StatusClass
<1>8. \A t \in w : 6 <= sev(t)
  BY <1>3, <1>4, <1>6, <1>7
<1>9. w \cap {"cli_error", "mock", "mock_fail", "verify_timeout"} = {}
  BY <1>1, <1>2, <1>8
<1> QED
  BY <1>4, <1>9 DEF Whys, Ended, Counts

(* A row of results that a sweep counts as done is never run again, so its  *)
(* tree is the one it left, or cleaned up.                                  *)
ReasonsInv ==
  /\ pc \in {"tamper", "grade"} => why \in Ended
  /\ pc = "row" => why \in Whys
  /\ \A i \in DOMAIN results : results[i].why \in Whys

Kept ==
  /\ pc # "idle" => cur \notin ExistingIds
  /\ \A i \in DOMAIN results :
       /\ results[i].id \in Runs
       /\ results[i].why \in Counts => scratch[results[i].id] \in {NoTree, results[i].left}

LEMMA NextReasons == Placed /\ ReasonsInv /\ [Next]_vars => ReasonsInv'
<1> SUFFICES ASSUME Placed, ReasonsInv, [Next]_vars PROVE ReasonsInv'
  OBVIOUS
<1> USE DEF Placed, ReasonsInv
<1>1. CASE Repair \/ Instruments \/ UNCHANGED vars
  BY <1>1, Beside DEF Repair, run
<1>2. ASSUME NEW id \in Runs, PrepareScratch(id) \/ Cleaned(id) PROVE ReasonsInv'
  BY <1>2 DEF PrepareScratch, Cleaned, run
<1>3. CASE Write \/ Commit \/ Look
  BY <1>3 DEF Write, Commit, Look, run
<1>4. CASE Gone \/ ApplyMock
  BY <1>4 DEF Gone, ApplyMock, Ended
<1>5. CASE Report \/ Killed
  BY <1>5 DEF Report, Killed, Idle
<1>6. CASE Grade
  BY <1>6 DEF Grade, Whys
<1>7. CASE AppendRow
  <2>1. results' = Append(results, Row) /\ Row.why = why /\ pc' = "idle" /\ why \in Whys
    BY <1>7 DEF AppendRow, Row, Idle
  <2> QED
    BY <2>1, Appended
<1> QED
  BY <1>1, <1>2, <1>3, <1>4, <1>5, <1>6, <1>7 DEF Next, GradingNext, Instruments

LEMMA ExistingAreCounted ==
  ASSUME NEW i \in DOMAIN results, results[i].why \in Counts
  PROVE  results[i].id \in ExistingIds
BY DEF ExistingIds, Counts

LEMMA NextKept == Placed /\ Kept /\ [Next]_vars => Kept'
<1> SUFFICES ASSUME Placed, Kept, [Next]_vars PROVE Kept'
  OBVIOUS
<1> USE DEF Placed
<1>1. CASE Repair \/ Instruments \/ UNCHANGED vars
  BY <1>1, Beside DEF Repair, run, Kept, ExistingIds
<1>2. ASSUME NEW id \in Runs, PrepareScratch(id) PROVE Kept'
  <2>1. id \notin ExistingIds /\ cur' = id /\ UNCHANGED results
    BY <1>2 DEF PrepareScratch
  <2>2. \A other \in Runs : other # id => scratch'[other] = scratch[other]
    BY <1>2 DEF PrepareScratch
  <2> QED
    BY <2>1, <2>2, ExistingAreCounted DEF Kept, ExistingIds
<1>3. ASSUME NEW id \in Runs, Cleaned(id) PROVE Kept'
  <2>1. UNCHANGED <<results, pc, cur>> /\ scratch' = [scratch EXCEPT ![id] = NoTree]
    BY <1>3 DEF Cleaned, run
  <2> QED
    BY <2>1 DEF Kept, ExistingIds
<1>4. CASE Write \/ Commit \/ ApplyMock
  <2>1. /\ UNCHANGED <<results, cur>> /\ pc = "model"
        /\ \A other \in Runs : other # cur => scratch'[other] = scratch[other]
    <3>1. CASE Write
      <4>1. PICK e \in budget.of : scratch' = [scratch EXCEPT ![cur].tree[e[1]] = e[2]]
        BY <3>1 DEF Write
      <4> QED
        BY <3>1, <4>1 DEF Write, run
    <3>2. CASE Commit
      BY <3>2 DEF Commit, run
    <3>3. CASE ApplyMock
      BY <3>3 DEF ApplyMock
    <3> QED
      BY <1>4, <3>1, <3>2, <3>3
  <2> QED
    BY <2>1, ExistingAreCounted DEF Kept, ExistingIds
<1>5. CASE Look \/ Gone \/ Report \/ Grade
  BY <1>5 DEF Look, Gone, Report, Grade, Kept, ExistingIds
<1>6. CASE AppendRow
  <2>1. /\ results' = Append(results, Row) /\ UNCHANGED scratch /\ pc = "row" /\ pc' = "idle"
        /\ Row.id = cur /\ Row.left = scratch[cur]
    BY <1>6 DEF AppendRow, Row, Idle
  <2>2. /\ DOMAIN results = 1..Len(results) /\ DOMAIN results' = 1..(Len(results) + 1)
        /\ Len(results) \in Nat
        /\ \A i \in 1..Len(results) : results'[i] = results[i]
        /\ results'[Len(results) + 1] = Row
    BY <2>1, Appended
  <2> QED
    BY <2>1, <2>2 DEF Kept
<1>7. CASE Killed
  BY <1>7 DEF Killed, Idle, Kept, ExistingIds
<1> QED
  BY <1>1, <1>2, <1>3, <1>4, <1>5, <1>6, <1>7 DEF Next, GradingNext, Instruments

(* The re-grade counts rows of a file that only grows; while it reads and   *)
(* grades, every row it has is of a suite between the one it began with and *)
(* the one there is, and below the one whose hash is in hand.               *)
RegradeInv ==
  /\ IsASeq(out)
  /\ suite \in Int /\ baseline \in Int /\ baseline <= suite
  /\ subjects \in Nat /\ subjects <= Len(results) /\ Len(out) <= Len(results)
  /\ rpc = "grade" => Len(out) < subjects /\ prov \in Int /\ prov <= suite
  /\ rpc \in {"provenance", "grade"} =>
       \A i \in DOMAIN out : out[i].by \in baseline..suite
  /\ rpc = "grade" => \A i \in DOMAIN out : out[i].by <= prov
  /\ RegradesAreOfTheirRows

LEMMA NextRegrade == Placed /\ ReasonsInv /\ Kept /\ RegradeInv /\ [Next]_vars => RegradeInv'
<1> SUFFICES ASSUME Placed, ReasonsInv, Kept, RegradeInv, [Next]_vars PROVE RegradeInv'
  OBVIOUS
<1>0. /\ suite \in Int /\ suite' \in Int /\ suite <= suite'
      /\ \E S : results \in Seq(S)
      /\ \E S : out \in Seq(S)
  BY SuiteGrows DEF Placed, Suites, IsASeq, RegradeInv
<1>1. /\ IsASeq(results') /\ Len(results) \in Nat /\ Len(results') \in Nat
      /\ Len(results) <= Len(results') /\ DOMAIN results = 1..Len(results)
      /\ \A i \in DOMAIN results : results'[i] = results[i]
      /\ Len(out) \in Nat /\ DOMAIN out = 1..Len(out)
  <2>1. CASE AppendRow
    BY <1>0, <2>1, Appended DEF AppendRow, Placed
  <2>2. CASE UNCHANGED results
    BY <1>0, <2>2 DEF Placed
  <2>3. AppendRow \/ UNCHANGED results
    BY Beside DEF Next, GradingNext, Instruments, Repair, PrepareScratch, Cleaned, Write, Commit,
      ApplyMock, Look, Gone, Report, Grade, Killed, vars, gradingVars
  <2> QED
    BY <2>1, <2>2, <2>3
<1>10. ASSUME UNCHANGED out
       PROVE  ScoredRowsAreRegradedAsLeft' /\ DriftShowsOnEveryLaterRow'
  <2>1. \A i \in DOMAIN out : i \in DOMAIN results /\ results'[i] = results[i]
    BY <1>1 DEF RegradeInv
  <2> QED
    BY <1>10, <2>1 DEF RegradeInv, RegradesAreOfTheirRows,
      ScoredRowsAreRegradedAsLeft, DriftShowsOnEveryLaterRow
<1>2. CASE UNCHANGED regradeVars
  <2>1. rpc' \in {"provenance", "grade"} => \A i \in DOMAIN out' : out'[i].by \in baseline'..suite'
    BY <1>0, <1>2 DEF RegradeInv, regradeVars
  <2>2. ExitZeroLeavesNoneOut'
    BY <1>2 DEF regradeVars, ExitZeroLeavesNoneOut, RegradeInv, RegradesAreOfTheirRows
  <2> QED
    BY <1>0, <1>1, <1>2, <1>10, <2>1, <2>2 DEF RegradeInv, regradeVars, RegradesAreOfTheirRows
<1>3. CASE Regrade
  BY <1>0, <1>3, <1>10 DEF Regrade, RegradeInv, RegradesAreOfTheirRows, ExitZeroLeavesNoneOut
<1>4. CASE GateBroken \/ RegradeKilled
  BY <1>0, <1>4, <1>10 DEF GateBroken, RegradeKilled, gradingVars, Exits, RegradeInv,
    RegradesAreOfTheirRows, ExitZeroLeavesNoneOut
<1>5. CASE GateSolution
  <2>1. UNCHANGED <<suite, results, baseline, limit, prov>>
    BY <1>5 DEF GateSolution, gradingVars
  <2>2. CASE rpc' = "provenance" /\ out' = <<>> /\ subjects' = Len(results)
    <3>1. IsASeq(out')
      BY <2>2, EmptySeq, Zenon
    <3>2. Len(out') = 0 /\ DOMAIN out' = {}
      BY <2>2
    <3>3. RegradesAreOfTheirRows'
      BY <2>2, <3>2 DEF RegradesAreOfTheirRows, ScoredRowsAreRegradedAsLeft,
        DriftShowsOnEveryLaterRow, ExitZeroLeavesNoneOut
    <3> QED
      BY <1>0, <1>1, <2>1, <2>2, <3>1, <3>2, <3>3 DEF RegradeInv
  <2>3. CASE UNCHANGED <<out, subjects>> /\ (rpc' = "exit 1" \/ (rpc' = "exit 0" /\ limit = "gates"))
    <3>1. ExitZeroLeavesNoneOut'
      BY <2>1, <2>3 DEF ExitZeroLeavesNoneOut
    <3>2. rpc' \notin {"provenance", "grade"} /\ RegradesAreOfTheirRows'
      BY <1>10, <2>3, <3>1 DEF RegradesAreOfTheirRows
    <3> QED
      BY <2>1, <2>3, <3>2 DEF RegradeInv
  <2>4. PICK solution :
          IF ~GatesHold(broken, solution)
          THEN rpc' = "exit 1" /\ UNCHANGED <<out, subjects>>
          ELSE IF limit = "gates" THEN rpc' = "exit 0" /\ UNCHANGED <<out, subjects>>
          ELSE rpc' = "provenance" /\ out' = <<>> /\ subjects' = Len(results)
    BY <1>5 DEF GateSolution
  <2>5. \/ rpc' = "provenance" /\ out' = <<>> /\ subjects' = Len(results)
        \/ UNCHANGED <<out, subjects>> /\ (rpc' = "exit 1" \/ (rpc' = "exit 0" /\ limit = "gates"))
    <3>1. CASE GatesHold(broken, solution)
      BY <2>4, <3>1
    <3>2. CASE ~GatesHold(broken, solution)
      BY <2>4, <3>2
    <3> QED
      BY <3>1, <3>2
  <2> QED
    BY <2>2, <2>3, <2>5
<1>6. CASE ReadProvenance
  <2>1. /\ UNCHANGED <<suite, results, out, baseline, limit, subjects>>
        /\ rpc = "provenance" /\ rpc' = "grade" /\ prov' = suite /\ Len(out) < subjects
    BY <1>1, <1>6 DEF ReadProvenance, gradingVars, Todo, RegradeInv
  <2>2. \A i \in DOMAIN out' : out'[i].by \in baseline'..suite' /\ out'[i].by <= prov'
    BY <1>0, <2>1 DEF RegradeInv
  <2>3. RegradesAreOfTheirRows'
    BY <1>10, <2>1 DEF RegradesAreOfTheirRows, ExitZeroLeavesNoneOut
  <2> QED
    BY <1>0, <2>1, <2>2, <2>3 DEF RegradeInv
<1>7. CASE RegradeRow
  <2> DEFINE n == Len(out) + 1
             w == scratch[results[n].id]
  <2>1. /\ IsASeq(out') /\ Len(out) \in Nat /\ Len(out') = n
        /\ DOMAIN out = 1..Len(out) /\ DOMAIN out' = 1..n
        /\ \A i \in DOMAIN out : out'[i] = out[i]
        /\ out'[n].tree = (IF w = NoTree THEN <<>> ELSE w.tree)
        /\ out'[n].by = suite /\ out'[n].sha = prov /\ out'[n].matches = (prov = baseline)
    BY <1>7, RegradedRow DEF RegradeInv
  <2>2. /\ UNCHANGED <<suite, results, baseline, limit, subjects, prov>>
        /\ rpc = "grade" /\ rpc' = "provenance"
    BY <1>7 DEF RegradeRow, gradingVars
  <2>3. n <= subjects /\ n \in DOMAIN results
    BY <1>1, <2>1, <2>2 DEF RegradeInv
  <2>4. ScoredRowsAreRegradedAsLeft'
    <3>1. ASSUME InDenominator(results[n].why), out'[n].tree # <<>>
          PROVE  out'[n].tree = results[n].left.tree
      <4>1. results[n].why \in Counts
        BY <2>3, <3>1, ScoredCounts DEF ReasonsInv
      <4>2. w # NoTree /\ w \in {NoTree, results[n].left}
        BY <2>1, <2>3, <3>1, <4>1 DEF Kept
      <4> QED
        BY <2>1, <4>2
    <3> QED
      BY SMTT(30), <2>1, <2>2, <3>1 DEF ScoredRowsAreRegradedAsLeft, RegradeInv, RegradesAreOfTheirRows
  <2>5. DriftShowsOnEveryLaterRow'
    <3> SUFFICES ASSUME NEW i \in 1..n, NEW j \in 1..n, i < j, out'[j].matches
                 PROVE  out'[i].by = out'[j].sha
      BY <2>1 DEF DriftShowsOnEveryLaterRow
    <3>1. CASE j = n
      <4>1. i \in DOMAIN out /\ out'[i].by = out[i].by
        BY <2>1, <3>1
      <4>2. prov = baseline /\ out'[j].sha = prov
        BY <2>1, <3>1
      <4> QED
        BY <2>2, <4>1, <4>2 DEF RegradeInv
    <3>2. CASE j # n
      <4>1. i \in DOMAIN out /\ j \in DOMAIN out
        BY <2>1, <3>2
      <4>2. out'[i] = out[i] /\ out'[j] = out[j]
        BY <2>1, <4>1
      <4> QED
        BY <4>1, <4>2 DEF RegradeInv, RegradesAreOfTheirRows, DriftShowsOnEveryLaterRow
    <3> QED
      BY <3>1, <3>2
  <2>6. \A i \in DOMAIN out' : out'[i].by \in baseline'..suite'
    <3>1. out'[n].by \in baseline..suite
      BY <2>1 DEF RegradeInv
    <3>2. \A i \in DOMAIN out : out'[i].by \in baseline..suite
      BY <2>1, <2>2 DEF RegradeInv
    <3> QED
      BY <2>1, <2>2, <3>1, <3>2
  <2>7. ExitZeroLeavesNoneOut'
    BY <2>2 DEF ExitZeroLeavesNoneOut
  <2> QED
    BY <1>1, <2>1, <2>2, <2>3, <2>4, <2>5, <2>6, <2>7 DEF RegradeInv, RegradesAreOfTheirRows
<1>8. CASE Finish
  <2>1. UNCHANGED <<suite, results, out, baseline, limit, subjects>> /\ rpc' = ExitCode
    BY <1>8 DEF Finish, gradingVars
  <2> QED
    BY <1>0, <2>1 DEF ExitCode, RegradeInv, RegradesAreOfTheirRows,
      ScoredRowsAreRegradedAsLeft, DriftShowsOnEveryLaterRow, ExitZeroLeavesNoneOut
<1>9. CASE RunArms \/ ArmGrade \/ ArmAgain \/ ArmsKilled
  BY <1>2, <1>9 DEF RunArms, ArmGrade, ArmAgain, ArmsKilled
<1> QED
  BY <1>2, <1>3, <1>4, <1>5, <1>6, <1>7, <1>8, <1>9, RunsBeside DEF Instruments

LEMMA InitRegrade == Init => ReasonsInv /\ Kept /\ RegradeInv
<1> SUFFICES ASSUME Init PROVE ReasonsInv /\ Kept /\ RegradeInv
  OBVIOUS
<1>1. Placed /\ results = <<>> /\ out = <<>> /\ pc = "idle" /\ rpc = "idle"
      /\ baseline = 0 /\ subjects = 0
  BY InitPlaced DEF Init, GradingInit
<1>2. ReasonsInv /\ Kept
  BY <1>1 DEF ReasonsInv, Kept
<1> QED
  BY <1>1, <1>2, EmptySeq DEF Placed, Suites, RegradeInv, RegradesAreOfTheirRows,
    ScoredRowsAreRegradedAsLeft, DriftShowsOnEveryLaterRow, ExitZeroLeavesNoneOut

(* A row that is graded again is the tree of its own attempt, a repair under *)
(* way is claimed by no row but the one in hand, and exit 0 is of all rows.  *)
THEOREM RegradesAreOfTheirRowsHolds == Spec => []RegradesAreOfTheirRows
<1>1. RegradeInv => RegradesAreOfTheirRows
  BY DEF RegradeInv
<1> QED
  BY <1>1, InitPlaced, InitRegrade, NextPlaced, NextReasons, NextKept, NextRegrade, PTL DEF Spec

-----------------------------------------------------------------------------
(* What a row tells of the model's work.  A workspace remembers what the    *)
(* runner put into it; the model writes Contents over that.                 *)

Values == Contents \cup {"base", "canonical", "shim", "suite 1", "suite 2", "suite 3"}
Trees == [Paths -> Values]
Workspaces ==
  [of : Nat \ {0}, tree : Trees, root : Trees, head : Trees, was : Trees, rewritten : BOOLEAN]

Typed ==
  /\ cur \in Runs /\ brokered \in BOOLEAN
  /\ spent \in [attempts : Nat, edits : Nat, looks : Nat, regrades : Nat, arms : Nat]
  /\ scratch \in [Runs -> {NoTree} \cup Workspaces]
  /\ \A id \in Runs : scratch[id] = NoTree \/ scratch[id].of <= spent.attempts
  /\ pc # "idle" => scratch[cur] # NoTree
  /\ pc \in {"idle", "model"} => why = {}
  /\ \A i \in DOMAIN results : results[i].pass => results[i].pass_raw = "pass"

OfTheModel ==
  /\ pc # "idle" =>
       LET w == scratch[cur] IN
       /\ \E v \in Suites : w.was = Prepared(v, brokered).tree
       /\ \A p \in Paths : w.tree[p] \in Contents \cup {w.was[p]}
       /\ w.rewritten \/ w.root = w.was
  /\ pc \in {"grade", "row"} =>
       /\ tamper.by \in Suites
       /\ tamper.found = TamperReport(scratch[cur].tree, tamper.by, brokered)
  /\ ReportIsOfTheModel
  /\ LocIsOfTheWork

LEMMA PreparedIs ==
  ASSUME NEW v \in Suites, NEW shim \in BOOLEAN
  PROVE  LET w == Prepared(v, shim) IN
         /\ w.tree \in Trees /\ w.root = w.tree /\ w.head = w.tree
         /\ w.tree["verify.sh"] = (IF shim THEN "shim" ELSE "canonical")
         /\ w.tree["tests/test"] = Graded(v)
         /\ w.tree["tests/own"] = "absent" /\ w.tree["conftest.py"] = "absent"
<1>1. TaskDir(v) \in Trees
  <2>1. Graded(v) \in Values
    BY GradedValues DEF Values
  <2> QED
    BY <2>1 DEF TaskDir, Trees, Values, Contents
<1>2. /\ TaskDir(v)["verify.sh"] = "canonical" /\ TaskDir(v)["tests/test"] = Graded(v)
      /\ TaskDir(v)["tests/own"] = "absent" /\ TaskDir(v)["conftest.py"] = "absent"
  BY DEF TaskDir, Paths
<1> DEFINE t == [TaskDir(v) EXCEPT !["verify.sh"] = IF shim THEN "shim" ELSE @]
<1>3. /\ t \in Trees
      /\ t["verify.sh"] = (IF shim THEN "shim" ELSE "canonical")
      /\ t["tests/test"] = Graded(v)
      /\ t["tests/own"] = "absent" /\ t["conftest.py"] = "absent"
  BY <1>1, <1>2 DEF Trees, Values, Paths
<1>4. Prepared(v, shim) = [tree |-> t, root |-> t, head |-> t]
  BY DEF Prepared
<1> HIDE DEF t
<1> QED
  BY <1>3, <1>4

(* The paths a report names, and the ones it has to.                        *)
PathsOf(found) == {t[2] : t \in found}
Blamed(w, u) ==
  {p \in {"verify.sh", "tests/test", "conftest.py"} : w.tree[p] # w.was[p]}
    \cup {p \in {"tests/test"} : w.was[p] # Graded(u)}

LEMMA ReportIsOf ==
  ReportIsOfTheModel <=>
    \A i \in DOMAIN results :
      PathsOf(results[i].tamper.found) = Blamed(results[i].left, results[i].tamper.by)
BY DEF ReportIsOfTheModel, PathsOf, Blamed

(* The report of a tree the model wrote over what the runner installed for  *)
(* suite v, made against suite u.                                           *)
LEMMA ReportIs ==
  ASSUME NEW u \in Suites, NEW v \in Suites, NEW shim \in BOOLEAN,
         NEW was, was = Prepared(v, shim).tree,
         NEW tree, \A p \in Paths : tree[p] \in Contents \cup {was[p]},
         NEW w, w.tree = tree, w.was = was
  PROVE  PathsOf(TamperReport(tree, u, shim)) = Blamed(w, u)
<1> DEFINE canon == CanonicalGradingFiles(u)
           installed == [p \in DOMAIN canon |-> IF shim /\ p = "verify.sh" THEN "shim" ELSE canon[p]]
           deleted == {q \in DOMAIN canon : tree[q] \in {"absent", "directory"}}
           modified == {q \in DOMAIN canon : tree[q] \notin {"absent", "directory", installed[q]}}
           added == {q \in Apparatus \ GENERATED_APPARATUS :
                       q \notin DOMAIN canon /\ tree[q] # "absent"}
<1>1. /\ TaskDir(u)["verify.sh"] = "canonical" /\ TaskDir(u)["tests/test"] = Graded(u)
      /\ TaskDir(u)["tests/own"] = "absent" /\ TaskDir(u)["conftest.py"] = "absent"
      /\ TaskDir(u)["lock"] = "absent"
  BY DEF TaskDir, Paths
<1>2. /\ Graded(u) \in {"suite 1", "suite 2", "suite 3"} /\ Graded(u) \notin Contents
      /\ Graded(v) \in {"suite 1", "suite 2", "suite 3"} /\ Graded(v) \notin Contents
  BY GradedValues DEF Contents
<1>3. /\ DOMAIN canon = {"verify.sh", "tests/test"}
      /\ canon["verify.sh"] = "canonical" /\ canon["tests/test"] = Graded(u)
  BY <1>1, <1>2 DEF CanonicalGradingFiles, Apparatus, GRADED_TEST_DIRS
<1>4. /\ installed["verify.sh"] = was["verify.sh"] /\ installed["tests/test"] = Graded(u)
      /\ was["verify.sh"] \in {"shim", "canonical"}
      /\ was["tests/test"] = Graded(v) /\ was["conftest.py"] = "absent"
  BY <1>3, PreparedIs
<1>5. TamperReport(tree, u, shim) = {<<"deleted", p>> : p \in deleted}
        \cup {<<"modified", p>> : p \in modified} \cup {<<"added", p>> : p \in added}
  BY DEF TamperReport
<1> HIDE DEF canon, installed
<1>6. added = {p \in {"conftest.py"} : tree[p] # was[p]}
  BY <1>3, <1>4 DEF Apparatus, GENERATED_APPARATUS
<1>7. deleted \cup modified = {p \in {"verify.sh"} : tree[p] # was[p]}
        \cup {p \in {"tests/test"} : tree[p] # Graded(u)}
  <2>1. "verify.sh" \in deleted \cup modified <=> tree["verify.sh"] # was["verify.sh"]
    BY <1>3, <1>4
  <2>2. "tests/test" \in deleted \cup modified <=> tree["tests/test"] # Graded(u)
    BY <1>2, <1>3, <1>4
  <2>3. deleted \cup modified \subseteq {"verify.sh", "tests/test"}
    BY <1>3
  <2> HIDE DEF deleted, modified
  <2> QED
    BY <2>1, <2>2, <2>3
<1>8. tree["tests/test"] # Graded(u)
        <=> tree["tests/test"] # was["tests/test"] \/ was["tests/test"] # Graded(u)
  <2>1. tree["tests/test"] \in Contents \cup {Graded(v)}
    BY <1>4 DEF Paths
  <2> QED
    BY <1>2, <1>4, <2>1
<1> HIDE DEF deleted, modified, added
<1>9. PathsOf(TamperReport(tree, u, shim)) = deleted \cup modified \cup added
  <2> DEFINE R == TamperReport(tree, u, shim)
  <2>1. ASSUME NEW t \in R PROVE t[2] \in deleted \cup modified \cup added
    <3>1. \/ \E p \in deleted : t = <<"deleted", p>>
          \/ \E p \in modified : t = <<"modified", p>>
          \/ \E p \in added : t = <<"added", p>>
      BY <1>5, <2>1
    <3> QED
      BY <3>1
  <2>2. ASSUME NEW p \in deleted \cup modified \cup added PROVE \E t \in R : t[2] = p
    <3>1. <<"deleted", p>>[2] = p /\ <<"modified", p>>[2] = p /\ <<"added", p>>[2] = p
      OBVIOUS
    <3>2. <<"deleted", p>> \in R \/ <<"modified", p>> \in R \/ <<"added", p>> \in R
      BY <1>5
    <3> HIDE DEF R
    <3> QED
      BY <3>1, <3>2
  <2> QED
    BY <2>1, <2>2 DEF PathsOf
<1> QED
  BY <1>6, <1>7, <1>8, <1>9 DEF Blamed

(* What an edit leaves of a workspace.                                      *)
LEMMA Edited ==
  ASSUME NEW w \in Workspaces, NEW p \in Paths, NEW c \in Contents
  PROVE  LET e == [w EXCEPT !.tree[p] = c] IN
         /\ e \in Workspaces /\ e.of = w.of /\ e.was = w.was /\ e.root = w.root
         /\ e.rewritten = w.rewritten
         /\ \A q \in Paths : e.tree[q] = (IF q = p THEN c ELSE w.tree[q])
<1> DEFINE t == [w.tree EXCEPT ![p] = c]
<1>1. t \in Trees /\ \A q \in Paths : t[q] = (IF q = p THEN c ELSE w.tree[q])
  BY DEF Workspaces, Trees, Values
<1> HIDE DEF t
<1>2. [w EXCEPT !.tree[p] = c] = [w EXCEPT !.tree = t]
  BY DEF t
<1> QED
  BY <1>1, <1>2 DEF Workspaces

LEMMA Committed ==
  ASSUME NEW w \in Workspaces
  PROVE  LET c == [w EXCEPT !.head = w.tree]
             a == [w EXCEPT !.head = w.tree, !.root = w.tree, !.rewritten = TRUE]
         IN /\ c \in Workspaces /\ c.of = w.of /\ c.was = w.was /\ c.root = w.root
            /\ c.rewritten = w.rewritten /\ c.tree = w.tree
            /\ a \in Workspaces /\ a.of = w.of /\ a.was = w.was /\ a.rewritten
            /\ a.tree = w.tree
BY DEF Workspaces

LEMMA NoWorkspace == NoTree \notin Workspaces /\ NoTree.of = 0
BY DEF NoTree, Workspaces

(* The model's part of a step: an edit, a commit or the mock's solution.    *)
LEMMA Worked ==
  ASSUME Typed, OfTheModel, Placed, Write \/ Commit \/ ApplyMock
  PROVE  LET w == scratch[cur]  n == scratch'[cur] IN
         /\ pc = "model" /\ scratch' = [scratch EXCEPT ![cur] = n]
         /\ n \in Workspaces /\ n.of = w.of /\ n.was = w.was
         /\ \A p \in Paths : n.tree[p] \in Contents \cup {n.was[p]}
         /\ n.rewritten \/ n.root = n.was
<1> DEFINE w == scratch[cur]
<1>1. pc = "model" /\ cur \in Runs /\ w \in Workspaces
  BY DEF Write, Commit, ApplyMock, Typed
<1>2. /\ \A p \in Paths : w.tree[p] \in Contents \cup {w.was[p]}
      /\ w.rewritten \/ w.root = w.was
  BY <1>1 DEF OfTheModel
<1>3. ASSUME NEW n, scratch' = [scratch EXCEPT ![cur] = n]
      PROVE  scratch'[cur] = n
  BY <1>1, <1>3 DEF Typed
<1>4. CASE Write
  <2>1. PICK e \in budget.of : scratch' = [scratch EXCEPT ![cur].tree[e[1]] = e[2]]
    BY <1>4 DEF Write
  <2>2. e[1] \in Paths /\ e[2] \in Contents
    BY GradingAssumption DEF Placed
  <2> DEFINE n == [w EXCEPT !.tree[e[1]] = e[2]]
  <2>3. scratch' = [scratch EXCEPT ![cur] = n]
    BY <2>1
  <2>4. /\ n \in Workspaces /\ n.of = w.of /\ n.was = w.was /\ n.root = w.root
        /\ n.rewritten = w.rewritten
        /\ \A q \in Paths : n.tree[q] = (IF q = e[1] THEN e[2] ELSE w.tree[q])
    BY <1>1, <2>2, Edited
  <2> HIDE DEF n
  <2>5. scratch'[cur] = n
    BY <1>3, <2>3
  <2>6. \A q \in Paths : n.tree[q] \in Contents \cup {n.was[q]}
    BY <1>2, <2>2, <2>4
  <2> QED
    BY <1>1, <1>2, <2>3, <2>4, <2>5, <2>6
<1>5. CASE Commit
  <2> DEFINE c == [w EXCEPT !.head = w.tree]
             a == [w EXCEPT !.head = w.tree, !.root = w.tree, !.rewritten = TRUE]
  <2>1. scratch' = [scratch EXCEPT ![cur] = c] \/ scratch' = [scratch EXCEPT ![cur] = a]
    BY <1>5 DEF Commit
  <2>2. /\ c \in Workspaces /\ c.of = w.of /\ c.was = w.was /\ c.root = w.root
        /\ c.rewritten = w.rewritten /\ c.tree = w.tree
        /\ a \in Workspaces /\ a.of = w.of /\ a.was = w.was /\ a.rewritten
        /\ a.tree = w.tree
    BY <1>1, Committed
  <2> HIDE DEF c, a
  <2> QED
    BY <1>1, <1>2, <1>3, <2>1, <2>2
<1>6. CASE ApplyMock
  <2>1. CASE UNCHANGED scratch
    BY <1>1, <1>2, <2>1 DEF Typed
  <2>2. CASE scratch' = [scratch EXCEPT ![cur].tree["src"] = "right"]
    <3> DEFINE n == [w EXCEPT !.tree["src"] = "right"]
    <3>1. scratch' = [scratch EXCEPT ![cur] = n]
      BY <2>2
    <3>2. "src" \in Paths /\ "right" \in Contents
      BY DEF Paths, Contents
    <3>3. /\ n \in Workspaces /\ n.of = w.of /\ n.was = w.was /\ n.root = w.root
          /\ n.rewritten = w.rewritten
          /\ \A q \in Paths : n.tree[q] = (IF q = "src" THEN "right" ELSE w.tree[q])
      BY <1>1, <3>2, Edited
    <3> HIDE DEF n
    <3>4. scratch'[cur] = n
      BY <1>3, <3>1
    <3>5. \A q \in Paths : n.tree[q] \in Contents \cup {n.was[q]}
      BY <1>2, <3>2, <3>3
    <3> QED
      BY <1>1, <1>2, <3>1, <3>3, <3>4, <3>5
  <2> QED
    BY <1>6, <2>1, <2>2 DEF ApplyMock
<1> QED
  BY <1>4, <1>5, <1>6

LEMMA Fresh ==
  ASSUME Typed, Placed, NEW id \in Runs, PrepareScratch(id)
  PROVE  LET n == scratch'[id] IN
         /\ scratch' = [scratch EXCEPT ![id] = n]
         /\ n \in Workspaces /\ n.of = spent'.attempts
         /\ n.was = Prepared(suite, brokered').tree /\ n.tree = n.was /\ n.root = n.was
         /\ spent' \in [attempts : Nat, edits : Nat, looks : Nat, regrades : Nat, arms : Nat]
         /\ spent'.attempts = spent.attempts + 1
<1> DEFINE w == Prepared(suite, brokered')
           n == [of |-> spent'.attempts, tree |-> w.tree, root |-> w.root, head |-> w.head,
                 was |-> w.tree, rewritten |-> FALSE]
<1>1. scratch' = [scratch EXCEPT ![id] = n] /\ brokered' \in BOOLEAN
  BY DEF PrepareScratch
<1>2. /\ spent' \in [attempts : Nat, edits : Nat, looks : Nat, regrades : Nat, arms : Nat]
      /\ spent'.attempts = spent.attempts + 1 /\ spent'.attempts \in Nat \ {0}
  BY DEF PrepareScratch, Spend, Typed
<1>3. w.tree \in Trees /\ w.root = w.tree /\ w.head = w.tree
  BY <1>1, PreparedIs DEF Placed
<1> HIDE DEF w
<1>4. n \in Workspaces
  BY <1>2, <1>3 DEF Workspaces
<1>5. /\ n.of = spent'.attempts /\ n.was = w.tree /\ n.tree = n.was /\ n.root = n.was
  BY <1>3
<1> HIDE DEF n
<1>6. scratch'[id] = n
  BY <1>1 DEF Typed
<1> QED
  BY <1>1, <1>2, <1>4, <1>5, <1>6 DEF w

LEMMA NextTyped == Placed /\ ReasonsInv /\ Typed /\ OfTheModel /\ [Next]_vars => Typed'
<1> SUFFICES ASSUME Placed, ReasonsInv, Typed, OfTheModel, [Next]_vars PROVE Typed'
  OBVIOUS
<1>0. Somebody \in Runs
  BY GradingAssumption DEF Somebody
<1>1. CASE Repair
  BY <1>1 DEF Repair, run, Typed
<1>2. ASSUME NEW id \in Runs, PrepareScratch(id) PROVE Typed'
  <2> DEFINE n == scratch'[id]
  <2>1. /\ scratch' = [scratch EXCEPT ![id] = n]
        /\ n \in Workspaces /\ n.of = spent'.attempts
        /\ spent' \in [attempts : Nat, edits : Nat, looks : Nat, regrades : Nat, arms : Nat]
        /\ spent'.attempts = spent.attempts + 1
    BY <1>2, Fresh
  <2>2. cur' = id /\ brokered' \in BOOLEAN /\ UNCHANGED <<results, why>> /\ pc = "idle"
        /\ pc' = "model"
    BY <1>2 DEF PrepareScratch
  <2> HIDE DEF n
  <2>3. scratch' \in [Runs -> {NoTree} \cup Workspaces] /\ scratch'[id] # NoTree
    BY <2>1, NoWorkspace DEF Typed
  <2>4. \A other \in Runs : scratch'[other] = NoTree \/ scratch'[other].of <= spent'.attempts
    <3> TAKE other \in Runs
    <3>1. CASE other = id
      BY <2>1, <3>1 DEF Typed, Workspaces
    <3>2. CASE other # id /\ scratch[other] # NoTree
      <4>1. scratch'[other] = scratch[other] /\ scratch[other].of \in Nat
        BY <2>1, <3>2 DEF Typed, Workspaces
      <4> QED
        BY <2>1, <3>2, <4>1 DEF Typed
    <3>3. CASE other # id /\ scratch[other] = NoTree
      BY <2>1, <3>3 DEF Typed
    <3> QED
      BY <3>1, <3>2, <3>3
  <2> QED
    BY <2>1, <2>2, <2>3, <2>4 DEF Typed
<1>3. ASSUME NEW id \in Runs, Cleaned(id) PROVE Typed'
  BY <1>3 DEF Cleaned, run, Typed
<1>4. CASE Write \/ Commit \/ ApplyMock
  <2> DEFINE n == scratch'[cur]
  <2>1. /\ pc = "model" /\ scratch' = [scratch EXCEPT ![cur] = n]
        /\ n \in Workspaces /\ n.of = scratch[cur].of
    BY <1>4, Worked
  <2>2. /\ UNCHANGED <<results, cur, brokered>>
        /\ \/ pc' = "model" /\ UNCHANGED why
           \/ pc' = "tamper"
    BY <1>4 DEF Write, Commit, ApplyMock, run
  <2>3. spent' \in [attempts : Nat, edits : Nat, looks : Nat, regrades : Nat, arms : Nat]
        /\ spent'.attempts = spent.attempts
    BY <1>4 DEF Write, Commit, ApplyMock, Spend, Typed
  <2> HIDE DEF n
  <2>4. /\ scratch' \in [Runs -> {NoTree} \cup Workspaces] /\ scratch'[cur] # NoTree
        /\ \A id \in Runs : scratch'[id] = NoTree \/ scratch'[id].of <= spent'.attempts
    BY <2>1, <2>3, NoWorkspace DEF Typed
  <2> QED
    BY <2>1, <2>2, <2>3, <2>4 DEF Typed
<1>5. CASE Look
  <2>1. spent' \in [attempts : Nat, edits : Nat, looks : Nat, regrades : Nat, arms : Nat]
        /\ spent'.attempts = spent.attempts
    BY <1>5 DEF Look, Spend, Typed
  <2> QED
    BY <1>5, <2>1 DEF Look, Typed
<1>6. CASE Gone \/ Report \/ Grade
  BY <1>6 DEF Gone, Report, Grade, Typed
<1>7. CASE AppendRow
  <2>1. /\ results' = Append(results, Row) /\ Row.pass = (why = {"ok"} /\ raw[1] = "pass")
        /\ Row.pass_raw = raw[1] /\ UNCHANGED <<scratch, spent>>
        /\ pc' = "idle" /\ cur' = Somebody /\ brokered' = FALSE /\ why' = {}
    BY <1>7 DEF AppendRow, Row, Idle
  <2>2. \A i \in DOMAIN results' : results'[i].pass => results'[i].pass_raw = "pass"
    <3>1. /\ DOMAIN results = 1..Len(results) /\ DOMAIN results' = 1..(Len(results) + 1)
          /\ Len(results) \in Nat
          /\ \A i \in 1..Len(results) : results'[i] = results[i]
          /\ results'[Len(results) + 1] = Row
      BY <2>1, Appended DEF Placed
    <3>2. ASSUME NEW i \in DOMAIN results', results'[i].pass PROVE results'[i].pass_raw = "pass"
      <4>1. CASE i \in DOMAIN results
        BY <3>1, <3>2, <4>1 DEF Typed
      <4>2. CASE i = Len(results) + 1
        BY <2>1, <3>1, <3>2, <4>2
      <4> QED
        BY <3>1, <4>1, <4>2
    <3> QED
      BY <3>2
  <2> QED
    BY <1>0, <2>1, <2>2 DEF Typed
<1>8. CASE Killed
  BY <1>0, <1>8 DEF Killed, Idle, Typed
<1>9. CASE Instruments \/ UNCHANGED vars
  <2>1. UNCHANGED <<scratch, results, run>>
    BY <1>9, Beside
  <2>2. spent' \in [attempts : Nat, edits : Nat, looks : Nat, regrades : Nat, arms : Nat]
        /\ spent'.attempts = spent.attempts
    <3>1. CASE UNCHANGED spent
      BY <3>1 DEF Typed
    <3>2. CASE Spend("arms") \/ Spend("regrades")
      BY <3>2 DEF Spend, Typed
    <3> QED
      BY <1>9, <3>1, <3>2 DEF Instruments, RunArms, ArmGrade, ArmAgain, ArmsKilled, Regrade,
        GateBroken, GateSolution, ReadProvenance, RegradeRow, Finish, RegradeKilled, vars,
        gradingVars
  <2> QED
    BY <2>1, <2>2 DEF run, Typed
<1> QED
  BY <1>1, <1>2, <1>3, <1>4, <1>5, <1>6, <1>7, <1>8, <1>9 DEF Next, GradingNext, Instruments

LEMMA NextOfTheModel ==
  Placed /\ Typed /\ OfTheModel /\ [Next]_vars => OfTheModel'
<1> SUFFICES ASSUME Placed, Typed, OfTheModel, [Next]_vars PROVE OfTheModel'
  OBVIOUS
<1>1. CASE Repair \/ Instruments \/ UNCHANGED vars
  <2>1. UNCHANGED <<scratch, results, run>>
    BY <1>1, Beside DEF Repair
  <2> QED
    BY <2>1 DEF run, OfTheModel, ReportIsOfTheModel, LocIsOfTheWork
<1>2. ASSUME NEW id \in Runs, PrepareScratch(id) PROVE OfTheModel'
  <2> DEFINE n == scratch'[id]
  <2>1. n.was = Prepared(suite, brokered').tree /\ n.tree = n.was /\ n.root = n.was
    BY <1>2, Fresh
  <2>2. cur' = id /\ UNCHANGED results /\ pc' = "model"
    BY <1>2 DEF PrepareScratch
  <2> HIDE DEF n
  <2>3. scratch'[cur'] = n /\ suite \in Suites
    BY <2>2 DEF n, Placed
  <2>4. \A p \in Paths : n.tree[p] \in Contents \cup {n.was[p]}
    BY <2>1
  <2> QED
    BY <2>1, <2>2, <2>3, <2>4 DEF OfTheModel, ReportIsOfTheModel, LocIsOfTheWork
<1>3. ASSUME NEW id \in Runs, Cleaned(id) PROVE OfTheModel'
  <2>1. UNCHANGED <<results, run>> /\ (pc # "idle" => scratch'[cur] = scratch[cur])
    BY <1>3 DEF Cleaned, Typed
  <2>2. CASE pc = "idle"
    BY <2>1, <2>2 DEF run, OfTheModel, ReportIsOfTheModel, LocIsOfTheWork
  <2>3. CASE pc # "idle"
    BY <2>1, <2>3 DEF run, OfTheModel, ReportIsOfTheModel, LocIsOfTheWork
  <2> QED
    BY <2>2, <2>3
<1>4. CASE Write \/ Commit \/ ApplyMock
  <2> DEFINE n == scratch'[cur]
  <2>1. /\ pc = "model" /\ n.was = scratch[cur].was
        /\ \A p \in Paths : n.tree[p] \in Contents \cup {n.was[p]}
        /\ n.rewritten \/ n.root = n.was
    BY <1>4, Worked
  <2>2. UNCHANGED <<results, cur, brokered>> /\ pc' \in {"model", "tamper"}
    BY <1>4 DEF Write, Commit, ApplyMock, run
  <2>3. \E v \in Suites : n.was = Prepared(v, brokered).tree
    BY <2>1 DEF OfTheModel
  <2> HIDE DEF n
  <2>4. scratch'[cur'] = n
    BY <2>2 DEF n
  <2> QED
    BY <2>1, <2>2, <2>3, <2>4 DEF OfTheModel, ReportIsOfTheModel, LocIsOfTheWork
<1>5. CASE Look \/ Gone \/ Grade
  BY <1>5 DEF Look, Gone, Grade, OfTheModel, ReportIsOfTheModel, LocIsOfTheWork
<1>6. CASE Report
  <2>1. /\ UNCHANGED <<scratch, results, cur, brokered>> /\ pc = "tamper" /\ pc' = "grade"
        /\ tamper'.by = suite /\ suite \in Suites
        /\ tamper'.found = TamperReport(scratch[cur].tree, suite, brokered)
    BY <1>6 DEF Report, Placed
  <2> QED
    BY <2>1 DEF OfTheModel, ReportIsOfTheModel, LocIsOfTheWork
<1>7. CASE AppendRow
  <2> DEFINE w == scratch[cur]
             r == Row
  <2>1. results' = Append(results, r) /\ pc = "row" /\ pc' = "idle"
    BY <1>7 DEF AppendRow, Idle
  <2>2. /\ r.tamper = tamper /\ r.loc = LocChanged(w) /\ r.left = w
    BY DEF Row
  <2>3. PICK v \in Suites : w.was = Prepared(v, brokered).tree
    BY <2>1 DEF OfTheModel
  <2>4. /\ \A p \in Paths : w.tree[p] \in Contents \cup {w.was[p]}
        /\ w.rewritten \/ w.root = w.was
        /\ tamper.by \in Suites
        /\ tamper.found = TamperReport(w.tree, tamper.by, brokered)
        /\ brokered \in BOOLEAN
    BY <2>1 DEF OfTheModel, Typed
  <2>5. PathsOf(tamper.found) = Blamed(w, tamper.by)
    BY <2>3, <2>4, ReportIs
  <2>6. ~w.rewritten =>
          LocChanged(w) = Cardinality({p \in Paths \ {"lock", ".venv"} : w.tree[p] # w.was[p]})
    <3> HAVE ~w.rewritten
    <3>1. Paths \ (GENERATED_APPARATUS \cup NOT_GRADED_DIRS) = Paths \ {"lock", ".venv"}
      BY DEF GENERATED_APPARATUS, NOT_GRADED_DIRS
    <3>2. w.root = w.was
      BY <2>4
    <3>3. {p \in Paths \ (GENERATED_APPARATUS \cup NOT_GRADED_DIRS) : w.tree[p] # w.root[p]}
            = {p \in Paths \ {"lock", ".venv"} : w.tree[p] # w.was[p]}
      BY <3>1, <3>2
    <3> QED
      BY <3>3 DEF LocChanged
  <2> HIDE DEF w, r
  <2>7. /\ DOMAIN results = 1..Len(results) /\ DOMAIN results' = 1..(Len(results) + 1)
        /\ Len(results) \in Nat
        /\ \A i \in 1..Len(results) : results'[i] = results[i]
        /\ results'[Len(results) + 1] = r
    BY <2>1, Appended DEF Placed
  <2>8. ReportIsOfTheModel'
    <3>1. ASSUME NEW i \in DOMAIN results'
          PROVE  PathsOf(results'[i].tamper.found)
                   = Blamed(results'[i].left, results'[i].tamper.by)
      <4>1. CASE i \in DOMAIN results
        BY <2>7, <4>1, ReportIsOf DEF OfTheModel
      <4>2. CASE i = Len(results) + 1
        BY <2>2, <2>5, <2>7, <4>2
      <4> QED
        BY <2>7, <4>1, <4>2
    <3> QED
      BY <3>1 DEF ReportIsOfTheModel, PathsOf, Blamed
  <2>9. LocIsOfTheWork'
    <3> SUFFICES ASSUME NEW i \in DOMAIN results', ~results'[i].left.rewritten
                 PROVE  results'[i].loc = Cardinality({p \in Paths \ {"lock", ".venv"} :
                          results'[i].left.tree[p] # results'[i].left.was[p]})
      BY DEF LocIsOfTheWork
    <3>1. CASE i \in DOMAIN results
      BY <2>7, <3>1 DEF OfTheModel, LocIsOfTheWork
    <3>2. CASE i = Len(results) + 1
      BY <2>2, <2>6, <2>7, <3>2
    <3> QED
      BY <2>7, <3>1, <3>2
  <2> QED
    BY <2>1, <2>8, <2>9 DEF OfTheModel
<1>8. CASE Killed
  BY <1>8 DEF Killed, Idle, OfTheModel, ReportIsOfTheModel, LocIsOfTheWork
<1> QED
  BY <1>1, <1>2, <1>3, <1>4, <1>5, <1>6, <1>7, <1>8 DEF Next, GradingNext, Instruments

ToolsTyped ==
  /\ apc \in {"idle", "grade", "again"} /\ arm \in {"empty", "broken"}
  /\ passed \in {"none", "pass", "fail"} /\ cut \in BOOLEAN
  /\ rpc \in Exits \cup {"gate broken", "gate solution", "provenance", "grade"}
  /\ limit \in {"none", "one", "gates"}
  /\ baseline \in 0..suite /\ prov \in 0..suite

LEMMA NextTools == Placed /\ ToolsTyped /\ [Next]_vars => ToolsTyped'
<1> SUFFICES ASSUME Placed, ToolsTyped, [Next]_vars PROVE ToolsTyped'
  OBVIOUS
<1>0. suite \in 0..suite' /\ suite \in Nat /\ suite' \in Nat
  BY SuiteGrows DEF Placed, Suites
<1>1. CASE UNCHANGED <<armVars, regradeVars>>
  <2>1. UNCHANGED <<apc, arm, passed, cut, rpc, limit, baseline, prov>>
    BY <1>1 DEF armVars, regradeVars
  <2>2. baseline \in 0..suite' /\ prov \in 0..suite'
    <3>1. ASSUME NEW a, NEW b, a \in Nat, b \in Nat, a <= b
          PROVE  \A i \in 0..a : i \in 0..b
      BY <3>1
    <3>2. suite <= suite'
      BY <1>0
    <3> QED
      BY <1>0, <3>1, <3>2 DEF ToolsTyped
  <2> QED
    BY <2>1, <2>2 DEF ToolsTyped
<1>2. CASE RunArms
  BY <1>2 DEF RunArms, regradeVars, ToolsTyped
<1>3. CASE ArmGrade
  <2>1. PICK verdict \in GradedRun(ArmTree(arm, suite), suite) :
          IF verdict = "timeout" THEN apc' = "idle" /\ cut' = TRUE /\ UNCHANGED passed
          ELSE apc' = "again" /\ passed' = verdict /\ UNCHANGED cut
    BY <1>3 DEF ArmGrade
  <2>2. verdict = "timeout" \/ verdict \in {"pass", "fail"}
    BY GradedRunIs DEF Placed
  <2> QED
    BY <1>3, <2>1, <2>2 DEF ArmGrade, gradingVars, regradeVars, ToolsTyped
<1>4. CASE ArmAgain
  <2>1. PICK verdict \in GradedRun(ArmTree(arm, suite), suite) :
          IF verdict = "timeout" THEN apc' = "idle" /\ cut' = TRUE /\ UNCHANGED arm
          ELSE /\ apc' = IF arm = "empty" THEN "grade" ELSE "idle"
               /\ arm' = "broken"
               /\ UNCHANGED cut
    BY <1>4 DEF ArmAgain
  <2> QED
    BY <1>4, <2>1 DEF ArmAgain, gradingVars, regradeVars, ToolsTyped
<1>5. CASE ArmsKilled
  BY <1>5 DEF ArmsKilled, gradingVars, regradeVars, ToolsTyped
<1>6. CASE Regrade
  BY <1>0, <1>6 DEF Regrade, armVars, ToolsTyped
<1>7. CASE GateBroken \/ ReadProvenance \/ RegradeRow \/ RegradeKilled
  BY <1>0, <1>7 DEF GateBroken, ReadProvenance, RegradeRow, RegradeKilled, gradingVars, armVars,
    Exits, ToolsTyped
<1>8. CASE GateSolution
  <2>1. rpc' \in {"exit 0", "exit 1", "provenance"}
    BY <1>8 DEF GateSolution
  <2> QED
    BY <1>8, <2>1 DEF GateSolution, gradingVars, armVars, Exits, ToolsTyped
<1>9. CASE Finish
  BY <1>9 DEF Finish, ExitCode, gradingVars, armVars, Exits, ToolsTyped
<1> QED
  BY <1>1, <1>2, <1>3, <1>4, <1>5, <1>6, <1>7, <1>8, <1>9, RunsBeside DEF Instruments

(* Every reason a row has is classified: run_status knows its parts.        *)
LEMMA WhysAreKnown ==
  ASSUME NEW w \in Whys
  PROVE  w \subseteq KnownReasons /\ StatusClass(w) # "unclassified"
<1>1. w # {} /\ w \subseteq {"ok", "cli_error", "cap_exhausted", "mock", "mock_fail", "verify_timeout"}
  BY DEF Whys, Ended
<1>2. /\ ClassOf("ok") = "scored" /\ ClassOf("cap_exhausted") = "scored"
      /\ ClassOf("cli_error") = "infra" /\ ClassOf("verify_timeout") = "infra"
      /\ ClassOf("mock") = "mock" /\ ClassOf("mock_fail") = "mock"
  BY DEF ClassOf, EXIT_REASON_CLASS, KnownReasons, Scored, Infra, Mock
<1>3. Severity["scored"] = 6 /\ Severity["infra"] = 4 /\ Severity["mock"] = 5
  BY DEF Severity
<1> DEFINE sev(r) == Severity[ClassOf(r)]
           m == CHOOSE r \in w : \A t \in w : sev(r) <= sev(t)
<1>4. \E r \in w : \A t \in w : sev(r) <= sev(t)
  <2>1. PICK e \in Ended : w = e \/ w = e \cup {"verify_timeout"}
    BY DEF Whys
  <2>2. PICK r \in {"ok", "cli_error", "cap_exhausted", "mock", "mock_fail"} : e = {r}
    BY DEF Ended
  <2>3. sev(r) \in Int /\ sev("verify_timeout") \in Int
    BY <1>2, <1>3
  <2>4. sev(r) <= sev("verify_timeout") \/ sev("verify_timeout") <= sev(r)
    BY <2>3
  <2> QED
    BY <2>1, <2>2, <2>3, <2>4
<1>5. m \in w
  BY <1>4
<1>6. StatusClass(w) = ClassOf(m)
  BY <1>1 DEF StatusClass
<1> HIDE DEF m
<1>7. StatusClass(w) # "unclassified"
  BY <1>1, <1>2, <1>5, <1>6
<1>8. w \subseteq KnownReasons
  BY <1>1 DEF KnownReasons, Scored, Infra, Mock
<1> QED
  BY <1>7, <1>8

LEMMA InitTells == Init => Typed /\ OfTheModel /\ ToolsTyped
<1> SUFFICES ASSUME Init PROVE Typed /\ OfTheModel /\ ToolsTyped
  OBVIOUS
<1>1. Placed /\ Somebody \in Runs
  BY InitPlaced, GradingAssumption DEF Somebody
<1>2. /\ results = <<>> /\ pc = "idle" /\ cur = Somebody /\ brokered = FALSE /\ why = {}
      /\ scratch = [id \in Runs |-> NoTree]
      /\ spent = [attempts |-> 0, edits |-> 0, looks |-> 0, regrades |-> 0, arms |-> 0]
  BY DEF Init, GradingInit
<1>3. Typed
  <2>1. scratch \in [Runs -> {NoTree} \cup Workspaces] /\ \A id \in Runs : scratch[id] = NoTree
    BY <1>2
  <2>2. DOMAIN results = {}
    BY <1>2
  <2>3. spent \in [attempts : Nat, edits : Nat, looks : Nat, regrades : Nat, arms : Nat]
    BY <1>2
  <2> QED
    BY <1>1, <1>2, <2>1, <2>2, <2>3 DEF Typed
<1>4. OfTheModel
  BY <1>2 DEF OfTheModel, ReportIsOfTheModel, LocIsOfTheWork
<1>5. ToolsTyped
  <2>1. 0 \in 0..suite
    BY <1>1 DEF Placed, Suites
  <2>2. /\ apc = "idle" /\ arm = "empty" /\ passed = "none" /\ cut = FALSE
        /\ rpc = "idle" /\ limit = "none" /\ baseline = 0 /\ prov = 0
    BY DEF Init
  <2> QED
    BY <2>1, <2>2 DEF Exits, ToolsTyped
<1> QED
  BY <1>3, <1>4, <1>5

LEMMA TypesByInv ==
  Placed /\ ReasonsInv /\ RegradeInv /\ Typed /\ ToolsTyped => TypeOK
<1> SUFFICES ASSUME Placed, ReasonsInv, RegradeInv, Typed, ToolsTyped PROVE TypeOK
  OBVIOUS
<1>1. why \subseteq KnownReasons
  <2>1. why = {} \/ why \in Whys
    BY DEF Placed, Typed, ReasonsInv, Whys
  <2> QED
    BY <2>1, WhysAreKnown
<1>2. \A id \in Runs : scratch[id] = NoTree \/ scratch[id].of \in 1..spent.attempts
  <2> SUFFICES ASSUME NEW id \in Runs, scratch[id] # NoTree
               PROVE  scratch[id].of \in 1..spent.attempts
    OBVIOUS
  <2>1. scratch[id].of \in Nat \ {0} /\ scratch[id].of <= spent.attempts /\ spent.attempts \in Nat
    BY DEF Typed, Workspaces
  <2> QED
    BY <2>1
<1>3. \A i \in DOMAIN results : StatusClass(results[i].why) # "unclassified"
  BY WhysAreKnown DEF ReasonsInv
<1>4. subjects \in 0..Len(results) /\ Len(out) <= Len(results)
      /\ (rpc = "grade" => Len(out) < subjects)
  <2>1. PICK S : results \in Seq(S)
    BY DEF Placed, IsASeq
  <2>2. Len(results) \in Nat
    BY <2>1
  <2> QED
    BY <2>2 DEF RegradeInv
<1> QED
  BY <1>1, <1>2, <1>3, <1>4 DEF TypeOK, Placed, Typed, ToolsTyped

(* The tamper report of a row is of the model's work and of no other, and   *)
(* so is its count of lines; every row has a reason run_status knows.       *)
THEOREM RowTellsWhatTheModelDidHolds == Spec => []RowTellsWhatTheModelDid
<1>1. OfTheModel /\ TypeOK => RowTellsWhatTheModelDid
  BY DEF OfTheModel, RowTellsWhatTheModelDid
<1> QED
  BY <1>1, InitPlaced, InitRegrade, InitTells, NextPlaced, NextReasons, NextKept, NextRegrade,
    NextTyped, NextOfTheModel, NextTools, TypesByInv, PTL DEF Spec
=============================================================================
