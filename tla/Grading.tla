------------------------------- MODULE Grading -------------------------------
(***************************************************************************)
(* The grade of runner/run.py: prepare_scratch, the grading tree, the      *)
(* tamper report, loc_changed, and execute_run as far as they are part of  *)
(* it.  "The grade takes the MODEL'S SOURCE from scratch and everything    *)
(* else from the task dir."                                                *)
(*                                                                         *)
(* A tree says what is at each path of a working copy; one path stands     *)
(* for each kind of file the code tells apart.  A suite is a version of    *)
(* the task's graded test; the first accepts more than the task asks for,  *)
(* and the ones it is repaired to do not.                                  *)
(*                                                                         *)
(* A workspace is the tree, the tree of the root commit and the one of     *)
(* HEAD: the model has a shell, and git.                                   *)
(***************************************************************************)
EXTENDS RunStatus, Sequences, FiniteSets

CONSTANTS
  Runs,        \* run_ids
  Budgets      \* bounds: how many attempts, edits, looks, and invocations; the
               \* edits and the repairs, from which suite to which

Paths == {"src", "verify.sh", "tests/test", "tests/own", "conftest.py", "lock", ".venv"}

(* What a model may write to a path.                                        *)
Contents == {"linear", "right", "other", "absent", "directory", "failing"}

NOT_GRADED_DIRS == {".venv"}
GENERATED_APPARATUS == {"lock"}
GRADED_TEST_DIRS == {"tests/test", "tests/own"}

(* _is_apparatus, by name.                                                  *)
Apparatus == {"verify.sh", "conftest.py", "lock"}

Suites == 1..3

ASSUME GradingAssumption ==
  /\ Budgets \subseteq [attempts : Nat, edits : Nat, looks : Nat, regrades : Nat, arms : Nat,
                         of : SUBSET (Paths \X Contents), first : Suites, last : Suites]
  /\ Runs # {}

VARIABLES
  suite,        \* the version of the graded test in the task dir
  scratch,      \* .scratch/<run_id>, or NoTree
  results,      \* the rows of results.jsonl, of one task
  pc, cur, brokered, why, tamper, raw,   \* execute_run
  told,         \* history: what the broker last told the model, and of what
  spent, budget \* history: how much was done of what may be done

run == <<pc, cur, brokered, why, tamper, raw, told>>
gradingVars == <<suite, scratch, results, run, spent, budget>>

-----------------------------------------------------------------------------
(* Trees.                                                                   *)

Graded(v) == <<"suite 1", "suite 2", "suite 3">>[v]

(* base/ and verify.sh of the task dir, with suite v.                       *)
TaskDir(v) ==
  [p \in Paths |-> CASE p = "src" -> "base" [] p = "verify.sh" -> "canonical"
                     [] p = "tests/test" -> Graded(v) [] OTHER -> "absent"]

CanonicalGradingFiles(v) ==
  LET canon == {p \in Apparatus \cup GRADED_TEST_DIRS : TaskDir(v)[p] # "absent"}
  IN [p \in canon |-> TaskDir(v)[p]]

(* What prepare_scratch installs; brokered, the shim over verify.sh.        *)
Prepared(v, shim) ==
  LET tree == [TaskDir(v) EXCEPT !["verify.sh"] = IF shim THEN "shim" ELSE @]
  IN [tree |-> tree, root |-> tree, head |-> tree]

(* Mutant: no account of what the runner itself installed.                  *)
TamperReportOfShim(tree, v, shim) ==
  LET canon == CanonicalGradingFiles(v)
  IN {<<"deleted", p>> : p \in {q \in DOMAIN canon : tree[q] \in {"absent", "directory"}}}
     \cup {<<"modified", p>> : p \in {q \in DOMAIN canon :
             tree[q] \notin {"absent", "directory", canon[q]}}}
     \cup {<<"added", p>> : p \in {q \in Apparatus \ GENERATED_APPARATUS :
             q \notin DOMAIN canon /\ tree[q] # "absent"}}

TamperReport(tree, v, shim) ==
  LET canon == CanonicalGradingFiles(v)
      installed == [p \in DOMAIN canon |-> IF shim /\ p = "verify.sh" THEN "shim" ELSE canon[p]]
  IN {<<"deleted", p>> : p \in {q \in DOMAIN canon : tree[q] \in {"absent", "directory"}}}
     \cup {<<"modified", p>> : p \in {q \in DOMAIN canon :
             tree[q] \notin {"absent", "directory", installed[q]}}}
     \cup {<<"added", p>> : p \in {q \in Apparatus \ GENERATED_APPARATUS :
             q \notin DOMAIN canon /\ tree[q] # "absent"}}

(* Mutant: only what the model removed is put back.                         *)
GradingTreeRestoring(tree, v) ==
  LET canon == CanonicalGradingFiles(v)
  IN [p \in Paths |->
        IF p \in DOMAIN canon /\ tree[p] = "absent" THEN canon[p]
        ELSE IF p \in NOT_GRADED_DIRS \cup (Apparatus \ DOMAIN canon) THEN "absent"
        ELSE tree[p]]

(* The model's tree without its dependency trees, without the apparatus it  *)
(* added, and with the canonical files over it.                             *)
GradingTree(tree, v) ==
  LET canon == CanonicalGradingFiles(v)
  IN [p \in Paths |->
        IF p \in DOMAIN canon THEN canon[p]
        ELSE IF p \in NOT_GRADED_DIRS \cup Apparatus THEN "absent"
        ELSE tree[p]]

Accepts(v, src) == src = "right" \/ (v = 1 /\ src = "linear")

Verdict(v, tree) ==
  IF Accepts(v, tree["src"]) /\ tree["tests/own"] # "failing" THEN "pass" ELSE "fail"

(* What `bash verify.sh` finds in a tree.  A test of the model's own runs   *)
(* with the graded one.  Nothing is known of a tree whose apparatus is not  *)
(* the task's.                                                              *)
VerifySh(tree) ==
  IF /\ tree["verify.sh"] = "canonical"
     /\ \A p \in {"conftest.py", "lock", ".venv"} : tree[p] = "absent"
     /\ \E v \in Suites : tree["tests/test"] = Graded(v)
  THEN {Verdict(v, tree) : v \in {u \in Suites : tree["tests/test"] = Graded(u)}}
  ELSE {"pass", "fail"}

(* 600 s are up on some machine for any tree.                               *)
GradedRun(tree, v) == VerifySh(GradingTree(tree, v)) \cup {"timeout"}

(* One line per file.  node_modules and .venv are in the tasks' .gitignore. *)
LocChanged(w) ==
  Cardinality({p \in Paths \ (GENERATED_APPARATUS \cup NOT_GRADED_DIRS) : w.tree[p] # w.root[p]})

-----------------------------------------------------------------------------
(* A run of a cell.                                                         *)

Somebody == CHOOSE id \in Runs : TRUE
NoTree == [of |-> 0]
NoTold == [says |-> "nothing"]
NoReport == [found |-> {}, by |-> 0]
NoVerdict == <<"none", 0>>

GradingInit ==
  /\ scratch = [id \in Runs |-> NoTree] /\ results = <<>>
  /\ pc = "idle" /\ cur = Somebody
  /\ brokered = FALSE /\ why = {} /\ tamper = NoReport /\ raw = NoVerdict /\ told = NoTold
  /\ spent = [attempts |-> 0, edits |-> 0, looks |-> 0, regrades |-> 0, arms |-> 0]
  /\ budget \in Budgets
  /\ suite = budget.first

Spend(what) ==
  /\ spent[what] < budget[what]
  /\ spent' = [spent EXCEPT ![what] = @ + 1]
  /\ UNCHANGED budget

(* Ticket 29 repairs the suite of a task, whatever is going on.             *)
Repair ==
  /\ suite < budget.last
  /\ suite' = suite + 1
  /\ UNCHANGED <<scratch, results, run, spent, budget>>

ExistingIds ==
  {results[i].id : i \in {j \in DOMAIN results : results[j].why \in {{"ok"}, {"cap_exhausted"}}}}

(* execute_run up to the model: prepare_scratch over whatever was there.    *)
PrepareScratch(id) ==
  /\ pc = "idle" /\ id \notin ExistingIds
  /\ Spend("attempts")
  /\ cur' = id
  /\ brokered' \in BOOLEAN
  /\ LET w == Prepared(suite, brokered')
     IN scratch' = [scratch EXCEPT ![id] =
          [of |-> spent'.attempts, tree |-> w.tree, root |-> w.root, head |-> w.head,
           was |-> w.tree, rewritten |-> FALSE]]
  /\ pc' = "model"
  /\ told' = NoTold
  /\ UNCHANGED <<suite, results, why, tamper, raw>>

(* The model works: it writes, commits, or amends the commit it was given.  *)
Write ==
  /\ pc = "model"
  /\ Spend("edits")
  /\ \E e \in budget.of : /\ scratch[cur].tree[e[1]] # e[2]
                      /\ scratch' = [scratch EXCEPT ![cur].tree[e[1]] = e[2]]
  /\ UNCHANGED <<suite, results, run>>

Commit ==
  /\ pc = "model"
  /\ Spend("edits")
  /\ LET w == scratch[cur]
     IN /\ w.head # w.tree
        /\ \/ scratch' = [scratch EXCEPT ![cur].head = w.tree]
           \/ /\ w.head = w.root
              /\ scratch' = [scratch EXCEPT ![cur].head = w.tree, ![cur].root = w.tree,
                                            ![cur].rewritten = TRUE]
  /\ UNCHANGED <<suite, results, run>>

(* The shim asks the broker, which calls the same graded_run.               *)
Look ==
  /\ pc = "model" /\ brokered
  /\ Spend("looks")
  /\ \E says \in GradedRun(scratch[cur].tree, suite) :
       told' = [says |-> says, of |-> scratch[cur].tree, by |-> suite]
  /\ UNCHANGED <<suite, scratch, results, pc, cur, brokered, why, tamper, raw>>

(* The model is gone, and how.                                              *)
Gone ==
  /\ pc = "model"
  /\ why' \in {{"ok"}, {"cli_error"}} \cup (IF brokered THEN {{"cap_exhausted"}} ELSE {})
  /\ pc' = "tamper"
  /\ UNCHANGED <<suite, scratch, results, cur, brokered, tamper, raw, told, spent, budget>>

(* GAUNTLET_MOCK: no model and no broker; the solution is applied.          *)
ApplyMock ==
  /\ pc = "model" /\ ~brokered /\ scratch[cur].tree = scratch[cur].was
  /\ \/ why' = {"mock_fail"} /\ UNCHANGED scratch
     \/ why' = {"mock"} /\ scratch' = [scratch EXCEPT ![cur].tree["src"] = "right"]
  /\ pc' = "tamper"
  /\ UNCHANGED <<suite, results, cur, brokered, tamper, raw, told, spent, budget>>

Report ==
  /\ pc = "tamper"
  /\ tamper' = [found |-> TamperReport(scratch[cur].tree, suite, brokered), by |-> suite]
  /\ pc' = "grade"
  /\ UNCHANGED <<suite, scratch, results, cur, brokered, why, raw, told, spent, budget>>

(* run_verify, of a copy.                                                   *)
Grade ==
  /\ pc = "grade"
  /\ \E verdict \in GradedRun(scratch[cur].tree, suite) :
       /\ raw' = IF verdict = "timeout" THEN NoVerdict ELSE <<verdict, suite>>
       /\ why' = IF verdict = "timeout" THEN why \cup {"verify_timeout"} ELSE why
  /\ pc' = "row"
  /\ UNCHANGED <<suite, scratch, results, cur, brokered, tamper, told, spent, budget>>

Row ==
  [id |-> cur, why |-> why, pass |-> why = {"ok"} /\ raw[1] = "pass", pass_raw |-> raw[1],
   tamper |-> tamper, loc |-> LocChanged(scratch[cur]),
   shim |-> brokered, left |-> scratch[cur], by |-> raw[2], told |-> told]

Idle ==
  /\ pc' = "idle" /\ cur' = Somebody /\ brokered' = FALSE
  /\ why' = {} /\ tamper' = NoReport /\ raw' = NoVerdict /\ told' = NoTold

AppendRow ==
  /\ pc = "row"
  /\ results' = Append(results, Row)
  /\ Idle
  /\ UNCHANGED <<suite, scratch, spent, budget>>

(* The runner is killed; its scratch directory stays.                       *)
Killed ==
  /\ pc # "idle"
  /\ Idle
  /\ UNCHANGED <<suite, scratch, results, spent, budget>>

(* "The scratch trees ... are not retained forever."                        *)
Cleaned(id) ==
  /\ scratch[id] # NoTree /\ (pc = "idle" \/ cur # id)
  /\ scratch' = [scratch EXCEPT ![id] = NoTree]
  /\ UNCHANGED <<suite, results, run, spent, budget>>

GradingNext ==
  \/ Repair
  \/ \E id \in Runs : PrepareScratch(id) \/ Cleaned(id)
  \/ Write \/ Commit \/ Look \/ Gone \/ ApplyMock
  \/ Report \/ Grade \/ AppendRow \/ Killed

-----------------------------------------------------------------------------
(* Safety.                                                                  *)

(* Whatever the model did to the apparatus, to git or to its environment,   *)
(* the verdict on a row and every answer of the broker are the ones of the  *)
(* suite of the task dir on the model's source ("brokered feedback can      *)
(* never diverge from what the run is finally scored on").                  *)
GradeIsOfTheSource ==
  \A i \in DOMAIN results :
    LET r == results[i] IN
    /\ r.pass_raw # "none" => r.pass_raw = Verdict(r.by, r.left.tree)
    /\ r.told.says \notin {"nothing", "timeout"} => r.told.says = Verdict(r.told.by, r.told.of)

(* The report names the apparatus files the model changed, on a brokered   *)
(* run too, and no other: an honest run has an empty one.  Only a suite     *)
(* repaired while the run was on is blamed on the model, and always.        *)
ReportIsOfTheModel ==
  \A i \in DOMAIN results :
    LET r == results[i] IN
    {t[2] : t \in r.tamper.found}
      = {p \in {"verify.sh", "tests/test", "conftest.py"} : r.left.tree[p] # r.left.was[p]}
        \cup {p \in {"tests/test"} : r.left.was[p] # Graded(r.tamper.by)}

(* The lines counted are of everything the model changed, committed or not, *)
(* the apparatus included, and of nothing else; a model that amends the     *)
(* base commit hides what it amended (base_commit takes the root for it).   *)
LocIsOfTheWork ==
  \A i \in DOMAIN results :
    LET r == results[i] IN
    ~r.left.rewritten =>
      r.loc = Cardinality({p \in Paths \ {"lock", ".venv"} : r.left.tree[p] # r.left.was[p]})
=============================================================================
