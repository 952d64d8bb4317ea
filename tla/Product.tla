------------------------------- MODULE Product -------------------------------
(***************************************************************************)
(* The product's run loop, product/gauntlet_playground/executor.py, with   *)
(* the two gates in front of a visitor's money: the disclosure gate        *)
(* (disclosure.py) and the fail-closed spend cap (runner/spend_cap.py).    *)
(*                                                                         *)
(* Visitors are shown disclosures and call execute() with a request and a  *)
(* disclosure they hold.  Several executions may run at once and append to *)
(* one usage.jsonl.  An execution ends in a report, or in an exception, or *)
(* is killed, and then what it held in memory is gone.  An append may be   *)
(* cut: append_usage_row does not look at what os.write returns (Jsonl).   *)
(*                                                                         *)
(* Left out: the text of the items a disclosure shows, latency, rendering. *)
(***************************************************************************)
EXTENDS Jsonl, FiniteSets

CONSTANTS
  Visitors,       \* callers of execute
  Tasks,
  Models,         \* model ids of the registry
  Priced,         \* those with a row in usage_ledger.PRICING
  FloorUsd,       \* what the measured scaffold floor of a model costs
  Pathed,         \* those whose family has a row in INVOCATION_PATHS
  Prompts,        \* the tasks with a PROMPT.md in the tasks_dir
  Requests,       \* what visitors ask for
  NoRequest,      \* before the first call
  NoCap,          \* cap_usd = None
  Costs,          \* what one invocation may cost
  MaxExecutions,  \* bound: calls of execute
  MaxTears        \* bound: appends that are cut

ASSUME ProductAssumption ==
  /\ Priced \subseteq Models /\ Pathed \subseteq Models
  /\ DOMAIN FloorUsd \subseteq Models
  /\ \A m \in DOMAIN FloorUsd : FloorUsd[m] \in Nat
  /\ NoCap \notin Int
  /\ NoRequest \notin Requests
  /\ Requests \subseteq [model : Models, tasks : Seq(Tasks), cap : Int \cup {NoCap},
                         key : BOOLEAN]
  /\ Costs \subseteq Nat
  /\ MaxExecutions \in Nat /\ MaxTears \in Nat

VARIABLES
  shown,      \* the requests a disclosure was built for and shown
  pc,         \* where each visitor's execution is
  request,    \* what it was called with
  at,         \* the position in task_ids the loop is at
  spent,      \* the running spend
  outcomes,   \* the outcomes so far
  last,       \* the usd of the last run
  cost,       \* what the run under way, or the last one, really cost
  turn,       \* which call of execute this is
  usage,      \* usage.jsonl
  launched,   \* history: the runs that were invoked
  asked,      \* history: the rows handed to append_usage_row, in order
  paid,       \* history: what the runs of this execution really cost
  executions  \* history: calls of execute

frame == <<request, turn>>
loop == <<at, spent, outcomes, last>>
history == <<launched, asked, paid, executions>>
vars == <<shown, pc, frame, loop, cost, usage, history>>

Outcome == [task : Tasks, status : {"ran", "refused", "unsupported"}, usd : Nat]
UsageRow == [turn : Nat, task : Tasks, at : Nat, usd : Nat]

(* Types.  A run that is under way or about to be ledgered is of a task of  *)
(* the request.                                                             *)
TypeOK ==
  /\ shown \subseteq Requests
  /\ pc \in [Visitors -> {"idle", "loop", "running", "ledger", "reported", "raised"}]
  /\ request \in [Visitors -> Requests \cup {NoRequest}]
  /\ \A v \in Visitors : pc[v] \notin {"idle", "raised"} => request[v] \in Requests
  /\ at \in [Visitors -> Nat \ {0}]
  /\ \A v \in Visitors : pc[v] \in {"running", "ledger"} => at[v] <= Len(request[v].tasks)
  /\ spent \in [Visitors -> Nat]
  /\ outcomes \in [Visitors -> Seq(Outcome)]
  /\ last \in [Visitors -> Nat]
  /\ cost \in [Visitors -> Nat]
  /\ turn \in [Visitors -> Nat]
  /\ usage \in Files(UsageRow \cup {Garbled})
  /\ launched \subseteq (Nat \X Nat)
  /\ asked \in Seq(UsageRow)
  /\ paid \in [Visitors -> Nat]
  /\ executions \in Nat

Init ==
  /\ shown = {}
  /\ pc = [v \in Visitors |-> "idle"]
  /\ request = [v \in Visitors |-> NoRequest]
  /\ at = [v \in Visitors |-> 1]
  /\ spent = [v \in Visitors |-> 0]
  /\ outcomes = [v \in Visitors |-> <<>>]
  /\ last = [v \in Visitors |-> 0]
  /\ cost = [v \in Visitors |-> 0]
  /\ turn = [v \in Visitors |-> 0]
  /\ usage = Empty
  /\ launched = {}
  /\ asked = <<>>
  /\ paid = [v \in Visitors |-> 0]
  /\ executions = 0

-----------------------------------------------------------------------------
(* The two gates.                                                           *)

Fingerprint(r) == <<r.model, r.tasks, r.cap>>

Meterable(m) == m \in Priced /\ m \in DOMAIN FloorUsd

(* Mutant: the cap is compared with the floor, whatever was spent before.   *)
AuthorizedAlone(m, cap, before) == Meterable(m) /\ cap # NoCap /\ FloorUsd[m] <= cap

Authorized(m, cap, before) ==
  Meterable(m) /\ cap # NoCap /\ FloorUsd[m] <= cap - before

-----------------------------------------------------------------------------
Disclose(r) ==
  /\ r \notin shown
  /\ shown' = shown \cup {r}
  /\ UNCHANGED <<pc, frame, loop, cost, usage, history>>

Free(v) == pc[v] \in {"idle", "reported", "raised"}

Start(v) ==
  /\ at' = [at EXCEPT ![v] = 1]
  /\ spent' = [spent EXCEPT ![v] = 0]
  /\ outcomes' = [outcomes EXCEPT ![v] = <<>>]
  /\ last' = [last EXCEPT ![v] = 0]
  /\ cost' = [cost EXCEPT ![v] = 0]
  /\ paid' = [paid EXCEPT ![v] = 0]

(* execute() up to its loop.  Some disclosure shown before, and handed back  *)
(* now, carries the fingerprint of this request; with another one in hand,   *)
(* or none, nothing below the gate runs.                                     *)
Execute(v, r) ==
  /\ Free(v)
  /\ executions < MaxExecutions
  /\ \E d \in shown : Fingerprint(d) = Fingerprint(r)
  /\ pc' = [pc EXCEPT ![v] = "loop"]
  /\ request' = [request EXCEPT ![v] = r]
  /\ Start(v)
  /\ turn' = [turn EXCEPT ![v] = executions + 1]
  /\ executions' = executions + 1
  /\ UNCHANGED <<shown, usage, launched, asked>>

Task(v) == request[v].tasks[at[v]]

AtTask(v) == pc[v] = "loop" /\ at[v] <= Len(request[v].tasks)

MaySpend(v) == Authorized(request[v].model, request[v].cap, spent[v])

Reported(v, status, usd) ==
  outcomes' = [outcomes EXCEPT ![v] =
                 Append(@, [task |-> Task(v), status |-> status, usd |-> usd])]

(* SpendRefused is an outcome, and the loop goes on.                        *)
Refuse(v) ==
  /\ AtTask(v)
  /\ ~MaySpend(v)
  /\ Reported(v, "refused", 0)
  /\ at' = [at EXCEPT ![v] = @ + 1]
  /\ UNCHANGED <<shown, pc, frame, spent, last, cost, usage, history>>

Unsupported(v) ==
  /\ AtTask(v)
  /\ MaySpend(v)
  /\ request[v].model \notin Pathed
  /\ Reported(v, "unsupported", 0)
  /\ at' = [at EXCEPT ![v] = @ + 1]
  /\ UNCHANGED <<shown, pc, frame, spent, last, cost, usage, history>>

Prepared(v) == Task(v) \in Prompts /\ request[v].key

(* The end of an execution without a report: what it held is gone, what was *)
(* paid is paid.                                                            *)
Abort(v) ==
  /\ pc' = [pc EXCEPT ![v] = "raised"]
  /\ request' = [request EXCEPT ![v] = NoRequest]
  /\ Start(v)
  /\ UNCHANGED <<shown, turn, usage, launched, asked, executions>>

(* local_task_prompt or invocation_env raises: the tasks before this one    *)
(* have run, and their report is lost.                                      *)
Unprepared(v) ==
  /\ AtTask(v)
  /\ MaySpend(v)
  /\ request[v].model \in Pathed
  /\ ~Prepared(v)
  /\ Abort(v)

(* The child is started on the visitor's key.                               *)
Invoke(v) ==
  /\ AtTask(v)
  /\ MaySpend(v)
  /\ request[v].model \in Pathed
  /\ Prepared(v)
  /\ pc' = [pc EXCEPT ![v] = "running"]
  /\ \E c \in Costs :
       /\ cost' = [cost EXCEPT ![v] = c]
       /\ paid' = [paid EXCEPT ![v] = @ + c]
  /\ launched' = launched \cup {<<turn[v], at[v]>>}
  /\ UNCHANGED <<shown, frame, loop, usage, asked, executions>>

(* Mutant: a run whose invocation fails is passed over.                     *)
ReadSwallowing(v) ==
  /\ pc[v] = "running"
  /\ \/ /\ pc' = [pc EXCEPT ![v] = "ledger"]
        /\ spent' = [spent EXCEPT ![v] = @ + cost[v]]
        /\ last' = [last EXCEPT ![v] = cost[v]]
        /\ UNCHANGED at
     \/ /\ pc' = [pc EXCEPT ![v] = "loop"]
        /\ at' = [at EXCEPT ![v] = @ + 1]
        /\ UNCHANGED <<spent, last>>
  /\ UNCHANGED <<shown, frame, outcomes, cost, usage, history>>

(* The child ended, with whatever status.  Its usage is read off stdout: a  *)
(* stdout without a `result` object reads as no tokens, which cost nothing. *)
Read(v) ==
  /\ pc[v] = "running"
  /\ \E usd \in {cost[v], 0} :
       /\ spent' = [spent EXCEPT ![v] = @ + usd]
       /\ last' = [last EXCEPT ![v] = usd]
  /\ pc' = [pc EXCEPT ![v] = "ledger"]
  /\ UNCHANGED <<shown, frame, at, outcomes, cost, usage, history>>

Row(v) == [turn |-> turn[v], task |-> Task(v), at |-> at[v], usd |-> last[v]]

MayTear(cut) == cut = "whole" \/ usage.torn < MaxTears

(* Mutant: a run that read as free gets no row.                             *)
LedgerPaidRuns(v) ==
  /\ pc[v] = "ledger"
  /\ \/ last[v] = 0 /\ UNCHANGED <<usage, asked>>
     \/ /\ last[v] # 0
        /\ \E cut \in Cuts : MayTear(cut) /\ usage' = Written(usage, Row(v), cut)
        /\ asked' = Append(asked, Row(v))
  /\ Reported(v, "ran", last[v])
  /\ at' = [at EXCEPT ![v] = @ + 1]
  /\ pc' = [pc EXCEPT ![v] = "loop"]
  /\ UNCHANGED <<shown, frame, spent, last, cost, launched, paid, executions>>

(* The row is appended, and the run is reported as ledgered: whether all of *)
(* the row reached the file is not known to the execution.                  *)
Ledger(v) ==
  /\ pc[v] = "ledger"
  /\ \E cut \in Cuts : MayTear(cut) /\ usage' = Written(usage, Row(v), cut)
  /\ asked' = Append(asked, Row(v))
  /\ Reported(v, "ran", last[v])
  /\ at' = [at EXCEPT ![v] = @ + 1]
  /\ pc' = [pc EXCEPT ![v] = "loop"]
  /\ UNCHANGED <<shown, frame, spent, last, cost, launched, paid, executions>>

Report(v) ==
  /\ pc[v] = "loop"
  /\ at[v] > Len(request[v].tasks)
  /\ pc' = [pc EXCEPT ![v] = "reported"]
  /\ UNCHANGED <<shown, frame, loop, cost, usage, history>>

(* An exception nobody catches, or a kill: there is no binary, the 900 s of *)
(* the invocation run out, the ledger cannot be written.                    *)
Raise(v) ==
  /\ pc[v] \in {"loop", "running", "ledger"}
  /\ Abort(v)

-----------------------------------------------------------------------------
Step(v) ==
  \/ Refuse(v)
  \/ Unsupported(v)
  \/ Unprepared(v)
  \/ Invoke(v)
  \/ Read(v)
  \/ Ledger(v)
  \/ Report(v)

Next ==
  \/ \E r \in Requests : Disclose(r)
  \/ \E v \in Visitors, r \in Requests : Execute(v, r)
  \/ \E v \in Visitors : Step(v) \/ Raise(v)

Spec == Init /\ [][Next]_vars

-----------------------------------------------------------------------------
(* Safety.                                                                  *)

Matches(d, r) == d.model = r.model /\ d.tasks = r.tasks /\ d.cap = r.cap

(* Whatever was spent was spent under a cap that was part of a disclosure   *)
(* shown for this model and these tasks, and every run was started while    *)
(* that cap still covered the floor of a run: the last one alone may have   *)
(* gone over it.  (execute: "nothing below runs".)                          *)
SpentAsDisclosed ==
  \A v \in Visitors : spent[v] > 0 =>
    \E d \in shown :
      /\ Matches(d, request[v])
      /\ d.cap # NoCap
      /\ spent[v] - last[v] + FloorUsd[d.model] <= d.cap

(* The report and the ledger tell the same story: one outcome per requested *)
(* task in the order asked, and every row of this execution that can be     *)
(* read is one of its runs at its price, in that order, whatever lines of   *)
(* the shared file were cut.  As long as none was, no run of the report is  *)
(* missing and the rows add up to the spend.                                *)
RowsOf(t) ==
  {k \in DOMAIN usage.lines : usage.lines[k] # Garbled /\ usage.lines[k].turn = t}

UsdOf(file, t) ==
  LET upto[n \in 0..Len(file)] ==
        IF n = 0 THEN 0
        ELSE upto[n - 1] + (IF file[n].turn = t THEN file[n].usd ELSE 0)
  IN upto[Len(file)]

IsRowOf(row, o) == o.status = "ran" /\ o.task = row.task /\ o.usd = row.usd

ReportIsTheLedger ==
  \A v \in Visitors : pc[v] = "reported" =>
    LET row(k) == usage.lines[k]
        mine == RowsOf(turn[v])
    IN /\ [i \in DOMAIN outcomes[v] |-> outcomes[v][i].task] = request[v].tasks
       /\ \A k \in mine :
            row(k).at \in DOMAIN outcomes[v] /\ IsRowOf(row(k), outcomes[v][row(k).at])
       /\ \A k, l \in mine : k < l => row(k).at < row(l).at
       /\ usage.torn = 0 =>
            /\ \A i \in DOMAIN outcomes[v] :
                 outcomes[v][i].status = "ran" => \E k \in mine : row(k).at = i
            /\ UsdOf(usage.lines, turn[v]) = spent[v]

(* Whoever else appends to the ledger, an invoked run is in it under its    *)
(* own execution, except the run an execution raised in or is busy with,    *)
(* and two runs for each append that was cut: the row that was cut and the  *)
(* one that continued its line, which may be of another execution.          *)
Asked == {<<asked[k].turn, asked[k].at>> : k \in DOMAIN asked}
Ledgered == {<<row.turn, row.at>> : row \in Parsed(usage)}

LosesAtMostTheLastRun ==
  /\ Ledgered \subseteq Asked /\ Asked \subseteq launched
  /\ \A x, y \in launched \ Asked : x[1] = y[1] => x = y
  /\ \A x \in launched \ Asked : \A y \in launched : x[1] = y[1] => y[2] <= x[2]
  /\ Cardinality(Asked \ Ledgered) <= 2 * usage.torn

-----------------------------------------------------------------------------
(* What the repository says and the code does not keep.                     *)

(* spend_cap.py: the failure mode it exists to prevent is that "the cap     *)
(* reads the absent number as zero, decides zero is under the cap, and      *)
(* proceeds".  Kept, only the last run could go over the cap.               *)
CapBoundsWhatIsPaid ==
  \A v \in Visitors : paid[v] > 0 => paid[v] - cost[v] < request[v].cap
=============================================================================
