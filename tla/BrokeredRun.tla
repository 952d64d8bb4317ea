---------------------------- MODULE BrokeredRun ----------------------------
(***************************************************************************)
(* One brokered model run: execute_run and run_cli of runner/run.py        *)
(* composed with the broker.                                               *)
(*                                                                         *)
(* Three kinds of actor interleave: the runner thread, the broker thread   *)
(* and the model's process group, which is a leader (the CLI) and the shim *)
(* processes it starts.  The leader waits for the shims it runs in the     *)
(* foreground.  A shim in Detached was started in the background with its  *)
(* output redirected: it neither keeps the leader from exiting nor holds   *)
(* the pipes communicate() reads, and it survives the leader.              *)
(*                                                                         *)
(* An exit_reason is the set of its '+'-joined parts.  The transcript, the *)
(* usage telemetry, the seal and the environment are left out; turns = 0   *)
(* survives as an outcome of the CLI.                                      *)
(***************************************************************************)
EXTENDS Broker

CONSTANTS
  Detached,      \* shims that outlive the leader
  AttachStalls   \* whether attach may come later than _end_run's 30 s wait

ASSUME RunAssumption == Detached \subseteq Clients /\ AttachStalls \in BOOLEAN

VARIABLES
  run,           \* where the runner thread is
  cli,           \* the leader of the model's process group
  outcome,       \* how the leader ended
  reason,        \* exit_reason so far
  row            \* the row execute_run builds

runVars == <<run, cli, outcome, reason, row>>
vars == <<brokerVars, runVars>>

Outcomes == {"zero", "zero_no_turns", "nonzero", "auth"}

NoRow == [reason |-> {}, requests |-> 0, pass |-> FALSE, pass_raw |-> None,
          pass_at_cap |-> None, cap_exhausted |-> FALSE]

Reasons == {"ok", "cli_error", "auth_unavailable", "timeout", "no_completion",
            "kimi_key_missing", "broker_failed", "cap_exhausted", "verify_timeout"}

(* What the grader said: None when it timed out.                            *)
PassRaw == {"TRUE", "FALSE", None}

Rows == [reason : SUBSET Reasons, requests : Nat, pass : BOOLEAN,
         pass_raw : PassRaw, pass_at_cap : PassRaw, cap_exhausted : BOOLEAN]

(* Types of the composition.  Between its reads of the broker's flags the   *)
(* runner always has a reason in hand: no row is built without one.         *)
TypeOK ==
  /\ BrokerTypeOK
  /\ run \in {"begin", "prepare", "attach", "wait", "read_failed", "read_exhausted",
              "read_requests", "close", "join", "grade", "done", "aborted"}
  /\ cli \in {"unborn", "running", "exited", "reaped"}
  /\ outcome \in Outcomes \cup {None}
  /\ reason \in Reasons \cup {None}
  /\ reason = None => run \in {"begin", "prepare", "attach", "wait", "aborted"}
  /\ row \in Rows

Init ==
  /\ BrokerInit
  /\ run = "begin"
  /\ cli = "unborn"
  /\ outcome = None
  /\ reason = None
  /\ row = NoRow

-----------------------------------------------------------------------------
(* The model's process group.                                               *)

(* getpgid fails once the leader is reaped, and kill_group suppresses it.   *)
SignalReach == IF cli = "reaped" THEN {} ELSE Clients

(* Mutant: terminate signals the shims' processes and not the group.        *)
KillNothing == UNCHANGED <<cli, outcome>>

KillLeader ==
  IF cli = "running" THEN cli' = "exited" /\ outcome' = "nonzero"
                     ELSE UNCHANGED <<cli, outcome>>

ShimConnects(c) ==
  /\ cli # "unborn"
  /\ Connect(c)
  /\ UNCHANGED runVars

ShimGivesUp(c) == GiveUp(c) /\ UNCHANGED runVars

LeaderExits(o) ==
  /\ cli = "running"
  /\ \A c \in Clients \ Detached : client[c] # "waiting"
  /\ cli' = "exited"
  /\ outcome' = o
  /\ client' = [c \in Clients |-> IF c \notin Detached /\ client[c] = "ready"
                                    THEN "dead" ELSE client[c]]
  /\ UNCHANGED <<requests, exhausted, failed, attached, sock, pc, cur, backlog, reply,
                 run, reason, row>>

-----------------------------------------------------------------------------
(* The broker thread.                                                       *)

BrokerAccepts == Accept /\ UNCHANGED runVars

BrokerStops == AcceptRaises /\ UNCHANGED runVars

BrokerDecides == (BeginGrade \/ Exhaust) /\ UNCHANGED runVars

BrokerGrades ==
  /\ \/ \E v \in Verdicts : GradeReturns(v)
     \/ GradeFaults
  /\ UNCHANGED runVars

BrokerRefuses == Refuse /\ UNCHANGED runVars

BrokerEndsRun ==
  \/ EndRun(SignalReach) /\ KillLeader /\ UNCHANGED <<run, reason, row>>
  \/ AttachStalls /\ EndRunUnattached /\ UNCHANGED runVars

-----------------------------------------------------------------------------
(* The runner thread.                                                       *)

StartBroker ==
  /\ run = "begin"
  /\ Start
  /\ run' = "prepare"
  /\ UNCHANGED <<cli, outcome, reason, row>>

(* Broker.start raises: no broker, no run.                                  *)
BrokerWillNotStart ==
  /\ run = "begin"
  /\ run' = "aborted"
  /\ UNCHANGED <<brokerVars, cli, outcome, reason, row>>

(* prepare_scratch, build_cli_cmd, and Popen in run_cli.                    *)
Launch ==
  /\ run = "prepare"
  /\ cli' = "running"
  /\ run' = "attach"
  /\ UNCHANGED <<brokerVars, outcome, reason, row>>

KeyMissing ==
  /\ run = "prepare"
  /\ reason' = "kimi_key_missing"
  /\ run' = "read_requests"
  /\ UNCHANGED <<brokerVars, cli, outcome, row>>

AttachBroker ==
  /\ run = "attach"
  /\ Attach
  /\ run' = "wait"
  /\ UNCHANGED <<cli, outcome, reason, row>>

(* communicate() returns once the leader is gone, and reaps it.             *)
Communicate ==
  /\ run = "wait"
  /\ cli = "exited"
  /\ cli' = "reaped"
  /\ reason' = CASE outcome = "auth"    -> "auth_unavailable"
                 [] outcome = "nonzero" -> "cli_error"
                 [] OTHER               -> "ok"
  /\ run' = "read_failed"
  /\ UNCHANGED <<brokerVars, outcome, row>>

(* The wall clock: the whole group is killed, and reaped by the second      *)
(* communicate().                                                           *)
Timeout ==
  /\ run = "wait"
  /\ client' = [c \in Clients |-> IF client[c] \in Alive THEN "dead" ELSE client[c]]
  /\ cli' = "reaped"
  /\ outcome' = IF cli = "running" THEN "nonzero" ELSE outcome
  /\ reason' = "timeout"
  /\ run' = "read_failed"
  /\ UNCHANGED <<requests, exhausted, failed, attached, sock, pc, cur, backlog, reply, row>>

(* run_cli reads bk.failed, then bk.exhausted; execute_run reads            *)
(* bk.requests later.  Nothing stops the broker thread between the reads.   *)
ReadFailed ==
  /\ run = "read_failed"
  /\ reason' = IF failed # None THEN "broker_failed" ELSE reason
  /\ run' = IF failed # None THEN "read_requests" ELSE "read_exhausted"
  /\ UNCHANGED <<brokerVars, cli, outcome, row>>

(* Mutant: only a killed CLI is taken for an exhausted one.                 *)
ReadExhaustedOnError ==
  /\ run = "read_exhausted"
  /\ reason' = IF exhausted /\ reason = "cli_error" THEN "cap_exhausted" ELSE reason
  /\ run' = "read_requests"
  /\ UNCHANGED <<brokerVars, cli, outcome, row>>

ReadExhausted ==
  /\ run = "read_exhausted"
  /\ reason' = IF exhausted THEN "cap_exhausted" ELSE reason
  /\ run' = "read_requests"
  /\ UNCHANGED <<brokerVars, cli, outcome, row>>

(* Mutant: the refused request is not reported.                             *)
ReadRequestsServed ==
  /\ run = "read_requests"
  /\ reason' = reason
  /\ row' = [row EXCEPT !.requests = IF requests > K THEN K ELSE requests]
  /\ run' = "close"
  /\ UNCHANGED <<brokerVars, cli, outcome>>

(* No completed turn is no completion; then the count goes in the row.      *)
ReadRequests ==
  /\ run = "read_requests"
  /\ reason' = IF reason = "ok" /\ outcome = "zero_no_turns" THEN "no_completion"
                                                             ELSE reason
  /\ row' = [row EXCEPT !.requests = requests]
  /\ run' = "close"
  /\ UNCHANGED <<brokerVars, cli, outcome>>

CloseBroker ==
  /\ run = "close"
  /\ Close
  /\ run' = "join"
  /\ UNCHANGED <<cli, outcome, reason, row>>

(* Mutant: join() without its timeout.                                      *)
JoinBrokerForever ==
  /\ run = "join"
  /\ pc = "exit"
  /\ RemoveSocket
  /\ run' = "grade"
  /\ UNCHANGED <<cli, outcome, reason, row>>

JoinBroker ==
  /\ run = "join"
  /\ RemoveSocket
  /\ run' = "grade"
  /\ UNCHANGED <<cli, outcome, reason, row>>

(* run_verify and the gates that turn its verdict into the row's fields.    *)
FinalGrade(raw) ==
  LET parts == IF raw = None THEN {reason, "verify_timeout"} ELSE {reason}
  IN /\ run = "grade"
     /\ row' = [row EXCEPT
                  !.reason = parts,
                  !.pass = (raw = "TRUE" /\ parts = {"ok"}),
                  !.pass_raw = raw,
                  !.pass_at_cap = IF parts = {"cap_exhausted"} THEN raw ELSE None,
                  !.cap_exhausted = (parts = {"cap_exhausted"})]
     /\ run' = "done"
     /\ UNCHANGED <<brokerVars, cli, outcome, reason>>

-----------------------------------------------------------------------------
Model ==
  \/ \E c \in Clients : ShimConnects(c) \/ ShimGivesUp(c)
  \/ \E o \in Outcomes : LeaderExits(o)

BrokerThread ==
  \/ BrokerAccepts
  \/ BrokerStops
  \/ BrokerDecides
  \/ BrokerGrades
  \/ BrokerRefuses
  \/ BrokerEndsRun

RunnerStep ==
  \/ StartBroker
  \/ BrokerWillNotStart
  \/ Launch
  \/ KeyMissing
  \/ AttachBroker
  \/ Communicate
  \/ ReadFailed
  \/ ReadExhausted
  \/ ReadRequests
  \/ CloseBroker
  \/ JoinBroker
  \/ \E raw \in PassRaw : FinalGrade(raw)

Next == Model \/ BrokerThread \/ RunnerStep \/ Timeout

Spec == Init /\ [][Next]_vars

(* Both threads keep running, and every grade ends within its 600 s limit.  *)
(* A thread left in accept() by close() may stay there, so BrokerStops is   *)
(* not fair.  The model owes nothing.                                       *)
Scheduling ==
  /\ WF_vars(BrokerAccepts \/ BrokerDecides \/ BrokerGrades \/ BrokerRefuses
             \/ BrokerEndsRun)
  /\ WF_vars(RunnerStep)

FairSpec == Spec /\ Scheduling

-----------------------------------------------------------------------------
(* Safety.                                                                  *)

(* However many processes connect at once, every answered request spent a   *)
(* unit of its own: the count is exact across the leader and its workers    *)
(* (the Broker docstring's "one budget").                                   *)
OneUnitPerReply ==
  \A c, d \in Answered : c # d => reply[c].request # reply[d].request

(* At most K graded looks ever leave the broker, counting those whose shim  *)
(* had given up or was dead by the time the answer was sent.                *)
LooksWithinK == Cardinality(Graded) <= K

(* The run is not ended early: when the broker declares exhaustion, every   *)
(* one of the K units was spent on a connection that was answered.          *)
NoEarlyEnd ==
  exhausted => \A n \in 1..K : \E c \in Answered : reply[c].request = n

(* The budget is exact, from all three sides: K looks are neither shared,   *)
(* nor exceeded, nor cut short, whatever shims connect, give up or die and  *)
(* whoever reads or kills meanwhile.                                        *)
ExactBudget == OneUnitPerReply /\ LooksWithinK /\ NoEarlyEnd

(* A row that says cap_exhausted carries the evidence: a count beyond K,    *)
(* the broker's own flag, and no pass, whatever the runner and the broker   *)
(* did between the three reads.                                             *)
CapRowHasEvidence ==
  run = "done" /\ "cap_exhausted" \in row.reason
    => row.requests > K /\ exhausted /\ ~row.pass

(* A model that was told "This run is over" by a shim it waited for is      *)
(* never written as a run that finished or timed out by itself.             *)
RefusedRunIsMarked ==
  run = "done" /\ (\E c \in Clients \ Detached : client[c] = "refused")
    => row.reason \cap {"cap_exhausted", "broker_failed"} # {}

(* No step after exhaustion hands out a further graded look.                *)
NoLookAfterExhaustion == [][exhausted => Graded' = Graded]_vars

-----------------------------------------------------------------------------
(* Liveness.                                                                *)

(* Exhaustion and broker faults terminate the model, even one that would    *)
(* run for ever (no help from the wall clock).                              *)
EndedRunsDie == (exhausted \/ failed # None) ~> cli # "running"

(* No shim waits for ever.                                                  *)
ShimsAreReleased ==
  \A c \in Clients : client[c] = "waiting" ~> client[c] # "waiting"

(* The runner waits for nobody but a running model: it gets to its row even *)
(* when the broker thread never notices that its socket was closed.         *)
RunSettles == cli # "running" ~> cli = "running" \/ run \in {"done", "aborted"}

-----------------------------------------------------------------------------
(* The run, seen through its broker, is a budget of K looks.                *)

Budget == INSTANCE AcceptanceBudget WITH
  spent   <- requests,
  looks   <- Cardinality(Graded),
  serving <- pc \in {"counted", "grading"},
  over    <- exhausted

(* The broker implements the budget: spending is serialised, a look costs a *)
(* unit, a fault burns one, unit K + 1 always ends in exhaustion.           *)
BudgetSpec == Budget!Spec
=============================================================================
