------------------------------- MODULE Broker -------------------------------
(***************************************************************************)
(* The acceptance-feedback broker of runner/broker.py.                     *)
(*                                                                         *)
(* One thread of the runner owns a unix socket and a counter.  Every       *)
(* execution of the verify.sh shim in the model's working copy is a client *)
(* process: it connects, sends one request and waits for one reply.  The   *)
(* thread counts a request on receipt, grades the working copy while the   *)
(* count is at most K, and refuses and ends the run on request K + 1 or on *)
(* a fault of its own.                                                     *)
(*                                                                         *)
(* Abstracted: the suite's counts and output (only the verdict word is     *)
(* kept), the JSON framing, and the terminate_error branch of _end_run,    *)
(* which run.py's kill_group cannot take because it suppresses the errors  *)
(* killpg raises.  Counting and accepting are one step: nothing reads      *)
(* state between accept() and the locked increment.                        *)
(***************************************************************************)
EXTENDS Integers, Sequences, FiniteSets, Functions

CONSTANTS
  Clients,       \* executions of the shim, one process each
  K,             \* the acceptance cap of the run
  Backlog        \* connections the kernel queues before it refuses more

K_CEILING == 20

\* resolve_k accepts 1..K_CEILING and raises on anything else.
ASSUME BrokerAssumption ==
  /\ IsFiniteSet(Clients)
  /\ K \in 1..K_CEILING
  /\ Backlog \in Nat \ {0}

VARIABLES
  requests,      \* Broker.requests
  exhausted,     \* Broker.exhausted
  failed,        \* Broker.failed, "none" for None
  attached,      \* Broker._attached
  sock,          \* the listening socket, as close() leaves it
  pc,            \* where the broker thread is
  cur,           \* the connection _handle is serving
  backlog,       \* connections the kernel has queued
  client,        \* the state, or the exit, of every shim process
  reply          \* what the broker sent on every connection

brokerVars == <<requests, exhausted, failed, attached, sock, pc, cur,
                backlog, client, reply>>

None == "none"

(* "ready" processes have not run the shim yet, "waiting" ones sit in recv. *)
Alive == {"ready", "waiting"}

(* Exit 0, 1, 3 and 2 of the shim, in that order, and a killed process.     *)
Exited == {"passed", "not_passed", "refused", "unreachable", "dead"}

Verdicts == {"pass", "fail", "timeout"}

ReplyReasons == {None, "graded", "cap_exhausted", "broker_failed"}

Replies == [reason : ReplyReasons, request : Nat, remaining : Int]

NoReply == [reason |-> None, request |-> 0, remaining |-> 0]

Graded == {c \in Clients : reply[c].reason = "graded"}
Answered == {c \in Clients : reply[c].reason # None}

BrokerTypeOK ==
  /\ requests \in Nat
  /\ exhausted \in BOOLEAN
  /\ failed \in {None, "grade_error", "terminate_unattached"}
  /\ attached \in BOOLEAN
  /\ sock \in {"absent", "listening", "closed", "removed"}
  /\ pc \in {"off", "accept", "counted", "grading", "refusing", "ending", "exit"}
  /\ cur \in Clients \cup {None}
  /\ backlog \in Seq(Clients)
  /\ client \in [Clients -> Alive \cup Exited]
  /\ reply \in [Clients -> Replies]

BrokerInit ==
  /\ requests = 0
  /\ exhausted = FALSE
  /\ failed = None
  /\ attached = FALSE
  /\ sock = "absent"
  /\ pc = "off"
  /\ cur = None
  /\ backlog = <<>>
  /\ client = [c \in Clients |-> "ready"]
  /\ reply = [c \in Clients |-> NoReply]

-----------------------------------------------------------------------------
(* Lifecycle: calls of the runner thread.                                   *)

Start ==
  /\ pc = "off"
  /\ sock' = "listening"
  /\ pc' = "accept"
  /\ UNCHANGED <<requests, exhausted, failed, attached, cur, backlog, client, reply>>

Attach ==
  /\ attached' = TRUE
  /\ UNCHANGED <<requests, exhausted, failed, sock, pc, cur, backlog, client, reply>>

(* Queued clients whose listening socket goes away are reset.               *)
Reset(queue) ==
  [c \in Clients |-> IF client[c] = "waiting" /\ c \in Range(queue)
                       THEN "unreachable" ELSE client[c]]

(***************************************************************************)
(* close() closes the descriptor.  A thread already blocked in accept()    *)
(* keeps the kernel's socket alive and may be handed one more connection;  *)
(* otherwise the queue is reset at once.                                   *)
(***************************************************************************)
Close ==
  /\ sock = "listening"
  /\ sock' = "closed"
  /\ IF pc = "accept" THEN UNCHANGED <<backlog, client>>
                      ELSE backlog' = <<>> /\ client' = Reset(backlog)
  /\ UNCHANGED <<requests, exhausted, failed, attached, pc, cur, reply>>

(* The end of close(): join returned or ran out of its 5 s, then rmtree.    *)
RemoveSocket ==
  /\ sock = "closed"
  /\ sock' = "removed"
  /\ UNCHANGED <<requests, exhausted, failed, attached, pc, cur, backlog, client, reply>>

-----------------------------------------------------------------------------
(* The shim (shim_text).                                                    *)

Reachable == sock = "listening" \/ (sock = "closed" /\ pc = "accept")

Connect(c) ==
  /\ client[c] = "ready"
  /\ \/ /\ Reachable /\ Len(backlog) < Backlog
        /\ backlog' = Append(backlog, c)
        /\ client' = [client EXCEPT ![c] = "waiting"]
     \/ /\ ~(Reachable /\ Len(backlog) < Backlog)
        /\ client' = [client EXCEPT ![c] = "unreachable"]
        /\ UNCHANGED backlog
  /\ UNCHANGED <<requests, exhausted, failed, attached, sock, pc, cur, reply>>

(* settimeout(1800) expires; the connection stays queued and will count.    *)
GiveUp(c) ==
  /\ client[c] = "waiting"
  /\ client' = [client EXCEPT ![c] = "unreachable"]
  /\ UNCHANGED <<requests, exhausted, failed, attached, sock, pc, cur, backlog, reply>>

-----------------------------------------------------------------------------
(* The broker thread (_serve, _handle, _send, _end_run).                    *)

(* Where the thread goes after a connection: accept() raises once closed.   *)
NextAccept == IF sock = "listening" THEN "accept" ELSE "exit"

(* _send: the reply reaches a client that still waits, and is lost else.    *)
Send(reason, remaining, outcome) ==
  /\ reply' = [reply EXCEPT ![cur] =
                 [reason |-> reason, request |-> requests, remaining |-> remaining]]
  /\ client' = IF client[cur] = "waiting" THEN [client EXCEPT ![cur] = outcome]
                                          ELSE client

(* Mutant: only requests of clients that still wait are counted.            *)
AcceptCountingWaiters ==
  /\ pc = "accept"
  /\ backlog # <<>>
  /\ cur' = Head(backlog)
  /\ requests' = IF client[Head(backlog)] = "waiting" THEN requests + 1 ELSE requests
  /\ pc' = "counted"
  /\ backlog' = Tail(backlog)
  /\ UNCHANGED <<exhausted, failed, attached, sock, client, reply>>

Accept ==
  /\ pc = "accept"
  /\ backlog # <<>>
  /\ cur' = Head(backlog)
  /\ requests' = requests + 1
  /\ pc' = "counted"
  /\ IF sock = "listening"
       THEN backlog' = Tail(backlog) /\ UNCHANGED client
       ELSE backlog' = <<>> /\ client' = Reset(Tail(backlog))
  /\ UNCHANGED <<exhausted, failed, attached, sock, reply>>

AcceptRaises ==
  /\ pc = "accept"
  /\ sock # "listening"
  /\ pc' = "exit"
  /\ backlog' = <<>>
  /\ client' = Reset(backlog)
  /\ UNCHANGED <<requests, exhausted, failed, attached, sock, cur, reply>>

(* Mutants: the cap compared off by one, and not compared at all.           *)
BeginGradeOneMore ==
  /\ pc = "counted"
  /\ requests <= K + 1
  /\ pc' = "grading"
  /\ UNCHANGED <<requests, exhausted, failed, attached, sock, cur, backlog, client, reply>>

BeginGradeUnmetered ==
  /\ pc = "counted"
  /\ pc' = "grading"
  /\ UNCHANGED <<requests, exhausted, failed, attached, sock, cur, backlog, client, reply>>

BeginGrade ==
  /\ pc = "counted"
  /\ requests <= K
  /\ pc' = "grading"
  /\ UNCHANGED <<requests, exhausted, failed, attached, sock, cur, backlog, client, reply>>

Exhaust ==
  /\ pc = "counted"
  /\ requests > K
  /\ exhausted' = TRUE
  /\ pc' = "refusing"
  /\ UNCHANGED <<requests, failed, attached, sock, cur, backlog, client, reply>>

(* The grade returned, or timed out, which is an answer too.                *)
GradeReturns(verdict) ==
  /\ pc = "grading"
  /\ Send("graded", K - requests, IF verdict = "pass" THEN "passed" ELSE "not_passed")
  /\ cur' = None
  /\ pc' = NextAccept
  /\ UNCHANGED <<requests, exhausted, failed, attached, sock, backlog>>

(* Mutant: only successful grades count, the free probe of the docstring.   *)
GradeFaultRefunds ==
  /\ pc = "grading"
  /\ failed' = "grade_error"
  /\ requests' = requests - 1
  /\ pc' = "refusing"
  /\ UNCHANGED <<exhausted, attached, sock, cur, backlog, client, reply>>

(* Mutant: the exception escapes _handle and takes the thread with it.      *)
GradeFaultKillsThread ==
  /\ pc = "grading"
  /\ failed' = "grade_error"
  /\ pc' = "exit"
  /\ UNCHANGED <<requests, exhausted, attached, sock, cur, backlog, client, reply>>

GradeFaults ==
  /\ pc = "grading"
  /\ failed' = "grade_error"
  /\ pc' = "refusing"
  /\ UNCHANGED <<requests, exhausted, attached, sock, cur, backlog, client, reply>>

Refuse ==
  /\ pc = "refusing"
  /\ Send(IF requests > K THEN "cap_exhausted" ELSE "broker_failed", 0, "refused")
  /\ pc' = "ending"
  /\ UNCHANGED <<requests, exhausted, failed, attached, sock, cur, backlog>>

(* _end_run with a terminate callable whose signal reaches `reach`.         *)
EndRun(reach) ==
  /\ pc = "ending"
  /\ attached
  /\ client' = [c \in Clients |->
                  IF c \in reach /\ client[c] \in Alive THEN "dead" ELSE client[c]]
  /\ cur' = None
  /\ pc' = NextAccept
  /\ UNCHANGED <<requests, exhausted, failed, attached, sock, backlog, reply>>

(* _end_run when 30 s went by without attach: the model is left running.    *)
EndRunUnattached ==
  /\ pc = "ending"
  /\ ~attached
  /\ failed' = IF failed = None THEN "terminate_unattached" ELSE failed
  /\ cur' = None
  /\ pc' = NextAccept
  /\ UNCHANGED <<requests, exhausted, attached, sock, backlog, client, reply>>
=============================================================================
