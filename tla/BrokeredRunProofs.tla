------------------------- MODULE BrokeredRunProofs -------------------------
(***************************************************************************)
(* Proofs about BrokeredRun, for every set of shims, every cap K and every *)
(* backlog.                                                                *)
(***************************************************************************)
EXTENDS BrokeredRun, FiniteSetTheorems, TLAPS

(* Resetting queued connections keeps every shim in a known state.          *)
LEMMA ResetType ==
  ASSUME client \in [Clients -> Alive \cup Exited], NEW queue
  PROVE  Reset(queue) \in [Clients -> Alive \cup Exited]
BY DEF Reset, Exited

(* A reply is a record of its type and leaves the shims in known states.    *)
LEMMA SendType ==
  ASSUME client \in [Clients -> Alive \cup Exited], reply \in [Clients -> Replies],
         requests \in Nat,
         NEW r \in ReplyReasons, NEW left \in Int, NEW o \in Exited, Send(r, left, o)
  PROVE  /\ client' \in [Clients -> Alive \cup Exited]
         /\ reply' \in [Clients -> Replies]
<1>1. [reason |-> r, request |-> requests, remaining |-> left] \in Replies
  BY DEF Replies
<1> QED
  BY <1>1 DEF Send

(* The final grade turns a row into a row.                                  *)
LEMMA RowUpdate ==
  ASSUME row \in Rows, NEW rs \in SUBSET Reasons, NEW p \in BOOLEAN, NEW raw \in PassRaw,
         NEW cap \in PassRaw, NEW ce \in BOOLEAN
  PROVE  [row EXCEPT !.reason = rs, !.pass = p, !.pass_raw = raw,
                     !.pass_at_cap = cap, !.cap_exhausted = ce] \in Rows
BY DEF Rows

(* Every step of Next leaves the variables well typed.                      *)
LEMMA NextTypeOK == TypeOK /\ [Next]_vars => TypeOK'
<1> SUFFICES ASSUME TypeOK, [Next]_vars PROVE TypeOK'
  OBVIOUS
<1> USE DEF TypeOK, BrokerTypeOK, Alive, Exited
<1>1. ASSUME NEW c \in Clients, ShimConnects(c) PROVE TypeOK'
  BY <1>1 DEF ShimConnects, Connect, runVars
<1>2. ASSUME NEW c \in Clients, ShimGivesUp(c) PROVE TypeOK'
  BY <1>2 DEF ShimGivesUp, GiveUp, runVars
<1>3. ASSUME NEW o \in Outcomes, LeaderExits(o) PROVE TypeOK'
  BY <1>3 DEF LeaderExits
<1>4. CASE BrokerAccepts
  <2>1. Head(backlog) \in Clients /\ Tail(backlog) \in Seq(Clients) /\ <<>> \in Seq(Clients)
    BY <1>4 DEF BrokerAccepts, Accept
  <2>2. client' \in [Clients -> Alive \cup Exited] /\ backlog' \in Seq(Clients)
    BY <1>4, <2>1, ResetType DEF BrokerAccepts, Accept
  <2> QED
    BY <1>4, <2>1, <2>2 DEF BrokerAccepts, Accept, runVars
<1>5. CASE BrokerStops
  BY <1>5, ResetType DEF BrokerStops, AcceptRaises, runVars
<1>6. CASE BrokerDecides
  <2>1. CASE BeginGrade
    BY <1>6, <2>1 DEF BrokerDecides, BeginGrade, runVars
  <2>2. CASE Exhaust
    BY <1>6, <2>2 DEF BrokerDecides, Exhaust, runVars
  <2> QED
    BY <1>6, <2>1, <2>2 DEF BrokerDecides
<1>7. CASE BrokerGrades
  <2>1. ASSUME NEW v \in Verdicts, GradeReturns(v) PROVE TypeOK'
    <3>1. K - requests \in Int
      BY BrokerAssumption
    <3>2. client' \in [Clients -> Alive \cup Exited] /\ reply' \in [Clients -> Replies]
      BY <2>1, <3>1, SendType DEF GradeReturns, ReplyReasons
    <3> QED
      BY <1>7, <2>1, <3>2 DEF BrokerGrades, GradeReturns, NextAccept, runVars
  <2>2. CASE GradeFaults
    BY <1>7, <2>2 DEF BrokerGrades, GradeFaults, runVars
  <2> QED
    BY <1>7, <2>1, <2>2 DEF BrokerGrades
<1>8. CASE BrokerRefuses
  <2>1. client' \in [Clients -> Alive \cup Exited] /\ reply' \in [Clients -> Replies]
    BY <1>8, SendType DEF BrokerRefuses, Refuse, ReplyReasons
  <2> QED
    BY <1>8, <2>1 DEF BrokerRefuses, Refuse, runVars
<1>9. CASE BrokerEndsRun
  BY <1>9 DEF BrokerEndsRun, EndRun, EndRunUnattached, KillLeader, NextAccept, Outcomes, runVars
<1>10. CASE StartBroker
  BY <1>10 DEF StartBroker, Start
<1>11. CASE BrokerWillNotStart
  BY <1>11 DEF BrokerWillNotStart, brokerVars
<1>12. CASE Launch
  BY <1>12 DEF Launch, brokerVars
<1>13. CASE KeyMissing
  BY <1>13 DEF None, KeyMissing, Reasons, brokerVars
<1>14. CASE AttachBroker
  BY <1>14 DEF AttachBroker, Attach
<1>15. CASE Communicate
  BY <1>15 DEF None, Communicate, Reasons, brokerVars
<1>16. CASE Timeout
  BY <1>16 DEF None, Timeout, Reasons, Outcomes
<1>17. CASE ReadFailed
  BY <1>17 DEF None, ReadFailed, Reasons, brokerVars
<1>18. CASE ReadExhausted
  BY <1>18 DEF None, ReadExhausted, Reasons, brokerVars
<1>19. CASE ReadRequests
  BY <1>19 DEF None, ReadRequests, Reasons, Rows, brokerVars
<1>20. CASE CloseBroker
  <2>1. <<>> \in Seq(Clients)
    OBVIOUS
  <2>2. client' \in [Clients -> Alive \cup Exited] /\ backlog' \in Seq(Clients)
    BY <1>20, <2>1, ResetType DEF CloseBroker, Close
  <2>3. UNCHANGED <<requests, exhausted, failed, attached, pc, cur, reply, cli, outcome, reason, row>>
    BY <1>20 DEF CloseBroker, Close
  <2>4. sock' = "closed" /\ run = "close" /\ run' = "join"
    BY <1>20 DEF CloseBroker, Close
  <2> QED
    BY <2>2, <2>3, <2>4
<1>21. CASE JoinBroker
  BY <1>21 DEF JoinBroker, RemoveSocket
<1>22. ASSUME NEW raw \in PassRaw, FinalGrade(raw) PROVE TypeOK'
  <2> DEFINE parts == IF raw = None THEN {reason, "verify_timeout"} ELSE {reason}
             p     == raw = "TRUE" /\ parts = {"ok"}
             cap   == IF parts = {"cap_exhausted"} THEN raw ELSE None
             ce    == parts = {"cap_exhausted"}
  <2>1. parts \in SUBSET Reasons
    BY <1>22 DEF FinalGrade, Reasons
  <2>2. p \in BOOLEAN /\ ce \in BOOLEAN
    OBVIOUS
  <2>3. cap \in PassRaw
    BY DEF PassRaw
  <2>4. row' = [row EXCEPT !.reason = parts, !.pass = p, !.pass_raw = raw,
                           !.pass_at_cap = cap, !.cap_exhausted = ce]
    BY <1>22 DEF FinalGrade
  <2> HIDE DEF parts, p, cap, ce
  <2>5. row' \in Rows
    BY <2>1, <2>2, <2>3, <2>4, RowUpdate
  <2> QED
    BY <1>22, <2>5 DEF FinalGrade, None, brokerVars
<1>23. CASE UNCHANGED vars
  BY <1>23 DEF vars, brokerVars, runVars
<1> QED
  BY <1>1, <1>2, <1>3, <1>4, <1>5, <1>6, <1>7, <1>8, <1>9, <1>10, <1>11, <1>12, <1>13, <1>14, <1>15, <1>16, <1>17, <1>18, <1>19, <1>20, <1>21, <1>22, <1>23
  DEF Next, Model, BrokerThread, RunnerStep

(* Type correctness of the composed run.                                    *)
THEOREM TypeCorrect == Spec => []TypeOK
<1>1. Init => TypeOK
  <2>1. NoReply \in Replies /\ NoRow \in Rows
    BY DEF NoReply, Replies, ReplyReasons, NoRow, Rows, PassRaw
  <2>2. <<>> \in Seq(Clients)
    OBVIOUS
  <2>3. Init => client \in [Clients -> Alive \cup Exited] /\ reply \in [Clients -> Replies]
    BY <2>1 DEF Init, BrokerInit, Alive
  <2>4. Init => /\ requests \in Nat
                /\ failed \in {None, "grade_error", "terminate_unattached"}
                /\ cur \in Clients \cup {None}
                /\ sock = "absent" /\ pc = "off"
    BY DEF Init, BrokerInit
  <2>5. Init => backlog \in Seq(Clients) /\ exhausted \in BOOLEAN /\ attached \in BOOLEAN
    BY <2>2 DEF Init, BrokerInit
  <2>6. Init => BrokerTypeOK
    BY <2>3, <2>4, <2>5 DEF BrokerTypeOK
  <2> QED
    BY <2>1, <2>6 DEF Init, TypeOK, None
<1> QED
  BY <1>1, NextTypeOK, PTL DEF Spec

-----------------------------------------------------------------------------
(***************************************************************************)
(* The count.  A request is being served from the moment it is counted     *)
(* until its reply is sent; its number is the current count, so every      *)
(* reply sent earlier carries a smaller one, and only numbers up to K are  *)
(* graded.                                                                 *)
(***************************************************************************)
Busy == pc \in {"counted", "grading", "refusing"}

CountInv ==
  /\ Busy => cur \in Clients /\ requests # 0
  /\ pc = "grading" => requests <= K
  /\ \A c \in Answered : /\ reply[c].request \in 1..requests
                         /\ Busy => reply[c].request # requests
  /\ \A c \in Graded : reply[c].request <= K
  /\ OneUnitPerReply

(* Most steps touch neither the counter, nor the replies, nor the request   *)
(* being served.                                                            *)
LEMMA CountFrame ==
  ASSUME CountInv, UNCHANGED <<requests, cur, reply>>, Busy' => Busy,
         pc' = "grading" => pc = "grading" \/ requests <= K
  PROVE  CountInv'
BY DEF CountInv, Busy, Answered, Graded, OneUnitPerReply

(* Sending the reply of the request being served.                           *)
LEMMA CountSend ==
  ASSUME TypeOK, CountInv, Busy, UNCHANGED requests, ~Busy',
         NEW r \in ReplyReasons, NEW left, NEW o, Send(r, left, o), r # None,
         r = "graded" => requests <= K
  PROVE  CountInv'
<1>1. /\ reply \in [Clients -> Replies] /\ requests \in Nat
      /\ cur \in Clients /\ requests # 0
  BY DEF TypeOK, BrokerTypeOK, CountInv
<1>2. /\ reply'[cur].reason = r /\ reply'[cur].request = requests
      /\ \A c \in Clients \ {cur} : reply'[c] = reply[c]
  BY <1>1 DEF Send
<1>3. ASSUME NEW c \in Answered', c # cur
      PROVE  c \in Answered /\ reply'[c] = reply[c]
  BY <1>2, <1>3 DEF Answered
<1>4. \A c \in Answered : reply[c].request \in 1..requests /\ reply[c].request # requests
  BY DEF CountInv
<1>5. \A c \in Answered' : reply'[c].request \in 1..requests
  BY <1>1, <1>2, <1>3, <1>4
<1>6. \A c \in Graded' : reply'[c].request <= K
  <2> TAKE c \in Graded'
  <2>1. CASE c = cur
    BY <1>2, <2>1 DEF Graded
  <2>2. CASE c # cur
    BY <1>2, <2>2 DEF Graded, CountInv
  <2> QED
    BY <2>1, <2>2
<1>7. ASSUME NEW c \in Answered', NEW d \in Answered', c # d
      PROVE  reply'[c].request # reply'[d].request
  <2>1. CASE c # cur /\ d # cur
    BY <1>3, <1>7, <2>1 DEF CountInv, OneUnitPerReply
  <2>2. CASE c = cur \/ d = cur
    BY <1>2, <1>3, <1>4, <1>7, <2>2
  <2> QED
    BY <2>1, <2>2
<1> QED
  BY <1>5, <1>6, <1>7 DEF CountInv, Busy, OneUnitPerReply

(* The count is kept by every step.                                         *)
LEMMA NextCountInv == TypeOK /\ CountInv /\ [Next]_vars => CountInv'
<1> SUFFICES ASSUME TypeOK, CountInv, [Next]_vars PROVE CountInv'
  OBVIOUS
<1>1. CASE BrokerAccepts
  <2>1. cur' \in Clients /\ requests' = requests + 1 /\ UNCHANGED reply /\ ~Busy
    BY <1>1 DEF BrokerAccepts, Accept, TypeOK, BrokerTypeOK, Busy
  <2>2. pc' = "counted" /\ requests \in Nat
    BY <1>1 DEF BrokerAccepts, Accept, TypeOK, BrokerTypeOK
  <2>3. \A c \in Answered : reply[c].request \in 1..requests' /\ reply[c].request # requests'
    BY <2>1, <2>2 DEF CountInv
  <2>4. Answered' = Answered /\ Graded' = Graded /\ OneUnitPerReply'
    BY <2>1 DEF Answered, Graded, OneUnitPerReply, CountInv
  <2> QED
    BY <2>1, <2>2, <2>3, <2>4 DEF CountInv, Busy
<1>2. CASE BrokerDecides
  BY <1>2, CountFrame DEF BrokerDecides, BeginGrade, Exhaust, Busy
<1>3. CASE BrokerGrades
  <2>1. ASSUME NEW v \in Verdicts, GradeReturns(v) PROVE CountInv'
    <3>1. Busy /\ ~Busy' /\ requests <= K /\ UNCHANGED requests
      BY <2>1 DEF GradeReturns, NextAccept, Busy, CountInv
    <3> QED
      BY <2>1, <3>1, CountSend DEF GradeReturns, ReplyReasons, None
  <2>2. CASE GradeFaults
    BY <2>2, CountFrame DEF GradeFaults, Busy
  <2> QED
    BY <1>3, <2>1, <2>2 DEF BrokerGrades
<1>4. CASE BrokerRefuses
  BY <1>4, CountSend DEF BrokerRefuses, Refuse, ReplyReasons, None, Busy
<1>5. CASE BrokerEndsRun
  <2>1. /\ UNCHANGED <<requests, reply>> /\ ~Busy /\ ~Busy' /\ pc' # "grading"
    BY <1>5 DEF BrokerEndsRun, EndRun, EndRunUnattached, NextAccept, Busy
  <2> QED
    BY <2>1 DEF CountInv, Answered, Graded, OneUnitPerReply
<1>6. CASE BrokerStops
  BY <1>6, CountFrame DEF BrokerStops, AcceptRaises, Busy
<1>7. CASE Model \/ Timeout
  BY <1>7, CountFrame
  DEF Model, ShimConnects, Connect, ShimGivesUp, GiveUp, LeaderExits, Timeout, Busy
<1>8. CASE RunnerStep
  BY <1>8, CountFrame
  DEF RunnerStep, StartBroker, Start, BrokerWillNotStart, Launch, KeyMissing, AttachBroker,
      Attach, Communicate, ReadFailed, ReadExhausted, ReadRequests, CloseBroker, Close,
      JoinBroker, RemoveSocket, FinalGrade, brokerVars, Busy
<1>9. CASE UNCHANGED vars
  BY <1>9, CountFrame DEF vars, brokerVars, Busy
<1> QED
  BY <1>1, <1>2, <1>3, <1>4, <1>5, <1>6, <1>7, <1>8, <1>9 DEF Next, BrokerThread

(* The inductive invariant holds throughout.                                *)
THEOREM CountCorrect == Spec => []CountInv
<1>1. Init => CountInv
  <2> SUFFICES ASSUME Init PROVE CountInv
    OBVIOUS
  <2>1. requests = 0 /\ pc = "off" /\ \A c \in Clients : reply[c].reason = None
    BY DEF Init, BrokerInit, NoReply
  <2>2. Answered = {}
    BY <2>1 DEF Answered
  <2>3. Graded = {} /\ ~Busy
    BY <2>1 DEF Graded, Busy, None
  <2> QED
    BY <2>1, <2>2, <2>3 DEF CountInv, OneUnitPerReply
<1> QED
  BY <1>1, NextCountInv, TypeCorrect, PTL DEF Spec

(* Every answered request spent a unit of its own.                          *)
THEOREM OneUnitPerReplyHolds == Spec => []OneUnitPerReply
BY CountCorrect, PTL DEF CountInv

(* At most K looks leave the broker, whatever the number of processes.      *)
THEOREM LooksWithinKHolds == Spec => []LooksWithinK
<1>1. CountInv /\ TypeOK => LooksWithinK
  <2> SUFFICES ASSUME CountInv, TypeOK PROVE Cardinality(Graded) <= K
    BY DEF LooksWithinK
  <2> DEFINE number == [c \in Graded |-> reply[c].request]
  <2>1. Graded \subseteq Answered
    BY DEF Graded, Answered, None
  <2>2. \A c \in Graded : reply[c].request \in 1..K
    <3> TAKE c \in Graded
    <3>1. reply[c].request \in 1..requests /\ reply[c].request <= K
      BY <2>1 DEF CountInv
    <3> QED
      BY <3>1, BrokerAssumption DEF TypeOK, BrokerTypeOK, K_CEILING
  <2>3. \A c, d \in Graded : number[c] = number[d] => c = d
    BY <2>1 DEF CountInv, OneUnitPerReply
  <2>4. number \in Injection(Graded, 1..K)
    BY <2>2, <2>3 DEF Injection, IsInjective
  <2>5. K \in Nat
    BY BrokerAssumption DEF K_CEILING
  <2>6. IsFiniteSet(1..K) /\ Cardinality(1..K) = K
    BY <2>5, FS_Interval
  <2> HIDE DEF number
  <2>7. Cardinality(Graded) <= Cardinality(1..K)
    BY <2>4, <2>6, FS_Injection
  <2> QED
    BY <2>6, <2>7
<1> QED
  BY <1>1, CountCorrect, TypeCorrect, PTL

-----------------------------------------------------------------------------
(***************************************************************************)
(* The queue holds shims nobody has answered, each once, and so the reply  *)
(* of a request never replaces that of an earlier one.                     *)
(***************************************************************************)
QueueInv ==
  /\ \A i \in 1..Len(backlog) : /\ backlog[i] \notin Answered
                                /\ client[backlog[i]] # "ready"
                                /\ Busy => backlog[i] # cur
  /\ \A i, j \in 1..Len(backlog) : i # j => backlog[i] # backlog[j]
  /\ Busy => cur \notin Answered /\ client[cur] # "ready"
  /\ \A c \in Answered : client[c] # "ready"

(* No shim becomes ready again.                                             *)
NoneReadied == \A c \in Clients : client[c] # "ready" => client'[c] # "ready"

(* Steps that add neither to the queue nor to the answers keep QueueInv.    *)
LEMMA QueueFrame ==
  ASSUME TypeOK, CountInv, QueueInv, NoneReadied, UNCHANGED <<cur, reply>>, Busy' => Busy,
         backlog' = backlog \/ backlog' = <<>>
  PROVE  QueueInv'
<1>1. Answered' = Answered /\ Answered \subseteq Clients
  BY DEF Answered
<1>2. \A i \in 1..Len(backlog) : backlog[i] \in Clients
  BY DEF TypeOK, BrokerTypeOK
<1>3. CASE backlog' = backlog
  BY <1>1, <1>2, <1>3 DEF QueueInv, NoneReadied, CountInv
<1>4. CASE backlog' = <<>>
  BY <1>1, <1>4 DEF QueueInv, NoneReadied, CountInv
<1> QED
  BY <1>3, <1>4

(* A reply is sent to a shim that is neither queued nor answered.           *)
LEMMA QueueSend ==
  ASSUME TypeOK, CountInv, QueueInv, Busy, ~Busy', UNCHANGED backlog,
         NEW r \in ReplyReasons, NEW left, NEW o \in Exited, Send(r, left, o), r # None
  PROVE  QueueInv'
<1>1. /\ reply \in [Clients -> Replies] /\ cur \in Clients
      /\ client \in [Clients -> Alive \cup Exited] /\ o # "ready"
  BY DEF TypeOK, BrokerTypeOK, CountInv, Exited
<1>2. Answered' = Answered \cup {cur}
  BY <1>1 DEF Send, Answered
<1>3. NoneReadied
  BY <1>1 DEF Send, NoneReadied
<1>4. \A i \in 1..Len(backlog) : backlog[i] \in Clients
  BY DEF TypeOK, BrokerTypeOK
<1>5. Answered \subseteq Clients
  BY DEF Answered
<1> QED
  BY <1>1, <1>2, <1>3, <1>4, <1>5 DEF QueueInv, NoneReadied

(* A shim that connects enters the queue once, at its end.                  *)
LEMMA QueueConnect ==
  ASSUME TypeOK, CountInv, QueueInv, NEW c \in Clients, Connect(c)
  PROVE  QueueInv'
<1>1. /\ client \in [Clients -> Alive \cup Exited] /\ backlog \in Seq(Clients)
      /\ client[c] = "ready" /\ client'[c] # "ready"
      /\ \A d \in Clients \ {c} : client'[d] = client[d]
      /\ Answered' = Answered /\ Busy' = Busy /\ cur' = cur
  BY DEF TypeOK, BrokerTypeOK, Connect, Answered, Busy
<1>2. c \notin Answered /\ (Busy => cur # c) /\ \A i \in 1..Len(backlog) : backlog[i] # c
  BY <1>1 DEF QueueInv
<1>3. Answered \subseteq Clients /\ (Busy => cur \in Clients)
  BY DEF Answered, CountInv
<1>4. \A i \in 1..Len(backlog) : backlog[i] \in Clients
  BY <1>1
<1>5. CASE backlog' = backlog
  BY <1>1, <1>2, <1>5, <1>3, <1>4 DEF QueueInv
<1>6. CASE backlog' = Append(backlog, c)
  <2>1. /\ Len(backlog') = Len(backlog) + 1 /\ backlog'[Len(backlog) + 1] = c
        /\ \A i \in 1..Len(backlog) : backlog'[i] = backlog[i] /\ backlog[i] \in Clients
    BY <1>1, <1>6
  <2>2. \A i \in 1..Len(backlog') : i \in 1..Len(backlog) \/ i = Len(backlog) + 1
    BY <1>1, <2>1
  <2>3. \A i \in 1..Len(backlog') : /\ backlog'[i] \notin Answered
                                    /\ client'[backlog'[i]] # "ready"
                                    /\ Busy => backlog'[i] # cur
    BY <1>1, <1>2, <2>1, <2>2 DEF QueueInv
  <2>4. \A i, j \in 1..Len(backlog') : i # j => backlog'[i] # backlog'[j]
    BY <1>1, <1>2, <2>1, <2>2 DEF QueueInv
  <2> QED
    BY <1>1, <1>2, <1>3, <2>3, <2>4 DEF QueueInv
<1> QED
  BY <1>5, <1>6 DEF Connect
(* Every step keeps the queue in order.                                     *)
LEMMA NextQueueInv == TypeOK /\ CountInv /\ QueueInv /\ [Next]_vars => QueueInv'
<1> SUFFICES ASSUME TypeOK, CountInv, QueueInv, [Next]_vars PROVE QueueInv'
  OBVIOUS
<1>1. CASE BrokerAccepts
  <2>1. /\ backlog \in Seq(Clients) /\ backlog # <<>> /\ ~Busy
        /\ cur' = backlog[1] /\ UNCHANGED reply /\ Answered' = Answered
    BY <1>1 DEF BrokerAccepts, Accept, TypeOK, BrokerTypeOK, Busy, Answered
  <2>2. \A i \in 1..Len(backlog) : backlog[i] \in Clients
    BY <2>1
  <2>3. NoneReadied
    BY <1>1 DEF BrokerAccepts, Accept, NoneReadied, Reset
  <2>4. CASE backlog' = Tail(backlog)
    <3>1. \A i \in 1..Len(backlog') : i + 1 \in 1..Len(backlog) /\ backlog'[i] = backlog[i + 1]
      BY <2>1, <2>4
    <3>2. 1 \in 1..Len(backlog)
      BY <2>1
    <3>3. \A i \in 1..Len(backlog') : backlog'[i] # cur'
      BY <2>1, <3>1, <3>2 DEF QueueInv
    <3>4. \A i, j \in 1..Len(backlog') : i # j => backlog'[i] # backlog'[j]
      BY <3>1 DEF QueueInv
    <3> QED
      BY <2>1, <2>2, <2>3, <3>1, <3>2, <3>3, <3>4 DEF QueueInv, NoneReadied, Answered
  <2>5. CASE backlog' = <<>>
    <3>1. 1 \in 1..Len(backlog) /\ Len(backlog') = 0
      BY <2>1, <2>5
    <3> QED
      BY <2>1, <2>2, <2>3, <3>1 DEF QueueInv, NoneReadied, Answered
  <2> QED
    BY <1>1, <2>4, <2>5 DEF BrokerAccepts, Accept
<1>2. CASE BrokerDecides
  BY <1>2, QueueFrame DEF BrokerDecides, BeginGrade, Exhaust, Busy, NoneReadied
<1>3. CASE BrokerGrades
  <2>1. ASSUME NEW v \in Verdicts, GradeReturns(v) PROVE QueueInv'
    <3>1. Busy /\ ~Busy' /\ UNCHANGED backlog
      BY <2>1 DEF GradeReturns, NextAccept, Busy
    <3> QED
      BY <2>1, <3>1, QueueSend DEF GradeReturns, ReplyReasons, None, Exited
  <2>2. CASE GradeFaults
    BY <2>2, QueueFrame DEF GradeFaults, Busy, NoneReadied
  <2> QED
    BY <1>3, <2>1, <2>2 DEF BrokerGrades
<1>4. CASE BrokerRefuses
  BY <1>4, QueueSend DEF BrokerRefuses, Refuse, ReplyReasons, None, Busy, Exited
<1>5. CASE BrokerEndsRun
  <2>1. /\ UNCHANGED <<reply, backlog>> /\ ~Busy' /\ Answered' = Answered /\ NoneReadied
    BY <1>5 DEF BrokerEndsRun, EndRun, EndRunUnattached, NextAccept, Busy, Answered, NoneReadied
  <2>2. Answered \subseteq Clients /\ \A i \in 1..Len(backlog) : backlog[i] \in Clients
    BY DEF Answered, TypeOK, BrokerTypeOK
  <2> QED
    BY <2>1, <2>2 DEF QueueInv, NoneReadied
<1>6. CASE BrokerStops
  BY <1>6, QueueFrame DEF BrokerStops, AcceptRaises, Busy, NoneReadied, Reset
<1>7. CASE \E c \in Clients : ShimConnects(c)
  BY <1>7, QueueConnect DEF ShimConnects
<1>8. CASE (\E c \in Clients : ShimGivesUp(c)) \/ (\E o \in Outcomes : LeaderExits(o)) \/ Timeout
  <2>1. UNCHANGED <<cur, reply, backlog, pc>>
    BY <1>8 DEF ShimGivesUp, GiveUp, LeaderExits, Timeout
  <2>2. NoneReadied
    BY <1>8 DEF ShimGivesUp, GiveUp, LeaderExits, Timeout, NoneReadied, TypeOK, BrokerTypeOK
  <2> QED
    BY <2>1, <2>2, QueueFrame DEF Busy
<1>9. CASE RunnerStep
  <2>1. UNCHANGED <<cur, reply>> /\ (backlog' = backlog \/ backlog' = <<>>)
    BY <1>9
    DEF RunnerStep, StartBroker, Start, BrokerWillNotStart, Launch, KeyMissing, AttachBroker,
        Attach, Communicate, ReadFailed, ReadExhausted, ReadRequests, CloseBroker, Close,
        JoinBroker, RemoveSocket, FinalGrade, brokerVars
  <2>2. Busy' => Busy
    BY <1>9
    DEF RunnerStep, StartBroker, Start, BrokerWillNotStart, Launch, KeyMissing, AttachBroker,
        Attach, Communicate, ReadFailed, ReadExhausted, ReadRequests, CloseBroker, Close,
        JoinBroker, RemoveSocket, FinalGrade, brokerVars, Busy
  <2>3. client' = client \/ client' = Reset(backlog)
    BY <1>9
    DEF RunnerStep, StartBroker, Start, BrokerWillNotStart, Launch, KeyMissing, AttachBroker,
        Attach, Communicate, ReadFailed, ReadExhausted, ReadRequests, CloseBroker, Close,
        JoinBroker, RemoveSocket, FinalGrade, brokerVars
  <2> QED
    BY <2>1, <2>2, <2>3, QueueFrame DEF NoneReadied, Reset
<1>10. CASE UNCHANGED vars
  BY <1>10, QueueFrame DEF vars, brokerVars, Busy, NoneReadied
<1> QED
  BY <1>1, <1>2, <1>3, <1>4, <1>5, <1>6, <1>7, <1>8, <1>9, <1>10
  DEF Next, BrokerThread, Model
-----------------------------------------------------------------------------
(***************************************************************************)
(* Every unit spent was spent on a reply, or is being spent on the request *)
(* the thread serves, and exhaustion means a count beyond the cap.         *)
(***************************************************************************)
Spent(n) == \E c \in Answered : reply[c].request = n

SpentInv ==
  /\ \A n \in 1..requests : Spent(n) \/ (Busy /\ n = requests)
  /\ exhausted => requests > K

(* Steps that leave the count, the replies and the request in service.      *)
LEMMA SpentFrame ==
  ASSUME SpentInv, UNCHANGED <<requests, reply>>, Busy => Busy',
         exhausted' => exhausted \/ requests > K
  PROVE  SpentInv'
BY DEF SpentInv, Spent, Busy, Answered

(* A reply settles the request in service, and no other reply is lost.      *)
LEMMA SpentSend ==
  ASSUME TypeOK, CountInv, QueueInv, SpentInv, Busy, UNCHANGED <<requests, exhausted>>,
         NEW r \in ReplyReasons, NEW left, NEW o, Send(r, left, o), r # None
  PROVE  SpentInv'
<1>1. /\ cur \in Clients /\ cur \notin Answered /\ Answered \subseteq Clients
      /\ reply \in [Clients -> Replies] /\ requests \in Nat
  BY DEF CountInv, QueueInv, Answered, TypeOK, BrokerTypeOK
<1>2. /\ reply'[cur].request = requests /\ reply'[cur].reason = r
      /\ \A c \in Clients \ {cur} : reply'[c] = reply[c]
  BY <1>1 DEF Send
<1>3. cur \in Answered' /\ Answered \subseteq Answered'
  BY <1>1, <1>2 DEF Answered
<1>4. \A n \in 1..requests : Spent(n)'
  <2> TAKE n \in 1..requests
  <2>1. CASE n = requests
    BY <1>2, <1>3, <2>1 DEF Spent
  <2>2. CASE n # requests
    <3>1. PICK c \in Answered : reply[c].request = n
      BY <2>2 DEF SpentInv, Spent
    <3>2. c \in Answered' /\ reply'[c].request = n
      BY <1>1, <1>2, <1>3, <3>1
    <3> QED
      BY <3>2 DEF Spent
  <2> QED
    BY <2>1, <2>2
<1> QED
  BY <1>4 DEF SpentInv

(* Every step accounts for every unit.                                      *)
LEMMA NextSpentInv ==
  TypeOK /\ CountInv /\ QueueInv /\ SpentInv /\ [Next]_vars => SpentInv'
<1> SUFFICES ASSUME TypeOK, CountInv, QueueInv, SpentInv, [Next]_vars PROVE SpentInv'
  OBVIOUS
<1>1. CASE BrokerAccepts
  <2>1. /\ requests' = requests + 1 /\ requests \in Nat /\ UNCHANGED <<reply, exhausted>>
        /\ Busy' /\ ~Busy /\ K \in Nat
    BY <1>1, BrokerAssumption
    DEF BrokerAccepts, Accept, TypeOK, BrokerTypeOK, Busy, K_CEILING
  <2>2. \A n \in 1..requests : Spent(n)'
    BY <2>1 DEF SpentInv, Spent, Answered
  <2> QED
    BY <2>1, <2>2 DEF SpentInv
<1>2. CASE BrokerDecides
  BY <1>2, SpentFrame DEF BrokerDecides, BeginGrade, Exhaust, Busy
<1>3. CASE BrokerGrades
  <2>1. ASSUME NEW v \in Verdicts, GradeReturns(v) PROVE SpentInv'
    BY <2>1, SpentSend DEF GradeReturns, ReplyReasons, None, Busy
  <2>2. CASE GradeFaults
    BY <2>2, SpentFrame DEF GradeFaults, Busy
  <2> QED
    BY <1>3, <2>1, <2>2 DEF BrokerGrades
<1>4. CASE BrokerRefuses
  BY <1>4, SpentSend DEF BrokerRefuses, Refuse, ReplyReasons, None, Busy
<1>5. CASE BrokerEndsRun
  BY <1>5, SpentFrame DEF BrokerEndsRun, EndRun, EndRunUnattached, Busy
<1>6. CASE BrokerStops
  BY <1>6, SpentFrame DEF BrokerStops, AcceptRaises, Busy
<1>7. CASE Model \/ Timeout
  BY <1>7, SpentFrame
  DEF Model, ShimConnects, Connect, ShimGivesUp, GiveUp, LeaderExits, Timeout, Busy
<1>8. CASE RunnerStep
  <2>1. UNCHANGED <<requests, reply, exhausted>>
    BY <1>8
    DEF RunnerStep, StartBroker, Start, BrokerWillNotStart, Launch, KeyMissing, AttachBroker,
        Attach, Communicate, ReadFailed, ReadExhausted, ReadRequests, CloseBroker, Close,
        JoinBroker, RemoveSocket, FinalGrade, brokerVars
  <2>2. Busy => Busy'
    BY <1>8
    DEF RunnerStep, StartBroker, Start, BrokerWillNotStart, Launch, KeyMissing, AttachBroker,
        Attach, Communicate, ReadFailed, ReadExhausted, ReadRequests, CloseBroker, Close,
        JoinBroker, RemoveSocket, FinalGrade, brokerVars, Busy
  <2> QED
    BY <2>1, <2>2, SpentFrame
<1>9. CASE UNCHANGED vars
  BY <1>9, SpentFrame DEF vars, brokerVars, Busy
<1> QED
  BY <1>1, <1>2, <1>3, <1>4, <1>5, <1>6, <1>7, <1>8, <1>9 DEF Next, BrokerThread

(* All four parts of the inductive invariant hold throughout.               *)
THEOREM SpentCorrect == Spec => [](TypeOK /\ CountInv /\ QueueInv /\ SpentInv)
<1>1. Init => QueueInv /\ SpentInv
  <2> SUFFICES ASSUME Init PROVE QueueInv /\ SpentInv
    OBVIOUS
  <2>1. /\ requests = 0 /\ pc = "off" /\ exhausted = FALSE /\ backlog = <<>>
        /\ \A c \in Clients : reply[c].reason = None
    BY DEF Init, BrokerInit, NoReply
  <2>2. Answered = {} /\ ~Busy /\ Len(backlog) = 0
    BY <2>1 DEF Answered, Busy
  <2> QED
    BY <2>1, <2>2 DEF QueueInv, SpentInv
<1> QED
  BY <1>1, NextQueueInv, NextSpentInv, CountCorrect, TypeCorrect, PTL DEF Spec

(* When the broker declares exhaustion all K units were really answered.    *)
THEOREM NoEarlyEndHolds == Spec => []NoEarlyEnd
<1>1. TypeOK /\ SpentInv => NoEarlyEnd
  <2> SUFFICES ASSUME TypeOK, SpentInv, exhausted, NEW n \in 1..K PROVE Spent(n)
    BY DEF NoEarlyEnd, Spent
  <2>1. requests > K /\ requests \in Nat /\ K \in Nat
    BY BrokerAssumption DEF SpentInv, TypeOK, BrokerTypeOK, K_CEILING
  <2> QED
    BY <2>1 DEF SpentInv
<1> QED
  BY <1>1, SpentCorrect, PTL

(* The three sides of the budget in one: units are not shared, looks are    *)
(* not exceeded, and the run is not cut short.                              *)
THEOREM ExactBudgetHolds == Spec => []ExactBudget
<1>1. OneUnitPerReply /\ LooksWithinK /\ NoEarlyEnd => ExactBudget
  BY DEF ExactBudget
<1> QED
  BY <1>1, OneUnitPerReplyHolds, LooksWithinKHolds, NoEarlyEndHolds, PTL

(* No step after exhaustion hands out another look.                         *)
THEOREM NoLookAfterExhaustionHolds == Spec => NoLookAfterExhaustion
<1>1. ASSUME TypeOK, CountInv, QueueInv, SpentInv, [Next]_vars, exhausted
      PROVE  Graded' = Graded
  <2>1. requests > K /\ requests \in Nat /\ K \in Nat
    BY <1>1, BrokerAssumption DEF SpentInv, TypeOK, BrokerTypeOK, K_CEILING
  <2>2. pc # "grading"
    BY <1>1, <2>1 DEF CountInv
  <2>3. CASE UNCHANGED reply
    BY <2>3 DEF Graded
  <2>4. CASE BrokerRefuses
    <3>1. cur \in Clients /\ cur \notin Answered /\ reply \in [Clients -> Replies]
      BY <1>1, <2>4
      DEF BrokerRefuses, Refuse, CountInv, QueueInv, Busy, TypeOK, BrokerTypeOK
    <3>2. /\ reply'[cur].reason # "graded"
          /\ \A c \in Clients \ {cur} : reply'[c] = reply[c]
      BY <2>4, <3>1 DEF BrokerRefuses, Refuse, Send
    <3> QED
      BY <3>1, <3>2 DEF Graded, Answered, None
  <2>5. CASE BrokerThread
    BY <2>2, <2>3, <2>4, <2>5
    DEF BrokerThread, BrokerAccepts, Accept, BrokerStops, AcceptRaises, BrokerDecides,
        BeginGrade, Exhaust, BrokerGrades, GradeReturns, GradeFaults, BrokerEndsRun, EndRun,
        EndRunUnattached
  <2>6. CASE RunnerStep
    BY <2>3, <2>6
    DEF RunnerStep, StartBroker, Start, BrokerWillNotStart, Launch, KeyMissing, AttachBroker,
        Attach, Communicate, ReadFailed, ReadExhausted, ReadRequests, CloseBroker, Close,
        JoinBroker, RemoveSocket, FinalGrade, brokerVars
  <2>7. CASE Model \/ Timeout \/ UNCHANGED vars
    BY <2>3, <2>7
    DEF Model, ShimConnects, Connect, ShimGivesUp, GiveUp, LeaderExits, Timeout, vars, brokerVars
  <2> QED
    BY <1>1, <2>5, <2>6, <2>7 DEF Next
<1> QED
  BY <1>1, SpentCorrect, PTL DEF Spec, NoLookAfterExhaustion
-----------------------------------------------------------------------------
(***************************************************************************)
(* The runner reads exhausted before it reads the count, and neither ever  *)
(* goes back, so a row filed as cap_exhausted holds a count beyond K.      *)
(***************************************************************************)
Filed == {"close", "join", "grade", "done"}

CapInv ==
  /\ reason = "cap_exhausted" => exhausted
  /\ reason = "cap_exhausted" /\ run \in Filed => row.requests > K
  /\ run = "done" => /\ "cap_exhausted" \in row.reason => reason = "cap_exhausted"
                     /\ "cap_exhausted" \in row.reason => ~row.pass

(* Every step keeps the evidence.                                           *)
LEMMA NextCapInv == TypeOK /\ SpentInv /\ CapInv /\ [Next]_vars => CapInv'
<1> SUFFICES ASSUME TypeOK, SpentInv, CapInv, [Next]_vars PROVE CapInv'
  OBVIOUS
<1>1. CASE BrokerThread \/ Model \/ UNCHANGED vars
  <2>1. UNCHANGED <<run, reason, row>>
    BY <1>1
    DEF BrokerThread, BrokerAccepts, BrokerStops, BrokerDecides, BrokerGrades, BrokerRefuses,
        BrokerEndsRun, Model, ShimConnects, ShimGivesUp, LeaderExits, runVars, vars
  <2>2. exhausted => exhausted'
    BY <1>1
    DEF BrokerThread, BrokerAccepts, Accept, BrokerStops, AcceptRaises, BrokerDecides,
        BeginGrade, Exhaust, BrokerGrades, GradeReturns, GradeFaults, BrokerRefuses, Refuse,
        BrokerEndsRun, EndRun, EndRunUnattached, Model, ShimConnects, Connect, ShimGivesUp,
        GiveUp, LeaderExits, vars, brokerVars
  <2> QED
    BY <2>1, <2>2 DEF CapInv
<1>2. CASE Timeout
  BY <1>2 DEF Timeout, CapInv, Filed
<1>3. CASE ReadExhausted
  BY <1>3 DEF ReadExhausted, brokerVars, CapInv, Filed
<1>4. CASE ReadRequests
  <2>1. /\ row'.requests = requests /\ row'.reason = row.reason /\ row'.pass = row.pass
        /\ reason' = "cap_exhausted" => reason = "cap_exhausted"
        /\ run' = "close" /\ exhausted' = exhausted
    BY <1>4 DEF ReadRequests, brokerVars, TypeOK, Rows
  <2> QED
    BY <2>1 DEF CapInv, SpentInv
<1>5. ASSUME NEW raw \in PassRaw, FinalGrade(raw) PROVE CapInv'
  <2> DEFINE parts == IF raw = None THEN {reason, "verify_timeout"} ELSE {reason}
  <2>1. /\ row'.requests = row.requests /\ row'.reason = parts /\ run = "grade"
        /\ row'.pass = (raw = "TRUE" /\ parts = {"ok"})
        /\ reason' = reason /\ exhausted' = exhausted
    BY <1>5 DEF FinalGrade, brokerVars, TypeOK, Rows
  <2>2. "cap_exhausted" \in parts => reason = "cap_exhausted" /\ parts # {"ok"}
    OBVIOUS
  <2> QED
    BY <2>1, <2>2 DEF CapInv, Filed
<1>6. CASE StartBroker \/ BrokerWillNotStart \/ Launch \/ KeyMissing \/ AttachBroker
           \/ Communicate \/ ReadFailed
  BY <1>6
  DEF StartBroker, Start, BrokerWillNotStart, Launch, KeyMissing, AttachBroker, Attach,
      Communicate, ReadFailed, brokerVars, CapInv, Filed
<1>7. CASE CloseBroker \/ JoinBroker
  BY <1>7
  DEF CloseBroker, Close, JoinBroker, RemoveSocket, CapInv, Filed
<1> QED
  BY <1>1, <1>2, <1>3, <1>4, <1>5, <1>6, <1>7 DEF Next, RunnerStep

(* A cap_exhausted row has a count beyond K, the flag, and no pass.         *)
THEOREM CapRowHasEvidenceHolds == Spec => []CapRowHasEvidence
<1>1. Init => CapInv
  BY DEF Init, CapInv, None, Filed
<1>2. CapInv => CapRowHasEvidence
  BY DEF CapInv, CapRowHasEvidence, Filed
<1> QED
  BY <1>1, <1>2, NextCapInv, SpentCorrect, PTL DEF Spec

-----------------------------------------------------------------------------
(***************************************************************************)
(* A shim the leader waits for can be refused only while the leader runs,  *)
(* and the broker has raised a flag before it refuses anybody.  So when    *)
(* the runner comes to read the flags, with the leader reaped, who was     *)
(* refused is settled, and one of the two flags is up and stays up.        *)
(***************************************************************************)
Foreground == Clients \ Detached
Told == \E c \in Foreground : client[c] = "refused"
Marks == {"cap_exhausted", "broker_failed"}

(* The leader: what each place of the runner says of it, and who of its     *)
(* shims can still connect or be answered.                                  *)
LeaderInv ==
  /\ cli = "unborn" => ~attached /\ \A c \in Clients : client[c] = "ready"
  /\ cli \in {"exited", "reaped"} => \A c \in Foreground : client[c] \notin Alive
  /\ run \in {"begin", "prepare", "aborted"} => cli = "unborn"
  /\ run \in {"attach", "wait"} => cli \in {"running", "exited"}
  /\ run \in {"read_failed", "read_exhausted"} => cli = "reaped"
  /\ run \in {"read_requests"} \cup Filed => cli \in {"unborn", "reaped"}

MarkInv ==
  /\ pc = "refusing" => exhausted \/ failed # None
  /\ Told => exhausted \/ failed # None
  /\ run = "read_exhausted" /\ Told => exhausted
  /\ run \in {"read_requests", "close", "join", "grade"} /\ Told => reason \in Marks
  /\ run = "done" /\ Told => row.reason \cap Marks # {}

(* Every step keeps the leader and its shims in order.                      *)
LEMMA NextLeaderInv == TypeOK /\ CountInv /\ LeaderInv /\ [Next]_vars => LeaderInv'
<1> SUFFICES ASSUME TypeOK, CountInv, LeaderInv, [Next]_vars PROVE LeaderInv'
  OBVIOUS
<1> USE DEF LeaderInv, Foreground, Filed, Alive
<1>1. client \in [Clients -> Alive \cup Exited] /\ Detached \subseteq Clients
  BY RunAssumption DEF TypeOK, BrokerTypeOK
<1>2. CASE BrokerAccepts
  BY <1>1, <1>2 DEF BrokerAccepts, Accept, Reset, runVars
<1>3. CASE BrokerStops
  BY <1>1, <1>3 DEF BrokerStops, AcceptRaises, Reset, runVars
<1>4. CASE BrokerDecides
  BY <1>4 DEF BrokerDecides, BeginGrade, Exhaust, runVars
<1>5. ASSUME NEW r, NEW left, NEW o \in Exited, Send(r, left, o), Busy,
             UNCHANGED <<attached, runVars>>
      PROVE  LeaderInv'
  BY <1>1, <1>5 DEF Send, runVars, CountInv, Exited
<1>6. CASE BrokerGrades
  BY <1>5, <1>6 DEF BrokerGrades, GradeReturns, GradeFaults, Exited, Busy, runVars
<1>7. CASE BrokerRefuses
  BY <1>5, <1>7 DEF BrokerRefuses, Refuse, Exited, Busy
<1>8. CASE BrokerEndsRun
  BY <1>1, <1>8 DEF BrokerEndsRun, EndRun, EndRunUnattached, KillLeader, SignalReach, runVars
<1>9. CASE Model
  BY <1>1, <1>9
  DEF Model, ShimConnects, Connect, ShimGivesUp, GiveUp, LeaderExits, runVars
<1>10. CASE Timeout
  BY <1>1, <1>10 DEF Timeout
<1>11. CASE CloseBroker
  BY <1>1, <1>11 DEF CloseBroker, Close, Reset
<1>12. CASE StartBroker \/ BrokerWillNotStart \/ Launch \/ KeyMissing \/ AttachBroker
  BY <1>12
  DEF StartBroker, Start, BrokerWillNotStart, Launch, KeyMissing, AttachBroker, Attach,
      brokerVars
<1>13. CASE Communicate \/ ReadFailed \/ ReadExhausted \/ ReadRequests \/ JoinBroker
            \/ \E raw \in PassRaw : FinalGrade(raw)
  <2>1. CASE Communicate
    BY <2>1 DEF Communicate, brokerVars
  <2>2. CASE ReadFailed \/ ReadExhausted \/ ReadRequests
    BY <2>2 DEF ReadFailed, ReadExhausted, ReadRequests, brokerVars
  <2>3. CASE JoinBroker
    BY <2>3 DEF JoinBroker, RemoveSocket
  <2>4. ASSUME NEW raw \in PassRaw, FinalGrade(raw) PROVE LeaderInv'
    <3>1. run = "grade" /\ run' = "done" /\ UNCHANGED <<client, attached, cli>>
      BY <2>4 DEF FinalGrade, brokerVars
    <3> QED
      BY <3>1
  <2> QED
    BY <1>13, <2>1, <2>2, <2>3, <2>4
<1>14. CASE UNCHANGED vars
  BY <1>14 DEF vars, brokerVars, runVars
<1> QED
  BY <1>2, <1>3, <1>4, <1>6, <1>7, <1>8, <1>9, <1>10, <1>11, <1>12, <1>13, <1>14
  DEF Next, BrokerThread, RunnerStep

(* Nobody is told once the leader is gone, and nobody but by Refuse.        *)
LEMMA ToldWhen ==
  ASSUME TypeOK, CountInv, LeaderInv, [Next]_vars
  PROVE  Told' => Told \/ (BrokerRefuses /\ cli = "running")
<1> USE DEF Told, Foreground
<1>1. client \in [Clients -> Alive \cup Exited] /\ Detached \subseteq Clients
  BY RunAssumption DEF TypeOK, BrokerTypeOK
<1>2. CASE BrokerRefuses
  BY <1>1, <1>2
  DEF BrokerRefuses, Refuse, Send, CountInv, Busy, LeaderInv, Alive, TypeOK
<1>3. CASE BrokerAccepts \/ BrokerStops \/ BrokerDecides \/ BrokerGrades \/ BrokerEndsRun
  BY <1>1, <1>3
  DEF BrokerAccepts, Accept, BrokerStops, AcceptRaises, Reset, BrokerDecides, BeginGrade,
      Exhaust, BrokerGrades, GradeReturns, GradeFaults, Send, BrokerEndsRun, EndRun,
      EndRunUnattached, CountInv, Busy
<1>4. CASE Model \/ Timeout \/ UNCHANGED vars
  BY <1>1, <1>4
  DEF Model, ShimConnects, Connect, ShimGivesUp, GiveUp, LeaderExits, Timeout, vars, brokerVars
<1>5. CASE RunnerStep
  BY <1>1, <1>5
  DEF RunnerStep, StartBroker, Start, BrokerWillNotStart, Launch, KeyMissing, AttachBroker,
      Attach, Communicate, ReadFailed, ReadExhausted, ReadRequests, CloseBroker, Close, Reset,
      JoinBroker, RemoveSocket, FinalGrade, brokerVars
<1> QED
  BY <1>2, <1>3, <1>4, <1>5 DEF Next, BrokerThread

(* Every step keeps the marks.                                              *)
LEMMA NextMarkInv == TypeOK /\ CountInv /\ LeaderInv /\ MarkInv /\ [Next]_vars => MarkInv'
<1> SUFFICES ASSUME TypeOK, CountInv, LeaderInv, MarkInv, [Next]_vars PROVE MarkInv'
  OBVIOUS
<1>1. Told' => Told \/ (BrokerRefuses /\ cli = "running")
  BY ToldWhen
<1> HIDE DEF Told
<1>2. CASE BrokerThread
  <2>1. /\ UNCHANGED <<run, reason, row>>
        /\ exhausted => exhausted'
        /\ failed # None => failed' # None
        /\ pc' = "refusing" => pc = "refusing" \/ exhausted' \/ failed' # None
        /\ BrokerRefuses => pc = "refusing"
    BY <1>2
    DEF BrokerThread, BrokerAccepts, Accept, BrokerStops, AcceptRaises, BrokerDecides,
        BeginGrade, Exhaust, BrokerGrades, GradeReturns, GradeFaults, BrokerRefuses, Refuse,
        BrokerEndsRun, EndRun, EndRunUnattached, NextAccept, runVars, None
  <2> QED
    BY <1>1, <2>1 DEF MarkInv, LeaderInv, Filed
<1>3. CASE Model \/ Timeout \/ UNCHANGED vars
  <2>1. /\ UNCHANGED <<exhausted, failed, pc, row>>
        /\ UNCHANGED <<run, reason>> \/ run' = "read_failed"
        /\ ~BrokerRefuses
    BY <1>3
    DEF Model, ShimConnects, Connect, ShimGivesUp, GiveUp, LeaderExits, Timeout, vars,
        brokerVars, runVars, BrokerRefuses, Refuse
  <2> QED
    BY <1>1, <2>1 DEF MarkInv
<1>4. CASE RunnerStep
  <2>1. UNCHANGED <<exhausted, failed>>
    BY <1>4
    DEF RunnerStep, StartBroker, Start, BrokerWillNotStart, Launch, KeyMissing, AttachBroker,
        Attach, Communicate, ReadFailed, ReadExhausted, ReadRequests, CloseBroker, Close,
        JoinBroker, RemoveSocket, FinalGrade, brokerVars
  <2>2. ~BrokerRefuses \/ cli # "running"
    BY <1>4
    DEF RunnerStep, StartBroker, Start, BrokerWillNotStart, Launch, KeyMissing, AttachBroker,
        Attach, Communicate, ReadFailed, ReadExhausted, ReadRequests, CloseBroker, Close,
        JoinBroker, RemoveSocket, FinalGrade, brokerVars, BrokerRefuses, Refuse
  <2>3. CASE KeyMissing
    <3>1. ~Told
      BY <2>3 DEF KeyMissing, LeaderInv, Told, Foreground
    <3> QED
      BY <1>1, <2>1, <2>2, <2>3, <3>1 DEF KeyMissing, MarkInv, brokerVars
  <2>4. ASSUME NEW raw \in PassRaw, FinalGrade(raw) PROVE MarkInv'
    <3>1. /\ run = "grade" /\ run' = "done" /\ reason \in row'.reason
          /\ pc' = pc
      BY <2>4 DEF FinalGrade, TypeOK, Rows, brokerVars
    <3> QED
      BY <1>1, <2>1, <2>2, <3>1 DEF MarkInv
  <2>5. CASE ReadFailed
    BY <1>1, <2>1, <2>2, <2>5 DEF ReadFailed, MarkInv, Marks, brokerVars
  <2>6. CASE ReadExhausted
    BY <1>1, <2>1, <2>2, <2>6 DEF ReadExhausted, MarkInv, Marks, brokerVars
  <2>7. CASE ReadRequests
    BY <1>1, <2>1, <2>2, <2>7 DEF ReadRequests, MarkInv, Marks, brokerVars
  <2>8. CASE StartBroker \/ BrokerWillNotStart \/ Launch \/ AttachBroker \/ Communicate
             \/ CloseBroker \/ JoinBroker
    BY <1>1, <2>1, <2>2, <2>8
    DEF StartBroker, Start, BrokerWillNotStart, Launch, AttachBroker, Attach, Communicate,
        CloseBroker, Close, JoinBroker, RemoveSocket, MarkInv, brokerVars
  <2> QED
    BY <1>4, <2>3, <2>4, <2>5, <2>6, <2>7, <2>8 DEF RunnerStep
<1> QED
  BY <1>2, <1>3, <1>4 DEF Next

(* Who was told that the run is over is never filed as a run that ended by  *)
(* itself.                                                                  *)
THEOREM RefusedRunIsMarkedHolds == Spec => []RefusedRunIsMarked
<1>1. Init => LeaderInv /\ MarkInv
  BY DEF Init, BrokerInit, LeaderInv, MarkInv, Told, Foreground, Filed, None
<1>2. MarkInv => RefusedRunIsMarked
  BY DEF MarkInv, Told, Foreground, Marks, RefusedRunIsMarked
<1> QED
  BY <1>1, <1>2, NextLeaderInv, NextMarkInv, TypeCorrect, CountCorrect, PTL DEF Spec

-----------------------------------------------------------------------------
(***************************************************************************)
(* Every step of a brokered run is a step of the abstract budget, or none, *)
(* for every number of shims and every K.  What BudgetSpec says of         *)
(* fairness is left to the run that checks it.                             *)
(***************************************************************************)

(* The broker never hands the same connection a second look.                *)
LEMMA LookIsCounted ==
  ASSUME TypeOK, CountInv, QueueInv, Busy, NEW r \in ReplyReasons, NEW left, NEW o,
         Send(r, left, o), r # None
  PROVE  Cardinality(Graded') = Cardinality(Graded) + (IF r = "graded" THEN 1 ELSE 0)
<1>1. /\ cur \in Clients /\ reply \in [Clients -> Replies]
      /\ reply[cur].reason = None /\ None # "graded"
  BY DEF CountInv, QueueInv, Answered, TypeOK, BrokerTypeOK, None
<1>2. /\ reply'[cur].reason = r
      /\ \A c \in Clients \ {cur} : reply'[c] = reply[c]
  BY <1>1 DEF Send
<1>3. Graded' = IF r = "graded" THEN Graded \cup {cur} ELSE Graded
  BY <1>1, <1>2 DEF Graded
<1>4. cur \notin Graded
  BY <1>1 DEF Graded
<1>5. IsFiniteSet(Graded) /\ Cardinality(Graded) \in Nat
  BY BrokerAssumption, FS_Subset, FS_CardinalityType DEF Graded
<1> QED
  BY <1>3, <1>4, <1>5, FS_AddElement

(* A step that touches none of what the budget is read from.                *)
LEMMA BudgetStutter ==
  ASSUME UNCHANGED <<requests, exhausted, reply>>,
         pc' \in {"counted", "grading"} <=> pc \in {"counted", "grading"}
  PROVE  UNCHANGED Budget!vars
BY DEF Budget!vars, Graded

(* What each step of the run is to the budget.                              *)
LEMMA NextBudget ==
  TypeOK /\ CountInv /\ QueueInv /\ SpentInv /\ [Next]_vars => [Budget!Next]_(Budget!vars)
<1> SUFFICES ASSUME TypeOK, CountInv, QueueInv, SpentInv, [Next]_vars
             PROVE  Budget!Next \/ UNCHANGED Budget!vars
  OBVIOUS
<1>1. CASE BrokerAccepts
  <2>1. Budget!Spend
    BY <1>1 DEF BrokerAccepts, Accept, Budget!Spend, Graded
  <2> QED
    BY <2>1 DEF Budget!Next
<1>2. CASE BrokerDecides
  <2>1. CASE BeginGrade
    BY <2>1, BudgetStutter DEF BeginGrade
  <2>2. CASE Exhaust
    <3>1. Budget!End
      BY <2>2 DEF Exhaust, Budget!End, Graded
    <3> QED
      BY <3>1 DEF Budget!Next
  <2> QED
    BY <1>2, <2>1, <2>2 DEF BrokerDecides
<1>3. CASE BrokerGrades
  <2>1. ASSUME NEW v \in Verdicts, GradeReturns(v) PROVE Budget!Look
    <3>1. /\ pc = "grading" /\ pc' \notin {"counted", "grading"}
          /\ UNCHANGED <<requests, exhausted>>
      BY <2>1 DEF GradeReturns, NextAccept
    <3>2. requests <= K /\ ~exhausted
      BY <3>1, BrokerAssumption DEF CountInv, SpentInv, TypeOK, BrokerTypeOK, K_CEILING
    <3>3. Cardinality(Graded') = Cardinality(Graded) + 1
      BY <2>1, <3>1, LookIsCounted DEF GradeReturns, Busy, ReplyReasons, None
    <3> QED
      BY <3>1, <3>2, <3>3 DEF Budget!Look
  <2>2. CASE GradeFaults
    <3>1. Budget!Fault
      BY <2>2 DEF GradeFaults, CountInv, Budget!Fault, Graded
    <3> QED
      BY <3>1 DEF Budget!Next
  <2> QED
    BY <1>3, <2>1, <2>2 DEF BrokerGrades, Budget!Next
<1>4. CASE BrokerRefuses
  <2>1. /\ pc = "refusing" /\ pc' = "ending" /\ UNCHANGED <<requests, exhausted>>
    BY <1>4 DEF BrokerRefuses, Refuse
  <2>2. Cardinality(Graded') = Cardinality(Graded)
    <3>1. PICK r \in {"cap_exhausted", "broker_failed"} : Send(r, 0, "refused")
      BY <1>4 DEF BrokerRefuses, Refuse
    <3>2. r \in ReplyReasons /\ r # None /\ r # "graded" /\ Busy
      BY <2>1 DEF ReplyReasons, None, Busy
    <3>3. Cardinality(Graded) \in Nat
      BY BrokerAssumption, FS_Subset, FS_CardinalityType DEF Graded
    <3> QED
      BY <3>1, <3>2, <3>3, LookIsCounted
  <2> QED
    BY <2>1, <2>2 DEF Budget!vars
<1>5. CASE BrokerEndsRun
  BY <1>5, BudgetStutter DEF BrokerEndsRun, EndRun, EndRunUnattached, NextAccept
<1>6. CASE BrokerStops
  BY <1>6, BudgetStutter DEF BrokerStops, AcceptRaises
<1>7. CASE StartBroker \/ CloseBroker \/ JoinBroker \/ AttachBroker
  BY <1>7, BudgetStutter
  DEF StartBroker, Start, CloseBroker, Close, JoinBroker, RemoveSocket, AttachBroker, Attach
<1>8. CASE \/ BrokerWillNotStart \/ Launch \/ KeyMissing \/ Communicate \/ ReadFailed
           \/ ReadExhausted \/ ReadRequests \/ \E raw \in PassRaw : FinalGrade(raw)
  BY <1>8, BudgetStutter
  DEF BrokerWillNotStart, Launch, KeyMissing, Communicate, ReadFailed, ReadExhausted,
      ReadRequests, FinalGrade, brokerVars
<1>9. CASE Model \/ Timeout \/ UNCHANGED vars
  BY <1>9, BudgetStutter
  DEF Model, ShimConnects, Connect, ShimGivesUp, GiveUp, LeaderExits, Timeout, vars, brokerVars
<1> QED
  BY <1>1, <1>2, <1>3, <1>4, <1>5, <1>6, <1>7, <1>8, <1>9 DEF Next, BrokerThread, RunnerStep

(***************************************************************************)
(* The detailed run implements the budget: units are spent one at a time,  *)
(* no look is had without one, and unit K + 1 ends the run.                *)
(***************************************************************************)
THEOREM BudgetIsImplemented == Spec => Budget!Init /\ [][Budget!Next]_(Budget!vars)
<1>1. Init => Budget!Init
  <2> SUFFICES ASSUME Init PROVE Budget!Init
    OBVIOUS
  <2>1. /\ requests = 0 /\ exhausted = FALSE /\ pc = "off"
        /\ \A c \in Clients : reply[c].reason = None
    BY DEF Init, BrokerInit, NoReply
  <2>2. Cardinality(Graded) = 0
    BY <2>1, FS_EmptySet DEF Graded, None
  <2> QED
    BY <2>1, <2>2 DEF Budget!Init
<1> QED
  BY <1>1, NextBudget, SpentCorrect, PTL DEF Spec
=============================================================================
