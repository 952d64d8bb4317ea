---------------------------- MODULE ProductProofs ----------------------------
(***************************************************************************)
(* Proofs about Product, for every set of visitors, models, requests and   *)
(* costs, and any number of executions.                                    *)
(***************************************************************************)
EXTENDS Product, FiniteSetTheorems, WellFoundedInduction, TLAPS

FileType == Files(UsageRow \cup {Garbled})

LEMMA WrittenType ==
  ASSUME NEW file \in FileType, NEW row \in UsageRow, NEW cut \in Cuts
  PROVE  Written(file, row, cut) \in FileType
<1> DEFINE L == UsageRow \cup {Garbled}
           new == Written(file, row, cut)
           lines == IF file.open
                    THEN [file.lines EXCEPT ![Len(file.lines)] = Garbled]
                    ELSE Append(file.lines, IF cut = "prefix" THEN Garbled ELSE row)
<1>1. /\ file.lines \in Seq(L) /\ file.open \in BOOLEAN
      /\ file.appended \in Nat /\ file.torn \in Nat
  BY DEF Files, FileType
<1>2. row \in L /\ Garbled \in L
  OBVIOUS
<1> HIDE DEF L
<1>3. lines \in Seq(L)
  <2>1. CASE file.open /\ file.lines = <<>>
    <3>1. lines = file.lines
      BY <2>1
    <3> QED
      BY <1>1, <3>1
  <2>2. CASE file.open /\ file.lines # <<>>
    BY <1>1, <1>2, <2>2
  <2>3. CASE ~file.open
    BY <1>1, <1>2, <2>3
  <2> QED
    BY <1>1, <2>1, <2>2, <2>3
<1>4. new = [lines |-> lines, open |-> cut # "whole", appended |-> file.appended + 1,
             torn |-> IF cut = "whole" THEN file.torn ELSE file.torn + 1]
  BY DEF Written
<1> HIDE DEF lines, new
<1>5. new \in Files(L)
  BY <1>1, <1>3, <1>4 DEF Files
<1> QED
  BY <1>5 DEF L, FileType, new

(* Every step of a visitor leaves the variables well typed.                 *)
LEMMA StartType == ASSUME TypeOK, NEW v \in Visitors, Start(v)
                   PROVE  /\ at' \in [Visitors -> Nat \ {0}]
                          /\ spent' \in [Visitors -> Nat]
                          /\ outcomes' \in [Visitors -> Seq(Outcome)]
                          /\ last' \in [Visitors -> Nat]
                          /\ cost' \in [Visitors -> Nat]
                          /\ paid' \in [Visitors -> Nat]
BY DEF TypeOK, Start

LEMMA ReportedType ==
  ASSUME TypeOK, NEW v \in Visitors, AtTask(v) \/ pc[v] = "ledger",
         request[v] \in Requests,
         NEW status \in {"ran", "refused", "unsupported"}, NEW usd \in Nat,
         Reported(v, status, usd)
  PROVE  /\ Task(v) \in Tasks
         /\ outcomes' \in [Visitors -> Seq(Outcome)]
<1>1. at[v] \in 1..Len(request[v].tasks)
  BY DEF TypeOK, AtTask
<1>2. request[v].tasks \in Seq(Tasks)
  BY ProductAssumption
<1>3. Task(v) \in Tasks
  BY <1>1, <1>2 DEF Task
<1>4. [task |-> Task(v), status |-> status, usd |-> usd] \in Outcome
  BY <1>3 DEF Outcome
<1> QED
  BY <1>3, <1>4 DEF Reported, TypeOK

(* The part of TypeOK that relates a visitor's place to its request.        *)
Placed(v) ==
  /\ pc[v] \notin {"idle", "raised"} => request[v] \in Requests
  /\ pc[v] \in {"running", "ledger"} => at[v] <= Len(request[v].tasks)

(* A step of one visitor does not move the others.                          *)
Still(w) == pc'[w] = pc[w] /\ request'[w] = request[w] /\ at'[w] = at[w]

LEMMA StillPlaced == ASSUME NEW w, Placed(w), Still(w) PROVE Placed(w)'
BY DEF Placed, Still

LEMMA AllPlaced ==
  ASSUME NEW v \in Visitors, \A w \in Visitors : Placed(w), Placed(v)',
         \A w \in Visitors \ {v} : Still(w)
  PROVE  \A w \in Visitors : Placed(w)'
<1> SUFFICES ASSUME NEW w \in Visitors PROVE Placed(w)'
  OBVIOUS
<1> QED
  BY StillPlaced

LEMMA NextTypeOK == TypeOK /\ [Next]_vars => TypeOK'
<1> SUFFICES ASSUME TypeOK, [Next]_vars PROVE TypeOK'
  OBVIOUS
<1> DEFINE Types ==
      /\ shown \subseteq Requests
      /\ pc \in [Visitors -> {"idle", "loop", "running", "ledger", "reported", "raised"}]
      /\ request \in [Visitors -> Requests \cup {NoRequest}]
      /\ at \in [Visitors -> Nat \ {0}]
      /\ spent \in [Visitors -> Nat]
      /\ outcomes \in [Visitors -> Seq(Outcome)]
      /\ last \in [Visitors -> Nat]
      /\ cost \in [Visitors -> Nat]
      /\ turn \in [Visitors -> Nat]
      /\ usage \in FileType
      /\ asked \in Seq(UsageRow)
      /\ launched \subseteq (Nat \X Nat)
      /\ paid \in [Visitors -> Nat]
      /\ executions \in Nat
<1>0. Types /\ \A w \in Visitors : Placed(w)
  BY DEF TypeOK, Placed, FileType
<1> SUFFICES Types' /\ \A w \in Visitors : Placed(w)'
  BY DEF TypeOK, Placed, FileType
<1>1. ASSUME NEW r \in Requests, Disclose(r)
      PROVE  Types' /\ \A w \in Visitors : Placed(w)'
  <2>1. Types'
    BY <1>0, <1>1 DEF Disclose, frame, loop, history
  <2> QED
    BY <1>0, <1>1, <2>1, StillPlaced DEF Disclose, frame, loop, history, Still
<1>2. ASSUME NEW v \in Visitors, NEW r \in Requests, Execute(v, r)
      PROVE  Types' /\ \A w \in Visitors : Placed(w)'
  <2>1. request' \in [Visitors -> Requests \cup {NoRequest}] /\ turn' \in [Visitors -> Nat]
    BY <1>0, <1>2 DEF Execute
  <2>2. pc' \in [Visitors -> {"idle", "loop", "running", "ledger", "reported", "raised"}]
    BY <1>0, <1>2 DEF Execute
  <2>3. Types'
    BY <1>0, <1>2, <2>1, <2>2, StartType DEF Execute
  <2>4. Placed(v)'
    BY <1>0, <1>2 DEF Execute, Placed
  <2>5. \A w \in Visitors \ {v} : Still(w)
    BY <1>0, <1>2 DEF Execute, Start, Still
  <2> HIDE DEF Types
  <2> QED
    BY <1>0, <2>3, <2>4, <2>5, AllPlaced
<1>3. ASSUME NEW v \in Visitors, Refuse(v) \/ Unsupported(v)
      PROVE  Types' /\ \A w \in Visitors : Placed(w)'
  <2>1. request[v] \in Requests /\ pc[v] = "loop"
    BY <1>0, <1>3 DEF Placed, Refuse, Unsupported, AtTask
  <2>2. outcomes' \in [Visitors -> Seq(Outcome)]
    <3>1. PICK status \in {"ran", "refused", "unsupported"} : Reported(v, status, 0)
      BY <1>3 DEF Refuse, Unsupported
    <3>2. AtTask(v) /\ 0 \in Nat
      BY <1>3 DEF Refuse, Unsupported
    <3> HIDE DEF Types
    <3> QED
      BY <2>1, <3>1, <3>2, ReportedType
  <2>3. at' \in [Visitors -> Nat \ {0}]
    <3>1. at' = [at EXCEPT ![v] = at[v] + 1]
      BY <1>3 DEF Refuse, Unsupported
    <3>2. at[v] \in Nat \ {0}
      BY <1>0
    <3>3. at[v] + 1 \in Nat \ {0}
      BY <3>2
    <3> QED
      BY <1>0, <3>1, <3>3
  <2>4. UNCHANGED <<shown, pc, frame, spent, last, cost, usage, history>>
    BY <1>3 DEF Refuse, Unsupported
  <2>5. Types'
    BY <1>0, <2>2, <2>3, <2>4 DEF frame, history
  <2>6. Placed(v)'
    BY <1>3, <2>1 DEF Refuse, Unsupported, frame, Placed
  <2>7. \A w \in Visitors \ {v} : Still(w)
    BY <1>0, <1>3 DEF Refuse, Unsupported, frame, Still
  <2> HIDE DEF Types
  <2> QED
    BY <1>0, <2>5, <2>6, <2>7, AllPlaced
<1>4. ASSUME NEW v \in Visitors, Abort(v)
      PROVE  Types' /\ \A w \in Visitors : Placed(w)'
  <2>1. Types'
    BY <1>0, <1>4, StartType DEF Abort
  <2>2. Placed(v)'
    BY <1>0, <1>4 DEF Abort, Placed
  <2>3. \A w \in Visitors \ {v} : Still(w)
    BY <1>0, <1>4 DEF Abort, Start, Still
  <2> HIDE DEF Types
  <2> QED
    BY <1>0, <2>1, <2>2, <2>3, AllPlaced
<1>5. ASSUME NEW v \in Visitors, Invoke(v)
      PROVE  Types' /\ \A w \in Visitors : Placed(w)'
  <2>1. cost' \in [Visitors -> Nat] /\ paid' \in [Visitors -> Nat]
    BY <1>0, <1>5, ProductAssumption DEF Invoke
  <2>2. launched' \subseteq (Nat \X Nat)
    BY <1>0, <1>5 DEF Invoke
  <2>3. pc' \in [Visitors -> {"idle", "loop", "running", "ledger", "reported", "raised"}]
    BY <1>0, <1>5 DEF Invoke
  <2>4. Types'
    BY <1>0, <1>5, <2>1, <2>2, <2>3 DEF Invoke, frame, loop
  <2>5. Placed(v)'
    BY <1>0, <1>5 DEF Invoke, AtTask, frame, loop, Placed
  <2>6. \A w \in Visitors \ {v} : Still(w)
    BY <1>0, <1>5 DEF Invoke, frame, loop, Still
  <2> HIDE DEF Types
  <2> QED
    BY <1>0, <2>4, <2>5, <2>6, AllPlaced
<1>6. ASSUME NEW v \in Visitors, Read(v)
      PROVE  Types' /\ \A w \in Visitors : Placed(w)'
  <2>1. spent' \in [Visitors -> Nat] /\ last' \in [Visitors -> Nat]
    BY <1>0, <1>6 DEF Read
  <2>2. Types'
    BY <1>0, <1>6, <2>1 DEF Read, frame, history
  <2>3. Placed(v)'
    BY <1>0, <1>6 DEF Read, frame, Placed
  <2>4. \A w \in Visitors \ {v} : Still(w)
    BY <1>0, <1>6 DEF Read, frame, Still
  <2> HIDE DEF Types
  <2> QED
    BY <1>0, <2>2, <2>3, <2>4, AllPlaced
<1>7. ASSUME NEW v \in Visitors, Ledger(v)
      PROVE  Types' /\ \A w \in Visitors : Placed(w)'
  <2>1. pc[v] = "ledger" /\ request[v] \in Requests
    BY <1>0, <1>7 DEF Ledger, Placed
  <2>2. Task(v) \in Tasks /\ outcomes' \in [Visitors -> Seq(Outcome)]
    BY <1>0, <1>7, <2>1, ReportedType DEF Ledger
  <2>3. asked' \in Seq(UsageRow) /\ usage' \in FileType
    <3>1. Row(v) \in UsageRow
      BY <1>0, <2>2 DEF Row, UsageRow
    <3> QED
      BY <1>0, <1>7, <3>1, WrittenType DEF Ledger
  <2>4. at' \in [Visitors -> Nat \ {0}]
    BY <1>0, <1>7 DEF Ledger
  <2>5. pc' \in [Visitors -> {"idle", "loop", "running", "ledger", "reported", "raised"}]
    BY <1>0, <1>7 DEF Ledger
  <2>6. Types'
    BY <1>0, <1>7, <2>2, <2>3, <2>4, <2>5 DEF Ledger, frame, history
  <2>7. Placed(v)'
    BY <1>0, <1>7, <2>1 DEF Ledger, frame, Placed
  <2>8. \A w \in Visitors \ {v} : Still(w)
    BY <1>0, <1>7 DEF Ledger, frame, Still
  <2> HIDE DEF Types
  <2> QED
    BY <1>0, <2>6, <2>7, <2>8, AllPlaced
<1>8. ASSUME NEW v \in Visitors, Report(v)
      PROVE  Types' /\ \A w \in Visitors : Placed(w)'
  <2>1. Types'
    BY <1>0, <1>8 DEF Report, frame, loop, history
  <2>2. Placed(v)'
    BY <1>0, <1>8 DEF Report, frame, loop, Placed
  <2>3. \A w \in Visitors \ {v} : Still(w)
    BY <1>0, <1>8 DEF Report, frame, loop, Still
  <2> HIDE DEF Types
  <2> QED
    BY <1>0, <2>1, <2>2, <2>3, AllPlaced
<1>9. CASE UNCHANGED vars
  BY <1>0, <1>9, StillPlaced DEF vars, frame, loop, history, Still
<1> QED
  BY <1>1, <1>2, <1>3, <1>4, <1>5, <1>6, <1>7, <1>8, <1>9
  DEF Next, Step, Unprepared, Raise

(* The variables stay well typed in every behaviour.                        *)
THEOREM TypeCorrect == Spec => []TypeOK
<1>1. Init => TypeOK
  BY DEF Init, TypeOK, Files, Empty
<1> QED
  BY <1>1, NextTypeOK, PTL DEF Spec
-----------------------------------------------------------------------------
(* What the two gates leave behind them.  The spend before the last run,    *)
(* and before the one under way, left room for the floor of a run.          *)
Room(v, before) ==
  /\ request[v].cap # NoCap
  /\ request[v].model \in DOMAIN FloorUsd
  /\ before + FloorUsd[request[v].model] <= request[v].cap

GateInv(v) ==
  /\ pc[v] \in {"idle", "raised"} => spent[v] = 0
  /\ pc[v] \notin {"idle", "raised"} => \E d \in shown : Matches(d, request[v])
  /\ spent[v] > 0 => Room(v, spent[v] - last[v])
  /\ pc[v] = "running" => Room(v, spent[v])

(* Disclosures are never taken back.                                        *)
LEMMA GateStill ==
  ASSUME NEW w, GateInv(w), shown \subseteq shown', pc'[w] = pc[w],
         request'[w] = request[w], spent'[w] = spent[w], last'[w] = last[w]
  PROVE  GateInv(w)'
BY DEF GateInv, Room

(* A run starts in the room authorize saw.                                  *)
LEMMA AuthorizedRoom ==
  ASSUME TypeOK, NEW v \in Visitors, request[v] \in Requests, MaySpend(v)
  PROVE  Room(v, spent[v])
<1>1. /\ request[v].cap # NoCap
      /\ request[v].model \in DOMAIN FloorUsd
      /\ FloorUsd[request[v].model] <= request[v].cap - spent[v]
  BY DEF MaySpend, Authorized, Meterable
<1>2. request[v].cap \in Int
  BY <1>1, ProductAssumption
<1>3. FloorUsd[request[v].model] \in Nat /\ spent[v] \in Nat
  BY <1>1, ProductAssumption DEF TypeOK
<1> QED
  BY <1>1, <1>2, <1>3 DEF Room

LEMMA GateStep ==
  ASSUME TypeOK, TypeOK', [Next]_vars, \A w \in Visitors : GateInv(w)
  PROVE  \A w \in Visitors : GateInv(w)'
<1> USE DEF TypeOK
<1>1. ASSUME NEW r \in Requests, Disclose(r) PROVE \A w \in Visitors : GateInv(w)'
  BY <1>1, GateStill DEF Disclose, frame, loop
<1>2. ASSUME NEW v \in Visitors, NEW r \in Requests, Execute(v, r)
      PROVE  \A w \in Visitors : GateInv(w)'
  <2>1. PICK d \in shown : Fingerprint(d) = Fingerprint(r)
    BY <1>2 DEF Execute
  <2>2. Matches(d, r)
    BY <2>1 DEF Fingerprint, Matches
  <2>3. pc'[v] = "loop" /\ request'[v] = r /\ spent'[v] = 0 /\ shown' = shown
    BY <1>2 DEF Execute, Start
  <2>4. GateInv(v)'
    BY <2>2, <2>3 DEF GateInv, Matches
  <2>5. ASSUME NEW w \in Visitors \ {v} PROVE GateInv(w)'
    BY <1>2, GateStill DEF Execute, Start
  <2> QED
    BY <2>4, <2>5
<1>3. ASSUME NEW v \in Visitors, Refuse(v) \/ Unsupported(v) \/ Ledger(v) \/ Report(v)
      PROVE  \A w \in Visitors : GateInv(w)'
  <2>1. UNCHANGED <<shown, request, spent, last>>
    BY <1>3 DEF Refuse, Unsupported, Ledger, Report, frame, loop
  <2>2. /\ pc[v] \notin {"idle", "raised"} /\ pc'[v] \notin {"idle", "raised", "running"}
        /\ \A w \in Visitors \ {v} : pc'[w] = pc[w]
    BY <1>3 DEF Refuse, Unsupported, Ledger, Report, AtTask
  <2>3. GateInv(v)'
    BY <2>1, <2>2 DEF GateInv, Room, Matches
  <2>4. ASSUME NEW w \in Visitors \ {v} PROVE GateInv(w)'
    BY <2>1, <2>2, GateStill
  <2> QED
    BY <2>3, <2>4
<1>4. ASSUME NEW v \in Visitors, Abort(v) PROVE \A w \in Visitors : GateInv(w)'
  <2>1. pc'[v] = "raised" /\ spent'[v] = 0
    BY <1>4 DEF Abort, Start
  <2>2. GateInv(v)'
    BY <2>1 DEF GateInv
  <2>3. ASSUME NEW w \in Visitors \ {v} PROVE GateInv(w)'
    BY <1>4, GateStill DEF Abort, Start
  <2> QED
    BY <2>2, <2>3
<1>5. ASSUME NEW v \in Visitors, Invoke(v) PROVE \A w \in Visitors : GateInv(w)'
  <2>1. pc[v] = "loop" /\ MaySpend(v) /\ pc'[v] = "running"
    BY <1>5 DEF Invoke, AtTask
  <2>2. Room(v, spent[v])
    BY <2>1, AuthorizedRoom
  <2>3. UNCHANGED <<shown, request, spent, last>>
    BY <1>5 DEF Invoke, frame, loop
  <2>4. GateInv(v)'
    BY <2>1, <2>2, <2>3 DEF GateInv, Room, Matches
  <2>5. ASSUME NEW w \in Visitors \ {v} PROVE GateInv(w)'
    BY <1>5, <2>3, GateStill DEF Invoke
  <2> QED
    BY <2>4, <2>5
<1>6. ASSUME NEW v \in Visitors, Read(v) PROVE \A w \in Visitors : GateInv(w)'
  <2>1. UNCHANGED <<shown, request>> /\ pc[v] = "running" /\ pc'[v] = "ledger"
    BY <1>6 DEF Read, frame
  <2>2. Room(v, spent[v])
    BY <2>1 DEF GateInv
  <2>3. PICK usd \in {cost[v], 0} : spent'[v] = spent[v] + usd /\ last'[v] = usd
    BY <1>6 DEF Read
  <2>4. spent'[v] - last'[v] = spent[v]
    <3>1. spent[v] \in Int /\ usd \in Int
      OBVIOUS
    <3> HIDE DEF TypeOK
    <3> QED
      BY <2>3, <3>1
  <2>5. GateInv(v)'
    BY <2>1, <2>2, <2>4 DEF GateInv, Room, Matches
  <2>6. ASSUME NEW w \in Visitors \ {v} PROVE GateInv(w)'
    BY <1>6, <2>1, GateStill DEF Read
  <2> QED
    BY <2>5, <2>6
<1>7. CASE UNCHANGED vars
  BY <1>7, GateStill DEF vars, frame, loop
<1> QED
  BY <1>1, <1>2, <1>3, <1>4, <1>5, <1>6, <1>7 DEF Next, Step, Unprepared, Raise

(* Whatever an execution spent, it spent under a cap that was disclosed for *)
(* its model and tasks, and only its last run may have gone over that cap:  *)
(* the two gates of execute, for every cap, price and list of tasks.        *)
THEOREM SpentAsDisclosedHolds == Spec => []SpentAsDisclosed
<1> DEFINE Inv == \A w \in Visitors : GateInv(w)
<1>1. Init => Inv
  BY DEF Init, GateInv
<1>2. TypeOK /\ TypeOK' /\ Inv /\ [Next]_vars => Inv'
  BY GateStep
<1>3. TypeOK /\ Inv => SpentAsDisclosed
  <2> SUFFICES ASSUME TypeOK, Inv, NEW v \in Visitors, spent[v] > 0
               PROVE  \E d \in shown :
                        /\ Matches(d, request[v])
                        /\ d.cap # NoCap
                        /\ spent[v] - last[v] + FloorUsd[d.model] <= d.cap
    BY DEF SpentAsDisclosed
  <2>1. GateInv(v)
    OBVIOUS
  <2>2. pc[v] \notin {"idle", "raised"}
    BY <2>1 DEF GateInv
  <2>3. PICK d \in shown : Matches(d, request[v])
    BY <2>1, <2>2 DEF GateInv
  <2>4. Room(v, spent[v] - last[v])
    BY <2>1 DEF GateInv
  <2> QED
    BY <2>3, <2>4 DEF Matches, Room
<1> QED
  BY <1>1, <1>2, <1>3, TypeCorrect, PTL DEF Spec
-----------------------------------------------------------------------------
(* Calls of execute have numbers of their own, in the order they are made.  *)
TurnInv ==
  /\ \A v \in Visitors : turn[v] <= executions
  /\ \A v \in Visitors : ~Free(v) => turn[v] # 0
  /\ \A v, w \in Visitors : turn[v] = turn[w] /\ turn[v] # 0 => v = w

(* A running execution has ledgered every run before its position, and has  *)
(* launched none after it.                                                  *)
UpTo(v, x) ==
  x[1] = turn[v] => /\ x[2] <= at[v]
                    /\ pc[v] = "loop" => x[2] < at[v]
                    /\ x[2] < at[v] => x \in Asked

LaunchInv ==
  /\ \A x \in launched : x[1] <= executions
  /\ \A v \in Visitors : ~Free(v) => \A x \in launched : UpTo(v, x)
  /\ \A v \in Visitors : pc[v] \in {"running", "ledger"} => <<turn[v], at[v]>> \in launched

LEMMA TurnStep == TypeOK /\ TurnInv /\ [Next]_vars => TurnInv'
<1> SUFFICES ASSUME TypeOK, TurnInv, [Next]_vars PROVE TurnInv'
  OBVIOUS
<1>0. /\ turn \in [Visitors -> Nat] /\ executions \in Nat
      /\ pc \in [Visitors -> {"idle", "loop", "running", "ledger", "reported", "raised"}]
  BY DEF TypeOK
<1> USE <1>0
<1>1. ASSUME NEW v \in Visitors, NEW r \in Requests, Execute(v, r) PROVE TurnInv'
  <2>1. turn' = [turn EXCEPT ![v] = executions + 1] /\ executions' = executions + 1
    BY <1>1 DEF Execute
  <2>2. \A w \in Visitors \ {v} : pc'[w] = pc[w]
    BY <1>1 DEF Execute
  <2>3. \A w \in Visitors : turn[w] \in Nat /\ turn[w] <= executions
    BY DEF TurnInv
  <2>4. \A w \in Visitors : turn'[w] = IF w = v THEN executions + 1 ELSE turn[w]
    BY <2>1
  <2>5. \A w \in Visitors : turn'[w] <= executions'
    BY <2>1, <2>3, <2>4
  <2>6. ASSUME NEW w \in Visitors, ~Free(w)' PROVE turn'[w] # 0
    <3>1. CASE w = v
      BY <2>4, <3>1
    <3>2. CASE w # v
      BY <2>2, <2>4, <2>6, <3>2 DEF TurnInv, Free
    <3> QED
      BY <3>1, <3>2
  <2>7. ASSUME NEW u \in Visitors, NEW w \in Visitors,
               turn'[u] = turn'[w], turn'[u] # 0
        PROVE  u = w
    <3>1. CASE u # v /\ w # v
      BY <2>4, <2>7, <3>1 DEF TurnInv
    <3>2. \A x \in Visitors : turn[x] # executions + 1
      BY <2>3
    <3>3. CASE u = v /\ w # v
      BY <2>4, <2>7, <3>2, <3>3
    <3>4. CASE w = v /\ u # v
      BY <2>4, <2>7, <3>2, <3>4
    <3> QED
      BY <3>1, <3>3, <3>4
  <2> QED
    BY <2>5, <2>6, <2>7 DEF TurnInv
<1>2. ASSUME UNCHANGED <<turn, executions>>, \A w \in Visitors : ~Free(w)' => ~Free(w)
      PROVE  TurnInv'
  BY <1>2 DEF TurnInv
<1>3. ASSUME NEW v \in Visitors, Step(v) \/ Raise(v)
      PROVE  UNCHANGED <<turn, executions>> /\ \A w \in Visitors : ~Free(w)' => ~Free(w)
  <2>1. CASE Refuse(v) \/ Unsupported(v)
    BY <2>1 DEF Refuse, Unsupported, Free, frame, history
  <2>2. CASE Abort(v)
    BY <2>2 DEF Abort, Free
  <2>3. CASE Invoke(v)
    BY <2>3 DEF Invoke, AtTask, Free, frame
  <2>4. CASE Read(v) \/ Ledger(v)
    BY <2>4 DEF Read, Ledger, Free, frame, history
  <2>5. CASE Report(v)
    BY <2>5 DEF Report, Free, frame, history
  <2> QED
    BY <1>3, <2>1, <2>2, <2>3, <2>4, <2>5 DEF Step, Unprepared, Raise
<1>4. ASSUME NEW r \in Requests, Disclose(r)
      PROVE  UNCHANGED <<turn, executions>> /\ \A w \in Visitors : ~Free(w)' => ~Free(w)
  BY <1>4 DEF Disclose, Free, frame, history
<1>5. CASE UNCHANGED vars
  BY <1>2, <1>5 DEF vars, Free, frame, history
<1> QED
  BY <1>1, <1>2, <1>3, <1>4, <1>5 DEF Next

(* The row of a run under way is the only one a step adds to the ledger.    *)
LEMMA LedgerAdds ==
  ASSUME TypeOK, NEW v \in Visitors, Ledger(v)
  PROVE  Asked' = Asked \cup {<<turn[v], at[v]>>}
<1> DEFINE row == Row(v)
<1>1. asked' = Append(asked, row)
  BY DEF Ledger
<1>2. asked \in Seq(UsageRow)
  BY DEF TypeOK
<1>3. /\ DOMAIN asked' = DOMAIN asked \cup {Len(asked) + 1}
      /\ \A k \in DOMAIN asked : asked'[k] = asked[k]
      /\ asked'[Len(asked) + 1] = row
  BY <1>1, <1>2
<1>4. row.turn = turn[v] /\ row.at = at[v]
  BY DEF Row
<1> HIDE DEF row
<1> QED
  BY <1>3, <1>4 DEF Asked

(* An execution that is not touched, by a step that launches nothing of its *)
(* own and takes nothing off the ledger, keeps its launches.                *)
LEMMA UpToStill ==
  ASSUME NEW w, NEW x, UpTo(w, x), Asked \subseteq Asked',
         turn'[w] = turn[w], at'[w] = at[w], pc'[w] = pc[w]
  PROVE  UpTo(w, x)'
BY DEF UpTo

LEMMA LaunchStep ==
  ASSUME TypeOK, TypeOK', TurnInv, TurnInv', LaunchInv, [Next]_vars
  PROVE  LaunchInv'
<1> DEFINE Types == /\ turn \in [Visitors -> Nat] /\ at \in [Visitors -> Nat]
                     /\ launched \subseteq Nat \X Nat /\ executions \in Nat
<1>0. Types /\ pc \in [Visitors -> {"idle", "loop", "running", "ledger", "reported", "raised"}]
  BY DEF TypeOK
<1> USE <1>0
<1>1. ASSUME NEW v \in Visitors, NEW r \in Requests, Execute(v, r) PROVE LaunchInv'
  <2>1. UNCHANGED <<launched, asked>> /\ executions' = executions + 1
    BY <1>1 DEF Execute
  <2>2. Asked' = Asked
    BY <2>1 DEF Asked
  <2>3. turn'[v] = executions + 1 /\ pc'[v] = "loop"
    BY <1>1 DEF Execute
  <2>4. \A w \in Visitors \ {v} : turn'[w] = turn[w] /\ at'[w] = at[w] /\ pc'[w] = pc[w]
    BY <1>1 DEF Execute, Start
  <2>5. \A x \in launched : x[1] \in Nat /\ x[1] <= executions
    BY DEF LaunchInv
  <2>6. \A x \in launched' : UpTo(v, x)'
    BY <2>1, <2>3, <2>5 DEF UpTo
  <2>7. ASSUME NEW w \in Visitors \ {v}, ~Free(w)', NEW x \in launched' PROVE UpTo(w, x)'
    BY <2>1, <2>2, <2>4, <2>7, UpToStill DEF LaunchInv, Free
  <2>8. \A x \in launched' : x[1] <= executions'
    <3> SUFFICES ASSUME NEW x \in launched PROVE x[1] <= executions + 1
      BY <2>1
    <3> QED
      BY <2>5
  <2>9. \A w \in Visitors : pc'[w] \in {"running", "ledger"} => <<turn'[w], at'[w]>> \in launched'
    BY <2>1, <2>3, <2>4 DEF LaunchInv
  <2> QED
    BY <2>6, <2>7, <2>8, <2>9 DEF LaunchInv
<1>2. ASSUME NEW v \in Visitors, Refuse(v) \/ Unsupported(v) PROVE LaunchInv'
  <2>1. UNCHANGED <<launched, asked, executions, turn, pc>> /\ pc[v] = "loop"
    BY <1>2 DEF Refuse, Unsupported, AtTask, frame, history
  <2>2. at'[v] = at[v] + 1 /\ \A w \in Visitors \ {v} : at'[w] = at[w]
    BY <1>2 DEF Refuse, Unsupported
  <2>3. Asked' = Asked
    BY <2>1 DEF Asked
  <2>4. ASSUME NEW x \in launched PROVE UpTo(v, x)'
    <3>1. UpTo(v, x) /\ x[2] \in Nat
      BY <2>1 DEF LaunchInv, Free
    <3> QED
      BY <2>1, <2>2, <2>3, <3>1 DEF UpTo
  <2>5. ASSUME NEW w \in Visitors \ {v}, ~Free(w)', NEW x \in launched' PROVE UpTo(w, x)'
    BY <2>1, <2>2, <2>3, <2>5, UpToStill DEF LaunchInv, Free
  <2> QED
    BY <2>1, <2>2, <2>4, <2>5 DEF LaunchInv
<1>3. ASSUME NEW v \in Visitors, Invoke(v) PROVE LaunchInv'
  <2>1. UNCHANGED <<asked, executions, turn, at>> /\ pc[v] = "loop" /\ pc'[v] = "running"
    BY <1>3 DEF Invoke, AtTask, frame, loop
  <2>2. launched' = launched \cup {<<turn[v], at[v]>>}
    BY <1>3 DEF Invoke
  <2>3. \A w \in Visitors \ {v} : pc'[w] = pc[w]
    BY <1>3 DEF Invoke
  <2>4. Asked' = Asked
    BY <2>1 DEF Asked
  <2>5. \A x \in launched' : x[1] <= executions'
    BY <2>1, <2>2 DEF LaunchInv, TurnInv
  <2>6. ASSUME NEW x \in launched' PROVE UpTo(v, x)'
    <3>1. CASE x \in launched
      BY <2>1, <2>4, <3>1 DEF LaunchInv, Free, UpTo
    <3>2. CASE x = <<turn[v], at[v]>>
      BY <2>1, <3>2 DEF UpTo
    <3> QED
      BY <2>2, <3>1, <3>2
  <2>7. ASSUME NEW w \in Visitors \ {v}, ~Free(w)', NEW x \in launched' PROVE UpTo(w, x)'
    <3>1. ~Free(w) /\ ~Free(v)
      BY <2>1, <2>3, <2>7 DEF Free
    <3>2. CASE x \in launched
      BY <2>1, <2>3, <2>4, <3>1, <3>2, UpToStill DEF LaunchInv
    <3>3. CASE x = <<turn[v], at[v]>>
      <4>1. turn[w] # turn[v]
        BY <3>1 DEF TurnInv
      <4> QED
        BY <2>1, <3>3, <4>1 DEF UpTo
    <3> QED
      BY <2>2, <3>2, <3>3
  <2>8. \A w \in Visitors : pc'[w] \in {"running", "ledger"} => <<turn'[w], at'[w]>> \in launched'
    BY <2>1, <2>2, <2>3 DEF LaunchInv
  <2> QED
    BY <2>5, <2>6, <2>7, <2>8 DEF LaunchInv
<1>4. ASSUME NEW v \in Visitors, Read(v) PROVE LaunchInv'
  <2>1. /\ UNCHANGED <<asked, executions, turn, at, launched>>
        /\ pc[v] = "running" /\ pc'[v] = "ledger"
        /\ \A w \in Visitors \ {v} : pc'[w] = pc[w]
    BY <1>4 DEF Read, frame, history
  <2>2. Asked' = Asked
    BY <2>1 DEF Asked
  <2> QED
    BY <2>1, <2>2 DEF LaunchInv, UpTo, Free
<1>5. ASSUME NEW v \in Visitors, Ledger(v) PROVE LaunchInv'
  <2>1. UNCHANGED <<executions, turn, launched>> /\ pc[v] = "ledger" /\ pc'[v] = "loop"
    BY <1>5 DEF Ledger, frame, history
  <2>2. /\ at'[v] = at[v] + 1
        /\ \A w \in Visitors \ {v} : at'[w] = at[w] /\ pc'[w] = pc[w]
    BY <1>5 DEF Ledger
  <2>3. Asked' = Asked \cup {<<turn[v], at[v]>>}
    BY <1>5, LedgerAdds
  <2>4. ASSUME NEW x \in launched PROVE UpTo(v, x)'
    <3>1. x \in Nat \X Nat
      OBVIOUS
    <3>2. x = <<x[1], x[2]>> /\ x[2] \in Nat
      BY <3>1
    <3>3. UpTo(v, x)
      BY <2>1 DEF LaunchInv, Free
    <3> QED
      BY <2>1, <2>2, <2>3, <3>2, <3>3 DEF UpTo
  <2>5. ASSUME NEW w \in Visitors \ {v}, ~Free(w)', NEW x \in launched' PROVE UpTo(w, x)'
    BY <2>1, <2>2, <2>3, <2>5, UpToStill DEF LaunchInv, Free
  <2> QED
    BY <2>1, <2>2, <2>4, <2>5 DEF LaunchInv
<1>6. ASSUME NEW v \in Visitors, Report(v) \/ Abort(v) PROVE LaunchInv'
  <2>1. /\ UNCHANGED <<asked, executions, turn, launched>>
        /\ pc'[v] \in {"reported", "raised"}
    BY <1>6 DEF Report, Abort, frame, history
  <2>2. \A w \in Visitors \ {v} : at'[w] = at[w] /\ pc'[w] = pc[w]
    BY <1>6 DEF Report, Abort, Start, loop
  <2>3. Asked' = Asked
    BY <2>1 DEF Asked
  <2>4. ASSUME NEW w \in Visitors, ~Free(w)', NEW x \in launched' PROVE UpTo(w, x)'
    BY <2>1, <2>2, <2>3, <2>4, UpToStill DEF LaunchInv, Free
  <2>5. \A w \in Visitors : pc'[w] \in {"running", "ledger"} => <<turn'[w], at'[w]>> \in launched'
    BY <2>1, <2>2 DEF LaunchInv
  <2> QED
    BY <2>1, <2>4, <2>5 DEF LaunchInv
<1>7. ASSUME UNCHANGED <<pc, at, asked, executions, turn, launched>> PROVE LaunchInv'
  <2>1. Asked' = Asked
    BY <1>7 DEF Asked
  <2> QED
    BY <1>7, <2>1 DEF LaunchInv, UpTo, Free
<1>8. ASSUME NEW r \in Requests, Disclose(r) PROVE LaunchInv'
  BY <1>7, <1>8 DEF Disclose, frame, loop, history
<1>9. CASE UNCHANGED vars
  BY <1>7, <1>9 DEF vars, frame, loop, history
<1> QED
  BY <1>1, <1>2, <1>3, <1>4, <1>5, <1>6, <1>8, <1>9 DEF Next, Step, Unprepared, Raise

(* The runs whose row was never handed over are the last of their           *)
(* executions: a new launch is of an execution that has handed over the     *)
(* rows of its earlier launches, and is after them.                         *)
AskedInv ==
  /\ Asked \subseteq launched
  /\ \A x, y \in launched \ Asked : x[1] = y[1] => x = y
  /\ \A x \in launched \ Asked : \A y \in launched : x[1] = y[1] => y[2] <= x[2]

LEMMA AskedStep ==
  ASSUME TypeOK, LaunchInv, AskedInv, [Next]_vars
  PROVE  AskedInv'
<1> USE DEF TypeOK
<1>1. ASSUME NEW v \in Visitors, Invoke(v) PROVE AskedInv'
  <2> DEFINE n == <<turn[v], at[v]>>
  <2>1. launched' = launched \cup {n} /\ pc[v] = "loop" /\ asked' = asked
    BY <1>1 DEF Invoke, AtTask
  <2>2. Asked' = Asked
    BY <2>1 DEF Asked
  <2>3. n[1] = turn[v] /\ n[2] = at[v] /\ at[v] \in Nat
    OBVIOUS
  <2>4. \A x \in launched : x[1] = turn[v] => x \in Asked /\ x[2] < at[v]
    BY <2>1 DEF LaunchInv, UpTo, Free
  <2>5. \A x \in launched : x[2] \in Nat
    OBVIOUS
  <2> HIDE DEF n
  <2> QED
    BY <2>1, <2>2, <2>3, <2>4, <2>5 DEF AskedInv
<1>2. ASSUME NEW v \in Visitors, Ledger(v) PROVE AskedInv'
  <2>1. launched' = launched /\ pc[v] = "ledger"
    BY <1>2 DEF Ledger, history
  <2>2. Asked' = Asked \cup {<<turn[v], at[v]>>}
    BY <1>2, LedgerAdds
  <2>3. <<turn[v], at[v]>> \in launched
    BY <2>1 DEF LaunchInv
  <2> QED
    BY <2>1, <2>2, <2>3 DEF AskedInv
<1>3. ASSUME UNCHANGED <<launched, asked>> PROVE AskedInv'
  BY <1>3 DEF AskedInv, Asked
<1>4. CASE UNCHANGED vars
  BY <1>3, <1>4 DEF vars, history
<1>5. ASSUME NEW v \in Visitors,
             Refuse(v) \/ Unsupported(v) \/ Abort(v) \/ Read(v) \/ Report(v)
      PROVE  AskedInv'
  BY <1>3, <1>5 DEF Refuse, Unsupported, Abort, Read, Report, history
<1>6. ASSUME NEW v \in Visitors, NEW r \in Requests, Execute(v, r)
      PROVE  AskedInv'
  BY <1>3, <1>6 DEF Execute
<1>7. ASSUME NEW r \in Requests, Disclose(r) PROVE AskedInv'
  BY <1>3, <1>7 DEF Disclose, history
<1> QED
  BY <1>1, <1>2, <1>4, <1>5, <1>6, <1>7 DEF Next, Step, Unprepared, Raise

-----------------------------------------------------------------------------
(***************************************************************************)
(* The file, and the rows that were handed over for it.                    *)
(***************************************************************************)
LEMMA PlainRow == \A row \in UsageRow : row # Garbled
<1> SUFFICES ASSUME NEW row \in UsageRow, row = Garbled PROVE FALSE
  OBVIOUS
<1>1. "turn" \in DOMAIN row
  BY DEF UsageRow
<1>2. "turn" \notin DOMAIN Garbled
  BY DEF Garbled
<1> QED
  BY <1>1, <1>2

(* An append, whole or cut: what can be read afterwards was there before or *)
(* is the row, and a file no append was cut in has all of them.             *)
Appends(file, row, new) ==
  /\ new.lines # <<>>
  /\ \A l \in DOMAIN new.lines : new.lines[l] # Garbled =>
       \/ l \in DOMAIN file.lines /\ new.lines[l] = file.lines[l]
       \/ l = Len(file.lines) + 1 /\ new.lines[l] = row
  /\ new.torn = 0 =>
       file.torn = 0 /\ ~new.open /\ (~file.open => new.lines = Append(file.lines, row))

LEMMA WrittenLines ==
  ASSUME NEW file \in FileType, NEW row \in UsageRow, NEW cut \in Cuts,
         file.open => file.lines # <<>>,
         NEW new, new = Written(file, row, cut)
  PROVE  Appends(file, row, new)
<1> DEFINE n == Len(file.lines)
           line == IF cut = "prefix" THEN Garbled ELSE row
<1>1. /\ file.lines \in Seq(UsageRow \cup {Garbled}) /\ file.torn \in Nat
      /\ n \in Nat /\ DOMAIN file.lines = 1..n
  BY DEF Files, FileType
<1>2. /\ new.lines = IF file.open THEN [file.lines EXCEPT ![n] = Garbled]
                     ELSE Append(file.lines, line)
      /\ new.open = (cut # "whole")
      /\ new.torn = IF cut = "whole" THEN file.torn ELSE file.torn + 1
  BY DEF Written
<1>3. new.torn = 0 => file.torn = 0 /\ ~new.open /\ line = row
  <2>1. file.torn + 1 # 0
    BY <1>1
  <2>2. new.torn = 0 => cut = "whole" /\ file.torn = 0
    BY <1>2, <2>1
  <2> QED
    BY <1>2, <2>2
<1>4. CASE file.open
  <2>1. new.lines = [file.lines EXCEPT ![n] = Garbled] /\ n \in DOMAIN file.lines
    BY <1>1, <1>2, <1>4
  <2>2. /\ new.lines # <<>>
        /\ \A l \in DOMAIN new.lines : new.lines[l] # Garbled =>
             l \in DOMAIN file.lines /\ new.lines[l] = file.lines[l]
    BY <1>1, <2>1
  <2> QED
    BY <1>3, <1>4, <2>2 DEF Appends
<1>5. CASE ~file.open
  <2>1. new.lines = Append(file.lines, line) /\ line \in UsageRow \cup {Garbled}
    BY <1>2, <1>5
  <2>2. /\ DOMAIN new.lines = 1..(n + 1) /\ new.lines[n + 1] = line
        /\ \A l \in 1..n : new.lines[l] = file.lines[l]
    BY <1>1, <2>1
  <2>3. line # Garbled => line = row
    OBVIOUS
  <2> HIDE DEF line
  <2>4. new.lines # <<>>
    BY <1>1, <2>2
  <2>5. ASSUME NEW l \in DOMAIN new.lines, new.lines[l] # Garbled
        PROVE  \/ l \in DOMAIN file.lines /\ new.lines[l] = file.lines[l]
               \/ l = n + 1 /\ new.lines[l] = row
    BY <1>1, <2>2, <2>3, <2>5
  <2> QED
    BY <1>3, <2>1, <2>4, <2>5 DEF Appends
<1> QED
  BY <1>4, <1>5

(* What can be read was handed over, and all of it can be unless an append  *)
(* was cut.                                                                 *)
FileInv ==
  /\ usage.open => usage.lines # <<>>
  /\ usage.torn = 0 => usage.lines = asked /\ ~usage.open
  /\ \A l \in DOMAIN usage.lines : usage.lines[l] # Garbled =>
       \E k \in DOMAIN asked : asked[k] = usage.lines[l]

LEMMA OnlyLedgerAppends ==
  ASSUME [Next]_vars
  PROVE  UNCHANGED <<usage, asked>> \/ \E v \in Visitors : Ledger(v)
<1>1. ASSUME NEW v \in Visitors,
             Refuse(v) \/ Unsupported(v) \/ Abort(v) \/ Read(v) \/ Report(v) \/ Invoke(v)
      PROVE  UNCHANGED <<usage, asked>>
  BY <1>1 DEF Refuse, Unsupported, Abort, Read, Report, Invoke, history
<1>2. ASSUME NEW v \in Visitors, NEW r \in Requests, Execute(v, r)
      PROVE  UNCHANGED <<usage, asked>>
  BY <1>2 DEF Execute
<1>3. ASSUME NEW r \in Requests, Disclose(r) PROVE UNCHANGED <<usage, asked>>
  BY <1>3 DEF Disclose, history
<1>4. UNCHANGED vars => UNCHANGED <<usage, asked>>
  BY DEF vars, history
<1> QED
  BY <1>1, <1>2, <1>3, <1>4 DEF Next, Step, Unprepared, Raise

LEMMA LedgerAppends ==
  ASSUME TypeOK, FileInv, NEW v \in Visitors, Ledger(v)
  PROVE  /\ Row(v) \in UsageRow /\ Row(v).turn = turn[v] /\ Row(v).at = at[v]
         /\ asked' = Append(asked, Row(v))
         /\ \E cut \in Cuts : usage' = Written(usage, Row(v), cut)
         /\ Appends(usage, Row(v), usage')
<1>1. /\ pc[v] = "ledger" /\ Reported(v, "ran", last[v]) /\ asked' = Append(asked, Row(v))
      /\ \E cut \in Cuts : usage' = Written(usage, Row(v), cut)
  BY DEF Ledger
<1>2. request[v] \in Requests /\ last[v] \in Nat /\ turn[v] \in Nat /\ at[v] \in Nat
  BY <1>1 DEF TypeOK
<1>3. Task(v) \in Tasks
  BY <1>1, <1>2, ReportedType
<1>4. Row(v) \in UsageRow /\ Row(v).turn = turn[v] /\ Row(v).at = at[v]
  BY <1>2, <1>3 DEF Row, UsageRow
<1>5. usage \in FileType
  BY DEF TypeOK, FileType
<1>6. usage.open => usage.lines # <<>>
  BY DEF FileInv
<1> QED
  BY <1>1, <1>4, <1>5, <1>6, WrittenLines

LEMMA FileStep == TypeOK /\ FileInv /\ [Next]_vars => FileInv'
<1> SUFFICES ASSUME TypeOK, FileInv, [Next]_vars PROVE FileInv'
  OBVIOUS
<1>1. CASE UNCHANGED <<usage, asked>>
  BY <1>1 DEF FileInv
<1>2. ASSUME NEW v \in Visitors, Ledger(v) PROVE FileInv'
  <2> DEFINE row == Row(v)
             n == Len(asked)
  <2>1. /\ row \in UsageRow /\ asked' = Append(asked, row) /\ Appends(usage, row, usage')
    BY <1>2, LedgerAppends
  <2>2. asked \in Seq(UsageRow)
    BY DEF TypeOK
  <2> HIDE DEF row
  <2>3. /\ n \in Nat /\ DOMAIN asked = 1..n /\ DOMAIN asked' = 1..(n + 1)
        /\ asked'[n + 1] = row /\ \A k \in 1..n : asked'[k] = asked[k]
    BY <2>1, <2>2
  <2>4. ASSUME NEW l \in DOMAIN usage'.lines, usage'.lines[l] # Garbled
        PROVE  \E k \in DOMAIN asked' : asked'[k] = usage'.lines[l]
    <3>1. CASE usage'.lines[l] = row
      BY <2>3, <3>1
    <3>2. CASE l \in DOMAIN usage.lines /\ usage'.lines[l] = usage.lines[l]
      <4>1. PICK k \in DOMAIN asked : asked[k] = usage.lines[l]
        BY <2>4, <3>2 DEF FileInv
      <4> QED
        BY <2>3, <3>2, <4>1
    <3> QED
      BY <2>1, <2>4, <3>1, <3>2 DEF Appends
  <2>5. usage'.torn = 0 => usage'.lines = asked' /\ ~usage'.open
    BY <2>1 DEF Appends, FileInv
  <2> QED
    BY <2>1, <2>4, <2>5 DEF Appends, FileInv
<1> QED
  BY <1>1, <1>2, OnlyLedgerAppends

(* A file with an unfinished line owes what the next append will spoil: the *)
(* row that is appended, and the line it continues if that is a row.        *)
Owed(file) ==
  IF file.open THEN IF file.lines[Len(file.lines)] = Garbled THEN 1 ELSE 2 ELSE 0

Key(row) == <<row.turn, row.at>>
Keys(file) == {Key(row) : row \in Parsed(file)}
Lost == Asked \ Ledgered

LostInv == IsFiniteSet(Lost) /\ Cardinality(Lost) + Owed(usage) <= 2 * usage.torn

LEMMA AtMostOneMore ==
  ASSUME NEW S, IsFiniteSet(S), NEW e, NEW T, T \subseteq S \cup {e}
  PROVE  IsFiniteSet(T) /\ Cardinality(T) \in Nat /\ Cardinality(T) <= Cardinality(S) + 1
<1>1. /\ IsFiniteSet(S \cup {e}) /\ Cardinality(S) \in Nat
      /\ Cardinality(S \cup {e}) \in {Cardinality(S), Cardinality(S) + 1}
  BY FS_AddElement, FS_CardinalityType
<1>2. /\ IsFiniteSet(T) /\ Cardinality(T) \in Nat
      /\ Cardinality(T) <= Cardinality(S \cup {e})
  BY <1>1, FS_Subset, FS_CardinalityType
<1> QED
  BY <1>1, <1>2

(* What an append can spoil.                                                *)
LEMMA WrittenKeys ==
  ASSUME NEW file \in FileType, file.open => file.lines # <<>>,
         NEW row \in UsageRow, NEW cut \in Cuts, NEW new, new = Written(file, row, cut)
  PROVE  LET line == file.lines[Len(file.lines)]
         IN /\ ~file.open => Keys(file) \subseteq Keys(new)
            /\ ~file.open /\ cut # "prefix" => Key(row) \in Keys(new)
            /\ file.open /\ line = Garbled => Keys(file) \subseteq Keys(new)
            /\ file.open => Keys(file) \subseteq Keys(new) \cup {Key(line)}
            /\ cut = "whole" => Owed(new) = 0
            /\ cut # "whole" /\ (file.open \/ cut = "prefix") => Owed(new) = 1
            /\ cut # "whole" => Owed(new) <= 2
<1> DEFINE n == Len(file.lines)
           line == file.lines[n]
           added == IF cut = "prefix" THEN Garbled ELSE row
<1>1. /\ file.lines \in Seq(UsageRow \cup {Garbled})
      /\ n \in Nat /\ DOMAIN file.lines = 1..n
  BY DEF Files, FileType
<1>2. /\ new.lines = IF file.open THEN [file.lines EXCEPT ![n] = Garbled]
                     ELSE Append(file.lines, added)
      /\ new.open = (cut # "whole")
  BY DEF Written
<1>3. ASSUME ~file.open
      PROVE  /\ Keys(file) \subseteq Keys(new)
             /\ cut # "prefix" => Key(row) \in Keys(new)
             /\ cut = "prefix" => new.lines[Len(new.lines)] = Garbled
  <2>1. new.lines = Append(file.lines, added) /\ added \in UsageRow \cup {Garbled}
    BY <1>2, <1>3
  <2>2. /\ Len(new.lines) = n + 1
        /\ DOMAIN new.lines = 1..(n + 1) /\ new.lines[n + 1] = added
        /\ \A l \in 1..n : new.lines[l] = file.lines[l]
    BY <1>1, <2>1
  <2>3. Parsed(file) \subseteq Parsed(new)
    BY <1>1, <2>2 DEF Parsed
  <2>4. cut # "prefix" => row \in Parsed(new)
    <3>1. row # Garbled
      BY PlainRow
    <3> QED
      BY <1>1, <2>2, <3>1 DEF Parsed
  <2> QED
    BY <2>2, <2>3, <2>4 DEF Keys
<1>4. ASSUME file.open
      PROVE  /\ line = Garbled => Keys(file) \subseteq Keys(new)
             /\ Keys(file) \subseteq Keys(new) \cup {Key(line)}
             /\ new.lines[Len(new.lines)] = Garbled
  <2>1. new.lines = [file.lines EXCEPT ![n] = Garbled] /\ n \in DOMAIN file.lines
    BY <1>1, <1>2, <1>4
  <2>2. /\ DOMAIN new.lines = 1..n /\ Len(new.lines) = n /\ new.lines[n] = Garbled
        /\ \A l \in 1..n : l # n => new.lines[l] = file.lines[l]
    BY <1>1, <2>1
  <2>3. Parsed(file) \subseteq Parsed(new) \cup {line}
    BY <1>1, <2>2 DEF Parsed
  <2>4. line = Garbled => Parsed(file) \subseteq Parsed(new)
    <3>1. Garbled \notin Parsed(file)
      BY DEF Parsed
    <3> QED
      BY <2>3, <3>1
  <2> HIDE DEF line
  <2> QED
    BY <2>2, <2>3, <2>4 DEF Keys
<1> HIDE DEF line
<1>5. /\ cut = "whole" => Owed(new) = 0
      /\ cut # "whole" /\ (file.open \/ cut = "prefix") => Owed(new) = 1
      /\ cut # "whole" => Owed(new) <= 2
  <2>1. new.open <=> cut # "whole"
    BY <1>2
  <2>2. (file.open \/ cut = "prefix") => new.lines[Len(new.lines)] = Garbled
    BY <1>3, <1>4
  <2>3. cut = "whole" => Owed(new) = 0
    BY <2>1 DEF Owed
  <2>4. cut # "whole" => Owed(new) \in {1, 2}
    BY <2>1 DEF Owed
  <2>5. cut # "whole" /\ (file.open \/ cut = "prefix") => Owed(new) = 1
    BY <2>1, <2>2 DEF Owed
  <2> QED
    BY <2>3, <2>4, <2>5
<1> QED
  BY <1>3, <1>4, <1>5 DEF line

LEMMA LostStep == TypeOK /\ FileInv /\ LostInv /\ [Next]_vars => LostInv'
<1> SUFFICES ASSUME TypeOK, FileInv, LostInv, [Next]_vars PROVE LostInv'
  OBVIOUS
<1>1. CASE UNCHANGED <<usage, asked>>
  BY <1>1 DEF LostInv, Lost, Asked, Ledgered, Owed
<1>2. ASSUME NEW v \in Visitors, Ledger(v) PROVE LostInv'
  <2> DEFINE row == Row(v)
             line == usage.lines[Len(usage.lines)]
  <2>1. row \in UsageRow /\ row.turn = turn[v] /\ row.at = at[v]
    BY <1>2, LedgerAppends
  <2>2. PICK cut \in Cuts : usage' = Written(usage, row, cut)
    BY <1>2, LedgerAppends
  <2>3. Asked' = Asked \cup {Key(row)}
    BY <1>2, <2>1, LedgerAdds DEF Key
  <2>4. usage \in FileType /\ usage.torn \in Nat /\ usage.open \in BOOLEAN
    BY DEF TypeOK, FileType, Files
  <2>5. usage.open => usage.lines # <<>>
    BY DEF FileInv
  <2>6. Ledgered = Keys(usage) /\ Ledgered' = Keys(usage')
    BY DEF Ledgered, Keys, Key
  <2>7. usage'.torn = IF cut = "whole" THEN usage.torn ELSE usage.torn + 1
    BY <2>2 DEF Written
  <2> DEFINE new == usage'
             file == usage
  <2>8. /\ ~file.open => Keys(file) \subseteq Keys(new)
        /\ ~file.open /\ cut # "prefix" => Key(row) \in Keys(new)
        /\ file.open /\ line = Garbled => Keys(file) \subseteq Keys(new)
        /\ file.open => Keys(file) \subseteq Keys(new) \cup {Key(line)}
        /\ cut = "whole" => Owed(new) = 0
        /\ cut # "whole" /\ (file.open \/ cut = "prefix") => Owed(new) = 1
        /\ cut # "whole" => Owed(new) <= 2
    <3> HIDE DEF row, new
    <3>1. new = Written(file, row, cut)
      BY <2>2 DEF new
    <3> QED
      BY <2>1, <2>4, <2>5, <3>1, WrittenKeys
  <2>9. IsFiniteSet(Lost) /\ Cardinality(Lost) \in Nat /\ Owed(new) \in Nat
    <3>1. Owed(new) \in {0, 1, 2}
      BY DEF Owed
    <3> QED
      BY <3>1, FS_CardinalityType DEF LostInv
  <2>10. Cardinality(Lost) + Owed(usage) <= 2 * usage.torn
    BY DEF LostInv
  <2> HIDE DEF row, line, new
  <2>11. CASE ~usage.open /\ cut # "prefix"
    <3>1. Lost' \subseteq Lost
      BY <2>3, <2>6, <2>8, <2>11 DEF Lost, new
    <3>2. IsFiniteSet(Lost') /\ Cardinality(Lost') \in Nat /\ Cardinality(Lost') <= Cardinality(Lost)
      BY <2>9, <3>1, FS_Subset, FS_CardinalityType
    <3>3. Owed(usage) = 0 /\ Owed(new) <= IF cut = "whole" THEN 0 ELSE 2
      BY <2>8, <2>11 DEF Owed
    <3>4. Cardinality(Lost') + Owed(new) <= 2 * usage'.torn
      BY <2>4, <2>7, <2>9, <2>10, <3>2, <3>3
    <3> QED
      BY <3>2, <3>4 DEF LostInv, new
  <2>12. CASE (~usage.open /\ cut = "prefix") \/ (usage.open /\ line = Garbled)
    <3>1. Lost' \subseteq Lost \cup {Key(row)}
      BY <2>3, <2>6, <2>8, <2>12 DEF Lost, new
    <3>2. /\ IsFiniteSet(Lost') /\ Cardinality(Lost') \in Nat
          /\ Cardinality(Lost') <= Cardinality(Lost) + 1
      BY <2>9, <3>1, AtMostOneMore
    <3>3. /\ Owed(usage) = IF usage.open THEN 1 ELSE 0
          /\ Owed(new) = IF cut = "whole" THEN 0 ELSE 1
      BY <2>8, <2>12 DEF Owed, line
    <3>4. Cardinality(Lost') + Owed(new) <= 2 * usage'.torn
      BY <2>4, <2>7, <2>9, <2>10, <2>12, <3>2, <3>3
    <3> QED
      BY <3>2, <3>4 DEF LostInv, new
  <2>13. CASE usage.open /\ line # Garbled
    <3>1. Lost' \subseteq (Lost \cup {Key(row)}) \cup {Key(line)}
      BY <2>3, <2>6, <2>8, <2>13 DEF Lost, new
    <3>2. /\ IsFiniteSet(Lost \cup {Key(row)})
          /\ Cardinality(Lost \cup {Key(row)}) <= Cardinality(Lost) + 1
          /\ Cardinality(Lost \cup {Key(row)}) \in Nat
      BY <2>9, AtMostOneMore
    <3>3. /\ IsFiniteSet(Lost') /\ Cardinality(Lost') \in Nat
          /\ Cardinality(Lost') <= Cardinality(Lost \cup {Key(row)}) + 1
      BY <3>1, <3>2, AtMostOneMore
    <3>4. Owed(usage) = 2 /\ Owed(new) = IF cut = "whole" THEN 0 ELSE 1
      BY <2>8, <2>13 DEF Owed, line
    <3>5. Cardinality(Lost') + Owed(new) <= 2 * usage'.torn
      BY <2>4, <2>7, <2>9, <2>10, <3>2, <3>3, <3>4
    <3> QED
      BY <3>3, <3>5 DEF LostInv, new
  <2> QED
    BY <2>4, <2>11, <2>12, <2>13
<1> QED
  BY <1>1, <1>2, OnlyLedgerAppends

(* execute(): an execution that raises or is killed loses at most the row   *)
(* of the run it was in, and each append that was cut at most two rows,     *)
(* however many executions append to the ledger at once.                    *)
THEOREM LosesAtMostTheLastRunHolds == Spec => []LosesAtMostTheLastRun
<1> DEFINE Inv == TurnInv /\ LaunchInv /\ AskedInv /\ FileInv /\ LostInv
<1>1. Init => Inv
  <2> SUFFICES ASSUME Init PROVE Inv
    OBVIOUS
  <2>1. TurnInv /\ LaunchInv /\ AskedInv
    BY DEF Init, TurnInv, LaunchInv, AskedInv, Asked, Free
  <2>2. usage = Empty /\ asked = <<>>
    BY DEF Init
  <2>3. FileInv
    BY <2>2 DEF FileInv, Empty
  <2>4. Lost = {}
    BY <2>2 DEF Lost, Asked
  <2>5. LostInv
    BY <2>2, <2>4, FS_EmptySet DEF LostInv, Owed, Empty
  <2> QED
    BY <2>1, <2>3, <2>5
<1>2. TypeOK /\ TypeOK' /\ Inv /\ [Next]_vars => Inv'
  BY TurnStep, LaunchStep, AskedStep, FileStep, LostStep
<1>3. TypeOK /\ Inv => LosesAtMostTheLastRun
  <2> SUFFICES ASSUME TypeOK, AskedInv, FileInv, LostInv PROVE LosesAtMostTheLastRun
    OBVIOUS
  <2>1. Ledgered \subseteq Asked
    BY DEF FileInv, Ledgered, Asked, Parsed
  <2>2. Cardinality(Asked \ Ledgered) <= 2 * usage.torn
    <3>1. Cardinality(Lost) \in Nat /\ Owed(usage) \in {0, 1, 2} /\ usage.torn \in Nat
      BY FS_CardinalityType DEF LostInv, Owed, TypeOK, Files
    <3> QED
      BY <3>1 DEF LostInv, Lost
  <2> QED
    BY <2>1, <2>2 DEF AskedInv, LosesAtMostTheLastRun
<1> QED
  BY <1>1, <1>2, <1>3, TypeCorrect, PTL DEF Spec

-----------------------------------------------------------------------------
(***************************************************************************)
(* The sum of an execution's rows.                                         *)
(***************************************************************************)

(* Induction, for a set of numbers: a least number outside of it would have *)
(* a predecessor in it.                                                     *)
LEMMA Induction ==
  ASSUME NEW S, 0 \in S, \A n \in S \cap Nat : n + 1 \in S
  PROVE  Nat \subseteq S
<1> DEFINE T == {n \in Nat : n \notin S}
<1> SUFFICES ASSUME T # {}
             PROVE  FALSE
  OBVIOUS
<1>1. \E x \in T : \A y \in T : ~(<<y, x>> \in OpToRel(<, Nat))
  BY NatLessThanWellFounded, WFMin
<1>2. PICK x \in T : \A y \in T : ~(<<y, x>> \in OpToRel(<, Nat))
  BY <1>1
<1>3. x \in Nat /\ x # 0 /\ x - 1 \in Nat /\ (x - 1) + 1 = x
  OBVIOUS
<1>4. x - 1 \in T
  BY <1>3
<1>5. <<x - 1, x>> \in OpToRel(<, Nat)
  BY <1>3 DEF OpToRel
<1> QED
  BY <1>2, <1>4, <1>5

(* The loop of UsdOf: n rows into it, and all of it.                        *)
Added(file, t, f, n) ==
  IF n = 0 THEN 0 ELSE f[n - 1] + (IF file[n].turn = t THEN file[n].usd ELSE 0)

Adds(file, t, n, f) ==
  /\ f = [m \in 0..n |-> f[m]]
  /\ \A m \in 0..n : f[m] = Added(file, t, f, m)

LEMMA AddsEnds ==
  ASSUME NEW file, NEW t
  PROVE  \A n \in Nat : \E f : Adds(file, t, n, f)
<1> DEFINE S == {n \in Nat : \E f : Adds(file, t, n, f)}
<1>1. 0 \in S
  <2>1. Adds(file, t, 0, [m \in 0..0 |-> 0])
    BY DEF Adds, Added
  <2> QED
    BY <2>1
<1>2. ASSUME NEW n \in S \cap Nat PROVE n + 1 \in S
  <2>1. PICK f : Adds(file, t, n, f)
    BY <1>2
  <2> DEFINE g == [m \in 0..(n + 1) |-> IF m = n + 1 THEN Added(file, t, f, m) ELSE f[m]]
  <2>2. \A m \in 0..n : g[m] = f[m]
    OBVIOUS
  <2>3. g[n + 1] = Added(file, t, f, n + 1)
    OBVIOUS
  <2>4. g = [m \in 0..(n + 1) |-> g[m]]
    OBVIOUS
  <2> HIDE DEF g
  <2>5. ASSUME NEW m \in 0..(n + 1)
        PROVE  g[m] = Added(file, t, g, m)
    <3>1. g[m] = Added(file, t, f, m)
      BY <2>1, <2>2, <2>3 DEF Adds
    <3>2. m # 0 => g[m - 1] = f[m - 1]
      BY <2>2
    <3> QED
      BY <3>1, <3>2 DEF Added
  <2>6. Adds(file, t, n + 1, g)
    BY <2>4, <2>5 DEF Adds
  <2> QED
    BY <2>6
<1>3. Nat \subseteq S
  BY <1>1, <1>2, Induction
<1> QED
  BY <1>3

LEMMA UsdOfAdds ==
  ASSUME NEW file, Len(file) \in Nat, NEW t
  PROVE  \E f : Adds(file, t, Len(file), f) /\ UsdOf(file, t) = f[Len(file)]
<1> DEFINE N == Len(file)
           Eq(f) == f = [n \in 0..N |->
                           IF n = 0 THEN 0
                           ELSE f[n - 1] + (IF file[n].turn = t THEN file[n].usd ELSE 0)]
           upto == CHOOSE f : Eq(f)
<1>1. PICK f : Adds(file, t, N, f)
  BY AddsEnds
<1>2. f = [n \in 0..N |-> Added(file, t, f, n)]
  <2> DEFINE r == [n \in 0..N |-> Added(file, t, f, n)]
  <2>1. f = [n \in 0..N |-> f[n]] /\ \A n \in 0..N : f[n] = r[n]
    BY <1>1 DEF Adds
  <2>2. r = [n \in 0..N |-> r[n]]
    OBVIOUS
  <2> HIDE DEF r
  <2>3. [n \in 0..N |-> f[n]] = [n \in 0..N |-> r[n]]
    BY <2>1
  <2>4. f = r
    BY <2>1, <2>2, <2>3
  <2> QED
    BY <2>4 DEF r
<1>3. Eq(f)
  BY <1>2 DEF Added
<1>4. Eq(upto)
  BY <1>3
<1>5. UsdOf(file, t) = upto[N]
  BY DEF UsdOf
<1>6. upto = [n \in 0..N |-> Added(file, t, upto, n)]
  BY <1>4 DEF Added
<1> HIDE DEF upto
<1>7. Adds(file, t, N, upto)
  BY <1>6 DEF Adds
<1> QED
  BY <1>5, <1>7

LEMMA AddsAt ==
  ASSUME NEW file, NEW t, NEW N \in Nat, NEW f, Adds(file, t, N, f), NEW n \in 0..N
  PROVE  f[n] = Added(file, t, f, n)
BY DEF Adds

LEMMA AddedFirst ==
  ASSUME NEW file, NEW t, NEW f
  PROVE  Added(file, t, f, 0) = 0
BY DEF Added

LEMMA AddedNext ==
  ASSUME NEW file, NEW t, NEW f, NEW n \in Nat, NEW m, m = n + 1
  PROVE  Added(file, t, f, m) = f[n] + (IF file[m].turn = t THEN file[m].usd ELSE 0)
<1>1. m # 0 /\ m - 1 = n
  OBVIOUS
<1> QED
  BY <1>1 DEF Added

Agree(file, new, N) == \A k \in 1..N : new[k] = file[k] /\ file[k].usd \in Nat

(* The rows before n alone say what the loop has after n of them.           *)
LEMMA SamePrefix ==
  ASSUME NEW file, NEW new, NEW t, NEW N \in Nat, NEW M \in Nat, N <= M,
         Agree(file, new, N), NEW f, Adds(file, t, N, f), NEW g, Adds(new, t, M, g)
  PROVE  \A n \in 0..N : f[n] = g[n] /\ f[n] \in Nat
<1> DEFINE S == {n \in Nat : n <= N => f[n] = g[n] /\ f[n] \in Nat}
<1>1. 0 \in S
  <2>1. 0 \in 0..N /\ 0 \in 0..M
    OBVIOUS
  <2>2. f[0] = Added(file, t, f, 0) /\ g[0] = Added(new, t, g, 0)
    BY <2>1, AddsAt
  <2> QED
    BY <2>2, AddedFirst
<1>2. ASSUME NEW n \in S \cap Nat PROVE n + 1 \in S
  <2> SUFFICES ASSUME n + 1 <= N PROVE f[n + 1] = g[n + 1] /\ f[n + 1] \in Nat
    OBVIOUS
  <2>1. f[n] = g[n] /\ f[n] \in Nat /\ n + 1 \in 0..N /\ n + 1 \in 0..M /\ n + 1 \in 1..N
    BY <1>2
  <2>2. f[n + 1] = f[n] + (IF file[n + 1].turn = t THEN file[n + 1].usd ELSE 0)
    <3>1. f[n + 1] = Added(file, t, f, n + 1)
      BY <2>1, AddsAt
    <3> QED
      BY <3>1, AddedNext
  <2>3. g[n + 1] = g[n] + (IF new[n + 1].turn = t THEN new[n + 1].usd ELSE 0)
    <3>1. g[n + 1] = Added(new, t, g, n + 1)
      BY <2>1, AddsAt
    <3> QED
      BY <3>1, AddedNext
  <2>4. new[n + 1] = file[n + 1] /\ file[n + 1].usd \in Nat
    BY <2>1 DEF Agree
  <2> QED
    BY <2>1, <2>2, <2>3, <2>4
<1>3. Nat \subseteq S
  BY <1>1, <1>2, Induction
<1> QED
  BY <1>3

LEMMA Appended ==
  ASSUME NEW S, NEW p \in Seq(S), NEW e \in S, NEW q, q = Append(p, e)
  PROVE  /\ q \in Seq(S) /\ Len(p) \in Nat /\ Len(q) = Len(p) + 1
         /\ DOMAIN p = 1..Len(p) /\ DOMAIN q = 1..(Len(p) + 1)
         /\ q[Len(p) + 1] = e /\ \A k \in 1..Len(p) : q[k] = p[k]
OBVIOUS

Longer(file, new, row, t, N, M, f, g) ==
  /\ N \in Nat /\ M \in Nat /\ M = N + 1 /\ Agree(file, new, N) /\ new[M] = row
  /\ Adds(file, t, N, f) /\ Adds(new, t, M, g)

LEMMA OneMore ==
  ASSUME NEW file, NEW new, NEW t, NEW row, NEW N, NEW M, NEW f, NEW g,
         Longer(file, new, row, t, N, M, f, g)
  PROVE  f[N] \in Nat /\ g[M] = f[N] + (IF row.turn = t THEN row.usd ELSE 0)
<1>0. /\ N \in Nat /\ M \in Nat /\ M = N + 1 /\ Agree(file, new, N) /\ new[M] = row
      /\ Adds(file, t, N, f) /\ Adds(new, t, M, g)
  BY DEF Longer
<1>1. N <= M /\ N \in 0..N /\ M \in 0..M
  BY <1>0
<1>2. \A n \in 0..N : f[n] = g[n] /\ f[n] \in Nat
  BY <1>0, <1>1, SamePrefix
<1>3. g[M] = Added(new, t, g, M)
  BY <1>0, <1>1, AddsAt
<1>4. g[M] = g[N] + (IF new[M].turn = t THEN new[M].usd ELSE 0)
  BY <1>0, <1>3, AddedNext
<1> QED
  BY <1>0, <1>1, <1>2, <1>4

(* A row of a turn adds its price to the sum of that turn alone.            *)
Follows(file, row, new) ==
  file \in Seq(UsageRow) /\ row \in UsageRow /\ new = Append(file, row)

LEMMA UsdOfAppended ==
  ASSUME NEW file, NEW row, NEW new, Follows(file, row, new), NEW t
  PROVE  /\ UsdOf(file, t) \in Nat
         /\ UsdOf(new, t) = UsdOf(file, t) + (IF row.turn = t THEN row.usd ELSE 0)
<1> DEFINE N == Len(file)
<1>1. /\ N \in Nat /\ Len(new) = N + 1 /\ new[N + 1] = row
      /\ \A k \in 1..N : new[k] = file[k] /\ file[k] \in UsageRow
  <2>1. file \in Seq(UsageRow) /\ row \in UsageRow /\ new = Append(file, row)
    BY DEF Follows
  <2>2. \A k \in 1..N : file[k] \in UsageRow
    BY <2>1
  <2> QED
    BY <2>1, <2>2, Appended
<1>2. PICK f : Adds(file, t, N, f) /\ UsdOf(file, t) = f[N]
  BY <1>1, UsdOfAdds
<1>3. PICK g : Adds(new, t, N + 1, g) /\ UsdOf(new, t) = g[N + 1]
  <2>1. Len(new) \in Nat
    BY <1>1
  <2>2. \E g : Adds(new, t, Len(new), g) /\ UsdOf(new, t) = g[Len(new)]
    BY <2>1, UsdOfAdds
  <2> QED
    BY <1>1, <2>2
<1>4. Agree(file, new, N)
  BY <1>1 DEF UsageRow, Agree
<1> DEFINE M == N + 1
<1>5. Longer(file, new, row, t, N, M, f, g)
  BY <1>1, <1>2, <1>3, <1>4 DEF Longer
<1> HIDE DEF M, N
<1>6. f[N] \in Nat /\ g[M] = f[N] + (IF row.turn = t THEN row.usd ELSE 0)
  BY <1>5, OneMore
<1>7. UsdOf(file, t) = f[N] /\ UsdOf(new, t) = g[M]
  BY <1>2, <1>3 DEF M
<1> QED
  BY <1>6, <1>7

(* A turn without rows has cost nothing.                                    *)
LEMMA UsdOfNone ==
  ASSUME NEW file \in Seq(UsageRow), NEW t, \A k \in DOMAIN file : file[k].turn # t
  PROVE  UsdOf(file, t) = 0
<1> DEFINE N == Len(file)
<1>1. N \in Nat /\ DOMAIN file = 1..N
  OBVIOUS
<1>2. PICK f : Adds(file, t, N, f) /\ UsdOf(file, t) = f[N]
  BY <1>1, UsdOfAdds
<1> DEFINE S == {n \in Nat : n <= N => f[n] = 0}
<1>3. 0 \in S
  <2>1. 0 \in 0..N
    BY <1>1
  <2>2. f[0] = Added(file, t, f, 0)
    BY <1>1, <1>2, <2>1, AddsAt
  <2> QED
    BY <2>2, AddedFirst
<1>4. ASSUME NEW n \in S \cap Nat PROVE n + 1 \in S
  <2> SUFFICES ASSUME n + 1 <= N PROVE f[n + 1] = 0
    OBVIOUS
  <2>1. f[n] = 0 /\ n + 1 \in 0..N /\ n + 1 \in 1..N /\ (n + 1) - 1 = n
    BY <1>1, <1>4
  <2>2. f[n + 1] = f[n] + (IF file[n + 1].turn = t THEN file[n + 1].usd ELSE 0)
    <3>1. f[n + 1] = Added(file, t, f, n + 1)
      BY <1>1, <1>2, <2>1, AddsAt
    <3> QED
      BY <3>1, AddedNext
  <2>3. file[n + 1].turn # t
    BY <1>1, <2>1
  <2> QED
    BY <2>1, <2>2, <2>3
<1>5. Nat \subseteq S
  BY <1>3, <1>4, Induction
<1> QED
  BY <1>1, <1>2, <1>5

-----------------------------------------------------------------------------
(* What the report says of the ledger, for a ledger, a turn and outcomes.   *)
Rows(file, t) == {k \in DOMAIN file : file[k].turn = t}

Tells(file, t, told) ==
  /\ \A i \in DOMAIN told : told[i].status = "ran" => \E k \in Rows(file, t) : file[k].at = i
  /\ \A k \in Rows(file, t) :
       file[k].at \in DOMAIN told /\ IsRowOf(file[k], told[file[k].at])
  /\ \A k, l \in Rows(file, t) : k < l => file[k].at < file[l].at

LEMMA OthersRow ==
  ASSUME NEW file \in Seq(UsageRow), NEW row \in UsageRow, NEW new, new = Append(file, row),
         NEW t, row.turn # t, NEW told, Tells(file, t, told)
  PROVE  Tells(new, t, told)
<1> DEFINE n == Len(file)
<1>1. /\ n \in Nat /\ DOMAIN file = 1..n /\ DOMAIN new = 1..(n + 1)
      /\ new[n + 1] = row /\ \A k \in 1..n : new[k] = file[k]
  BY Appended
<1> HIDE DEF n
<1>2. Rows(new, t) = Rows(file, t)
  BY <1>1 DEF Rows
<1>3. \A k \in Rows(file, t) : new[k] = file[k]
  BY <1>1 DEF Rows
<1> QED
  BY <1>2, <1>3 DEF Tells

LEMMA NoRow ==
  ASSUME NEW file, NEW t, NEW told \in Seq(Outcome), Tells(file, t, told),
         NEW o \in Outcome, o.status # "ran", NEW more, more = Append(told, o)
  PROVE  Tells(file, t, more)
<1> DEFINE n == Len(told)
<1>1. /\ n \in Nat /\ DOMAIN told = 1..n /\ DOMAIN more = 1..(n + 1)
      /\ more[n + 1] = o /\ \A k \in 1..n : more[k] = told[k]
  BY Appended
<1> HIDE DEF n
<1>2. ASSUME NEW i \in DOMAIN more, more[i].status = "ran"
      PROVE  \E k \in Rows(file, t) : file[k].at = i
  BY <1>1, <1>2 DEF Tells
<1>3. ASSUME NEW k \in Rows(file, t)
      PROVE  file[k].at \in DOMAIN more /\ IsRowOf(file[k], more[file[k].at])
  BY <1>1, <1>3 DEF Tells
<1> QED
  BY <1>2, <1>3 DEF Tells

LEMMA OwnRow ==
  ASSUME NEW file \in Seq(UsageRow), NEW row \in UsageRow, NEW new, new = Append(file, row),
         NEW told \in Seq(Outcome), Tells(file, row.turn, told), row.at = Len(told) + 1,
         NEW o \in Outcome, IsRowOf(row, o), NEW more, more = Append(told, o)
  PROVE  Tells(new, row.turn, more)
<1> DEFINE n == Len(file)
           m == Len(told)
           t == row.turn
<1>1. /\ n \in Nat /\ DOMAIN file = 1..n /\ DOMAIN new = 1..(n + 1)
      /\ new[n + 1] = row /\ \A k \in 1..n : new[k] = file[k]
  BY Appended
<1>2. /\ m \in Nat /\ DOMAIN told = 1..m /\ DOMAIN more = 1..(m + 1)
      /\ more[m + 1] = o /\ \A k \in 1..m : more[k] = told[k]
  BY Appended
<1>3. row.at = m + 1
  OBVIOUS
<1> HIDE DEF n, m
<1>4. Rows(new, t) = Rows(file, t) \cup {n + 1} /\ Rows(file, t) \subseteq 1..n
  BY <1>1 DEF Rows
<1>5. ASSUME NEW i \in DOMAIN more, more[i].status = "ran"
      PROVE  \E k \in Rows(new, t) : new[k].at = i
  <2>1. CASE i = m + 1
    BY <1>1, <1>3, <1>4, <2>1
  <2>2. CASE i # m + 1
    <3>1. PICK k \in Rows(file, t) : file[k].at = i
      BY <1>2, <1>5, <2>2 DEF Tells
    <3> QED
      BY <1>1, <1>4, <3>1
  <2> QED
    BY <2>1, <2>2
<1>6. \A k \in Rows(file, t) : new[k] = file[k] /\ file[k].at \in 1..m
                               /\ IsRowOf(file[k], told[file[k].at])
  BY <1>1, <1>2, <1>4 DEF Tells
<1>7. ASSUME NEW k \in Rows(new, t)
      PROVE  new[k].at \in DOMAIN more /\ IsRowOf(new[k], more[new[k].at])
  <2>1. CASE k = n + 1
    BY <1>1, <1>2, <1>3, <2>1
  <2>2. CASE k # n + 1
    <3>1. k \in Rows(file, t)
      BY <1>4, <2>2
    <3>2. new[k].at = file[k].at /\ file[k].at \in 1..m /\ IsRowOf(new[k], told[file[k].at])
      BY <1>6, <3>1
    <3>3. more[file[k].at] = told[file[k].at] /\ file[k].at \in DOMAIN more
      BY <1>2, <3>2
    <3> QED
      BY <3>2, <3>3
  <2> QED
    BY <2>1, <2>2
<1>8. ASSUME NEW k \in Rows(new, t), NEW l \in Rows(new, t), k < l
      PROVE  new[k].at < new[l].at
  <2>1. k \in 1..(n + 1) /\ l \in 1..(n + 1)
    BY <1>1, <1>4
  <2>2. k \in Rows(file, t)
    BY <1>1, <1>4, <1>8, <2>1
  <2>3. CASE l = n + 1
    <3>1. new[k].at \in 1..m
      BY <1>6, <2>2
    <3>2. new[l].at = m + 1
      BY <1>1, <1>3, <2>3
    <3>3. \A x \in 1..m : x < m + 1
      BY <1>2
    <3> QED
      BY <3>1, <3>2, <3>3
  <2>4. CASE l # n + 1
    <3>1. l \in Rows(file, t)
      BY <1>4, <2>4
    <3>2. new[k] = file[k] /\ new[l] = file[l]
      BY <1>6, <2>2, <3>1
    <3> QED
      BY <1>8, <2>2, <3>1, <3>2 DEF Tells
  <2> QED
    BY <2>3, <2>4
<1> QED
  BY <1>5, <1>7, <1>8 DEF Tells

(* The story so far of an execution that goes on or has reported: the run   *)
(* under way is not in it.                                                  *)
Talking(v) == pc[v] \in {"loop", "running", "ledger", "reported"}

Unledgered(v) == IF pc[v] = "ledger" THEN last[v] ELSE 0

Told(v) ==
  /\ Len(outcomes[v]) = at[v] - 1
  /\ at[v] <= Len(request[v].tasks) + 1
  /\ pc[v] = "reported" => at[v] = Len(request[v].tasks) + 1
  /\ \A i \in DOMAIN outcomes[v] : outcomes[v][i].task = request[v].tasks[i]

Paid(v) ==
  /\ Tells(asked, turn[v], outcomes[v])
  /\ UsdOf(asked, turn[v]) = spent[v] - Unledgered(v)

ReportInv ==
  /\ \A k \in DOMAIN asked : asked[k].turn <= executions
  /\ \A v \in Visitors : Talking(v) => Told(v) /\ Paid(v)

(* A visitor who does not move, while a row of another turn may come.       *)
Quiet(w) ==
  /\ pc'[w] = pc[w] /\ request'[w] = request[w] /\ turn'[w] = turn[w]
  /\ at'[w] = at[w] /\ spent'[w] = spent[w] /\ outcomes'[w] = outcomes[w] /\ last'[w] = last[w]

LEMMA QuietTold ==
  ASSUME NEW w, Told(w) /\ Paid(w), Quiet(w), UNCHANGED asked
  PROVE  Told(w)' /\ Paid(w)'
BY DEF Told, Paid, Quiet, Unledgered

LEMMA QuietAll ==
  ASSUME ReportInv, UNCHANGED asked, executions <= executions', NEW v \in Visitors,
         \A w \in Visitors \ {v} : Quiet(w),
         TypeOK, TypeOK',
         Talking(v)' => Told(v)' /\ Paid(v)'
  PROVE  ReportInv'
<1>1. ASSUME NEW w \in Visitors \ {v}, Talking(w)' PROVE Told(w)' /\ Paid(w)'
  <2>1. Talking(w) /\ Quiet(w)
    BY <1>1 DEF Talking, Quiet
  <2> QED
    BY <2>1, QuietTold DEF ReportInv
<1>2. ASSUME NEW k \in DOMAIN asked PROVE asked[k].turn <= executions'
  <2>1. asked[k].turn <= executions /\ executions \in Nat /\ executions' \in Nat
    BY DEF ReportInv, TypeOK
  <2>2. asked[k] \in UsageRow
    BY SMTT(30) DEF TypeOK
  <2>3. asked[k].turn \in Nat
    BY <2>2 DEF UsageRow
  <2> QED
    BY <2>1, <2>3
<1> QED
  BY <1>1, <1>2 DEF ReportInv

(* A step of one visitor.                                                   *)
LEMMA OutcomeSaid ==
  ASSUME TypeOK, NEW v \in Visitors, request[v] \in Requests, Told(v), at[v] <= Len(request[v].tasks),
         NEW status \in {"ran", "refused", "unsupported"}, NEW usd \in Nat,
         Reported(v, status, usd), at' = [at EXCEPT ![v] = @ + 1], UNCHANGED request,
         pc'[v] # "reported"
  PROVE  LET o == [task |-> Task(v), status |-> status, usd |-> usd]
         IN /\ o \in Outcome /\ outcomes'[v] = Append(outcomes[v], o)
            /\ outcomes[v] \in Seq(Outcome)
            /\ Told(v)'
<1> DEFINE o == [task |-> Task(v), status |-> status, usd |-> usd]
           told == outcomes[v]
           more == outcomes'[v]
           m == Len(told)
<1>1. /\ request[v].tasks \in Seq(Tasks) /\ Len(request[v].tasks) \in Nat
      /\ at[v] \in Nat \ {0} /\ told \in Seq(Outcome)
  BY ProductAssumption DEF TypeOK
<1>2. at[v] \in 1..Len(request[v].tasks)
  BY <1>1
<1>3. o \in Outcome
  BY <1>1, <1>2 DEF Outcome, Task
<1>4. more = Append(told, o)
  BY DEF Reported, TypeOK
<1>5. /\ m \in Nat /\ DOMAIN told = 1..m /\ DOMAIN more = 1..(m + 1) /\ Len(more) = m + 1
      /\ more[m + 1] = o /\ \A k \in 1..m : more[k] = told[k]
  BY <1>1, <1>3, <1>4, Appended
<1>6. m = at[v] - 1 /\ at'[v] = at[v] + 1 /\ request'[v] = request[v]
  BY DEF Told, TypeOK
<1>7. at[v] = m + 1
  BY <1>1, <1>5, <1>6
<1>8. o.task = request[v].tasks[m + 1]
  BY <1>7 DEF Task
<1>9. \A i \in 1..m : told[i].task = request[v].tasks[i]
  BY <1>5 DEF Told
<1> HIDE DEF o, more, told, m
<1>10. Len(more) = at'[v] - 1 /\ at'[v] <= Len(request'[v].tasks) + 1
  BY <1>1, <1>5, <1>6, <1>7
<1>11. \A i \in DOMAIN more : more[i].task = request'[v].tasks[i]
  BY <1>5, <1>6, <1>8, <1>9
<1>12. Told(v)'
  BY <1>10, <1>11 DEF Told, more
<1> QED
  BY <1>1, <1>3, <1>4, <1>12 DEF o, told, more

LEMMA ReportStep ==
  ASSUME TypeOK, TypeOK', TurnInv, ReportInv, [Next]_vars
  PROVE  ReportInv'
<1>0. /\ asked \in Seq(UsageRow) /\ executions \in Nat
      /\ \A w \in Visitors : /\ turn[w] \in Nat /\ at[w] \in Nat \ {0} /\ spent[w] \in Nat
                             /\ last[w] \in Nat /\ cost[w] \in Nat
                             /\ outcomes[w] \in Seq(Outcome)
  BY DEF TypeOK
<1>1. ASSUME NEW v \in Visitors, NEW r \in Requests, Execute(v, r) PROVE ReportInv'
  <2>1. UNCHANGED asked /\ executions' = executions + 1 /\ \A w \in Visitors \ {v} : Quiet(w)
    BY <1>1 DEF Execute, Start, Quiet
  <2>2. /\ turn'[v] = executions + 1 /\ pc'[v] = "loop" /\ outcomes'[v] = <<>> /\ at'[v] = 1
        /\ spent'[v] = 0 /\ request'[v] = r
    BY <1>1 DEF Execute, Start, TypeOK
  <2>3. \A k \in DOMAIN asked : asked[k].turn # executions + 1
    <3>1. \A k \in DOMAIN asked : asked[k] \in UsageRow
      BY <1>0
    <3>2. \A k \in DOMAIN asked : asked[k].turn \in Nat /\ asked[k].turn <= executions
      BY <3>1 DEF UsageRow, ReportInv
    <3> QED
      BY <1>0, <3>2
  <2>4. UsdOf(asked, executions + 1) = 0
    BY <1>0, <2>3, UsdOfNone
  <2>5. Tells(asked, executions + 1, <<>>)
    BY <2>3 DEF Tells, Rows
  <2>6. Paid(v)'
    BY <2>1, <2>2, <2>4, <2>5 DEF Paid, Unledgered
  <2>7. Told(v)'
    <3>1. r.tasks \in Seq(Tasks)
      BY ProductAssumption
    <3>2. Len(r.tasks) \in Nat /\ Len(<<>>) = 0
      BY <3>1
    <3>3. Len(outcomes'[v]) = 0 /\ DOMAIN outcomes'[v] = {}
      BY <2>2
    <3> QED
      BY <2>2, <3>2, <3>3 DEF Told
  <2> QED
    BY <1>0, <2>1, <2>6, <2>7, QuietAll
<1>2. ASSUME NEW v \in Visitors, Refuse(v) \/ Unsupported(v) PROVE ReportInv'
  <2>1. /\ UNCHANGED <<asked, executions, pc, request, turn, spent, last>> /\ AtTask(v)
        /\ at' = [at EXCEPT ![v] = @ + 1]
    BY <1>2 DEF Refuse, Unsupported, frame, history
  <2>2. PICK status \in {"refused", "unsupported"} : Reported(v, status, 0)
    BY <1>2 DEF Refuse, Unsupported
  <2>3. Told(v) /\ Paid(v) /\ request[v] \in Requests
    BY <2>1 DEF ReportInv, Talking, AtTask, TypeOK
  <2>4. \A w \in Visitors \ {v} : Quiet(w)
    BY <2>1, <2>2 DEF Quiet, Reported, TypeOK
  <2> DEFINE o == [task |-> Task(v), status |-> status, usd |-> 0]
  <2>5. o \in Outcome /\ outcomes'[v] = Append(outcomes[v], o) /\ Told(v)'
    <3>1. pc'[v] # "reported"
      BY <2>1 DEF AtTask
    <3> QED
      BY <2>1, <2>2, <2>3, <3>1, OutcomeSaid DEF AtTask
  <2>6. o.status # "ran"
    OBVIOUS
  <2> HIDE DEF o
  <2>7. Tells(asked, turn[v], outcomes'[v])
    BY <1>0, <2>3, <2>5, <2>6, NoRow DEF Paid
  <2>8. Paid(v)'
    BY <2>1, <2>3, <2>7 DEF Paid, Unledgered
  <2> QED
    BY <1>0, <2>1, <2>4, <2>5, <2>8, QuietAll
<1>3. ASSUME NEW v \in Visitors, Ledger(v) PROVE ReportInv'
  <2> DEFINE row == Row(v)
             o == [task |-> Task(v), status |-> "ran", usd |-> last[v]]
  <2>1. /\ UNCHANGED <<executions, request, turn, spent, last>> /\ pc[v] = "ledger"
        /\ at' = [at EXCEPT ![v] = @ + 1] /\ pc' = [pc EXCEPT ![v] = "loop"]
        /\ asked' = Append(asked, row) /\ Reported(v, "ran", last[v])
    BY <1>3 DEF Ledger, frame, history
  <2>2. Told(v) /\ Paid(v) /\ request[v] \in Requests /\ at[v] <= Len(request[v].tasks)
    BY <2>1 DEF ReportInv, Talking, TypeOK
  <2>3. o \in Outcome /\ outcomes'[v] = Append(outcomes[v], o) /\ Told(v)'
    <3>1. pc'[v] # "reported"
      BY <2>1 DEF TypeOK
    <3> QED
      BY <1>0, <2>1, <2>2, <3>1, OutcomeSaid
  <2>4. row \in UsageRow /\ row.turn = turn[v] /\ row.at = at[v] /\ row.usd = last[v]
    BY <1>0, <2>3 DEF UsageRow, Outcome, Row
  <2>5. IsRowOf(row, o) /\ row.at = Len(outcomes[v]) + 1
    <3>1. Len(outcomes[v]) = at[v] - 1 /\ at[v] \in Nat
      BY <1>0, <2>2 DEF Told
    <3> QED
      BY <2>4, <3>1 DEF IsRowOf, Row
  <2> HIDE DEF row, o
  <2>6. Tells(asked', turn[v], outcomes'[v])
    BY <1>0, <2>1, <2>2, <2>3, <2>4, <2>5, OwnRow DEF Paid
  <2>7. UsdOf(asked', turn[v]) = spent[v]
    <3>0. Follows(asked, row, asked')
      BY <1>0, <2>1, <2>4 DEF Follows
    <3>1. /\ UsdOf(asked', turn[v]) = UsdOf(asked, turn[v]) + (IF row.turn = turn[v] THEN row.usd ELSE 0)
          /\ UsdOf(asked, turn[v]) \in Nat
      BY <3>0, UsdOfAppended
    <3>2. UsdOf(asked, turn[v]) = spent[v] - last[v]
      BY <2>1, <2>2 DEF Paid, Unledgered
    <3> QED
      BY <1>0, <2>4, <3>1, <3>2
  <2>8. Paid(v)'
    <3>1. pc'[v] = "loop" /\ turn'[v] = turn[v] /\ spent'[v] = spent[v] /\ spent[v] \in Nat
      BY <1>0, <2>1 DEF TypeOK
    <3> QED
      BY <2>6, <2>7, <3>1 DEF Paid, Unledgered
  <2>9. ASSUME NEW w \in Visitors \ {v}, Talking(w)' PROVE Told(w)' /\ Paid(w)'
    <3>1. Quiet(w)
      BY <2>1 DEF Quiet, Reported, TypeOK
    <3>2. Talking(w) /\ Told(w) /\ Paid(w)
      BY <2>9, <3>1 DEF ReportInv, Talking, Quiet
    <3>3. row.turn # turn[w]
      BY <2>1, <2>4 DEF TurnInv, Free
    <3>4. Tells(asked', turn[w], outcomes[w])
      BY <1>0, <2>1, <2>4, <3>2, <3>3, OthersRow DEF Paid
    <3>5. UsdOf(asked', turn[w]) = UsdOf(asked, turn[w])
      <4>1. Follows(asked, row, asked')
        BY <1>0, <2>1, <2>4 DEF Follows
      <4>2. /\ UsdOf(asked', turn[w]) = UsdOf(asked, turn[w]) + (IF row.turn = turn[w] THEN row.usd ELSE 0)
            /\ UsdOf(asked, turn[w]) \in Nat
        BY <4>1, UsdOfAppended
      <4> QED
        BY <3>3, <4>2
    <3> QED
      BY <3>1, <3>2, <3>4, <3>5 DEF Told, Paid, Quiet, Unledgered
  <2>10. ASSUME NEW k \in DOMAIN asked' PROVE asked'[k].turn <= executions'
    <3>1. (k \in DOMAIN asked /\ asked'[k] = asked[k]) \/ asked'[k] = row
      BY <1>0, <2>1, <2>4, Appended
    <3>2. turn[v] <= executions
      BY DEF TurnInv
    <3> QED
      BY <2>1, <2>4, <3>1, <3>2 DEF ReportInv
  <2> QED
    BY <2>3, <2>8, <2>9, <2>10 DEF ReportInv
<1>4. ASSUME NEW v \in Visitors, Read(v) PROVE ReportInv'
  <2>1. /\ UNCHANGED <<asked, executions, request, turn, at, outcomes>> /\ pc[v] = "running"
        /\ pc' = [pc EXCEPT ![v] = "ledger"]
    BY <1>4 DEF Read, frame, history
  <2>2. PICK usd \in {cost[v], 0} : /\ spent' = [spent EXCEPT ![v] = @ + usd]
                                    /\ last' = [last EXCEPT ![v] = usd]
    BY <1>4 DEF Read
  <2>3. \A w \in Visitors \ {v} : Quiet(w)
    BY <2>1, <2>2 DEF Quiet, TypeOK
  <2>4. spent'[v] - last'[v] = spent[v]
    <3>1. spent'[v] = spent[v] + usd /\ last'[v] = usd /\ usd \in Nat /\ spent[v] \in Nat
      BY <1>0, <2>2 DEF TypeOK
    <3> QED
      BY <3>1
  <2>5. Told(v) /\ Paid(v)
    BY <2>1 DEF ReportInv, Talking
  <2>6. Unledgered(v) = 0 /\ Unledgered(v)' = last'[v] /\ pc'[v] # "reported"
    BY <2>1 DEF Unledgered, TypeOK
  <2>7. UsdOf(asked, turn[v]) = spent[v]
    BY <1>0, <2>5, <2>6 DEF Paid
  <2>8. Told(v)' /\ Paid(v)'
    BY <2>1, <2>4, <2>5, <2>6, <2>7 DEF Told, Paid
  <2> QED
    BY <1>0, <2>1, <2>3, <2>8, QuietAll
<1>5. ASSUME NEW v \in Visitors, Invoke(v) \/ Report(v) PROVE ReportInv'
  <2>1. /\ UNCHANGED <<asked, executions, request, turn, at, outcomes, spent, last>> /\ pc[v] = "loop"
        /\ pc' \in {[pc EXCEPT ![v] = "running"], [pc EXCEPT ![v] = "reported"]}
    BY <1>5 DEF Invoke, Report, AtTask, frame, loop, history
  <2>2. \A w \in Visitors \ {v} : Quiet(w)
    BY <2>1 DEF Quiet, TypeOK
  <2>3. Told(v) /\ Paid(v) /\ pc'[v] \in {"running", "reported"}
    BY <2>1 DEF ReportInv, Talking, TypeOK
  <2>4. pc'[v] = "reported" => at[v] = Len(request[v].tasks) + 1
    <3>1. CASE Invoke(v)
      BY <3>1 DEF Invoke, TypeOK
    <3>2. CASE Report(v)
      <4>1. at[v] > Len(request[v].tasks) /\ at[v] <= Len(request[v].tasks) + 1
        BY <2>3, <3>2 DEF Report, Told
      <4>2. Len(request[v].tasks) \in Nat
        <5>1. request[v] \in Requests
          BY <2>1 DEF TypeOK
        <5>2. request[v].tasks \in Seq(Tasks)
          BY <5>1, ProductAssumption
        <5> QED
          BY <5>2
      <4> QED
        BY <1>0, <4>1, <4>2
    <3> QED
      BY <1>5, <3>1, <3>2
  <2>5. Told(v)' /\ Paid(v)'
    BY <2>1, <2>3, <2>4 DEF Told, Paid, Unledgered
  <2> QED
    BY <1>0, <2>1, <2>2, <2>5, QuietAll
<1>6. ASSUME NEW v \in Visitors, Abort(v) PROVE ReportInv'
  <2>1. UNCHANGED <<asked, executions>> /\ \A w \in Visitors \ {v} : Quiet(w)
    BY <1>6 DEF Abort, Start, Quiet
  <2>2. ~Talking(v)'
    BY <1>6 DEF Abort, Talking, TypeOK
  <2> QED
    BY <1>0, <2>1, <2>2, QuietAll
<1>7. ASSUME UNCHANGED <<pc, request, at, spent, outcomes, last, turn, asked, executions>>
      PROVE  ReportInv'
  BY <1>7 DEF ReportInv, Talking, Told, Paid, Unledgered
<1>8. ASSUME NEW r \in Requests, Disclose(r) PROVE ReportInv'
  BY <1>7, <1>8 DEF Disclose, frame, loop, history
<1>9. CASE UNCHANGED vars
  BY <1>7, <1>9 DEF vars, frame, loop, history
<1> QED
  BY <1>1, <1>2, <1>3, <1>4, <1>5, <1>6, <1>8, <1>9 DEF Next, Step, Unprepared, Raise

(* The rows of an execution that can be read are in the order of its runs.  *)
InOrder(v) ==
  \A k, l \in RowsOf(turn[v]) : k < l => usage.lines[k].at < usage.lines[l].at

OrderInv == \A v \in Visitors : Talking(v) => InOrder(v)

(* A row of a running execution that can be read is of an outcome it has.   *)
LEMMA EarlierRow ==
  ASSUME TypeOK, FileInv, ReportInv, NEW v \in Visitors, Talking(v), NEW k \in RowsOf(turn[v])
  PROVE  /\ usage.lines[k].at \in DOMAIN outcomes[v]
         /\ IsRowOf(usage.lines[k], outcomes[v][usage.lines[k].at])
<1>1. k \in DOMAIN usage.lines /\ usage.lines[k] # Garbled /\ usage.lines[k].turn = turn[v]
  BY DEF RowsOf
<1>2. PICK m \in DOMAIN asked : asked[m] = usage.lines[k]
  BY <1>1 DEF FileInv
<1>3. m \in Rows(asked, turn[v])
  BY <1>1, <1>2 DEF Rows
<1> QED
  BY <1>2, <1>3 DEF ReportInv, Paid, Tells

LEMMA OrderStep ==
  ASSUME TypeOK, TypeOK', TurnInv, ReportInv, FileInv, OrderInv, [Next]_vars
  PROVE  OrderInv'
<1>1. ASSUME UNCHANGED usage,
             \A w \in Visitors : Talking(w)' =>
               \/ Talking(w) /\ turn'[w] = turn[w]
               \/ RowsOf(turn[w])' = {}
      PROVE  OrderInv'
  BY <1>1 DEF OrderInv, InOrder, RowsOf
<1>2. ASSUME UNCHANGED <<usage, turn>>, \A w \in Visitors : Talking(w)' => Talking(w)
      PROVE  OrderInv'
  BY <1>1, <1>2
<1>3. ASSUME NEW v \in Visitors, NEW r \in Requests, Execute(v, r) PROVE OrderInv'
  <2>1. /\ UNCHANGED <<usage, asked>> /\ turn' = [turn EXCEPT ![v] = executions + 1]
        /\ \A w \in Visitors \ {v} : pc'[w] = pc[w]
    BY <1>3 DEF Execute
  <2>2. turn'[v] = executions + 1 /\ \A w \in Visitors \ {v} : turn'[w] = turn[w]
    BY <2>1 DEF TypeOK
  <2>3. ASSUME NEW k \in DOMAIN usage.lines, usage.lines[k] # Garbled
        PROVE  usage.lines[k].turn # executions + 1
    <3>1. PICK m \in DOMAIN asked : asked[m] = usage.lines[k]
      BY <2>3 DEF FileInv
    <3>2. asked[m] \in UsageRow /\ asked[m].turn <= executions /\ executions \in Nat
      BY <3>1, SMTT(30) DEF ReportInv, TypeOK
    <3>3. asked[m].turn \in Nat
      BY <3>2 DEF UsageRow
    <3> QED
      BY <3>1, <3>2, <3>3
  <2>4. RowsOf(turn[v])' = {}
    BY <2>1, <2>2, <2>3 DEF RowsOf
  <2>5. ASSUME NEW w \in Visitors \ {v}, Talking(w)' PROVE Talking(w) /\ turn'[w] = turn[w]
    BY <2>1, <2>2, <2>5 DEF Talking
  <2> QED
    BY <1>1, <2>1, <2>4, <2>5
<1>4. ASSUME NEW v \in Visitors, Ledger(v) PROVE OrderInv'
  <2> DEFINE row == Row(v)
             n == Len(usage.lines)
  <2>1. row.turn = turn[v] /\ row.at = at[v] /\ Appends(usage, row, usage')
    BY <1>4, LedgerAppends
  <2>2. /\ turn' = turn /\ pc[v] = "ledger"
        /\ \A w \in Visitors \ {v} : pc'[w] = pc[w]
    BY <1>4 DEF Ledger, frame
  <2>3. n \in Nat /\ DOMAIN usage.lines = 1..n
    BY DEF TypeOK, Files
  <2> HIDE DEF row, n
  <2>4. ASSUME NEW w \in Visitors, NEW k \in RowsOf(turn[w])'
        PROVE  \/ k \in RowsOf(turn[w]) /\ usage'.lines[k] = usage.lines[k]
               \/ k = n + 1 /\ usage'.lines[k] = row /\ turn[w] = turn[v]
    <3>1. /\ k \in DOMAIN usage'.lines /\ usage'.lines[k] # Garbled
          /\ usage'.lines[k].turn = turn[w]
      BY <2>2 DEF RowsOf
    <3> QED
      BY <2>1, <3>1 DEF RowsOf, Appends, n
  <2>5. ASSUME NEW w \in Visitors, Talking(w)' PROVE Talking(w)
    BY <2>2, <2>5 DEF Talking
  <2>6. ASSUME NEW k \in RowsOf(turn[v]) PROVE usage.lines[k].at < at[v] /\ k \in 1..n
    <3>1. Talking(v) /\ outcomes[v] \in Seq(Outcome) /\ at[v] \in Nat
      BY <2>2 DEF Talking, TypeOK
    <3>2. usage.lines[k].at \in DOMAIN outcomes[v]
      BY <3>1, EarlierRow
    <3>3. Len(outcomes[v]) = at[v] - 1 /\ DOMAIN outcomes[v] = 1..Len(outcomes[v])
      BY <3>1 DEF ReportInv, Told
    <3>4. k \in 1..n
      BY <2>3 DEF RowsOf
    <3>5. Len(outcomes[v]) \in Nat
      BY <3>1
    <3> QED
      BY <3>1, <3>2, <3>3, <3>4, <3>5
  <2> SUFFICES ASSUME NEW w \in Visitors, Talking(w)',
                      NEW k \in RowsOf(turn[w])', NEW l \in RowsOf(turn[w])', k < l
               PROVE  usage'.lines[k].at < usage'.lines[l].at
    BY DEF OrderInv, InOrder
  <2>7. k \in Nat /\ l \in Nat
    <3>1. DOMAIN usage'.lines = 1..Len(usage'.lines) /\ Len(usage'.lines) \in Nat
      BY DEF TypeOK, Files
    <3> QED
      BY <3>1 DEF RowsOf
  <2>8. CASE k \in RowsOf(turn[w]) /\ usage'.lines[k] = usage.lines[k]
    <3>1. CASE l \in RowsOf(turn[w]) /\ usage'.lines[l] = usage.lines[l]
      BY <2>5, <2>8, <3>1 DEF OrderInv, InOrder
    <3>2. CASE l = n + 1 /\ usage'.lines[l] = row /\ turn[w] = turn[v]
      BY <2>1, <2>6, <2>8, <3>2
    <3> QED
      BY <2>4, <3>1, <3>2
  <2>9. CASE k = n + 1
    <3>1. CASE l = n + 1
      BY <2>3, <2>9, <3>1
    <3>2. CASE l \in RowsOf(turn[w])
      <4>1. l \in 1..n
        BY <2>3, <3>2 DEF RowsOf
      <4> QED
        BY <2>3, <2>9, <4>1
    <3> QED
      BY <2>4, <3>1, <3>2
  <2> QED
    BY <2>4, <2>8, <2>9
<1>5. ASSUME NEW v \in Visitors,
             Refuse(v) \/ Unsupported(v) \/ Read(v) \/ Invoke(v) \/ Report(v)
      PROVE  OrderInv'
  <2>1. UNCHANGED <<usage, turn>> /\ Talking(v)
    BY <1>5 DEF Refuse, Unsupported, Read, Invoke, Report, AtTask, Talking, frame
  <2>2. \/ pc' = pc
        \/ \E place \in {"ledger", "running", "reported"} : pc' = [pc EXCEPT ![v] = place]
    BY <1>5 DEF Refuse, Unsupported, Read, Invoke, Report
  <2>3. \A w \in Visitors \ {v} : pc'[w] = pc[w]
    BY <2>2 DEF TypeOK
  <2> QED
    BY <1>2, <2>1, <2>3 DEF Talking
<1>6. ASSUME NEW v \in Visitors, Abort(v) PROVE OrderInv'
  <2>1. /\ UNCHANGED <<usage, turn>> /\ pc' = [pc EXCEPT ![v] = "raised"]
    BY <1>6 DEF Abort
  <2>2. ~Talking(v)' /\ \A w \in Visitors \ {v} : pc'[w] = pc[w]
    BY <2>1 DEF Talking, TypeOK
  <2> QED
    BY <1>2, <2>1, <2>2 DEF Talking
<1>7. ASSUME NEW r \in Requests, Disclose(r) PROVE OrderInv'
  BY <1>2, <1>7 DEF Disclose, frame, Talking
<1>8. CASE UNCHANGED vars
  BY <1>2, <1>8 DEF vars, frame, Talking
<1> QED
  BY <1>3, <1>4, <1>5, <1>6, <1>7, <1>8 DEF Next, Step, Unprepared, Raise

(* execute(): every row of an execution that can be read in usage.jsonl is  *)
(* a run of its report, in order and at its price, however many executions  *)
(* append to the one ledger, and whichever of them raise, are killed or cut *)
(* an append; while no append is cut, the rows are all there and add up to  *)
(* the spend.                                                               *)
THEOREM ReportIsTheLedgerHolds == Spec => []ReportIsTheLedger
<1> DEFINE Inv == TurnInv /\ ReportInv /\ FileInv /\ OrderInv
<1>1. Init => Inv
  BY DEF Init, TurnInv, ReportInv, FileInv, OrderInv, Talking, Free, Empty
<1>2. TypeOK /\ TypeOK' /\ Inv /\ [Next]_vars => Inv'
  BY TurnStep, ReportStep, FileStep, OrderStep
<1>3. ASSUME TypeOK, ReportInv, FileInv, OrderInv PROVE ReportIsTheLedger
  <2> SUFFICES ASSUME NEW v \in Visitors, pc[v] = "reported"
               PROVE  /\ [i \in DOMAIN outcomes[v] |-> outcomes[v][i].task] = request[v].tasks
                      /\ \A k \in RowsOf(turn[v]) :
                           /\ usage.lines[k].at \in DOMAIN outcomes[v]
                           /\ IsRowOf(usage.lines[k], outcomes[v][usage.lines[k].at])
                      /\ InOrder(v)
                      /\ usage.torn = 0 =>
                           /\ \A i \in DOMAIN outcomes[v] :
                                outcomes[v][i].status = "ran" =>
                                  \E k \in RowsOf(turn[v]) : usage.lines[k].at = i
                           /\ UsdOf(usage.lines, turn[v]) = spent[v]
    BY DEF ReportIsTheLedger, InOrder
  <2>1. Talking(v) /\ Told(v) /\ Paid(v)
    BY <1>3 DEF ReportInv, Talking
  <2>2. UsdOf(asked, turn[v]) = spent[v]
    <3>1. spent[v] \in Nat
      BY <1>3 DEF TypeOK
    <3> QED
      BY <2>1, <3>1 DEF Paid, Unledgered
  <2>3. [i \in DOMAIN outcomes[v] |-> outcomes[v][i].task] = request[v].tasks
    <3> DEFINE n == Len(outcomes[v])
               tasks == request[v].tasks
    <3>1. request[v] \in Requests /\ outcomes[v] \in Seq(Outcome) /\ at[v] \in Nat
      BY <1>3 DEF TypeOK
    <3>2. tasks \in Seq(Tasks)
      BY <3>1, ProductAssumption
    <3>3. n \in Nat /\ DOMAIN outcomes[v] = 1..n /\ Len(tasks) \in Nat
          /\ tasks = [i \in 1..Len(tasks) |-> tasks[i]]
      BY <3>1, <3>2
    <3>4. n = Len(tasks)
      BY <2>1, <3>1, <3>3 DEF Told
    <3>5. \A i \in DOMAIN outcomes[v] : outcomes[v][i].task = tasks[i]
      BY <2>1 DEF Told
    <3> QED
      BY <3>3, <3>4, <3>5
  <2>4. ASSUME usage.torn = 0
        PROVE  /\ usage.lines = asked /\ RowsOf(turn[v]) = Rows(asked, turn[v])
    <3>1. usage.lines = asked /\ asked \in Seq(UsageRow)
      BY <1>3, <2>4 DEF FileInv, TypeOK
    <3>2. \A k \in DOMAIN asked : asked[k] # Garbled
      BY <3>1, PlainRow
    <3> QED
      BY <3>1, <3>2 DEF RowsOf, Rows
  <2>5. ASSUME usage.torn = 0
        PROVE  /\ \A i \in DOMAIN outcomes[v] :
                    outcomes[v][i].status = "ran" =>
                      \E k \in RowsOf(turn[v]) : usage.lines[k].at = i
               /\ UsdOf(usage.lines, turn[v]) = spent[v]
    BY <2>1, <2>2, <2>4, <2>5 DEF Paid, Tells
  <2>6. InOrder(v)
    BY <1>3, <2>1 DEF OrderInv
  <2>7. \A k \in RowsOf(turn[v]) :
          /\ usage.lines[k].at \in DOMAIN outcomes[v]
          /\ IsRowOf(usage.lines[k], outcomes[v][usage.lines[k].at])
    BY <1>3, <2>1, EarlierRow
  <2> QED
    BY <2>3, <2>5, <2>6, <2>7
<1> QED
  BY <1>1, <1>2, <1>3, TypeCorrect, PTL DEF Spec
=============================================================================
