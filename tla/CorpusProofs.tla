---------------------------- MODULE CorpusProofs ----------------------------
(***************************************************************************)
(* Proofs about the corpus: how the sweeps write it (Sweep), and what the  *)
(* readers publish of it (Readers).                                        *)
(*                                                                         *)
(* The first half is for every matrix, every number of sweeps, and any     *)
(* number of crashes, re-invocations and cut appends: types and scores,    *)
(* the campaign it implements, the options of an invocation, and the two   *)
(* files.  The second is for a corpus and a ladder of any length.          *)
(***************************************************************************)
EXTENDS Sweep, Readers, FiniteSetTheorems, WellFoundedInduction, TLAPS

LEMMA UpTo ==
  ASSUME NEW n \in Nat
  PROVE  IsFiniteSet(1..n) /\ Cardinality(1..n) = n
<1>1. /\ IsFiniteSet(1..n)
      /\ Cardinality(1..n) = IF 1 > n THEN 0 ELSE n - 1 + 1
  BY FS_Interval
<1> QED
  BY <1>1

Done == {{"ok"}, {"cap_exhausted"}}

(* The rows existing_ids takes for done are those run_status scores: of a   *)
(* joined reason the worse class wins, and verify_timeout is infra.         *)
LEMMA DoneIsScored ==
  ASSUME NEW why \in Endings
  PROVE  InDenominator(why) <=> why \in Done
<1> DEFINE m == CHOOSE r \in why : \A s \in why : Severity[ClassOf(r)] <= Severity[ClassOf(s)]
<1>1. PICK r \in RunReasons : why = {r} \/ why = {r, "verify_timeout"}
  BY DEF Endings
<1>2. ClassOf("verify_timeout") = "infra"
  BY DEF ClassOf, EXIT_REASON_CLASS, KnownReasons, Scored, Infra, Mock
<1>3. ClassOf(r) \in {"scored", "timeout", "infra"}
  BY DEF ClassOf, EXIT_REASON_CLASS, KnownReasons, Scored, Infra, Mock, RunReasons
<1>4. ClassOf(r) = "scored" <=> r \in {"ok", "cap_exhausted"}
  BY DEF ClassOf, EXIT_REASON_CLASS, KnownReasons, Scored, Infra, Mock, RunReasons
<1>5. Severity["scored"] = 6 /\ Severity["timeout"] = 2 /\ Severity["infra"] = 4
  BY DEF Severity
<1>6. StatusClass(why) = ClassOf(m)
  BY <1>1 DEF StatusClass
<1>7. CASE why = {r}
  <2>1. m = r
    BY <1>3, <1>5, <1>7
  <2> QED
    BY <1>4, <1>6, <1>7, <2>1 DEF InDenominator, Done
<1>8. CASE why = {r, "verify_timeout"}
  <2>1. \E s \in why : \A t \in why : Severity[ClassOf(s)] <= Severity[ClassOf(t)]
    BY <1>2, <1>3, <1>5, <1>8
  <2>2. m \in why /\ \A t \in why : Severity[ClassOf(m)] <= Severity[ClassOf(t)]
    BY <2>1
  <2>3. Severity[ClassOf(m)] <= 4
    BY <1>2, <1>5, <1>8, <2>2
  <2>4. ClassOf(m) # "scored"
    BY <1>5, <2>3
  <2>5. why \notin Done
    BY <1>1, <1>8 DEF Done, RunReasons
  <2> QED
    BY <1>6, <2>4, <2>5 DEF InDenominator
<1> QED
  BY <1>1, <1>7, <1>8

(* No line of a file is scored but those: a status is not, and a line that  *)
(* cannot be parsed has no reason at all.                                   *)
LEMMA ScoredLineIsDone ==
  ASSUME NEW l \in Lines, InDenominator(l.why)
  PROVE  l.why \in Done
<1>1. \/ l.why \in Endings
      \/ \E s \in Statuses : l.why = {s}
      \/ l.why = {}
  BY DEF Lines, Garbled
<1>2. \A s \in Statuses : ~InDenominator({s})
  <2> TAKE s \in Statuses
  <2>1. ClassOf(s) # "scored"
    BY DEF Statuses, ClassOf, EXIT_REASON_CLASS, KnownReasons, Scored, Infra, Mock
  <2>2. StatusClass({s}) = ClassOf(s)
    <3> DEFINE m == CHOOSE r \in {s} :
                      \A t \in {s} : Severity[ClassOf(r)] <= Severity[ClassOf(t)]
    <3>1. Severity[ClassOf(s)] \in Int
      BY DEF Statuses, ClassOf, EXIT_REASON_CLASS, KnownReasons, Scored, Infra, Mock, Severity
    <3>2. m = s
      BY <3>1
    <3> QED
      BY <3>2 DEF StatusClass
  <2> QED
    BY <2>1, <2>2 DEF InDenominator
<1>3. ~InDenominator({})
  BY DEF InDenominator, StatusClass
<1> QED
  BY <1>1, <1>2, <1>3, DoneIsScored

-----------------------------------------------------------------------------
(* A row of the matrix has the type of a row.                               *)
LEMMA RowType ==
  ASSUME NEW i \in Rows
  PROVE  /\ Matrix[i].id \in Ids /\ Matrix[i].id # Garbled.id
         /\ Usd(i) \in Nat
<1>1. Matrix[i].id \in Ids
  BY DEF Ids
<1>2. Matrix[i].id # Garbled.id
  BY SweepAssumption
<1> DEFINE R == [id : STRING, valid : BOOLEAN, expressible : BOOLEAN,
                 launchable : BOOLEAN, metered : BOOLEAN, usd : Nat]
<1>3. Matrix[i] \in R
  <2>1. Matrix \in Seq(R)
    BY SweepAssumption
  <2> HIDE DEF R
  <2> QED
    BY <2>1 DEF Rows
<1>4. Usd(i) \in Nat
  BY <1>3 DEF Usd
<1> QED
  BY <1>1, <1>2, <1>4

(* Every line that is appended is a line of its type.                       *)
LEMMA LineType ==
  ASSUME NEW i \in Rows, NEW why \in Endings \cup {{s} : s \in Statuses}
  PROVE  Line(i, why) \in Lines /\ Line(i, why) # Garbled
BY RowType DEF Line, Lines, Garbled

(* Appending to a file gives a file with one line more, or one garbled.     *)
LEMMA WrittenType ==
  ASSUME NEW file \in Files(Lines), file.open => file.lines # <<>>,
         NEW row \in Lines, NEW cut \in Cuts
  PROVE  /\ Written(file, row, cut) \in Files(Lines)
         /\ Written(file, row, cut).lines # <<>>
<1>1. Garbled \in Lines
  BY DEF Lines
<1>2. file.lines \in Seq(Lines) /\ file.appended \in Nat /\ file.torn \in Nat
  BY DEF Files
<1>3. CASE file.open
  <2>1. Len(file.lines) \in DOMAIN file.lines
    BY <1>2, <1>3
  <2>2. [file.lines EXCEPT ![Len(file.lines)] = Garbled] \in Seq(Lines) \ {<<>>}
    BY <1>1, <1>2, <1>3, <2>1
  <2> QED
    BY <1>2, <1>3, <2>2 DEF Written, Files
<1>4. CASE ~file.open
  <2>1. \A l \in Lines : Append(file.lines, l) \in Seq(Lines) \ {<<>>}
    BY <1>2
  <2> QED
    BY <1>1, <1>2, <1>4, <2>1 DEF Written, Files
<1> QED
  BY <1>3, <1>4 DEF Files
(* An append to results.jsonl or usage.jsonl keeps its type.                *)
LEMMA AppendType ==
  ASSUME TypeOK, NEW i \in Rows, NEW why \in Endings \cup {{s} : s \in Statuses}
  PROVE  /\ AppendRow(i, why) => /\ results' \in Files(Lines)
                                 /\ results'.lines # <<>>
         /\ AppendUsageRow(i, why) => /\ usage' \in Files(Lines)
                                      /\ usage'.lines # <<>>
BY LineType, WrittenType DEF TypeOK, AppendRow, AppendUsageRow

(* What readers return are run_ids of the matrix.                           *)
LEMMA ReadersType ==
  ASSUME TypeOK
  PROVE  /\ existing_ids(results) \subseteq Ids
         /\ \A s \in Statuses : recorded_ids(results, s) \subseteq Ids
<1>1. \A l \in Parsed(results) : l.id \in Ids
  BY DEF TypeOK, Files, Parsed, Lines
<1> QED
  BY <1>1 DEF existing_ids, recorded_ids

(* Every step of a sweep leaves the variables well typed.                   *)
LEMMA NextTypeOK == TypeOK /\ [Next]_vars => TypeOK'
<1> SUFFICES ASSUME TypeOK, [Next]_vars PROVE TypeOK'
  OBVIOUS
<1> USE DEF TypeOK
<1>1. ASSUME NEW p \in Procs, Invoke(p) PROVE TypeOK'
  <2>1. opt' \in [Procs -> [limit : Nat, dry : BOOLEAN]]
    BY <1>1, SweepAssumption DEF Invoke
  <2>2. already' \in [Procs -> SUBSET Ids] /\ todo' \in [Procs -> SUBSET Rows]
    BY <1>1, ReadersType DEF Invoke, Statuses, OfKind, Walked
  <2> QED
    BY <1>1, <2>1, <2>2 DEF Invoke, files, money
<1>2. ASSUME NEW p \in Procs, NEW phase, NEW status \in Statuses,
             RecordStatus(p, phase, status)
      PROVE  TypeOK'
  BY <1>2, AppendType DEF RecordStatus, files, money
<1>3. ASSUME NEW p \in Procs, ReadUnsupported(p) PROVE TypeOK'
  <2>1. already' \in [Procs -> SUBSET Ids] /\ todo' \in [Procs -> SUBSET Rows]
    BY <1>3, ReadersType DEF ReadUnsupported, Statuses, OfKind, Walked
  <2> QED
    BY <1>3, <2>1 DEF ReadUnsupported, files, money
<1>4. ASSUME NEW p \in Procs, ReadDone(p) PROVE TypeOK'
  <2>1. already' \in [Procs -> SUBSET Ids]
    BY <1>4, ReadersType DEF ReadDone
  <2>2. todo' \in [Procs -> SUBSET Rows]
    BY <1>4 DEF ReadDone, First, Dispatched, Walked
  <2> QED
    BY <1>4, <2>1, <2>2 DEF ReadDone, files, money
<1>5. ASSUME NEW p \in Procs, SkipMetered(p) PROVE TypeOK'
  BY <1>5 DEF SkipMetered, files, money
<1>6. ASSUME NEW p \in Procs, Launch(p) PROVE TypeOK'
  BY <1>6, RowType DEF Launch, files, money
<1>7. ASSUME NEW p \in Procs, RecordRun(p) PROVE TypeOK'
  <2>1. PICK why \in Endings : Pay(p, why) /\ AppendRow(cur[p], why)
    BY <1>7, SweepAssumption DEF RecordRun
  <2>2. cur[p] \in Rows
    BY <1>7 DEF RecordRun
  <2>3. Usd(cur[p]) \in Nat
    BY <2>2, RowType
  <2>4. PICK read \in BOOLEAN : tokens' = [tokens EXCEPT ![p] = read]
    BY <2>1 DEF Pay
  <2>5. tokens' \in [Procs -> BOOLEAN]
    BY <2>4
  <2>6. paid' \in [Procs -> Nat] /\ unread' \in [Procs -> Nat]
    BY <2>1, <2>3 DEF Pay
  <2> QED
    BY <1>7, <2>1, <2>2, <2>5, <2>6, AppendType DEF RecordRun
<1>8. ASSUME NEW p \in Procs, Ledger(p) PROVE TypeOK'
  <2>1. cur[p] \in Rows /\ {"ok"} \in Endings
    BY <1>8 DEF Ledger, Endings, RunReasons
  <2>2. spent' \in [Procs -> Nat]
    BY <1>8, <2>1, RowType DEF Ledger, kimi_dollars
  <2> QED
    BY <1>8, <2>1, <2>2, AppendType DEF Ledger, money
<1>9. ASSUME NEW p \in Procs, Finish(p) PROVE TypeOK'
  BY <1>9 DEF Finish, files, money
<1>10. ASSUME NEW p \in Procs, Crash(p) PROVE TypeOK'
  BY <1>10 DEF Crash, files, NoOptions, money
<1>11. CASE UNCHANGED vars
  BY <1>11 DEF vars, files, procs, money
<1> QED
  BY <1>1, <1>2, <1>3, <1>4, <1>5, <1>6, <1>7, <1>8, <1>9, <1>10, <1>11
  DEF Next, Step, RecordImpossible, RecordUnsupported, Statuses

(* The variables stay well typed in every behaviour.                        *)
THEOREM TypeCorrect == Spec => []TypeOK
<1>1. Init => TypeOK
  BY DEF Init, TypeOK, Empty, Files, NoOptions
<1> QED
  BY <1>1, NextTypeOK, PTL DEF Spec
-----------------------------------------------------------------------------
(* The cell of a line is done when the line is.                             *)
DoneLine(id, l) == l.why \in Done /\ l.id = id

LEMMA DoneMeans ==
  ASSUME NEW file
  PROVE  existing_ids(file) =
           {file.lines[k].id : k \in {j \in DOMAIN file.lines : file.lines[j].why \in Done}}
BY DEF existing_ids, Parsed, Done, Garbled

(* Two done rows of results.jsonl are of two cells.                         *)
Once ==
  \A i, j \in DOMAIN results.lines :
    /\ results.lines[i].why \in Done
    /\ results.lines[j].why \in Done
    /\ results.lines[i].id = results.lines[j].id
    => i = j

(* A line either stays, or is garbled, or is the appended one at the end.   *)
LEMMA AppendLines ==
  ASSUME TypeOK, NEW r \in Rows, NEW why \in Endings \cup {{s} : s \in Statuses},
         AppendRow(r, why), NEW k \in DOMAIN results'.lines
  PROVE  \/ results'.lines[k] = Garbled
         \/ k \in DOMAIN results.lines /\ results'.lines[k] = results.lines[k]
         \/ k \notin DOMAIN results.lines /\ k = Len(results.lines) + 1
            /\ results'.lines[k] = Line(r, why)
<1>1. results.lines \in Seq(Lines) /\ (results.open => results.lines # <<>>)
  BY DEF TypeOK, Files
<1>2. PICK cut \in Cuts : results' = Written(results, Line(r, why), cut)
  BY DEF AppendRow
<1>3. CASE results.open
  BY <1>1, <1>2, <1>3 DEF Written
<1>4. CASE ~results.open
  <2>1. PICK l \in {Garbled, Line(r, why)} : results'.lines = Append(results.lines, l)
    BY <1>2, <1>4 DEF Written
  <2> QED
    BY <1>1, <2>1
<1> QED
  BY <1>3, <1>4

(* An append makes done at most the cell it is about, and a cell that was   *)
(* not done before gets its only done row.                                  *)
LEMMA AppendOnce ==
  ASSUME TypeOK, Once, NEW r \in Rows, NEW why \in Endings \cup {{s} : s \in Statuses},
         AppendRow(r, why), why \in Done => Matrix[r].id \notin existing_ids(results)
  PROVE  /\ Once'
         /\ existing_ids(results') \subseteq
              existing_ids(results) \cup (IF why \in Done THEN {Matrix[r].id} ELSE {})
<1>1. Garbled.why \notin Done /\ Line(r, why).why = why /\ Line(r, why).id = Matrix[r].id
  BY DEF Garbled, Done, Line
<1>2. \A k \in DOMAIN results'.lines : results'.lines[k].why \in Done =>
        \/ k \in DOMAIN results.lines /\ results'.lines[k] = results.lines[k]
        \/ /\ k \notin DOMAIN results.lines /\ k = Len(results.lines) + 1
           /\ why \in Done /\ results'.lines[k].id = Matrix[r].id
  BY <1>1, AppendLines
<1>3. \A k \in DOMAIN results.lines :
        results.lines[k].why \in Done => results.lines[k].id \in existing_ids(results)
  BY DoneMeans
<1>4. Once'
  BY <1>2, <1>3 DEF Once
<1>5. existing_ids(results') \subseteq
        existing_ids(results) \cup (IF why \in Done THEN {Matrix[r].id} ELSE {})
  BY <1>2, <1>3, DoneMeans
<1> QED
  BY <1>4, <1>5

(***************************************************************************)
(* What a sweep still has to run is its own and is not done: the reading   *)
(* of results.jsonl before the loop is never out of date.                  *)
(***************************************************************************)
AtWork == {"loop", "running", "ledger"}

Fresh(p) ==
  /\ pc[p] \in AtWork => \A i \in todo[p] : /\ i \in Walked(p)
                                            /\ Matrix[i].id \notin existing_ids(results)
  /\ pc[p] = "running" => /\ cur[p] \in Walked(p) /\ cur[p] \notin todo[p]
                          /\ Matrix[cur[p]].id \notin existing_ids(results)

FreshInv == \A p \in Procs : Fresh(p)

(* A step of one sweep that makes no cell done leaves the others fresh.     *)
LEMMA FreshFrame ==
  ASSUME TypeOK, FreshInv, NEW p \in Procs,
         existing_ids(results') \subseteq existing_ids(results),
         \A q \in Procs \ {p} : pc'[q] = pc[q] /\ todo'[q] = todo[q] /\ cur'[q] = cur[q]
  PROVE  \A q \in Procs \ {p} : Fresh(q)'
BY DEF FreshInv, Fresh, Walked

(* Every step of a sweep keeps the corpus without double measurements.      *)
LEMMA NextOnce ==
  ASSUME UniqueIds, DisjointSweeps, TypeOK, Once, FreshInv, [Next]_vars
  PROVE  Once' /\ FreshInv'
<1> DEFINE Quiet == results' = results
<1>1. Quiet => Once' /\ existing_ids(results') = existing_ids(results)
  BY DEF Once
<1>2. ASSUME NEW p \in Procs, Invoke(p) PROVE Once' /\ FreshInv'
  <2>1. Fresh(p)'
    BY <1>2 DEF Invoke, Fresh, AtWork, TypeOK
  <2> QED
    BY <1>1, <1>2, <2>1, FreshFrame DEF Invoke, TypeOK, files, FreshInv
<1>3. ASSUME NEW p \in Procs, NEW phase \in {"impossible", "unsupported"},
             NEW status \in Statuses, RecordStatus(p, phase, status)
      PROVE  Once' /\ FreshInv'
  <2>1. {status} \notin Done
    BY DEF Statuses, Done
  <2>2. Once' /\ existing_ids(results') \subseteq existing_ids(results)
    BY <1>1, <1>3, <2>1, AppendOnce DEF RecordStatus, files
  <2>3. Fresh(p)'
    BY <1>3 DEF RecordStatus, Fresh, AtWork, TypeOK
  <2> QED
    BY <1>3, <2>2, <2>3, FreshFrame DEF RecordStatus, TypeOK, FreshInv
<1>4. ASSUME NEW p \in Procs, ReadUnsupported(p) PROVE Once' /\ FreshInv'
  <2>1. Fresh(p)'
    BY <1>4 DEF ReadUnsupported, Fresh, AtWork, TypeOK
  <2> QED
    BY <1>1, <1>4, <2>1, FreshFrame DEF ReadUnsupported, TypeOK, files, FreshInv
<1>5. ASSUME NEW p \in Procs, ReadDone(p) PROVE Once' /\ FreshInv'
  <2>1. /\ \A i \in todo'[p] : i \in Walked(p) /\ Matrix[i].id \notin existing_ids(results)
        /\ pc'[p] # "running"
    BY <1>5 DEF ReadDone, First, Dispatched, TypeOK
  <2>2. Fresh(p)'
    BY <1>1, <1>5, <2>1 DEF ReadDone, files, Fresh, Walked
  <2> QED
    BY <1>1, <1>5, <2>2, FreshFrame DEF ReadDone, TypeOK, files, FreshInv
<1>6. ASSUME NEW p \in Procs, SkipMetered(p) PROVE Once' /\ FreshInv'
  <2>1. Fresh(p)'
    BY <1>1, <1>6 DEF SkipMetered, files, Fresh, FreshInv, TypeOK, Walked
  <2> QED
    BY <1>1, <1>6, <2>1, FreshFrame DEF SkipMetered, TypeOK, files, FreshInv
<1>7. ASSUME NEW p \in Procs, Launch(p) PROVE Once' /\ FreshInv'
  <2>1. Fresh(p)'
    BY <1>1, <1>7 DEF Launch, IsNext, files, Fresh, FreshInv, TypeOK, Walked, AtWork
  <2> QED
    BY <1>1, <1>7, <2>1, FreshFrame DEF Launch, TypeOK, files, FreshInv
<1>8. ASSUME NEW p \in Procs, RecordRun(p) PROVE Once' /\ FreshInv'
  <2>1. PICK why \in Endings : AppendRow(cur[p], why)
    BY <1>8, SweepAssumption DEF RecordRun
  <2>2. /\ cur[p] \in Rows /\ cur[p] \in Walked(p) /\ cur[p] \notin todo[p]
        /\ Matrix[cur[p]].id \notin existing_ids(results)
    BY <1>8 DEF RecordRun, TypeOK, FreshInv, Fresh
  <2>3. Once' /\ existing_ids(results') \subseteq existing_ids(results) \cup {Matrix[cur[p]].id}
    BY <2>1, <2>2, AppendOnce
  <2>4. Fresh(p)'
    <3>1. \A i \in todo[p] : i \in Rows /\ Matrix[i].id # Matrix[cur[p]].id
      BY <2>2 DEF UniqueIds, TypeOK
    <3>2. pc[p] \in AtWork /\ pc'[p] = "ledger" /\ todo' = todo
      BY <1>8 DEF RecordRun, AtWork, TypeOK
    <3> QED
      BY <2>3, <3>1, <3>2 DEF Fresh, FreshInv, Walked
  <2>5. ASSUME NEW q \in Procs \ {p} PROVE Fresh(q)'
    <3>1. \A i \in Walked(q) : Matrix[i].id # Matrix[cur[p]].id
      BY <2>2 DEF Walked, DisjointSweeps
    <3>2. pc'[q] = pc[q] /\ todo'[q] = todo[q] /\ cur'[q] = cur[q]
      BY <1>8 DEF RecordRun, TypeOK
    <3>3. Fresh(q)
      BY DEF FreshInv
    <3> QED
      BY <2>3, <3>1, <3>2, <3>3 DEF Fresh, Walked
  <2> QED
    BY <2>3, <2>4, <2>5 DEF FreshInv
<1>9. ASSUME NEW p \in Procs, Ledger(p) PROVE Once' /\ FreshInv'
  <2>1. Fresh(p)'
    BY <1>1, <1>9 DEF Ledger, Fresh, FreshInv, TypeOK, Walked, AtWork
  <2> QED
    BY <1>1, <1>9, <2>1, FreshFrame DEF Ledger, TypeOK, FreshInv
<1>10. ASSUME NEW p \in Procs, Finish(p) \/ Crash(p) PROVE Once' /\ FreshInv'
  <2>1. Fresh(p)'
    BY <1>10 DEF Finish, Crash, Fresh, AtWork, TypeOK
  <2> QED
    BY <1>1, <1>10, <2>1, FreshFrame DEF Finish, Crash, TypeOK, files, FreshInv
<1>11. CASE UNCHANGED vars
  BY <1>1, <1>11 DEF vars, files, procs, FreshInv, Fresh, Walked
<1> QED
  BY <1>2, <1>3, <1>4, <1>5, <1>6, <1>7, <1>8, <1>9, <1>10, <1>11
  DEF Next, Step, RecordImpossible, RecordUnsupported, Statuses

(***************************************************************************)
(* However sweeps of disjoint cells interleave, crash, resume and cut      *)
(* their appends short, no cell is measured twice.                         *)
(***************************************************************************)
THEOREM ScoredOnceHolds ==
  ASSUME UniqueIds, DisjointSweeps
  PROVE  Spec => []ScoredOnce
<1>1. Init => Once /\ FreshInv
  <2> SUFFICES ASSUME Init PROVE Once /\ FreshInv
    OBVIOUS
  <2>1. results.lines = <<>> /\ \A p \in Procs : pc[p] = "idle"
    BY DEF Init, Empty
  <2> QED
    BY <2>1 DEF Once, FreshInv, Fresh, AtWork
<1>2. TypeOK /\ Once => ScoredOnce
  <2> SUFFICES ASSUME TypeOK, Once PROVE ScoredOnce
    OBVIOUS
  <2>1. \A i \in DOMAIN results.lines :
          InDenominator(results.lines[i].why) => results.lines[i].why \in Done
    <3>1. \A i \in DOMAIN results.lines : results.lines[i] \in Lines
      BY DEF TypeOK, Files
    <3> QED
      BY <3>1, ScoredLineIsDone
  <2> QED
    BY <2>1 DEF Once, ScoredOnce
<1> QED
  BY <1>1, <1>2, NextOnce, TypeCorrect, PTL DEF Spec

-----------------------------------------------------------------------------
(***************************************************************************)
(* Sweeps of disjoint cells implement the abstract campaign, for every     *)
(* matrix, any number of sweeps, crashes and re-invocations, as long as no *)
(* append is cut: a cut one may take a measurement away again.             *)
(***************************************************************************)
ScoredCells == {l.id : l \in {k \in Parsed(results) : InDenominator(k.why)}}

AttemptsAt(file, c) == {k \in DOMAIN file.lines : /\ file.lines[k].id = c
                                                  /\ file.lines[k].why \in Endings}

AttemptsOf == [c \in Ids |-> Cardinality(AttemptsAt(results, c))]

(* Nothing is unfinished as long as nothing is cut.                         *)
Whole == ~results.open /\ ~usage.open

(* An append that may not be cut adds its row at the end.                   *)
LEMMA AppendWhole ==
  ASSUME MaxTears = 0, TypeOK, Whole, NEW i \in Rows,
         NEW why \in Endings \cup {{s} : s \in Statuses}
  PROVE  /\ AppendRow(i, why) => /\ ~results'.open
                                 /\ results'.lines = Append(results.lines, Line(i, why))
         /\ AppendUsageRow(i, why) => ~usage'.open
<1>1. results.torn \in Nat /\ usage.torn \in Nat
  BY DEF TypeOK, Files
<1>2. \A cut \in Cuts : MayCut(cut) => cut = "whole"
  BY <1>1 DEF MayCut
<1>3. ASSUME AppendRow(i, why)
      PROVE  ~results'.open /\ results'.lines = Append(results.lines, Line(i, why))
  <2>1. results' = Written(results, Line(i, why), "whole")
    BY <1>2, <1>3 DEF AppendRow
  <2> QED
    BY <2>1 DEF Written, Whole
<1>4. ASSUME AppendUsageRow(i, why) PROVE ~usage'.open
  <2>1. usage' = Written(usage, Line(i, why), "whole")
    BY <1>2, <1>4 DEF AppendUsageRow
  <2> QED
    BY <2>1 DEF Written, Whole
<1> QED
  BY <1>3, <1>4

LEMMA NextWhole == MaxTears = 0 /\ TypeOK /\ Whole /\ [Next]_vars => Whole'
<1> SUFFICES ASSUME MaxTears = 0, TypeOK, Whole, [Next]_vars PROVE Whole'
  OBVIOUS
<1>1. ASSUME NEW p \in Procs, NEW phase, NEW status \in Statuses,
             RecordStatus(p, phase, status)
      PROVE  Whole'
  BY <1>1, AppendWhole DEF RecordStatus, files, Whole
<1>2. ASSUME NEW p \in Procs, RecordRun(p) PROVE Whole'
  BY <1>2, AppendWhole, SweepAssumption DEF RecordRun, Whole, TypeOK
<1>3. ASSUME NEW p \in Procs, Ledger(p) PROVE Whole'
  <2>1. cur[p] \in Rows /\ {"ok"} \in Endings
    BY <1>3 DEF Ledger, TypeOK, Endings, RunReasons
  <2> QED
    BY <1>3, <2>1, AppendWhole DEF Ledger, Whole
<1>4. ASSUME NEW p \in Procs,
             \/ Invoke(p) \/ ReadUnsupported(p) \/ ReadDone(p) \/ SkipMetered(p)
             \/ Launch(p) \/ Finish(p) \/ Crash(p)
      PROVE  Whole'
  BY <1>4
  DEF Invoke, ReadUnsupported, ReadDone, SkipMetered, Launch, Finish, Crash, files, Whole
<1>5. CASE UNCHANGED vars
  BY <1>5 DEF vars, files, Whole
<1> QED
  BY <1>1, <1>2, <1>3, <1>4, <1>5
  DEF Next, Step, RecordImpossible, RecordUnsupported, Statuses

-----------------------------------------------------------------------------
(* The cells that are scored are those existing_ids takes for done.         *)
LEMMA ScoredIsDone ==
  ASSUME TypeOK
  PROVE  ScoredCells = existing_ids(results)
<1>1. \A l \in Parsed(results) : l \in Lines
  BY DEF TypeOK, Files, Parsed
<1>2. \A why \in Done : InDenominator(why)
  BY DoneIsScored DEF Done, Endings, RunReasons
<1> QED
  BY <1>1, <1>2, ScoredLineIsDone DEF ScoredCells, existing_ids, Done

(* What an appended row adds to the campaign.                               *)
LEMMA AppendCampaign ==
  ASSUME TypeOK, NEW i \in Rows, NEW why \in Endings \cup {{s} : s \in Statuses},
         results'.lines = Append(results.lines, Line(i, why))
  PROVE  /\ ScoredCells' =
              ScoredCells \cup (IF InDenominator(why) THEN {Matrix[i].id} ELSE {})
         /\ AttemptsOf' =
              IF why \in Endings THEN [AttemptsOf EXCEPT ![Matrix[i].id] = @ + 1]
              ELSE AttemptsOf
<1> DEFINE n == Len(results.lines)
<1>1. /\ results.lines \in Seq(Lines) /\ n \in Nat
      /\ DOMAIN results.lines = 1..n /\ DOMAIN results'.lines = 1..(n + 1)
      /\ results'.lines[n + 1] = Line(i, why)
      /\ \A k \in 1..n : results'.lines[k] = results.lines[k]
  BY LineType DEF TypeOK, Files
<1>2. /\ Line(i, why) # Garbled /\ Line(i, why).id = Matrix[i].id
      /\ Line(i, why).why = why /\ Matrix[i].id \in Ids
  BY LineType, RowType DEF Line
<1>3. Parsed(results') = Parsed(results) \cup {Line(i, why)}
  BY <1>1, <1>2 DEF Parsed
<1>4. ScoredCells' = ScoredCells \cup (IF InDenominator(why) THEN {Matrix[i].id} ELSE {})
  BY <1>2, <1>3 DEF ScoredCells
<1>5. ASSUME NEW c \in Ids
      PROVE  Cardinality(AttemptsAt(results', c)) = Cardinality(AttemptsAt(results, c))
               + (IF why \in Endings /\ c = Matrix[i].id THEN 1 ELSE 0)
  <2>1. AttemptsAt(results', c) = AttemptsAt(results, c)
          \cup (IF why \in Endings /\ c = Matrix[i].id THEN {n + 1} ELSE {})
    BY <1>1, <1>2 DEF AttemptsAt
  <2>2. n + 1 \notin AttemptsAt(results, c)
    BY <1>1 DEF AttemptsAt
  <2>3. AttemptsAt(results, c) \in SUBSET (1..n) /\ IsFiniteSet(1..n)
    BY <1>1, UpTo DEF AttemptsAt
  <2>4. /\ IsFiniteSet(AttemptsAt(results, c))
        /\ Cardinality(AttemptsAt(results, c)) \in Nat
    BY <2>3, FS_Subset, FS_CardinalityType
  <2>5. CASE why \in Endings /\ c = Matrix[i].id
    <3>1. AttemptsAt(results', c) = AttemptsAt(results, c) \cup {n + 1}
      BY <2>1, <2>5
    <3>2. Cardinality(AttemptsAt(results, c) \cup {n + 1}) =
            Cardinality(AttemptsAt(results, c)) + 1
      BY <2>2, <2>4, FS_AddElement
    <3> QED
      BY <2>4, <2>5, <3>1, <3>2
  <2>6. CASE ~(why \in Endings /\ c = Matrix[i].id)
    <3>1. AttemptsAt(results', c) = AttemptsAt(results, c)
      BY <2>1, <2>6
    <3> QED
      BY <2>4, <2>6, <3>1
  <2> QED
    BY <2>5, <2>6
<1>6. AttemptsOf' =
        IF why \in Endings THEN [AttemptsOf EXCEPT ![Matrix[i].id] = @ + 1] ELSE AttemptsOf
  <2>1. AttemptsOf' = [c \in Ids |-> Cardinality(AttemptsAt(results', c))]
    BY DEF AttemptsOf, Ids, Rows
  <2>2. \A c \in Ids : Cardinality(AttemptsAt(results, c)) \in Nat
    <3> TAKE c \in Ids
    <3>1. AttemptsAt(results, c) \in SUBSET (1..n) /\ IsFiniteSet(1..n)
      BY <1>1, UpTo DEF AttemptsAt
    <3> QED
      BY <3>1, FS_Subset, FS_CardinalityType
  <2> QED
    BY SMTT(30), <1>2, <1>5, <2>1, <2>2 DEF AttemptsOf
<1> QED
  BY <1>4, <1>6

(* Every step of a sweep is an attempt of a cell without a measurement, or  *)
(* nothing to the campaign.                                                 *)
LEMMA NextCampaign ==
  ASSUME MaxTears = 0, TypeOK, FreshInv, Whole, [Next]_vars
  PROVE  [Campaign!Next]_<<ScoredCells, AttemptsOf>>
<1>1. results' = results => UNCHANGED <<ScoredCells, AttemptsOf>>
  BY DEF ScoredCells, AttemptsOf, AttemptsAt, Ids, Rows
<1>2. ASSUME NEW p \in Procs, NEW phase, NEW status \in Statuses,
             RecordStatus(p, phase, status)
      PROVE  UNCHANGED <<ScoredCells, AttemptsOf>>
  <2>1. ASSUME NEW i \in Rows, AppendRow(i, {status})
        PROVE  UNCHANGED <<ScoredCells, AttemptsOf>>
    <3>1. {status} \notin Endings /\ {status} \notin Done
      BY DEF Statuses, Endings, RunReasons, Done
    <3>2. Line(i, {status}) \in Lines /\ Line(i, {status}).why = {status}
      BY LineType DEF Line
    <3>3. ~InDenominator({status})
      BY <3>1, <3>2, ScoredLineIsDone
    <3> QED
      BY <2>1, <3>1, <3>3, AppendWhole, AppendCampaign
  <2> QED
    BY <1>1, <1>2, <2>1 DEF RecordStatus, files
<1>3. ASSUME NEW p \in Procs, RecordRun(p) PROVE Campaign!Next
  <2>1. PICK why \in Endings : AppendRow(cur[p], why)
    BY <1>3, SweepAssumption DEF RecordRun
  <2>2. /\ cur[p] \in Rows /\ Matrix[cur[p]].id \in Ids
        /\ Matrix[cur[p]].id \notin ScoredCells
    BY <1>3, RowType, ScoredIsDone DEF RecordRun, TypeOK, FreshInv, Fresh
  <2>3. /\ ScoredCells' \in {ScoredCells, ScoredCells \cup {Matrix[cur[p]].id}}
        /\ AttemptsOf' = [AttemptsOf EXCEPT ![Matrix[cur[p]].id] = @ + 1]
    BY <2>1, <2>2, AppendWhole, AppendCampaign
  <2> QED
    BY <2>2, <2>3 DEF Campaign!Next, Campaign!Attempt, ScoredCells, AttemptsOf, AttemptsAt
<1>4. ASSUME NEW p \in Procs,
             \/ Invoke(p) \/ ReadUnsupported(p) \/ ReadDone(p) \/ SkipMetered(p)
             \/ Launch(p) \/ Ledger(p) \/ Finish(p) \/ Crash(p)
      PROVE  UNCHANGED <<ScoredCells, AttemptsOf>>
  BY <1>1, <1>4
  DEF Invoke, ReadUnsupported, ReadDone, SkipMetered, Launch, Ledger, Finish, Crash, files
<1>5. CASE UNCHANGED vars
  BY <1>1, <1>5 DEF vars, files
<1> QED
  BY <1>2, <1>3, <1>4, <1>5
  DEF Next, Step, RecordImpossible, RecordUnsupported, Statuses

(***************************************************************************)
(* Interrupted, resumed and run side by side, sweeps are a campaign: cells *)
(* are attempted until an attempt is scored, and never again.              *)
(***************************************************************************)
THEOREM CampaignIsImplemented ==
  ASSUME UniqueIds, DisjointSweeps, MaxTears = 0
  PROVE  Spec => CampaignSpec
<1>1. Init => Once /\ FreshInv /\ Whole /\ Campaign!Init
  <2> SUFFICES ASSUME Init PROVE Once /\ FreshInv /\ Whole /\ Campaign!Init
    OBVIOUS
  <2>1. /\ results.lines = <<>> /\ Whole /\ \A p \in Procs : pc[p] = "idle"
    BY DEF Init, Empty, Whole
  <2>2. Parsed(results) = {} /\ \A c \in Ids : AttemptsAt(results, c) = {}
    BY <2>1 DEF Parsed, AttemptsAt
  <2>3. Campaign!Init
    BY <2>2, FS_EmptySet DEF Campaign!Init, AttemptsAt
  <2> QED
    BY <2>1, <2>3 DEF Once, FreshInv, Fresh, AtWork
<1>2. MaxTears = 0 /\ TypeOK /\ FreshInv /\ Whole /\ [Next]_vars
        => [Campaign!Next]_<<ScoredCells, AttemptsOf>>
  BY NextCampaign
<1> QED
  BY <1>1, <1>2, NextOnce, NextWhole, TypeCorrect, PTL
  DEF Spec, CampaignSpec, Campaign!Spec, ScoredCells, AttemptsOf, AttemptsAt

-----------------------------------------------------------------------------
(***************************************************************************)
(* An invocation of a sweep does what its options ask for, for every       *)
(* matrix and any number of sweeps beside it, as long as no append is cut. *)
(* Rows may share a run_id.                                                *)
(***************************************************************************)
Traced(i) == \E k \in DOMAIN results.lines : results.lines[k].id = Matrix[i].id

(* What a reader of the file knows of a cell, the file has a row of.        *)
LEMMA ReadIsTraced ==
  ASSUME NEW i \in Rows,
         \/ Matrix[i].id \in existing_ids(results)
         \/ \E s \in Statuses : Matrix[i].id \in recorded_ids(results, s)
  PROVE  Traced(i)
BY DEF existing_ids, recorded_ids, Parsed, Traced

(* A limit that is none takes nothing away.                                 *)
LEMMA NoLimit ==
  ASSUME NEW S \in SUBSET Rows, NEW n \in Nat, n >= Len(Matrix)
  PROVE  First(S, n) = S
<1>1. Len(Matrix) \in Nat /\ Rows = 1..Len(Matrix)
  BY SweepAssumption DEF Rows
<1>2. ASSUME NEW i \in S PROVE Cardinality({j \in S : j < i}) < n
  <2>1. i \in 1..Len(Matrix) /\ S \subseteq 1..Len(Matrix)
    BY <1>1, <1>2
  <2>2. i - 1 \in Nat /\ i - 1 < n
    BY <1>1, <2>1
  <2>3. {j \in S : j < i} \in SUBSET (1..(i - 1))
    <3>1. ASSUME NEW j \in S, j < i PROVE j \in 1..(i - 1)
      <4>1. j \in 1..Len(Matrix)
        BY <2>1
      <4> QED
        BY <1>1, <2>1, <3>1, <4>1
    <3> QED
      BY <3>1
  <2>4. IsFiniteSet(1..(i - 1)) /\ Cardinality(1..(i - 1)) = i - 1
    BY <2>2, UpTo
  <2>5. /\ Cardinality({j \in S : j < i}) <= i - 1
        /\ Cardinality({j \in S : j < i}) \in Nat
    BY <2>3, <2>4, FS_Subset, FS_CardinalityType
  <2> QED
    BY <2>2, <2>5
<1> QED
  BY <1>2 DEF First

-----------------------------------------------------------------------------
(***************************************************************************)
(* What the sweep has behind it, in every phase: the cells that cannot be  *)
(* run have their rows, and of the others each has its row, is still to    *)
(* come, or was left out for --limit or --max-usd.                         *)
(***************************************************************************)
Behind(p) ==
  /\ pc[p] # "idle" => OfKind(p, "bad") = {}
  /\ pc[p] = "impossible" =>
       /\ \A i \in OfKind(p, "impossible") \ todo[p] : Traced(i)
       /\ \A i \in OfKind(p, "impossible") : Matrix[i].id \in already[p] => Traced(i)
  /\ pc[p] \in {"unsupported", "loop", "running", "ledger", "finished"} =>
       \A i \in OfKind(p, "impossible") : Traced(i)
  /\ pc[p] = "unsupported" =>
       /\ \A i \in OfKind(p, "unsupported") \ todo[p] : Traced(i)
       /\ \A i \in OfKind(p, "unsupported") : Matrix[i].id \in already[p] => Traced(i)
  /\ pc[p] \in {"loop", "running", "ledger", "finished"} =>
       \A i \in OfKind(p, "unsupported") : Traced(i)
  /\ pc[p] \in {"loop", "running", "ledger"} \/ (pc[p] = "finished" /\ ~opt[p].dry) =>
       \/ opt[p].limit < Len(Matrix) \/ spent[p] >= MaxUsd
       \/ \A i \in Dispatched(p) : \/ Traced(i)
                                   \/ pc[p] # "finished" /\ i \in todo[p]
                                   \/ pc[p] = "running" /\ i = cur[p]

BehindInv == \A p \in Procs : Behind(p)

(* What is traced stays traced when whole rows are appended.                *)
LEMMA AppendTraced ==
  ASSUME MaxTears = 0, TypeOK, Whole, NEW i \in Rows,
         NEW why \in Endings \cup {{s} : s \in Statuses}, AppendRow(i, why)
  PROVE  Traced(i)' /\ \A j \in Rows : Traced(j) => Traced(j)'
<1> DEFINE n == Len(results.lines)
<1>1. results'.lines = Append(results.lines, Line(i, why)) /\ Line(i, why) \in Lines
  BY AppendWhole, LineType
<1>2. /\ results.lines \in Seq(Lines) /\ n \in Nat
      /\ DOMAIN results.lines = 1..n /\ DOMAIN results'.lines = 1..(n + 1)
      /\ results'.lines[n + 1] = Line(i, why)
      /\ \A k \in 1..n : results'.lines[k] = results.lines[k]
  BY <1>1 DEF TypeOK, Files
<1>3. Line(i, why).id = Matrix[i].id
  BY DEF Line
<1>4. \A j \in Rows : Traced(j) => Traced(j)'
  BY <1>2 DEF Traced
<1>5. Traced(i)'
  <2>1. n + 1 \in DOMAIN results'.lines /\ results'.lines[n + 1].id = Matrix[i].id
    BY <1>2, <1>3
  <2> QED
    BY <2>1 DEF Traced
<1> QED
  BY <1>4, <1>5

(* Steps of another sweep only add traces.                                  *)
LEMMA BehindFrame ==
  ASSUME NEW p \in Procs, NEW q \in Procs, Behind(q),
         \A j \in Rows : Traced(j) => Traced(j)',
         /\ pc'[q] = pc[q] /\ todo'[q] = todo[q] /\ already'[q] = already[q]
         /\ cur'[q] = cur[q] /\ opt'[q] = opt[q] /\ spent'[q] = spent[q]
  PROVE  Behind(q)'
<1>1. \A kind : OfKind(q, kind) \subseteq Rows /\ Dispatched(q) \subseteq Rows
  BY DEF OfKind, Walked, Dispatched
<1>2. \A kind : OfKind(q, kind)' = OfKind(q, kind)
  BY DEF OfKind, Walked, Kind, Rows
<1>3. Dispatched(q)' = Dispatched(q)
  BY DEF Dispatched, IdsOf, OfKind, Walked, Kind, Rows
<1> QED
  BY <1>1, <1>2, <1>3 DEF Behind

(* No step of a sweep loses sight of a cell.                                *)
LEMMA NextBehind ==
  ASSUME MaxTears = 0, TypeOK, Whole, BehindInv, [Next]_vars
  PROVE  BehindInv'
<1>1. results' = results => \A j \in Rows : Traced(j) => Traced(j)'
  BY DEF Traced
<1> DEFINE Sees(p) == (\A j \in Rows : Traced(j) => Traced(j)') /\ Behind(p)'
<1>2. ASSUME NEW p \in Procs, Sees(p),
             \A q \in Procs \ {p} : /\ pc'[q] = pc[q] /\ todo'[q] = todo[q]
                                     /\ already'[q] = already[q] /\ cur'[q] = cur[q]
                                     /\ opt'[q] = opt[q] /\ spent'[q] = spent[q]
      PROVE  BehindInv'
  BY <1>2, BehindFrame DEF BehindInv
<1> HIDE DEF Sees
<1>3. \A p \in Procs : /\ Dispatched(p) \subseteq Rows
                       /\ \A kind : OfKind(p, kind) \subseteq Rows
  BY DEF OfKind, Walked, Dispatched
<1>4. ASSUME NEW p \in Procs, Invoke(p) PROVE BehindInv'
  <2>1. /\ pc'[p] = "impossible" /\ todo'[p] = OfKind(p, "impossible")
        /\ already'[p] = recorded_ids(results, "structurally_impossible")
        /\ OfKind(p, "bad") = {} /\ results' = results
    BY <1>4 DEF Invoke, TypeOK, files
  <2>2. \A i \in OfKind(p, "impossible") : Matrix[i].id \in already'[p] => Traced(i)
    BY <1>3, <2>1, ReadIsTraced DEF BehindInv, Statuses
  <2>3. Behind(p)'
    BY <1>1, <1>3, <2>1, <2>2 DEF Behind, OfKind, Walked, Kind, Rows
  <2>4. Sees(p)
    BY <1>1, <2>1, <2>3 DEF Sees
  <2> QED
    BY <1>2, <1>4, <2>4 DEF Invoke, TypeOK
<1>5. ASSUME NEW p \in Procs, NEW status \in Statuses,
             NEW phase \in {"impossible", "unsupported"}, RecordStatus(p, phase, status)
      PROVE  BehindInv'
  <2>1. PICK i \in Rows :
          /\ todo'[p] = todo[p] \ {i}
          /\ IF Matrix[i].id \in already[p] THEN UNCHANGED files
             ELSE AppendRow(i, {status}) /\ UNCHANGED usage
    BY <1>5 DEF RecordStatus, TypeOK
  <2>2. /\ pc[p] = phase
        /\ UNCHANGED <<pc, already, cur, opt, spent>>
    BY <1>5 DEF RecordStatus
  <2>3. /\ \A j \in Rows : Traced(j) => Traced(j)'
        /\ Matrix[i].id \notin already[p] => Traced(i)'
    BY <1>1, <2>1, AppendTraced DEF BehindInv, files
  <2>4. Behind(p)
    BY DEF BehindInv
  <2>5. \A kind : OfKind(p, kind)' = OfKind(p, kind)
    BY DEF OfKind, Walked, Kind, Rows
  <2>6. Behind(p)'
    BY <1>3, <2>1, <2>2, <2>3, <2>4, <2>5 DEF Behind
  <2>7. Sees(p)
    BY <2>3, <2>6 DEF Sees
  <2> QED
    BY <1>2, <1>5, <2>7 DEF RecordStatus, TypeOK
<1>6. ASSUME NEW p \in Procs, ReadUnsupported(p) PROVE BehindInv'
  <2>1. /\ pc[p] = "impossible" /\ todo[p] = {} /\ pc'[p] = "unsupported"
        /\ todo'[p] = OfKind(p, "unsupported") /\ results' = results
        /\ already'[p] = recorded_ids(results, "driver_unsupported")
    BY <1>6 DEF ReadUnsupported, TypeOK, files
  <2>2. \A i \in OfKind(p, "unsupported") : Matrix[i].id \in already'[p] => Traced(i)
    BY <1>3, <2>1, ReadIsTraced DEF BehindInv, Statuses
  <2>3. /\ OfKind(p, "bad") = {} /\ \A i \in OfKind(p, "impossible") : Traced(i)
    BY <2>1 DEF BehindInv, Behind
  <2>4. Behind(p)'
    BY <1>1, <1>3, <2>1, <2>2, <2>3 DEF Behind, OfKind, Walked, Kind, Rows
  <2>5. Sees(p)
    BY <1>1, <2>1, <2>4 DEF Sees
  <2> QED
    BY <1>2, <1>6, <2>5 DEF ReadUnsupported, TypeOK
<1>7. ASSUME NEW p \in Procs, ReadDone(p) PROVE BehindInv'
  <2> DEFINE waiting == {i \in Dispatched(p) : Matrix[i].id \notin existing_ids(results)}
  <2>1. /\ pc[p] = "unsupported" /\ todo[p] = {} /\ results' = results
        /\ pc'[p] = IF opt[p].dry THEN "finished" ELSE "loop"
        /\ todo'[p] = First(waiting, opt[p].limit)
        /\ opt' = opt /\ opt[p].limit \in Nat
    BY <1>7 DEF ReadDone, TypeOK, files
  <2>2. /\ OfKind(p, "bad") = {} /\ \A i \in OfKind(p, "impossible") : Traced(i)
        /\ \A i \in OfKind(p, "unsupported") : Traced(i)
    BY <2>1 DEF BehindInv, Behind
  <2>3. \A i \in Dispatched(p) : Traced(i) \/ i \in waiting
    BY <1>3, ReadIsTraced DEF BehindInv
  <2>4. waiting \in SUBSET Rows
    BY <1>3
  <2>5. opt[p].limit >= Len(Matrix) => todo'[p] = waiting
    BY <2>1, <2>4, NoLimit
  <2>6. opt[p].limit < Len(Matrix) \/ opt[p].limit >= Len(Matrix)
    BY <2>1, SweepAssumption
  <2> HIDE DEF waiting
  <2>7. /\ \A kind : OfKind(p, kind)' = OfKind(p, kind)
        /\ Dispatched(p)' = Dispatched(p)
    BY DEF Dispatched, IdsOf, OfKind, Walked, Kind, Rows
  <2>8. Behind(p)'
    BY <1>1, <1>3, <2>1, <2>2, <2>3, <2>5, <2>6, <2>7 DEF Behind
  <2>9. Sees(p)
    BY <1>1, <2>1, <2>8 DEF Sees
  <2> QED
    BY <1>2, <1>7, <2>9 DEF ReadDone, TypeOK
<1>8. ASSUME NEW p \in Procs, SkipMetered(p) \/ Launch(p) \/ Finish(p) \/ Crash(p)
      PROVE  BehindInv'
  <2>1. Behind(p) /\ results' = results
    BY <1>8 DEF BehindInv, SkipMetered, Launch, Finish, Crash, files
  <2>2. /\ \A kind : OfKind(p, kind)' = OfKind(p, kind)
        /\ Dispatched(p)' = Dispatched(p)
    BY DEF Dispatched, IdsOf, OfKind, Walked, Kind, Rows
  <2>3. ASSUME SkipMetered(p) PROVE Behind(p)'
    <3>1. /\ pc[p] = "loop" /\ spent[p] >= MaxUsd /\ UNCHANGED <<pc, already, cur, opt, spent>>
      BY <2>3 DEF SkipMetered, OverBudget
    <3> QED
      BY <1>1, <1>3, <2>1, <2>2, <3>1 DEF Behind
  <2>4. ASSUME Launch(p) PROVE Behind(p)'
    <3>1. PICK i \in Rows : /\ todo'[p] = todo[p] \ {i} /\ cur'[p] = i
                            /\ pc[p] = "loop" /\ pc'[p] = "running"
                            /\ UNCHANGED <<already, opt, spent>>
      BY <2>4 DEF Launch, TypeOK
    <3> QED
      BY <1>1, <1>3, <2>1, <2>2, <3>1 DEF Behind
  <2>5. ASSUME Finish(p) PROVE Behind(p)'
    <3>1. /\ pc[p] = "loop" /\ todo[p] = {} /\ pc'[p] = "finished"
          /\ UNCHANGED <<todo, already, cur, opt, spent>>
      BY <2>5 DEF Finish, TypeOK
    <3> QED
      BY <1>1, <1>3, <2>1, <2>2, <3>1 DEF Behind
  <2>6. ASSUME Crash(p) PROVE Behind(p)'
    <3>1. pc'[p] = "idle"
      BY <2>6 DEF Crash, TypeOK
    <3> QED
      BY <3>1 DEF Behind
  <2>7. Sees(p)
    BY <1>1, <1>8, <2>1, <2>3, <2>4, <2>5, <2>6 DEF Sees
  <2> QED
    BY <1>2, <1>8, <2>7 DEF SkipMetered, Launch, Finish, Crash, TypeOK
<1>9. ASSUME NEW p \in Procs, RecordRun(p) PROVE BehindInv'
  <2>1. PICK r \in Rows : r = cur[p]
    BY <1>9 DEF RecordRun, TypeOK
  <2>2. /\ pc[p] = "running" /\ pc'[p] = "ledger" /\ UNCHANGED <<todo, already, cur, opt, spent>>
        /\ \E why \in Endings : AppendRow(r, why)
    BY <1>9, <2>1, SweepAssumption DEF RecordRun, TypeOK
  <2>3. Traced(r)' /\ \A j \in Rows : Traced(j) => Traced(j)'
    BY <2>2, AppendTraced DEF BehindInv
  <2>4. /\ \A kind : OfKind(p, kind)' = OfKind(p, kind)
        /\ Dispatched(p)' = Dispatched(p) /\ Behind(p)
    BY DEF Dispatched, IdsOf, OfKind, Walked, Kind, Rows, BehindInv
  <2>5. Behind(p)'
    BY <1>3, <2>1, <2>2, <2>3, <2>4 DEF Behind
  <2>6. Sees(p)
    BY <2>3, <2>5 DEF Sees
  <2> QED
    BY <1>2, <1>9, <2>6 DEF RecordRun, TypeOK
<1>10. ASSUME NEW p \in Procs, Ledger(p) PROVE BehindInv'
  <2>1. /\ pc[p] = "ledger" /\ pc'[p] = "loop" /\ results' = results
        /\ UNCHANGED <<todo, already, opt>> /\ cur[p] \in Rows
        /\ spent'[p] = spent[p] + kimi_dollars(p) /\ spent[p] \in Nat
    BY <1>10 DEF Ledger, TypeOK
  <2>2. spent[p] >= MaxUsd => spent'[p] >= MaxUsd
    BY <2>1, RowType, SweepAssumption DEF kimi_dollars
  <2>3. /\ \A kind : OfKind(p, kind)' = OfKind(p, kind)
        /\ Dispatched(p)' = Dispatched(p) /\ Behind(p)
    BY DEF Dispatched, IdsOf, OfKind, Walked, Kind, Rows, BehindInv
  <2>4. Behind(p)'
    BY <1>1, <1>3, <2>1, <2>2, <2>3 DEF Behind
  <2>5. Sees(p)
    BY <1>1, <2>1, <2>4 DEF Sees
  <2> QED
    BY <1>2, <1>10, <2>5 DEF Ledger, TypeOK
<1>11. CASE UNCHANGED vars
  <2>1. results' = results /\ UNCHANGED <<pc, todo, already, cur, opt, spent>>
    BY <1>11 DEF vars, files, procs
  <2> QED
    BY <1>1, <2>1, BehindFrame DEF BehindInv
<1> QED
  BY <1>4, <1>5, <1>6, <1>7, <1>8, <1>9, <1>10, <1>11
  DEF Next, Step, RecordImpossible, RecordUnsupported, Statuses

-----------------------------------------------------------------------------
(***************************************************************************)
(* A metered cell is launched below the cap only; the meter is what was     *)
(* paid for the runs that told their tokens but for the one in hand.        *)
(***************************************************************************)
Seen(p) == paid[p] - unread[p]

Metering(p) ==
  /\ pc[p] = "loop" => todo[p] \subseteq Walked(p)
  /\ pc[p] \in {"running", "ledger"} => /\ todo[p] \cup {cur[p]} \subseteq Walked(p)
                                        /\ Matrix[cur[p]].metered => spent[p] < MaxUsd
  /\ Seen(p) = IF pc[p] = "ledger" THEN spent[p] + kimi_dollars(p)
               ELSE IF pc[p] = "idle" THEN Seen(p) ELSE spent[p]
  /\ Seen(p) > 0 => \E i \in Walked(p) : Seen(p) < MaxUsd + Usd(i)

MeteringInv == \A p \in Procs : Metering(p)

LEMMA MeteringFrame ==
  ASSUME NEW q \in Procs, Metering(q), pc'[q] = pc[q], todo'[q] = todo[q],
         cur'[q] = cur[q], spent'[q] = spent[q], tokens'[q] = tokens[q],
         Seen(q)' = Seen(q)
  PROVE  Metering(q)'
BY DEF Metering, Walked, Usd, Rows, kimi_dollars

LEMMA NextMetering == TypeOK /\ MeteringInv /\ [Next]_vars => MeteringInv'
<1> SUFFICES ASSUME TypeOK, MeteringInv, [Next]_vars PROVE MeteringInv'
  OBVIOUS
<1>1. ASSUME NEW p \in Procs, Metering(p)',
             \A q \in Procs \ {p} : /\ pc'[q] = pc[q] /\ todo'[q] = todo[q]
                                     /\ cur'[q] = cur[q] /\ spent'[q] = spent[q]
                                     /\ tokens'[q] = tokens[q] /\ Seen(q)' = Seen(q)
      PROVE  MeteringInv'
  BY <1>1, MeteringFrame DEF MeteringInv
<1>2. \A p \in Procs : Metering(p) /\ Walked(p)' = Walked(p) /\ Walked(p) \subseteq Rows
  BY DEF MeteringInv, Walked, Rows
<1>3. \A i \in Rows : Usd(i)' = Usd(i) /\ Usd(i) \in Nat /\ (~Matrix[i].metered => Usd(i) = 0)
  BY RowType DEF Usd
<1>4. ASSUME NEW p \in Procs, Invoke(p) \/ Crash(p) PROVE MeteringInv'
  <2>1. /\ \/ Seen(p)' = 0 /\ spent'[p] = 0 /\ pc'[p] = "impossible"
           \/ Seen(p)' = Seen(p) /\ pc'[p] = "idle"
        /\ \A q \in Procs \ {p} : Seen(q)' = Seen(q)
    BY <1>4 DEF Invoke, Crash, TypeOK, money, Seen
  <2>2. Metering(p)'
    BY <1>2, <1>3, <2>1 DEF Metering
  <2> QED
    BY <1>1, <1>4, <2>1, <2>2 DEF Invoke, Crash, TypeOK
<1>5. ASSUME NEW p \in Procs, NEW status \in Statuses,
             NEW phase \in {"impossible", "unsupported"},
             \/ RecordStatus(p, phase, status) \/ ReadUnsupported(p) \/ Finish(p)
      PROVE  MeteringInv'
  <2>1. /\ pc'[p] \in {"impossible", "unsupported", "finished"}
        /\ pc[p] \notin {"idle", "ledger"} /\ UNCHANGED <<spent, tokens>>
        /\ \A q \in Procs : Seen(q)' = Seen(q)
        /\ \A q \in Procs \ {p} : pc'[q] = pc[q] /\ todo'[q] = todo[q] /\ cur'[q] = cur[q]
    BY <1>5 DEF RecordStatus, ReadUnsupported, Finish, TypeOK, money, Seen
  <2>2. Metering(p)'
    BY <1>2, <1>3, <2>1 DEF Metering
  <2> QED
    BY <1>1, <2>1, <2>2
<1>6. ASSUME NEW p \in Procs, ReadDone(p) PROVE MeteringInv'
  <2>1. /\ todo'[p] \subseteq Walked(p) /\ pc'[p] \in {"loop", "finished"}
        /\ pc[p] = "unsupported" /\ UNCHANGED <<spent, tokens>>
        /\ \A q \in Procs : Seen(q)' = Seen(q)
        /\ \A q \in Procs \ {p} : pc'[q] = pc[q] /\ todo'[q] = todo[q] /\ cur'[q] = cur[q]
    BY <1>6 DEF ReadDone, First, Dispatched, TypeOK, money, Seen
  <2>2. Metering(p)'
    BY <1>2, <1>3, <2>1 DEF Metering
  <2> QED
    BY <1>1, <2>1, <2>2
<1>7. ASSUME NEW p \in Procs, SkipMetered(p) PROVE MeteringInv'
  <2>1. /\ pc[p] = "loop" /\ todo'[p] \subseteq todo[p]
        /\ UNCHANGED <<pc, cur, spent, tokens>>
        /\ \A q \in Procs : Seen(q)' = Seen(q)
        /\ \A q \in Procs \ {p} : todo'[q] = todo[q]
    BY <1>7 DEF SkipMetered, TypeOK, money, Seen
  <2>2. Metering(p)'
    BY <1>2, <1>3, <2>1 DEF Metering
  <2> QED
    BY <1>1, <2>1, <2>2
<1>8. ASSUME NEW p \in Procs, Launch(p) PROVE MeteringInv'
  <2>1. PICK i \in todo[p] : /\ ~OverBudget(p, i) /\ cur'[p] = i
                             /\ todo'[p] \subseteq todo[p]
    BY <1>8 DEF Launch, IsNext, TypeOK
  <2>2. /\ pc[p] = "loop" /\ pc'[p] = "running" /\ spent[p] \in Nat
        /\ UNCHANGED <<spent, tokens>>
        /\ \A q \in Procs : Seen(q)' = Seen(q)
        /\ \A q \in Procs \ {p} : pc'[q] = pc[q] /\ todo'[q] = todo[q] /\ cur'[q] = cur[q]
    BY <1>8 DEF Launch, TypeOK, money, Seen
  <2>3. i \in Walked(p) /\ (Matrix[i].metered => spent[p] < MaxUsd)
    BY <1>2, <2>1, <2>2, SweepAssumption DEF Metering, OverBudget
  <2>4. Metering(p)'
    BY <1>2, <1>3, <2>1, <2>2, <2>3 DEF Metering
  <2> QED
    BY <1>1, <2>2, <2>4
<1>9. ASSUME NEW p \in Procs, RecordRun(p) PROVE MeteringInv'
  <2>1. PICK i \in Rows : i = cur[p]
    BY <1>9 DEF RecordRun, TypeOK
  <2>2. /\ pc[p] = "running" /\ pc'[p] = "ledger" /\ UNCHANGED <<todo, cur, spent>>
        /\ \A q \in Procs \ {p} : /\ pc'[q] = pc[q] /\ tokens'[q] = tokens[q]
                                    /\ paid'[q] = paid[q] /\ unread'[q] = unread[q]
        /\ paid'[p] = paid[p] + Usd(i)
        /\ unread'[p] = IF tokens'[p] THEN unread[p] ELSE unread[p] + Usd(i)
        /\ {paid[p], unread[p], spent[p], Usd(i)} \subseteq Nat
    BY <1>3, <1>9, <2>1 DEF RecordRun, Pay, TypeOK
  <2>8. /\ Seen(p)' = IF tokens'[p] THEN Seen(p) + Usd(i) ELSE Seen(p)
        /\ \A q \in Procs \ {p} : Seen(q)' = Seen(q)
    BY <2>2 DEF Seen
  <2>3. /\ i \in Walked(p) /\ todo[p] \cup {i} \subseteq Walked(p)
        /\ Matrix[i].metered => spent[p] < MaxUsd
        /\ Seen(p) = spent[p]
    BY <1>2, <2>1, <2>2 DEF Metering
  <2>4. Seen(p)' > 0 => \E j \in Walked(p) : Seen(p)' < MaxUsd + Usd(j)
    <3>1. CASE Matrix[i].metered /\ tokens'[p]
      BY <1>3, <2>8, <2>2, <2>3, <3>1, SweepAssumption
    <3>2. CASE ~(Matrix[i].metered /\ tokens'[p])
      <4>1. Seen(p)' = Seen(p)
        BY <1>3, <2>8, <2>2, <2>3, <3>2
      <4> QED
        BY <1>2, <4>1 DEF Metering
    <3> QED
      BY <3>1, <3>2
  <2>5. kimi_dollars(p)' = IF tokens'[p] THEN Usd(i) ELSE 0
    BY <1>3, <2>1, <2>2 DEF kimi_dollars
  <2>6. Seen(p)' = spent[p] + kimi_dollars(p)'
    BY <1>3, <2>8, <2>2, <2>3, <2>5
  <2>7. Metering(p)'
    BY <1>2, <1>3, <2>1, <2>2, <2>3, <2>4, <2>6 DEF Metering
  <2> QED
    BY <1>1, <2>8, <2>2, <2>7
<1>10. ASSUME NEW p \in Procs, Ledger(p) PROVE MeteringInv'
  <2>1. /\ pc[p] = "ledger" /\ pc'[p] = "loop" /\ UNCHANGED todo
        /\ \A q \in Procs : Seen(q)' = Seen(q)
        /\ spent'[p] = spent[p] + kimi_dollars(p)
        /\ \A q \in Procs \ {p} : /\ pc'[q] = pc[q] /\ cur'[q] = cur[q]
                                    /\ spent'[q] = spent[q] /\ tokens'[q] = tokens[q]
    BY <1>10 DEF Ledger, TypeOK, money, Seen
  <2>2. todo[p] \subseteq Walked(p) /\ Seen(p)' = spent'[p]
    BY <1>2, <2>1 DEF Metering
  <2>3. Metering(p)'
    BY <1>2, <1>3, <2>1, <2>2 DEF Metering
  <2> QED
    BY <1>1, <2>1, <2>3
<1>11. CASE UNCHANGED vars
  BY <1>11, MeteringFrame DEF vars, procs, money, MeteringInv, Seen
<1> QED
  BY <1>4, <1>5, <1>6, <1>7, <1>8, <1>9, <1>10, <1>11
  DEF Next, Step, RecordImpossible, RecordUnsupported, Statuses

(***************************************************************************)
(* A finished invocation has left a row under every run_id, and no          *)
(* invocation pays more than one run too much of those it can read.         *)
(***************************************************************************)
THEOREM OptionsAreKeptHolds ==
  ASSUME MaxTears = 0
  PROVE  Spec => []OptionsAreKept
<1>1. Init => Whole /\ BehindInv /\ MeteringInv
  <2> SUFFICES ASSUME Init PROVE Whole /\ BehindInv /\ MeteringInv
    OBVIOUS
  <2>1. /\ results.lines = <<>> /\ Whole
        /\ \A p \in Procs : pc[p] = "idle" /\ spent[p] = 0 /\ Seen(p) = 0
    BY DEF Init, Empty, Whole, Seen
  <2>2. \A p \in Procs : Behind(p)
    BY <2>1 DEF Behind
  <2> QED
    BY <2>1, <2>2 DEF BehindInv, MeteringInv, Metering
<1>2. TypeOK /\ MeteringInv => OvershootsByOneRun
  <2> SUFFICES ASSUME TypeOK, NEW p \in Procs, Metering(p), paid[p] > unread[p]
               PROVE  \E i \in Walked(p) : paid[p] < MaxUsd + Usd(i) + unread[p]
    BY DEF MeteringInv, OvershootsByOneRun
  <2>1. paid[p] \in Nat /\ unread[p] \in Nat /\ MaxUsd \in Nat
    BY SweepAssumption DEF TypeOK
  <2>2. PICK i \in Walked(p) : Seen(p) < MaxUsd + Usd(i)
    BY <2>1 DEF Metering, Seen
  <2>3. Usd(i) \in Nat
    BY RowType DEF Usd, Walked
  <2> QED
    BY <2>1, <2>2, <2>3 DEF Seen
<1>3. TypeOK /\ BehindInv => EveryCellLeavesATrace
  <2> SUFFICES ASSUME TypeOK, BehindInv, NEW p \in Procs, pc[p] = "finished", ~opt[p].dry,
                      opt[p].limit >= Len(Matrix), spent[p] < MaxUsd, NEW i \in Walked(p)
               PROVE  Traced(i)
    BY DEF EveryCellLeavesATrace, Traced
  <2>1. /\ opt[p].limit \in Nat /\ spent[p] \in Nat /\ i \in Rows /\ Len(Matrix) \in Nat
        /\ MaxUsd \in Nat
    BY SweepAssumption DEF TypeOK, Walked
  <2>2. Behind(p)
    BY DEF BehindInv
  <2>3. i \notin OfKind(p, "bad")
    BY <2>2 DEF Behind
  <2>4. CASE i \in OfKind(p, "impossible") \cup OfKind(p, "unsupported")
    BY <2>2, <2>4 DEF Behind
  <2>5. CASE i \notin OfKind(p, "impossible") \cup OfKind(p, "unsupported")
    <3>1. CASE i \in Dispatched(p)
      BY <2>1, <2>2, <3>1 DEF Behind
    <3>2. CASE i \notin Dispatched(p)
      <4>1. PICK j \in OfKind(p, "impossible") \cup OfKind(p, "unsupported") :
              Matrix[j].id = Matrix[i].id
        BY <3>2 DEF Dispatched, IdsOf
      <4>2. Traced(j)
        BY <2>2, <4>1 DEF Behind
      <4> QED
        BY <4>1, <4>2 DEF Traced
    <3> QED
      BY <3>1, <3>2
  <2> QED
    BY <2>4, <2>5
<1>4. MaxTears = 0 /\ TypeOK /\ Whole /\ BehindInv /\ [Next]_vars => BehindInv'
  BY NextBehind
<1> QED
  BY <1>1, <1>2, <1>3, <1>4, NextWhole, NextMetering, TypeCorrect, PTL
  DEF Spec, OptionsAreKept

-----------------------------------------------------------------------------
(***************************************************************************)
(* More proofs about Sweep: what results.jsonl and usage.jsonl hold after  *)
(* any number of crashes, re-invocations and cut appends.                  *)
(***************************************************************************)
(* The phase of main that records the cells of a status.                    *)
PhaseOf(s) == IF s = "structurally_impossible" THEN "impossible" ELSE "unsupported"

RecordedIn(file, s) ==
  {file.lines[k].id : k \in {j \in DOMAIN file.lines : file.lines[j].why = {s}}}

LEMMA RecordedMeans ==
  ASSUME NEW file, NEW s \in Statuses
  PROVE  recorded_ids(file, s) = RecordedIn(file, s)
BY DEF recorded_ids, RecordedIn, Parsed, Garbled

(***************************************************************************)
(* What a status loop has not come to is of the sweep's own cells, and its *)
(* reading of results.jsonl before the loop is still good for it.          *)
(***************************************************************************)
Listed(p) ==
  \A s \in Statuses : pc[p] = PhaseOf(s) =>
    \A i \in todo[p] : /\ i \in Walked(p)
                       /\ Matrix[i].id \in RecordedIn(results, s) => Matrix[i].id \in already[p]

ListedInv == \A p \in Procs : Listed(p)

(* A row of another reason than the status leaves its record as it was, and *)
(* the first row of a cell adds that cell.                                  *)
LEMMA AppendStatus ==
  ASSUME TypeOK, StatusRowOnce, NEW r \in Rows,
         NEW why \in Endings \cup {{s} : s \in Statuses}, AppendRow(r, why),
         \A s \in Statuses : why = {s} => Matrix[r].id \notin RecordedIn(results, s)
  PROVE  /\ StatusRowOnce'
         /\ \A s \in Statuses : RecordedIn(results', s) \subseteq
              RecordedIn(results, s) \cup (IF why = {s} THEN {Matrix[r].id} ELSE {})
<1>1. /\ \A s \in Statuses : Garbled.why # {s}
      /\ Line(r, why).why = why /\ Line(r, why).id = Matrix[r].id
  BY DEF Garbled, Line
<1>2. \A s \in Statuses : \A k \in DOMAIN results'.lines : results'.lines[k].why = {s} =>
        \/ k \in DOMAIN results.lines /\ results'.lines[k] = results.lines[k]
        \/ /\ k \notin DOMAIN results.lines /\ k = Len(results.lines) + 1
           /\ why = {s} /\ results'.lines[k].id = Matrix[r].id
  BY <1>1, AppendLines
<1>3. \A s \in Statuses : \A k \in DOMAIN results.lines :
        results.lines[k].why = {s} => results.lines[k].id \in RecordedIn(results, s)
  BY DEF RecordedIn
<1>4. StatusRowOnce'
  BY <1>2, <1>3 DEF StatusRowOnce
<1>5. \A s \in Statuses : RecordedIn(results', s) \subseteq
        RecordedIn(results, s) \cup (IF why = {s} THEN {Matrix[r].id} ELSE {})
  BY <1>2, <1>3 DEF RecordedIn
<1> QED
  BY <1>4, <1>5

(* A step of one sweep that records nothing leaves the others' lists good.  *)
LEMMA ListedFrame ==
  ASSUME TypeOK, ListedInv, NEW p \in Procs,
         \A s \in Statuses : RecordedIn(results', s) \subseteq RecordedIn(results, s),
         \A q \in Procs \ {p} : pc'[q] = pc[q] /\ todo'[q] = todo[q] /\ already'[q] = already[q]
  PROVE  \A q \in Procs \ {p} : Listed(q)'
BY DEF ListedInv, Listed, Walked

(* No step of a sweep records a status twice.                               *)
LEMMA NextStatusOnce ==
  ASSUME UniqueIds, DisjointSweeps, TypeOK, StatusRowOnce, ListedInv, [Next]_vars
  PROVE  StatusRowOnce' /\ ListedInv'
<1>1. results' = results =>
        /\ StatusRowOnce'
        /\ \A s \in Statuses : RecordedIn(results', s) = RecordedIn(results, s)
  BY DEF StatusRowOnce, Statuses
<1>2. ASSUME NEW p \in Procs, Invoke(p) PROVE StatusRowOnce' /\ ListedInv'
  <2>1. Listed(p)'
    BY <1>1, <1>2, RecordedMeans
    DEF Invoke, Listed, PhaseOf, Statuses, TypeOK, files, OfKind, Walked
  <2> QED
    BY <1>1, <1>2, <2>1, ListedFrame DEF Invoke, TypeOK, files, ListedInv
<1>3. ASSUME NEW p \in Procs, NEW status \in Statuses,
             RecordStatus(p, PhaseOf(status), status)
      PROVE  StatusRowOnce' /\ ListedInv'
  <2>1. PICK i \in Rows :
          /\ i \in todo[p] /\ todo' = [todo EXCEPT ![p] = @ \ {i}]
          /\ IF Matrix[i].id \in already[p] THEN UNCHANGED files
             ELSE AppendRow(i, {status}) /\ UNCHANGED usage
    BY <1>3 DEF RecordStatus, IsNext
  <2>2. pc[p] = PhaseOf(status) /\ UNCHANGED <<pc, already>>
    BY <1>3 DEF RecordStatus
  <2>3. Listed(p) /\ i \in Walked(p)
    BY <2>1, <2>2 DEF ListedInv, Listed
  <2>4. \A s \in Statuses : PhaseOf(s) = PhaseOf(status) => s = status
    BY DEF PhaseOf, Statuses
  <2>5. CASE Matrix[i].id \in already[p]
    <3>1. results' = results
      BY <2>1, <2>5 DEF files
    <3>2. Listed(p)'
      BY <1>1, <2>1, <2>2, <2>3, <3>1 DEF Listed, Walked, TypeOK
    <3> QED
      BY <1>1, <2>1, <2>2, <3>1, <3>2, ListedFrame DEF TypeOK, ListedInv
  <2>6. CASE Matrix[i].id \notin already[p]
    <3>1. Matrix[i].id \notin RecordedIn(results, status)
      BY <2>1, <2>2, <2>3, <2>6 DEF Listed
    <3>2. /\ StatusRowOnce'
          /\ \A s \in Statuses : RecordedIn(results', s) \subseteq
               RecordedIn(results, s) \cup (IF s = status THEN {Matrix[i].id} ELSE {})
      BY <2>1, <2>6, <3>1, AppendStatus
    <3>3. Listed(p)'
      <4>1. \A j \in todo'[p] : j \in todo[p] /\ Matrix[j].id # Matrix[i].id
        BY <2>1 DEF UniqueIds, TypeOK
      <4> QED
        BY <2>2, <2>3, <3>2, <4>1 DEF Listed, Walked
    <3>4. ASSUME NEW q \in Procs \ {p} PROVE Listed(q)'
      <4>1. \A j \in Walked(q) : Matrix[j].id # Matrix[i].id
        BY <2>3 DEF Walked, DisjointSweeps
      <4>2. Listed(q) /\ todo'[q] = todo[q]
        BY <2>1 DEF ListedInv, TypeOK
      <4> QED
        BY <2>2, <3>2, <4>1, <4>2 DEF Listed, Walked
    <3> QED
      BY <3>2, <3>3, <3>4 DEF ListedInv
  <2> QED
    BY <2>5, <2>6
<1>4. ASSUME NEW p \in Procs, ReadUnsupported(p) PROVE StatusRowOnce' /\ ListedInv'
  <2>1. Listed(p)'
    BY <1>1, <1>4, RecordedMeans
    DEF ReadUnsupported, Listed, PhaseOf, Statuses, TypeOK, files, OfKind, Walked
  <2> QED
    BY <1>1, <1>4, <2>1, ListedFrame DEF ReadUnsupported, TypeOK, files, ListedInv
<1>5. ASSUME NEW p \in Procs, RecordRun(p) PROVE StatusRowOnce' /\ ListedInv'
  <2>1. PICK why \in Endings : AppendRow(cur[p], why)
    BY <1>5, SweepAssumption DEF RecordRun
  <2>2. cur[p] \in Rows /\ \A s \in Statuses : why # {s}
    BY <1>5 DEF RecordRun, TypeOK, Endings, RunReasons, Statuses
  <2>3. /\ StatusRowOnce'
        /\ \A s \in Statuses : RecordedIn(results', s) \subseteq RecordedIn(results, s)
    BY <2>1, <2>2, AppendStatus
  <2>4. Listed(p)'
    BY <1>5 DEF RecordRun, Listed, PhaseOf, TypeOK
  <2> QED
    BY <1>5, <2>3, <2>4, ListedFrame DEF RecordRun, TypeOK, ListedInv
<1>6. ASSUME NEW p \in Procs,
             ReadDone(p) \/ SkipMetered(p) \/ Launch(p) \/ Ledger(p) \/ Finish(p) \/ Crash(p)
      PROVE  StatusRowOnce' /\ ListedInv'
  <2>1. /\ results' = results
        /\ \A s \in Statuses : pc'[p] # PhaseOf(s)
    BY <1>6 DEF ReadDone, SkipMetered, Launch, Ledger, Finish, Crash, files, PhaseOf, TypeOK
  <2>2. \A q \in Procs \ {p} : pc'[q] = pc[q] /\ todo'[q] = todo[q] /\ already'[q] = already[q]
    BY <1>6 DEF ReadDone, SkipMetered, Launch, Ledger, Finish, Crash, TypeOK
  <2> QED
    BY <1>1, <2>1, <2>2, ListedFrame DEF ListedInv, Listed
<1>7. CASE UNCHANGED vars
  BY <1>1, <1>7 DEF vars, files, procs, ListedInv, Listed, Walked
<1> QED
  BY <1>2, <1>3, <1>4, <1>5, <1>6, <1>7
  DEF Next, Step, RecordImpossible, RecordUnsupported, Statuses, PhaseOf

(***************************************************************************)
(* However sweeps of disjoint cells interleave, crash, resume and cut      *)
(* their appends short, a cell that cannot be run is recorded once.        *)
(***************************************************************************)
THEOREM StatusRowOnceHolds ==
  ASSUME UniqueIds, DisjointSweeps
  PROVE  Spec => []StatusRowOnce
<1>1. Init => StatusRowOnce /\ ListedInv
  <2> SUFFICES ASSUME Init PROVE StatusRowOnce /\ ListedInv
    OBVIOUS
  <2>1. results.lines = <<>> /\ \A p \in Procs : pc[p] = "idle"
    BY DEF Init, Empty
  <2> QED
    BY <2>1 DEF StatusRowOnce, ListedInv, Listed, PhaseOf
<1> QED
  BY <1>1, NextStatusOnce, TypeCorrect, PTL DEF Spec

-----------------------------------------------------------------------------
(***************************************************************************)
(* A file with an unfinished line owes what the next append will spoil:    *)
(* the row that is appended, and the line it continues if that is a row.   *)
(***************************************************************************)
Owed(file) ==
  IF file.open THEN IF file.lines[Len(file.lines)] = Garbled THEN 1 ELSE 2 ELSE 0

Room(file) == file.appended + Owed(file) <= 2 * file.torn + Cardinality(Intact(file))

RoomInv == Room(results) /\ Room(usage)

LEMMA IntactFinite ==
  ASSUME NEW file, file.lines \in Seq(Lines)
  PROVE  IsFiniteSet(Intact(file)) /\ Cardinality(Intact(file)) \in Nat
<1>1. Len(file.lines) \in Nat /\ Intact(file) \subseteq 1..Len(file.lines)
  BY DEF Intact
<1>2. IsFiniteSet(1..Len(file.lines))
  BY <1>1, UpTo
<1> QED
  BY <1>1, <1>2, FS_Subset, FS_CardinalityType

(* One append, whole or cut, keeps the room for what it owes.               *)
LEMMA WrittenRoom ==
  ASSUME NEW file \in Files(Lines), file.open => file.lines # <<>>, Room(file),
         NEW row \in Lines, row # Garbled, NEW cut \in Cuts,
         NEW new, new = Written(file, row, cut)
  PROVE  Room(new)
<1> DEFINE n == Len(file.lines)
<1>1. /\ file.lines \in Seq(Lines) /\ file.open \in BOOLEAN
      /\ file.appended \in Nat /\ file.torn \in Nat /\ n \in Nat
  BY DEF Files
<1>2. IsFiniteSet(Intact(file)) /\ Cardinality(Intact(file)) \in Nat
  BY <1>1, IntactFinite
<1>3. /\ new.open = (cut # "whole") /\ new.appended = file.appended + 1
      /\ new.torn = IF cut = "whole" THEN file.torn ELSE file.torn + 1
  BY DEF Written
<1>4. CASE file.open
  <2>1. n \in DOMAIN file.lines /\ new.lines = [file.lines EXCEPT ![n] = Garbled]
    BY <1>1, <1>4 DEF Written
  <2>2. Len(new.lines) = n /\ new.lines[n] = Garbled
    BY <1>1, <2>1
  <2>3. Intact(new) = Intact(file) \ {n}
    BY <1>1, <2>1 DEF Intact
  <2>4. Cardinality(Intact(new)) =
          IF n \in Intact(file) THEN Cardinality(Intact(file)) - 1 ELSE Cardinality(Intact(file))
    BY <1>2, <2>3, FS_RemoveElement
  <2>5. n \in Intact(file) <=> file.lines[n] # Garbled
    BY <2>1 DEF Intact
  <2>6. Owed(new) = IF cut = "whole" THEN 0 ELSE 1
    BY <1>3, <2>2 DEF Owed
  <2>7. Owed(file) = IF n \in Intact(file) THEN 2 ELSE 1
    BY <1>4, <2>5 DEF Owed
  <2>8. CASE cut = "whole"
    BY <1>1, <1>2, <1>3, <2>4, <2>6, <2>7, <2>8 DEF Room
  <2>9. CASE cut # "whole"
    BY SMTT(30), <1>1, <1>2, <1>3, <2>4, <2>6, <2>7, <2>9 DEF Room
  <2> QED
    BY <2>8, <2>9
<1>5. CASE ~file.open
  <2> DEFINE line == IF cut = "prefix" THEN Garbled ELSE row
  <2>1. new.lines = Append(file.lines, line) /\ line \in Lines
    BY <1>5 DEF Written, Lines
  <2>2. /\ Len(new.lines) = n + 1 /\ new.lines[n + 1] = line
        /\ \A k \in 1..n : new.lines[k] = file.lines[k]
    BY <1>1, <2>1
  <2>3. n + 1 \notin Intact(file)
    BY <1>1 DEF Intact
  <2>4. Intact(new) = IF line = Garbled THEN Intact(file) ELSE Intact(file) \cup {n + 1}
    BY <1>1, <2>1, <2>2 DEF Intact
  <2>5. Cardinality(Intact(new)) =
          IF line = Garbled THEN Cardinality(Intact(file)) ELSE Cardinality(Intact(file)) + 1
    BY <1>2, <2>3, <2>4, FS_AddElement
  <2>6. Owed(new) = IF cut = "whole" THEN 0 ELSE IF line = Garbled THEN 1 ELSE 2
    BY <1>3, <2>2 DEF Owed
  <2>7. Owed(file) = 0 /\ (line = Garbled <=> cut = "prefix")
    BY <1>5 DEF Owed
  <2>8. CASE cut = "whole"
    BY <1>1, <1>2, <1>3, <2>5, <2>6, <2>7, <2>8 DEF Room, Cuts
  <2>9. CASE cut = "prefix"
    BY SMTT(30), <1>1, <1>2, <1>3, <2>5, <2>6, <2>7, <2>9 DEF Room, Cuts
  <2>10. CASE cut = "no_newline"
    BY SMTT(30), <1>1, <1>2, <1>3, <2>5, <2>6, <2>7, <2>10 DEF Room, Cuts
  <2> QED
    BY <2>8, <2>9, <2>10 DEF Cuts
<1> QED
  BY <1>1, <1>4, <1>5

LEMMA AppendRoom ==
  ASSUME TypeOK, RoomInv, NEW i \in Rows, NEW why \in Endings \cup {{s} : s \in Statuses}
  PROVE  /\ AppendRow(i, why) => Room(results')
         /\ AppendUsageRow(i, why) => Room(usage')
BY LineType, WrittenRoom DEF TypeOK, RoomInv, AppendRow, AppendUsageRow

LEMMA NextRoom == TypeOK /\ RoomInv /\ [Next]_vars => RoomInv'
<1> SUFFICES ASSUME TypeOK, RoomInv, [Next]_vars PROVE RoomInv'
  OBVIOUS
<1>1. UNCHANGED files => RoomInv'
  BY DEF files, RoomInv, Room, Owed, Intact
<1>2. UNCHANGED results => Room(results')
  BY DEF RoomInv, Room, Owed, Intact
<1>3. UNCHANGED usage => Room(usage')
  BY DEF RoomInv, Room, Owed, Intact
<1>4. ASSUME NEW p \in Procs, NEW phase, NEW status \in Statuses,
             RecordStatus(p, phase, status)
      PROVE  RoomInv'
  BY <1>1, <1>3, <1>4, AppendRoom DEF RecordStatus, RoomInv
<1>5. ASSUME NEW p \in Procs, RecordRun(p) PROVE RoomInv'
  BY <1>3, <1>5, AppendRoom, SweepAssumption DEF RecordRun, RoomInv, TypeOK
<1>6. ASSUME NEW p \in Procs, Ledger(p) PROVE RoomInv'
  <2>1. cur[p] \in Rows /\ {"ok"} \in Endings
    BY <1>6 DEF Ledger, TypeOK, Endings, RunReasons
  <2> QED
    BY <1>2, <1>6, <2>1, AppendRoom DEF Ledger, RoomInv
<1>7. ASSUME NEW p \in Procs,
             \/ Invoke(p) \/ ReadUnsupported(p) \/ ReadDone(p) \/ SkipMetered(p)
             \/ Launch(p) \/ Finish(p) \/ Crash(p)
      PROVE  RoomInv'
  BY <1>1, <1>7 DEF Invoke, ReadUnsupported, ReadDone, SkipMetered, Launch, Finish, Crash, files
<1>8. CASE UNCHANGED vars
  BY <1>1, <1>8 DEF vars
<1> QED
  BY <1>4, <1>5, <1>6, <1>7, <1>8
  DEF Next, Step, RecordImpossible, RecordUnsupported, Statuses

(***************************************************************************)
(* However many appends are cut, and whoever appends next, each cut costs  *)
(* two rows at most: its own, and the one written on the same line.        *)
(***************************************************************************)
THEOREM CutLosesAtMostTwoHolds == Spec => []CutLosesAtMostTwo
<1>1. Init => RoomInv
  <2> SUFFICES ASSUME Init PROVE RoomInv
    OBVIOUS
  <2>1. /\ results = Empty /\ usage = Empty
        /\ Empty.lines \in Seq(Lines) /\ Empty.lines = <<>>
        /\ ~Empty.open /\ Empty.appended = 0 /\ Empty.torn = 0
    BY DEF Init, Empty
  <2>2. Cardinality(Intact(Empty)) \in Nat
    BY <2>1, IntactFinite
  <2> HIDE DEF Empty
  <2> QED
    BY <2>1, <2>2 DEF RoomInv, Room, Owed
<1>2. TypeOK /\ RoomInv => CutLosesAtMostTwo
  <2> SUFFICES ASSUME TypeOK, RoomInv, NEW file \in {results, usage}
               PROVE  file.appended - Cardinality(Intact(file)) <= 2 * file.torn
    BY DEF CutLosesAtMostTwo
  <2>1. file.lines \in Seq(Lines) /\ file.appended \in Nat /\ file.torn \in Nat
    BY DEF TypeOK, Files
  <2>2. Cardinality(Intact(file)) \in Nat
    BY <2>1, IntactFinite
  <2>3. Room(file) /\ Owed(file) \in Nat
    BY DEF RoomInv, Owed
  <2> QED
    BY <2>1, <2>2, <2>3 DEF Room
<1> QED
  BY <1>1, <1>2, NextRoom, TypeCorrect, PTL DEF Spec

-----------------------------------------------------------------------------
(***************************************************************************)
(* The ledger against the corpus: a run whose row is on file is ledgered,  *)
(* or a sweep stands between the two appends, or one died there.           *)
(***************************************************************************)
Between == {p \in Procs : pc[p] = "ledger"}
BetweenAt(i) == {p \in Procs : pc[p] = "ledger" /\ cur[p] = i}

AllRuns == {k \in DOMAIN results.lines : results.lines[k].why \in Endings}

Balance ==
  /\ \A k \in DOMAIN usage.lines : usage.lines[k].row \in Rows
  /\ \A k \in AllRuns : results.lines[k].row \in Rows
  /\ \A i \in Rows :
       Cardinality(LedgeredOf(i)) + Cardinality(BetweenAt(i)) <= Cardinality(RunsOf(i))
  /\ Cardinality(AllRuns) <=
       Cardinality(DOMAIN usage.lines) + crashed + Cardinality(Between)

(* What is counted is finite.                                               *)
LEMMA Counted ==
  ASSUME TypeOK, IsFiniteSet(Procs)
  PROVE  /\ IsFiniteSet(Between) /\ IsFiniteSet(AllRuns) /\ IsFiniteSet(DOMAIN usage.lines)
         /\ {Cardinality(Between), Cardinality(AllRuns), Cardinality(DOMAIN usage.lines)}
              \subseteq Nat
         /\ \A i : /\ IsFiniteSet(BetweenAt(i)) /\ IsFiniteSet(RunsOf(i))
                   /\ IsFiniteSet(LedgeredOf(i))
                   /\ {Cardinality(BetweenAt(i)), Cardinality(RunsOf(i)),
                       Cardinality(LedgeredOf(i))} \subseteq Nat
<1>1. /\ Len(results.lines) \in Nat /\ DOMAIN results.lines = 1..Len(results.lines)
      /\ Len(usage.lines) \in Nat /\ DOMAIN usage.lines = 1..Len(usage.lines)
  BY DEF TypeOK, Files
<1>2. IsFiniteSet(DOMAIN results.lines) /\ IsFiniteSet(DOMAIN usage.lines)
  <2>1. \A n \in Nat : IsFiniteSet(1..n)
    BY UpTo
  <2> QED
    BY <1>1, <2>1
<1>3. \A S \in SUBSET (DOMAIN results.lines) : IsFiniteSet(S) /\ Cardinality(S) \in Nat
  BY <1>2, FS_Subset, FS_CardinalityType
<1>4. \A S \in SUBSET (DOMAIN usage.lines) : IsFiniteSet(S) /\ Cardinality(S) \in Nat
  BY <1>2, FS_Subset, FS_CardinalityType
<1>5. \A S \in SUBSET Procs : IsFiniteSet(S) /\ Cardinality(S) \in Nat
  BY FS_Subset, FS_CardinalityType
<1> QED
  BY <1>3, <1>4, <1>5 DEF Between, BetweenAt, AllRuns, RunsOf, LedgeredOf

(* Steps that append no run and no ledger row, and leave the sweeps between *)
(* the appends where they are.                                              *)
LEMMA BalanceFrame ==
  ASSUME Balance, UNCHANGED <<usage, crashed>>, AllRuns' = AllRuns,
         \A i \in Rows : RunsOf(i)' = RunsOf(i),
         \A k \in AllRuns : results'.lines[k].row = results.lines[k].row,
         Between' = Between, \A p \in Between : cur'[p] = cur[p]
  PROVE  Balance'
<1>1. \A i \in Rows : LedgeredOf(i)' = LedgeredOf(i) /\ BetweenAt(i)' = BetweenAt(i)
  BY DEF LedgeredOf, Between, BetweenAt
<1> QED
  BY <1>1 DEF Balance, Rows

(* What an appended row adds to the runs on file.                           *)
LEMMA AppendRuns ==
  ASSUME TypeOK, NEW r \in Rows, NEW why \in Endings \cup {{s} : s \in Statuses},
         results'.lines = Append(results.lines, Line(r, why))
  PROVE  LET n == Len(results.lines)
         IN /\ AllRuns' = AllRuns \cup (IF why \in Endings THEN {n + 1} ELSE {})
            /\ \A i \in Rows : RunsOf(i)' =
                 RunsOf(i) \cup (IF why \in Endings /\ i = r THEN {n + 1} ELSE {})
            /\ n + 1 \notin AllRuns /\ \A i \in Rows : n + 1 \notin RunsOf(i)
            /\ results'.lines[n + 1].row = r
            /\ \A k \in AllRuns : results'.lines[k] = results.lines[k]
<1> DEFINE n == Len(results.lines)
<1>1. /\ n \in Nat /\ DOMAIN results.lines = 1..n /\ DOMAIN results'.lines = 1..(n + 1)
      /\ results'.lines[n + 1] = Line(r, why)
      /\ \A k \in 1..n : results'.lines[k] = results.lines[k]
  BY LineType DEF TypeOK, Files
<1>2. Line(r, why).row = r /\ Line(r, why).why = why
  BY DEF Line
<1>3. AllRuns' = AllRuns \cup (IF why \in Endings THEN {n + 1} ELSE {})
  BY <1>1, <1>2 DEF AllRuns
<1>4. \A i \in Rows : RunsOf(i)' =
        RunsOf(i) \cup (IF why \in Endings /\ i = r THEN {n + 1} ELSE {})
  BY <1>1, <1>2 DEF RunsOf
<1>5. n + 1 \notin AllRuns /\ \A i \in Rows : n + 1 \notin RunsOf(i)
  BY <1>1 DEF AllRuns, RunsOf
<1> QED
  BY <1>1, <1>2, <1>3, <1>4, <1>5 DEF AllRuns

(* The same for the ledger.                                                 *)
LEMMA AppendLedger ==
  ASSUME TypeOK, NEW r \in Rows, usage'.lines = Append(usage.lines, Line(r, {"ok"}))
  PROVE  LET n == Len(usage.lines)
         IN /\ DOMAIN usage'.lines = DOMAIN usage.lines \cup {n + 1}
            /\ \A i \in Rows : LedgeredOf(i)' =
                 LedgeredOf(i) \cup (IF i = r THEN {n + 1} ELSE {})
            /\ n + 1 \notin DOMAIN usage.lines /\ \A i \in Rows : n + 1 \notin LedgeredOf(i)
            /\ usage'.lines[n + 1].row = r
            /\ \A k \in DOMAIN usage.lines : usage'.lines[k] = usage.lines[k]
<1> DEFINE n == Len(usage.lines)
<1>1. {"ok"} \in Endings
  BY DEF Endings, RunReasons
<1>2. /\ n \in Nat /\ DOMAIN usage.lines = 1..n /\ DOMAIN usage'.lines = 1..(n + 1)
      /\ usage'.lines[n + 1] = Line(r, {"ok"})
      /\ \A k \in 1..n : usage'.lines[k] = usage.lines[k]
  BY <1>1, LineType DEF TypeOK, Files
<1>3. Line(r, {"ok"}).row = r
  BY DEF Line
<1>4. \A i \in Rows : LedgeredOf(i)' = LedgeredOf(i) \cup (IF i = r THEN {n + 1} ELSE {})
  BY <1>2, <1>3 DEF LedgeredOf
<1>5. n + 1 \notin DOMAIN usage.lines /\ \A i \in Rows : n + 1 \notin LedgeredOf(i)
  BY <1>2 DEF LedgeredOf
<1> QED
  BY <1>2, <1>3, <1>4, <1>5

LEMMA NextBalance ==
  ASSUME MaxTears = 0, IsFiniteSet(Procs), TypeOK, Whole, Balance, [Next]_vars
  PROVE  Balance'
<1>1. ASSUME NEW S, IsFiniteSet(S), NEW x, x \notin S
      PROVE  Cardinality(S \cup {x}) = Cardinality(S) + 1
  BY <1>1, FS_AddElement
<1>9. ASSUME NEW S, IsFiniteSet(S), NEW x
      PROVE  /\ Cardinality(S \ {x}) \in Nat
             /\ Cardinality(S \ {x}) <= Cardinality(S)
             /\ Cardinality(S) <= Cardinality(S \ {x}) + 1
  <2>1. Cardinality(S) \in Nat
    BY <1>9, FS_CardinalityType
  <2>2. CASE x \in S
    <3>1. IsFiniteSet(S \ {x}) /\ Cardinality(S \ {x}) = Cardinality(S) - 1
      BY <1>9, <2>2, FS_RemoveElement
    <3>2. Cardinality(S \ {x}) \in Nat
      BY <3>1, FS_CardinalityType
    <3> QED
      BY <2>1, <3>1, <3>2
  <2>3. CASE x \notin S
    <3>1. S \ {x} = S
      BY <2>3
    <3> QED
      BY <2>1, <3>1
  <2> QED
    BY <2>2, <2>3
<1>2. results' = results => /\ AllRuns' = AllRuns /\ \A i \in Rows : RunsOf(i)' = RunsOf(i)
                            /\ \A k \in AllRuns : results'.lines[k].row = results.lines[k].row
  BY DEF AllRuns, RunsOf
<1>3. ASSUME NEW p \in Procs, NEW status \in Statuses,
             NEW phase \in {"impossible", "unsupported"}, RecordStatus(p, phase, status)
      PROVE  Balance'
  <2>1. UNCHANGED <<pc, cur, usage, crashed>>
    BY <1>3 DEF RecordStatus, files
  <2>2. {status} \notin Endings
    BY DEF Statuses, Endings, RunReasons
  <2>3. /\ AllRuns' = AllRuns /\ \A i \in Rows : RunsOf(i)' = RunsOf(i)
        /\ \A k \in AllRuns : results'.lines[k].row = results.lines[k].row
    <3>1. CASE results' = results
      BY <1>2, <3>1
    <3>2. ASSUME NEW r \in Rows, AppendRow(r, {status})
          PROVE  /\ AllRuns' = AllRuns /\ \A i \in Rows : RunsOf(i)' = RunsOf(i)
                 /\ \A k \in AllRuns : results'.lines[k].row = results.lines[k].row
      <4>1. PICK why \in Endings \cup {{s} : s \in Statuses} : why = {status}
        OBVIOUS
      <4>2. results'.lines = Append(results.lines, Line(r, why)) /\ why \notin Endings
        BY <2>2, <3>2, <4>1, AppendWhole
      <4>3. /\ AllRuns' = AllRuns \cup {}
            /\ \A i \in Rows : RunsOf(i)' = RunsOf(i) \cup {}
        BY <4>2, AppendRuns
      <4>4. \A k \in AllRuns : results'.lines[k] = results.lines[k]
        BY <4>2, AppendRuns
      <4> QED
        BY <4>3, <4>4
    <3> QED
      BY <1>3, <3>1, <3>2 DEF RecordStatus, files
  <2> QED
    BY <2>1, <2>3, BalanceFrame DEF Between
<1>4. ASSUME NEW p \in Procs, RecordRun(p) PROVE Balance'
  <2>1. PICK r \in Rows : r = cur[p]
    BY <1>4 DEF RecordRun, TypeOK
  <2>2. /\ pc[p] = "running" /\ pc' = [pc EXCEPT ![p] = "ledger"]
        /\ UNCHANGED <<usage, cur, crashed>> /\ \E why \in Endings : AppendRow(r, why)
    BY <1>4, <2>1, SweepAssumption DEF RecordRun
  <2> DEFINE n == Len(results.lines)
  <2>3. /\ AllRuns' = AllRuns \cup {n + 1} /\ n + 1 \notin AllRuns
        /\ \A i \in Rows : /\ RunsOf(i)' = RunsOf(i) \cup (IF i = r THEN {n + 1} ELSE {})
                           /\ n + 1 \notin RunsOf(i)
        /\ results'.lines[n + 1].row = r
        /\ \A k \in AllRuns : results'.lines[k] = results.lines[k]
    BY <2>2, AppendWhole, AppendRuns
  <2>4. /\ Between' = Between \cup {p} /\ p \notin Between
        /\ \A i \in Rows : /\ BetweenAt(i)' = BetweenAt(i) \cup (IF i = r THEN {p} ELSE {})
                           /\ p \notin BetweenAt(i)
    BY <2>1, <2>2 DEF Between, BetweenAt, TypeOK
  <2>5. \A i \in Rows : LedgeredOf(i)' = LedgeredOf(i)
    BY <2>2 DEF LedgeredOf
  <2> HIDE DEF n
  <2>6. /\ Cardinality(AllRuns') = Cardinality(AllRuns) + 1
        /\ Cardinality(Between') = Cardinality(Between) + 1
    BY <1>1, <2>3, <2>4, Counted
  <2>7. ASSUME NEW i \in Rows
        PROVE  Cardinality(LedgeredOf(i)') + Cardinality(BetweenAt(i)') <= Cardinality(RunsOf(i)')
    <3>1. CASE i = r
      <4>1. RunsOf(i)' = RunsOf(i) \cup {n + 1} /\ BetweenAt(i)' = BetweenAt(i) \cup {p}
        BY <2>3, <2>4, <3>1
      <4>2. /\ Cardinality(RunsOf(i)') = Cardinality(RunsOf(i)) + 1
            /\ Cardinality(BetweenAt(i)') = Cardinality(BetweenAt(i)) + 1
        BY <1>1, <2>3, <2>4, <4>1, Counted
      <4> QED
        BY <2>5, <4>2, Counted DEF Balance
    <3>2. CASE i # r
      <4>1. RunsOf(i)' = RunsOf(i) /\ BetweenAt(i)' = BetweenAt(i)
        BY <2>3, <2>4, <3>2
      <4> QED
        BY <2>5, <4>1 DEF Balance
    <3> QED
      BY <3>1, <3>2
  <2>8. Cardinality(AllRuns') <=
          Cardinality(DOMAIN usage'.lines) + crashed' + Cardinality(Between')
    <3>1. DOMAIN usage'.lines = DOMAIN usage.lines /\ crashed' = crashed
      BY <2>2
    <3>2. /\ Cardinality(AllRuns) \in Nat /\ Cardinality(Between) \in Nat
          /\ Cardinality(DOMAIN usage.lines) \in Nat /\ crashed \in Nat
      BY Counted DEF TypeOK
    <3>3. Cardinality(AllRuns) <=
            Cardinality(DOMAIN usage.lines) + crashed + Cardinality(Between)
      BY DEF Balance
    <3> QED
      BY <2>6, <3>1, <3>2, <3>3
  <2>9. \A k \in AllRuns' : results'.lines[k].row \in Rows
    BY <2>3 DEF Balance
  <2>10. \A k \in DOMAIN usage'.lines : usage'.lines[k].row \in Rows
    BY <2>2 DEF Balance
  <2> QED
    BY <2>7, <2>8, <2>9, <2>10 DEF Balance, Rows
<1>5. ASSUME NEW p \in Procs, Ledger(p) PROVE Balance'
  <2>1. PICK r \in Rows : r = cur[p]
    BY <1>5 DEF Ledger, TypeOK
  <2>2. /\ pc[p] = "ledger" /\ pc' = [pc EXCEPT ![p] = "loop"]
        /\ cur' = [cur EXCEPT ![p] = 0]
        /\ UNCHANGED <<results, crashed>> /\ AppendUsageRow(r, {"ok"})
    BY <1>5, <2>1 DEF Ledger
  <2> DEFINE n == Len(usage.lines)
  <2>3. {"ok"} \in Endings
    BY DEF Endings, RunReasons
  <2>4. /\ DOMAIN usage'.lines = DOMAIN usage.lines \cup {n + 1} /\ n + 1 \notin DOMAIN usage.lines
        /\ \A i \in Rows : /\ LedgeredOf(i)' = LedgeredOf(i) \cup (IF i = r THEN {n + 1} ELSE {})
                           /\ n + 1 \notin LedgeredOf(i)
        /\ usage'.lines[n + 1].row = r
        /\ \A k \in DOMAIN usage.lines : usage'.lines[k] = usage.lines[k]
    <3>1. usage'.lines = Append(usage.lines, Line(r, {"ok"}))
      <4>1. \A cut \in Cuts : MayCut(cut) => cut = "whole"
        BY DEF MayCut, TypeOK, Files
      <4>2. usage' = Written(usage, Line(r, {"ok"}), "whole")
        BY <2>2, <4>1 DEF AppendUsageRow
      <4> QED
        BY <4>2 DEF Written, Whole
    <3> QED
      BY <3>1, AppendLedger
  <2>5. /\ Between' = Between \ {p} /\ p \in Between
        /\ BetweenAt(r)' = BetweenAt(r) \ {p} /\ p \in BetweenAt(r)
        /\ \A i \in Rows : i # r => BetweenAt(i)' = BetweenAt(i)
    BY <2>1, <2>2 DEF Between, BetweenAt, TypeOK, Rows
  <2> HIDE DEF n
  <2>6. /\ Cardinality(DOMAIN usage'.lines) = Cardinality(DOMAIN usage.lines) + 1
        /\ Cardinality(Between') = Cardinality(Between) - 1
        /\ Cardinality(BetweenAt(r)') = Cardinality(BetweenAt(r)) - 1
    <3>1. Cardinality(DOMAIN usage'.lines) = Cardinality(DOMAIN usage.lines) + 1
      BY <1>1, <2>4, Counted
    <3>2. Cardinality(Between \ {p}) = Cardinality(Between) - 1
      BY <2>5, Counted, FS_RemoveElement
    <3>3. Cardinality(BetweenAt(r) \ {p}) = Cardinality(BetweenAt(r)) - 1
      BY <2>5, Counted, FS_RemoveElement
    <3> QED
      BY <2>5, <3>1, <3>2, <3>3
  <2>7. ASSUME NEW i \in Rows
        PROVE  Cardinality(LedgeredOf(i)') + Cardinality(BetweenAt(i)') <= Cardinality(RunsOf(i)')
    <3>1. RunsOf(i)' = RunsOf(i)
      BY <1>2, <2>2
    <3>2. CASE i = r
      <4>1. LedgeredOf(i)' = LedgeredOf(i) \cup {n + 1} /\ n + 1 \notin LedgeredOf(i)
        BY <2>4, <3>2
      <4>2. Cardinality(LedgeredOf(i)') = Cardinality(LedgeredOf(i)) + 1
        BY <1>1, <4>1, Counted
      <4>3. Cardinality(BetweenAt(i)') = Cardinality(BetweenAt(i)) - 1
        BY <2>6, <3>2
      <4> QED
        BY <3>1, <4>2, <4>3, Counted DEF Balance
    <3>3. CASE i # r
      <4>1. LedgeredOf(i)' = LedgeredOf(i) /\ BetweenAt(i)' = BetweenAt(i)
        BY <2>4, <2>5, <3>3
      <4> QED
        BY <3>1, <4>1 DEF Balance
    <3> QED
      BY <3>2, <3>3
  <2>8. Cardinality(AllRuns') <=
          Cardinality(DOMAIN usage'.lines) + crashed' + Cardinality(Between')
    BY SMTT(30), <1>2, <2>2, <2>6, Counted DEF Balance, TypeOK
  <2>9. \A k \in AllRuns' : results'.lines[k].row \in Rows
    BY <1>2, <2>2 DEF Balance
  <2>10. \A k \in DOMAIN usage'.lines : usage'.lines[k].row \in Rows
    BY <2>4 DEF Balance
  <2> QED
    BY <2>7, <2>8, <2>9, <2>10 DEF Balance, Rows
<1>6. ASSUME NEW p \in Procs, Crash(p) PROVE Balance'
  <2>1. /\ UNCHANGED <<results, usage>> /\ crashed' = crashed + 1
        /\ pc' = [pc EXCEPT ![p] = "idle"] /\ cur' = [cur EXCEPT ![p] = 0]
    BY <1>6 DEF Crash, files
  <2>2. Between' = Between \ {p} /\ \A i \in Rows : BetweenAt(i)' = BetweenAt(i) \ {p}
    BY <2>1 DEF Between, BetweenAt, TypeOK
  <2>3. /\ Cardinality(Between') + 1 >= Cardinality(Between)
        /\ Cardinality(Between') \in Nat
    <3>1. IsFiniteSet(Between)
      BY Counted
    <3> QED
      BY <1>9, <2>2, <3>1
  <2>4. \A i \in Rows : /\ Cardinality(BetweenAt(i)') <= Cardinality(BetweenAt(i))
                       /\ Cardinality(BetweenAt(i)') \in Nat
    <3> SUFFICES ASSUME NEW i \in Rows
                 PROVE  /\ Cardinality(BetweenAt(i)') <= Cardinality(BetweenAt(i))
                        /\ Cardinality(BetweenAt(i)') \in Nat
      OBVIOUS
    <3>1. IsFiniteSet(BetweenAt(i))
      BY Counted
    <3>2. BetweenAt(i)' = BetweenAt(i) \ {p}
      BY <2>2
    <3> QED
      BY <1>9, <3>1, <3>2
  <2>5. \A i \in Rows : LedgeredOf(i)' = LedgeredOf(i) /\ RunsOf(i)' = RunsOf(i)
    BY <2>1 DEF LedgeredOf, RunsOf
  <2>6. \A i \in Rows :
          Cardinality(LedgeredOf(i)') + Cardinality(BetweenAt(i)') <= Cardinality(RunsOf(i)')
    BY <2>4, <2>5, Counted DEF Balance
  <2>7. Cardinality(AllRuns') <=
          Cardinality(DOMAIN usage'.lines) + crashed' + Cardinality(Between')
    BY SMTT(30), <1>2, <2>1, <2>3, Counted DEF Balance, TypeOK
  <2> QED
    BY <1>2, <2>1, <2>6, <2>7 DEF Balance, Rows
<1>7. ASSUME NEW p \in Procs,
             \/ Invoke(p) \/ ReadUnsupported(p) \/ ReadDone(p) \/ SkipMetered(p)
             \/ Launch(p) \/ Finish(p)
      PROVE  Balance'
  <2>1. /\ UNCHANGED <<results, usage, crashed>> /\ pc[p] # "ledger" /\ pc'[p] # "ledger"
        /\ \A q \in Procs \ {p} : pc'[q] = pc[q] /\ cur'[q] = cur[q]
    BY <1>7 DEF Invoke, Stopped, ReadUnsupported, ReadDone, SkipMetered, Launch, Finish, files,
                TypeOK
  <2> QED
    BY <1>2, <2>1, BalanceFrame DEF Between
<1>8. CASE UNCHANGED vars
  BY <1>2, <1>8, BalanceFrame DEF vars, files, procs, Between
<1> QED
  BY <1>3, <1>4, <1>5, <1>6, <1>7, <1>8
  DEF Next, Step, RecordImpossible, RecordUnsupported, Statuses

(***************************************************************************)
(* The meter misses a run only when a process died between the appends.    *)
(***************************************************************************)
THEOREM LedgerGapHolds ==
  ASSUME MaxTears = 0, IsFiniteSet(Procs)
  PROVE  Spec => []LedgerGap
<1>1. Init => Whole /\ Balance
  <2> SUFFICES ASSUME Init PROVE Whole /\ Balance
    OBVIOUS
  <2>1. /\ results.lines = <<>> /\ usage.lines = <<>> /\ Whole /\ crashed = 0
        /\ \A p \in Procs : pc[p] = "idle"
    BY DEF Init, Empty, Whole
  <2>2. /\ AllRuns = {} /\ DOMAIN usage.lines = {} /\ Between = {}
        /\ \A i \in Rows : LedgeredOf(i) = {} /\ BetweenAt(i) = {} /\ RunsOf(i) = {}
    BY <2>1 DEF AllRuns, Between, BetweenAt, LedgeredOf, RunsOf
  <2>3. Cardinality({}) = 0
    BY FS_EmptySet
  <2>4. \A i \in Rows :
          Cardinality(LedgeredOf(i)) + Cardinality(BetweenAt(i)) <= Cardinality(RunsOf(i))
    BY <2>2, <2>3
  <2>5. Cardinality(AllRuns) <=
          Cardinality(DOMAIN usage.lines) + crashed + Cardinality(Between)
    BY <2>1, <2>2, <2>3
  <2> QED
    BY <2>1, <2>2, <2>4, <2>5 DEF Balance
<1>2. TypeOK /\ Balance => LedgerGap
  <2> SUFFICES ASSUME TypeOK, Balance PROVE LedgerGap
    OBVIOUS
  <2>1. /\ UNION {RunsOf(i) : i \in Rows} = AllRuns
        /\ UNION {LedgeredOf(i) : i \in Rows} = DOMAIN usage.lines
    BY DEF Balance, RunsOf, AllRuns, LedgeredOf
  <2>2. \A i \in Rows : Cardinality(LedgeredOf(i)) <= Cardinality(RunsOf(i))
    BY Counted DEF Balance
  <2> QED
    BY <2>1, <2>2 DEF LedgerGap, Balance, Between
<1>3. MaxTears = 0 /\ IsFiniteSet(Procs) /\ TypeOK /\ Whole /\ Balance /\ [Next]_vars
        => Balance'
  BY NextBalance
<1> QED
  BY <1>1, <1>2, <1>3, NextWhole, TypeCorrect, PTL DEF Spec

-----------------------------------------------------------------------------
(***************************************************************************)
(* Sums over finite sets.                                                  *)
(***************************************************************************)

(* Induction, for a set of numbers: a least number outside of it would have *)
(* a predecessor in it.                                                     *)
LEMMA Induction ==
  ASSUME NEW S, 0 \in S, \A n \in S \cap Nat : n + 1 \in S
  PROVE  Nat \subseteq S
<1> DEFINE T == {n \in Nat : n \notin S}
<1> SUFFICES ASSUME T # {}
             PROVE  FALSE
  OBVIOUS
<1>1. \E x \in T : \A y \in T : ~(<<y, x>> \in OpToRel(<, Nat))
  BY NatLessThanWellFounded, WFMin
<1>2. PICK x \in T : \A y \in T : ~(<<y, x>> \in OpToRel(<, Nat))
  BY <1>1
<1>3. x \in Nat /\ x # 0 /\ x - 1 \in Nat /\ x - 1 < x
  OBVIOUS
<1>4. x - 1 \notin T
  BY <1>2, <1>3 DEF OpToRel
<1>5. x - 1 \in S
  BY <1>3, <1>4
<1>6. (x - 1) + 1 \in S
  BY <1>3, <1>5
<1> QED
  BY <1>3, <1>6

LEMMA OneLess ==
  ASSUME NEW S, IsFiniteSet(S), NEW s \in SUBSET S, NEW x \in s
  PROVE  /\ s \ {x} \in SUBSET S /\ IsFiniteSet(s) /\ IsFiniteSet(s \ {x})
         /\ Cardinality(s) \in Nat /\ Cardinality(s) > 0
         /\ Cardinality(s \ {x}) = Cardinality(s) - 1
         /\ Cardinality(s \ {x}) \in Nat
<1>1. IsFiniteSet(s) /\ Cardinality(s) \in Nat
  BY FS_Subset, FS_CardinalityType
<1>2. IsFiniteSet(s \ {x}) /\ Cardinality(s \ {x}) = Cardinality(s) - 1
  BY <1>1, FS_RemoveElement
<1>3. Cardinality(s \ {x}) \in Nat
  BY <1>2, FS_CardinalityType
<1> QED
  BY <1>1, <1>2, <1>3

LEMMA NoneLeft ==
  ASSUME NEW s, IsFiniteSet(s), Cardinality(s) <= 0
  PROVE  s = {}
<1>1. Cardinality(s) \in Nat
  BY FS_CardinalityType
<1>2. Cardinality(s) = 0
  BY <1>1
<1> QED
  BY <1>2, FS_EmptySet

Chosen(s) == CHOOSE x \in s : TRUE

LEMMA ChosenIn ==
  ASSUME NEW s, s # {}
  PROVE  Chosen(s) \in s
BY DEF Chosen

(* One turn of a sum over s, after the sums g of its subsets.               *)
Adding(f, s, g) == IF s = {} THEN 0 ELSE f[Chosen(s)] + g[s \ {Chosen(s)}]

SumsOf(f, S, g) == g = [s \in SUBSET S |-> Adding(f, s, g)]

LEMMA SumsExist ==
  ASSUME NEW f, NEW S, IsFiniteSet(S)
  PROVE  \E g : SumsOf(f, S, g)
<1> DEFINE Layer(n) == {s \in SUBSET S : Cardinality(s) <= n}
           P == {n \in Nat : \E g : g = [s \in Layer(n) |-> Adding(f, s, g)]}
<1>1. 0 \in P
  <2> DEFINE g == [s \in Layer(0) |-> 0]
  <2>1. \A s \in Layer(0) : s = {}
    BY NoneLeft, FS_Subset
  <2>2. g = [s \in Layer(0) |-> Adding(f, s, g)]
    BY <2>1 DEF Adding
  <2> QED
    BY <2>2
<1>2. ASSUME NEW n \in P \cap Nat PROVE n + 1 \in P
  <2>1. PICK g : g = [s \in Layer(n) |-> Adding(f, s, g)]
    OBVIOUS
  <2> DEFINE h == [s \in Layer(n + 1) |-> IF s \in Layer(n) THEN g[s]
                                          ELSE f[Chosen(s)] + g[s \ {Chosen(s)}]]
  <2>2. ASSUME NEW s \in Layer(n + 1), s # {}
        PROVE  s \ {Chosen(s)} \in Layer(n) /\ s \ {Chosen(s)} \in Layer(n + 1)
    <3>1. Chosen(s) \in s
      BY <2>2, ChosenIn
    <3>2. s \in SUBSET S /\ Cardinality(s) <= n + 1
      OBVIOUS
    <3> HIDE DEF Layer, P
    <3>3. /\ s \ {Chosen(s)} \in SUBSET S /\ Cardinality(s) \in Nat
          /\ Cardinality(s \ {Chosen(s)}) = Cardinality(s) - 1
          /\ Cardinality(s \ {Chosen(s)}) \in Nat
      BY <3>1, <3>2, OneLess
    <3>4. /\ Cardinality(s \ {Chosen(s)}) <= n /\ Cardinality(s \ {Chosen(s)}) <= n + 1
      BY <3>2, <3>3
    <3> QED
      BY <3>3, <3>4 DEF Layer
  <2>3. ASSUME NEW s \in Layer(n) PROVE s \in Layer(n + 1)
    <3>1. Cardinality(s) \in Nat
      BY FS_Subset, FS_CardinalityType
    <3> QED
      BY <3>1
  <2>4. \A s \in Layer(n) : h[s] = g[s] /\ g[s] = Adding(f, s, g)
    BY <2>1, <2>3
  <2>5. ASSUME NEW s \in Layer(n + 1) PROVE h[s] = Adding(f, s, h)
    <3>1. CASE s = {}
      <4>1. s \in Layer(n)
        BY <3>1, FS_EmptySet
      <4> QED
        BY <2>4, <3>1, <4>1 DEF Adding
    <3>2. CASE s # {} /\ s \in Layer(n)
      BY <2>2, <2>4, <3>2 DEF Adding
    <3>3. CASE s # {} /\ s \notin Layer(n)
      <4>1. h[s] = f[Chosen(s)] + g[s \ {Chosen(s)}]
        BY <3>3
      <4> QED
        BY <2>2, <2>4, <3>3, <4>1 DEF Adding
    <3> QED
      BY <3>1, <3>2, <3>3
  <2> HIDE DEF Layer
  <2>6. h = [s \in Layer(n + 1) |-> Adding(f, s, h)]
    BY <2>5
  <2> HIDE DEF h
  <2> QED
    BY <2>6
<1>3. Cardinality(S) \in P
  <2>1. Nat \subseteq P
    BY <1>1, <1>2, Induction
  <2> QED
    BY <2>1, FS_CardinalityType
<1>4. Layer(Cardinality(S)) = SUBSET S
  BY FS_Subset
<1> QED
  BY <1>3, <1>4 DEF SumsOf

(* Sums of equal numbers are equal.                                         *)
LEMMA SumsAgree ==
  ASSUME NEW f, NEW e, NEW S, NEW T, IsFiniteSet(S), S \subseteq T, \A x \in S : f[x] = e[x],
         NEW g, SumsOf(f, S, g), NEW h, SumsOf(e, T, h)
  PROVE  g[S] = h[S]
<1> DEFINE P == {n \in Nat : \A s \in SUBSET S : Cardinality(s) <= n => g[s] = h[s]}
<1>1. \A s \in SUBSET S : g[s] = Adding(f, s, g) /\ h[s] = Adding(e, s, h)
  <2>1. \A s \in SUBSET S : g[s] = Adding(f, s, g)
    BY DEF SumsOf
  <2>2. \A s \in SUBSET T : h[s] = Adding(e, s, h)
    BY DEF SumsOf
  <2> QED
    BY <2>1, <2>2
<1>2. 0 \in P
  <2>1. ASSUME NEW s \in SUBSET S, Cardinality(s) <= 0 PROVE g[s] = h[s]
    <3>1. s = {}
      BY <2>1, NoneLeft, FS_Subset
    <3> QED
      BY <1>1, <3>1 DEF Adding
  <2> QED
    BY <2>1
<1>3. ASSUME NEW n \in P \cap Nat PROVE n + 1 \in P
  <2>1. ASSUME NEW s \in SUBSET S, Cardinality(s) <= n + 1 PROVE g[s] = h[s]
    <3>1. CASE s = {}
      BY <1>1, <3>1 DEF Adding
    <3>2. CASE s # {}
      <4>1. Chosen(s) \in s
        BY <3>2, ChosenIn
      <4>2. /\ s \ {Chosen(s)} \in SUBSET S /\ Cardinality(s) \in Nat
            /\ Cardinality(s \ {Chosen(s)}) = Cardinality(s) - 1
        BY <4>1, OneLess
      <4>20. n \in Nat
        OBVIOUS
      <4>21. Cardinality(s \ {Chosen(s)}) <= n
        BY <2>1, <4>2, <4>20
      <4>3. g[s \ {Chosen(s)}] = h[s \ {Chosen(s)}]
        BY <4>2, <4>21
      <4>4. f[Chosen(s)] = e[Chosen(s)]
        BY <4>1
      <4> QED
        BY <1>1, <3>2, <4>3, <4>4 DEF Adding
    <3> QED
      BY <3>1, <3>2
  <2> QED
    BY <2>1
<1>4. Cardinality(S) \in P
  <2>1. Nat \subseteq P
    BY <1>2, <1>3, Induction
  <2> QED
    BY <2>1, FS_CardinalityType
<1>5. Cardinality(S) <= Cardinality(S)
  BY FS_CardinalityType
<1> QED
  BY <1>4, <1>5

Sum(f, S) == SumFunctionOnSet(f, S)

LEMMA SumIs ==
  ASSUME NEW f, NEW S, IsFiniteSet(S)
  PROVE  \E g : SumsOf(f, S, g) /\ Sum(f, S) = g[S]
<1> DEFINE g == CHOOSE g : SumsOf(f, S, g)
<1>1. SumsOf(f, S, g)
  BY SumsExist
<1>2. Sum(f, S) = (CHOOSE h : h = [s \in SUBSET S |-> Adding(f, s, h)])[S]
  BY DEF Sum, SumFunctionOnSet, FoldFunctionOnSet, MapThenFoldSet, Adding, Chosen
<1>3. Sum(f, S) = g[S]
  BY <1>2 DEF SumsOf
<1> QED
  BY <1>1, <1>3

LEMMA SumsOfEqual ==
  ASSUME NEW f, NEW e, NEW S, IsFiniteSet(S), \A x \in S : f[x] = e[x]
  PROVE  Sum(f, S) = Sum(e, S)
<1>1. PICK g : SumsOf(f, S, g) /\ Sum(f, S) = g[S]
  BY SumIs
<1>2. PICK h : SumsOf(e, S, h) /\ Sum(e, S) = h[S]
  BY SumIs
<1> QED
  BY <1>1, <1>2, SumsAgree

LEMMA SumTurn ==
  ASSUME NEW f, NEW S, IsFiniteSet(S)
  PROVE  Sum(f, S) = IF S = {} THEN 0 ELSE f[Chosen(S)] + Sum(f, S \ {Chosen(S)})
<1>1. PICK g : SumsOf(f, S, g) /\ Sum(f, S) = g[S]
  BY SumIs
<1>2. g[S] = Adding(f, S, g)
  BY <1>1 DEF SumsOf
<1>3. CASE S = {}
  BY <1>1, <1>2, <1>3 DEF Adding
<1>4. CASE S # {}
  <2> DEFINE T == S \ {Chosen(S)}
  <2>1. Chosen(S) \in S /\ T \subseteq S /\ IsFiniteSet(T)
    BY <1>4, ChosenIn, FS_Subset
  <2>2. PICK h : SumsOf(f, T, h) /\ Sum(f, T) = h[T]
    BY <2>1, SumIs
  <2>3. h[T] = g[T]
    BY <1>1, <2>1, <2>2, SumsAgree
  <2> QED
    BY <1>1, <1>2, <1>4, <2>2, <2>3 DEF Adding
<1> QED
  BY <1>3, <1>4

LEMMA SumOfNone ==
  ASSUME NEW f
  PROVE  Sum(f, {}) = 0
BY SumTurn, FS_EmptySet

(* A sum is a number, and any of its terms may be taken first.              *)
LEMMA SumTake ==
  ASSUME NEW f, NEW S, IsFiniteSet(S), \A x \in S : f[x] \in Nat
  PROVE  Sum(f, S) \in Nat /\ \A x \in S : Sum(f, S) = f[x] + Sum(f, S \ {x})
<1> DEFINE Right(s) == Sum(f, s) \in Nat /\ \A x \in s : Sum(f, s) = f[x] + Sum(f, s \ {x})
           P == {n \in Nat : \A s \in SUBSET S : Cardinality(s) <= n => Right(s)}
<1>1. 0 \in P
  <2>1. ASSUME NEW s \in SUBSET S, Cardinality(s) <= 0 PROVE Right(s)
    <3>1. s = {}
      BY <2>1, NoneLeft, FS_Subset
    <3> QED
      BY <3>1, SumOfNone
  <2> QED
    BY <2>1
<1>2. ASSUME NEW n \in P \cap Nat PROVE n + 1 \in P
  <2>1. ASSUME NEW s \in SUBSET S, Cardinality(s) <= n + 1, NEW x \in s
        PROVE  s \ {x} \in SUBSET S /\ Cardinality(s \ {x}) <= n /\ Right(s \ {x})
    <3> HIDE DEF Right
    <3>1. /\ s \ {x} \in SUBSET S /\ Cardinality(s) \in Nat
          /\ Cardinality(s \ {x}) = Cardinality(s) - 1
      BY OneLess
    <3>2. n \in Nat
      OBVIOUS
    <3>3. Cardinality(s \ {x}) <= n
      BY <2>1, <3>1, <3>2
    <3> QED
      BY <3>1, <3>3
  <2>2. ASSUME NEW s \in SUBSET S, Cardinality(s) <= n + 1 PROVE Right(s)
    <3> DEFINE c == Chosen(s)
    <3>1. CASE s = {}
      BY <3>1, SumOfNone
    <3>2. CASE s # {}
      <4>1. c \in s /\ f[c] \in Nat
        BY <3>2, ChosenIn
      <4>2. IsFiniteSet(s)
        BY FS_Subset
      <4>3. Sum(f, s) = f[c] + Sum(f, s \ {c})
        BY <3>2, <4>2, SumTurn
      <4> HIDE DEF c
      <4>4. Right(s \ {c})
        BY <2>1, <2>2, <4>1
      <4>5. Sum(f, s) \in Nat
        BY <4>1, <4>3, <4>4
      <4>6. ASSUME NEW x \in s PROVE Sum(f, s) = f[x] + Sum(f, s \ {x})
        <5>1. CASE x = c
          BY <4>3, <5>1
        <5>2. CASE x # c
          <6>1. x \in s \ {c} /\ c \in s \ {x} /\ f[x] \in Nat /\ f[c] \in Nat
            BY <4>1, <5>2
          <6>2. Right(s \ {x})
            BY <2>1, <2>2
          <6>3. Sum(f, s \ {c}) = f[x] + Sum(f, (s \ {c}) \ {x})
            BY <4>4, <6>1
          <6>4. Sum(f, s \ {x}) = f[c] + Sum(f, (s \ {x}) \ {c})
            BY <6>1, <6>2
          <6>5. (s \ {c}) \ {x} = (s \ {x}) \ {c}
            OBVIOUS
          <6>6. ((s \ {x}) \ {c}) \in SUBSET S /\ Sum(f, (s \ {x}) \ {c}) \in Nat
            <7>1. Right((s \ {x}) \ {c})
              <8>1. s \ {x} \in SUBSET S /\ Cardinality(s \ {x}) <= n /\ n \in Nat
                BY <2>1, <2>2
              <8>2. (s \ {x}) \ {c} \in SUBSET S
                OBVIOUS
              <8>3. /\ Cardinality(s \ {x}) \in Nat
                    /\ Cardinality((s \ {x}) \ {c}) = Cardinality(s \ {x}) - 1
                BY <6>1, <8>1, OneLess
              <8>4. Cardinality((s \ {x}) \ {c}) <= n
                BY <8>1, <8>3
              <8> QED
                BY <8>2, <8>4
            <7> QED
              BY <7>1
          <6> QED
            BY <4>3, <6>1, <6>3, <6>4, <6>5, <6>6
        <5> QED
          BY <5>1, <5>2
      <4> QED
        BY <4>5, <4>6
    <3> QED
      BY <3>1, <3>2
  <2> QED
    BY <2>2
<1>3. Cardinality(S) \in P
  <2>1. Nat \subseteq P
    BY <1>1, <1>2, Induction
  <2> QED
    BY <2>1, FS_CardinalityType
<1>4. Cardinality(S) <= Cardinality(S)
  BY FS_CardinalityType
<1> QED
  BY <1>3, <1>4

LEMMA SumType ==
  ASSUME NEW f, NEW S, IsFiniteSet(S), \A x \in S : f[x] \in Nat
  PROVE  Sum(f, S) \in Nat
BY SumTake

LEMMA SumOfTwo ==
  ASSUME NEW f, NEW A, IsFiniteSet(A), NEW B, IsFiniteSet(B), A \cap B = {},
         \A x \in A \cup B : f[x] \in Nat
  PROVE  Sum(f, A \cup B) = Sum(f, A) + Sum(f, B)
<1> DEFINE P == {n \in Nat : \A s \in SUBSET B :
                   Cardinality(s) <= n => Sum(f, A \cup s) = Sum(f, A) + Sum(f, s)}
<1>1. Sum(f, A) \in Nat
  BY SumType
<1>2. 0 \in P
  <2>1. ASSUME NEW s \in SUBSET B, Cardinality(s) <= 0
        PROVE  Sum(f, A \cup s) = Sum(f, A) + Sum(f, s)
    <3>1. s = {}
      BY <2>1, NoneLeft, FS_Subset
    <3>2. A \cup s = A /\ Sum(f, s) = 0
      BY <3>1, SumOfNone
    <3> QED
      BY <1>1, <3>2
  <2> QED
    BY <2>1
<1>3. ASSUME NEW n \in P \cap Nat PROVE n + 1 \in P
  <2>1. ASSUME NEW s \in SUBSET B, Cardinality(s) <= n + 1
        PROVE  Sum(f, A \cup s) = Sum(f, A) + Sum(f, s)
    <3>1. CASE s = {}
      <4>1. A \cup s = A /\ Sum(f, s) = 0
        BY <3>1, SumOfNone
      <4> QED
        BY <1>1, <4>1
    <3>2. CASE s # {}
      <4>1. PICK x : x \in s
        BY <3>2
      <4>2. /\ s \ {x} \in SUBSET B /\ IsFiniteSet(s) /\ Cardinality(s) \in Nat
            /\ Cardinality(s \ {x}) = Cardinality(s) - 1
        BY <4>1, OneLess
      <4>3. n \in Nat
        OBVIOUS
      <4>4. Cardinality(s \ {x}) <= n
        BY <2>1, <4>2, <4>3
      <4>5. Sum(f, A \cup (s \ {x})) = Sum(f, A) + Sum(f, s \ {x})
        BY <4>2, <4>4
      <4>6. IsFiniteSet(A \cup s) /\ x \in A \cup s /\ (A \cup s) \ {x} = A \cup (s \ {x})
        BY <4>1, <4>2, FS_Union
      <4>7. Sum(f, A \cup s) = f[x] + Sum(f, A \cup (s \ {x}))
        BY <4>6, SumTake
      <4>8. Sum(f, s) = f[x] + Sum(f, s \ {x})
        BY <4>1, <4>2, SumTake
      <4>9. f[x] \in Nat /\ Sum(f, s \ {x}) \in Nat
        <5>1. IsFiniteSet(s \ {x})
          BY <4>2, FS_Subset
        <5> QED
          BY <4>1, <5>1, SumType
      <4> QED
        BY <1>1, <4>5, <4>7, <4>8, <4>9
    <3> QED
      BY <3>1, <3>2
  <2> QED
    BY <2>1
<1>4. Cardinality(B) \in P
  <2>1. Nat \subseteq P
    BY <1>2, <1>3, Induction
  <2> QED
    BY <2>1, FS_CardinalityType
<1>5. Cardinality(B) <= Cardinality(B)
  BY FS_CardinalityType
<1> QED
  BY <1>4, <1>5

(* What is summed per part adds up to the sum of the whole.                 *)
LEMMA SumOfParts ==
  ASSUME NEW T, IsFiniteSet(T), NEW G, NEW f, NEW N,
         \A t \in T : IsFiniteSet(G[t]) /\ \A x \in G[t] : f[x] \in Nat,
         \A t, u \in T : t # u => G[t] \cap G[u] = {},
         \A t \in T : N[t] = Sum(f, G[t])
  PROVE  Sum(N, T) = Sum(f, UNION {G[t] : t \in T}) /\ IsFiniteSet(UNION {G[t] : t \in T})
<1> DEFINE Union(s) == UNION {G[t] : t \in s}
           Right(s) == Sum(N, s) = Sum(f, Union(s)) /\ IsFiniteSet(Union(s))
           P == {n \in Nat : \A s \in SUBSET T : Cardinality(s) <= n => Right(s)}
<1>0. Right({})
  <2>1. Union({}) = {}
    OBVIOUS
  <2> QED
    BY <2>1, SumOfNone, FS_EmptySet
<1>1. 0 \in P
  <2>1. ASSUME NEW s \in SUBSET T, Cardinality(s) <= 0 PROVE Right(s)
    <3>1. s = {}
      BY <2>1, NoneLeft, FS_Subset
    <3> QED
      BY <1>0, <3>1
  <2> QED
    BY <2>1
<1>2. \A t \in T : N[t] \in Nat
  BY SumType
<1>3. ASSUME NEW n \in P \cap Nat PROVE n + 1 \in P
  <2>1. ASSUME NEW s \in SUBSET T, Cardinality(s) <= n + 1 PROVE Right(s)
    <3>1. CASE s = {}
      BY <1>0, <3>1
    <3>2. CASE s # {}
      <4>1. PICK t : t \in s
        BY <3>2
      <4> DEFINE r == s \ {t}
      <4>2. /\ r \in SUBSET T /\ IsFiniteSet(s) /\ Cardinality(s) \in Nat
            /\ Cardinality(r) = Cardinality(s) - 1
        BY <4>1, OneLess
      <4>3. n \in Nat
        OBVIOUS
      <4>4. Cardinality(r) <= n
        BY <2>1, <4>2, <4>3
      <4> HIDE DEF r
      <4>5. Sum(N, r) = Sum(f, Union(r)) /\ IsFiniteSet(Union(r))
        BY <4>2, <4>4
      <4>6. Union(s) = Union(r) \cup G[t]
        BY <4>1 DEF r
      <4>7. Union(r) \cap G[t] = {}
        BY <4>1 DEF r
      <4>8. IsFiniteSet(G[t]) /\ \A x \in Union(r) \cup G[t] : f[x] \in Nat
        BY <4>1, <4>2
      <4> HIDE DEF Union
      <4>9. IsFiniteSet(Union(s))
        <5>1. ASSUME NEW A, NEW B, NEW C, IsFiniteSet(A), IsFiniteSet(B), C = A \cup B
              PROVE  IsFiniteSet(C)
          BY <5>1, FS_Union
        <5> QED
          BY <4>5, <4>6, <4>8, <5>1
      <4>10. Sum(f, Union(s)) = Sum(f, Union(r)) + Sum(f, G[t])
        BY <4>5, <4>6, <4>7, <4>8, SumOfTwo
      <4>11. Sum(N, s) = N[t] + Sum(N, r)
        BY <1>2, <4>1, <4>2, SumTake DEF r
      <4>12. N[t] = Sum(f, G[t]) /\ N[t] \in Nat
        BY <1>2, <4>1
      <4>13. Sum(f, Union(r)) \in Nat
        BY <4>5, <4>8, SumType
      <4> QED
        BY <4>5, <4>9, <4>10, <4>11, <4>12, <4>13
    <3> QED
      BY <3>1, <3>2
  <2> QED
    BY <2>1
<1>4. Cardinality(T) \in P
  <2>1. Nat \subseteq P
    BY <1>1, <1>3, Induction
  <2> QED
    BY <2>1, FS_CardinalityType
<1>5. Cardinality(T) <= Cardinality(T)
  BY FS_CardinalityType
<1> QED
  BY <1>4, <1>5

(* A set has as many elements as ones add up to.                            *)
LEMMA SumOfOnes ==
  ASSUME NEW S, IsFiniteSet(S)
  PROVE  Sum([x \in S |-> 1], S) = Cardinality(S)
<1> DEFINE one == [x \in S |-> 1]
           P == {n \in Nat : \A s \in SUBSET S : Cardinality(s) <= n => Sum(one, s) = Cardinality(s)}
<1>0. \A x \in S : one[x] = 1
  OBVIOUS
<1> HIDE DEF one
<1>1. 0 \in P
  <2>1. ASSUME NEW s \in SUBSET S, Cardinality(s) <= 0 PROVE Sum(one, s) = Cardinality(s)
    <3>1. s = {}
      BY <2>1, NoneLeft, FS_Subset
    <3> QED
      BY <3>1, SumOfNone, FS_EmptySet
  <2> QED
    BY <2>1
<1>2. ASSUME NEW n \in P \cap Nat PROVE n + 1 \in P
  <2>1. ASSUME NEW s \in SUBSET S, Cardinality(s) <= n + 1 PROVE Sum(one, s) = Cardinality(s)
    <3>1. CASE s = {}
      BY <3>1, SumOfNone, FS_EmptySet
    <3>2. CASE s # {}
      <4>1. PICK x : x \in s
        BY <3>2
      <4>2. /\ s \ {x} \in SUBSET S /\ IsFiniteSet(s) /\ Cardinality(s) \in Nat
            /\ Cardinality(s \ {x}) = Cardinality(s) - 1
        BY <4>1, OneLess
      <4>3. n \in Nat
        OBVIOUS
      <4>4. Cardinality(s \ {x}) <= n
        BY <2>1, <4>2, <4>3
      <4>5. Sum(one, s \ {x}) = Cardinality(s \ {x})
        BY <4>2, <4>4
      <4>6. \A y \in s : one[y] \in Nat
        BY <1>0
      <4>7. Sum(one, s) = one[x] + Sum(one, s \ {x})
        BY <4>1, <4>2, <4>6, SumTake
      <4>8. one[x] = 1
        BY <1>0, <4>1
      <4> QED
        BY <4>2, <4>5, <4>7, <4>8
    <3> QED
      BY <3>1, <3>2
  <2> QED
    BY <2>1
<1>3. Cardinality(S) \in P
  <2>1. Nat \subseteq P
    BY <1>1, <1>2, Induction
  <2> QED
    BY <2>1, FS_CardinalityType
<1>4. Cardinality(S) <= Cardinality(S)
  BY FS_CardinalityType
<1> QED
  BY <1>3, <1>4 DEF one

LEMMA CountOfParts ==
  ASSUME NEW T, IsFiniteSet(T), NEW G, NEW N,
         \A t \in T : IsFiniteSet(G[t]) /\ N[t] = Cardinality(G[t]),
         \A t, u \in T : t # u => G[t] \cap G[u] = {}
  PROVE  Sum(N, T) = Cardinality(UNION {G[t] : t \in T})
<1> DEFINE U == UNION {G[t] : t \in T}
           one == [x \in U |-> 1]
<1>0. \A x \in U : one[x] = 1
  OBVIOUS
<1> HIDE DEF one
<1>1. ASSUME NEW t \in T PROVE N[t] = Sum(one, G[t])
  <2> DEFINE own == [x \in G[t] |-> 1]
  <2>1. \A x \in G[t] : own[x] = 1 /\ one[x] = 1
    BY <1>0
  <2>2. Sum(own, G[t]) = Cardinality(G[t])
    BY SumOfOnes
  <2> HIDE DEF own
  <2> QED
    BY <2>1, <2>2, SumsOfEqual
<1>2. \A t \in T : \A x \in G[t] : one[x] \in Nat
  BY <1>0
<1>3. Sum(N, T) = Sum(one, U) /\ IsFiniteSet(U)
  BY <1>1, <1>2, SumOfParts
<1> QED
  BY <1>3, SumOfOnes DEF one

(* As many values are taken as there are arguments, or fewer.               *)
LEMMA ImageIsFinite ==
  ASSUME NEW S, IsFiniteSet(S), NEW f
  PROVE  IsFiniteSet({f[x] : x \in S})
<1> DEFINE T == {f[x] : x \in S}
           g == [x \in S |-> f[x]]
<1>1. g \in Surjection(S, T)
  BY DEF Surjection
<1> HIDE DEF g, T
<1>2. IsFiniteSet(T)
  BY <1>1, FS_Surjection
<1> QED
  BY <1>2 DEF T

-----------------------------------------------------------------------------
(***************************************************************************)
(* The rows, and the populations they are of.                              *)
(***************************************************************************)

(* What is on file was written by the runner, the judge and the probe.      *)
OnFile ==
  /\ corpus \in Seq(RowsOfRuns)
  /\ judgments \in Seq(JudgmentRows)
  /\ config \in Nat \cup {Unset, Mistyped}
  /\ probes \in Seq(ProbeRows)
  /\ budget \in Budgets

LEMMA RowIs ==
  ASSUME OnFile, NEW i \in All
  PROVE  /\ corpus[i] \in RowsOfRuns /\ corpus[i] \in ResultRow
         /\ Row(i).model = corpus[i].model /\ Row(i).driver = corpus[i].driver
         /\ Row(i).effort = corpus[i].effort /\ Row(i).out = corpus[i].out
         /\ Row(i).tin = corpus[i].tin /\ Row(i).truth = corpus[i].truth
         /\ Row(i).tin_status = corpus[i].tin_status /\ RunId(Row(i)) = RunId(corpus[i])
         /\ Row(i).pass = corpus[i].pass
         /\ config = Unset => Row(i) = corpus[i]
<1>1. corpus[i] \in RowsOfRuns
  BY DEF OnFile, All
<1>2. corpus[i] \in ResultRow
  BY <1>1, ReadersAssumption
<1>3. CASE Row(i) = corpus[i]
  BY <1>1, <1>2, <1>3
<1>4. CASE Row(i) = [corpus[i] EXCEPT !.why = {"turn_cap"}] /\ config # Unset
  BY <1>1, <1>2, <1>4 DEF ResultRow, RunId
<1> QED
  BY <1>3, <1>4 DEF Row, ApplyTurnCap

LEMMA AllIsFinite ==
  ASSUME OnFile
  PROVE  IsFiniteSet(All) /\ \A I \in SUBSET All : IsFiniteSet(I) /\ Cardinality(I) \in Nat
<1>1. All = 1..Len(corpus) /\ Len(corpus) \in Nat
  BY DEF OnFile, All
<1>2. IsFiniteSet(All)
  BY <1>1, FS_Interval
<1> QED
  BY <1>2, FS_Subset, FS_CardinalityType

LEMMA AtMostOne ==
  ASSUME NEW S, IsFiniteSet(S)
  PROVE  Cardinality(S) <= 1 <=> \A x, y \in S : x = y
<1>1. ASSUME NEW x \in S, NEW y \in S, x # y PROVE ~(Cardinality(S) <= 1)
  <2>1. /\ IsFiniteSet(S \ {x}) /\ IsFiniteSet((S \ {x}) \ {y}) /\ y \in S \ {x}
        /\ Cardinality(S) \in Nat /\ Cardinality((S \ {x}) \ {y}) \in Nat
    BY <1>1, FS_Subset, FS_CardinalityType
  <2>2. Cardinality(S \ {x}) = Cardinality(S) - 1
    BY FS_RemoveElement
  <2>3. Cardinality((S \ {x}) \ {y}) = Cardinality(S \ {x}) - 1
    BY <2>1, FS_RemoveElement
  <2> QED
    BY <2>1, <2>2, <2>3
<1>2. ASSUME \A x, y \in S : x = y PROVE Cardinality(S) <= 1
  <2>1. CASE S = {}
    BY <2>1, FS_EmptySet
  <2>2. CASE S # {}
    <3>1. PICK x : x \in S
      BY <2>2
    <3>2. S = {x}
      BY <1>2, <3>1
    <3> QED
      BY <3>2, FS_Singleton
  <2> QED
    BY <2>1, <2>2
<1> QED
  BY <1>1, <1>2

(* Where a model is not split it has one driver: whatever the key looks     *)
(* like, two rows have the same one when model and driver are the same.     *)
LEMMA KeyIsPopulation ==
  ASSUME OnFile, NEW R \in SUBSET All, NEW i \in R, NEW j \in R
  PROVE  ModelKey(i, Mixed(R)) = ModelKey(j, Mixed(R))
           <=> Row(i).model = Row(j).model /\ Row(i).driver = Row(j).driver
<1> DEFINE rows == {x \in R : Row(x).model = Row(i).model}
           drivers == {Row(x).driver : x \in rows}
           f == [x \in rows |-> Row(x).driver]
<1>1. IsFiniteSet(drivers)
  <2>1. IsFiniteSet(rows)
    BY AllIsFinite
  <2>2. drivers = {f[x] : x \in rows}
    OBVIOUS
  <2> HIDE DEF rows, drivers, f
  <2> QED
    BY <2>1, <2>2, ImageIsFinite
<1>2. ASSUME Row(i).model \notin Mixed(R), Row(i).model = Row(j).model
      PROVE  Row(i).driver = Row(j).driver
  <2>1. ~(Cardinality(drivers) > 1)
    BY <1>2 DEF Mixed
  <2>2. Cardinality(drivers) \in Nat
    BY <1>1, FS_CardinalityType
  <2>3. Cardinality(drivers) <= 1
    BY <2>1, <2>2
  <2>4. \A x, y \in drivers : x = y
    BY <1>1, <2>3, AtMostOne
  <2>5. Row(i).driver \in drivers /\ Row(j).driver \in drivers
    BY <1>2
  <2> QED
    BY <2>4, <2>5
<1>3. \A a, b, c, d : /\ <<a>> # <<c, d>> /\ <<c, d>> # <<a>>
                      /\ <<a>> = <<b>> => a = b
                      /\ <<a, b>> = <<c, d>> => a = c /\ b = d
  OBVIOUS
<1> HIDE DEF rows, drivers, f
<1> QED
  BY <1>2, <1>3 DEF ModelKey

Classes(I, k) == {{j \in I : k[j] = k[i]} : i \in I}

ByPopulation == [i \in All |-> <<Row(i).model, Row(i).driver>>]
ByTier == [i \in All |-> <<Row(i).model, Row(i).driver, Row(i).effort>>]
ByConfig == [i \in All |-> <<Row(i).model, Row(i).driver, Row(i).effort, Row(i).harness>>]
ByCell == [i \in All |-> <<Row(i).model, Row(i).driver, Row(i).effort, Row(i).harness, Row(i).task>>]
ByTask == [i \in All |-> <<Row(i).model, Row(i).driver, Row(i).task>>]
BySetting == [i \in All |-> <<Row(i).effort, Row(i).harness>>]

LEMMA ImageOfImage ==
  ASSUME NEW S, NEW f, NEW g, NEW h, \A x \in S : h[x] = g[f[x]]
  PROVE  {h[x] : x \in S} = {g[y] : y \in {f[x] : x \in S}}
OBVIOUS

LEMMA PerModelIs ==
  ASSUME OnFile, NEW R \in SUBSET All
  PROVE  PerModel(R) = Classes(R, ByPopulation)
<1>1. \A i, j \in R : ModelKey(j, Mixed(R)) = ModelKey(i, Mixed(R))
                        <=> ByPopulation[j] = ByPopulation[i]
  BY KeyIsPopulation DEF ByPopulation
<1>2. PerModel(R) = {{j \in R : ModelKey(j, Mixed(R)) = ModelKey(i, Mixed(R))} : i \in R}
  BY DEF PerModel, Grouped
<1> QED
  BY <1>1, <1>2 DEF Classes

Line1(I) == [rows |-> I, rate |-> Rate(I), quality |-> Quality(I)]
Line2(I) == [rows |-> I, rate |-> Rate(I), spend |-> Spend(I)]

LEMMA Table1Is ==
  ASSUME OnFile, NEW R \in SUBSET All
  PROVE  Table1(R) = {Line1(I) : I \in Classes(R, ByTier)}
<1> DEFINE Key(i) == <<ModelKey(i, Mixed(R)), Row(i).effort>>
<1>1. \A i, j \in R : Key(j) = Key(i) <=> ByTier[j] = ByTier[i]
  BY KeyIsPopulation DEF ByTier
<1>2. Table1(R) = {Line1(I) : I \in {{j \in R : Key(j) = Key(i)} : i \in R}}
  BY DEF Table1, Grouped, Line1
<1> QED
  BY <1>1, <1>2 DEF Classes

LEMMA Table2Is ==
  ASSUME OnFile, NEW R \in SUBSET All
  PROVE  Table2(R) = {Line2(I) : I \in Classes(R, ByTier)}
<1>1. Table2(R) = {[rows |-> l.rows, rate |-> l.rate, spend |-> Spend(l.rows)] :
                     l \in {Line1(I) : I \in Classes(R, ByTier)}}
  BY Table1Is DEF Table2
<1>2. \A I : [rows |-> Line1(I).rows, rate |-> Line1(I).rate, spend |-> Spend(Line1(I).rows)]
               = Line2(I)
  BY DEF Line1, Line2
<1> QED
  BY <1>1, <1>2

LEMMA Section1Is ==
  ASSUME OnFile
  PROVE  Section1 = {[rows |-> I, rate |-> [n |-> Cardinality(I), passes |-> Cardinality(Passing(I))]] :
                       I \in Classes(Measured, ByConfig)}
<1> DEFINE Key(i) == <<ModelKey(i, Mixed(Measured)), Row(i).effort, Row(i).harness>>
<1>0. Measured \in SUBSET All
  BY DEF Measured, ScoredRows
<1>1. \A i, j \in Measured : Key(j) = Key(i) <=> ByConfig[j] = ByConfig[i]
  BY <1>0, KeyIsPopulation DEF ByConfig
<1>2. Section1 = {[rows |-> I, rate |-> [n |-> Cardinality(I), passes |-> Cardinality(Passing(I))]] :
                    I \in {{j \in Measured : Key(j) = Key(i)} : i \in Measured}}
  BY DEF Section1, Grouped
<1> QED
  BY <1>1, <1>2 DEF Classes

LEMMA ConfigsIs ==
  ASSUME NEW I \in SUBSET All
  PROVE  Configs(I) = Classes(I, BySetting)
BY DEF Configs, Grouped, Classes, BySetting

LEMMA LoadRowsIn ==
  ASSUME NEW m
  PROVE  LoadRows(m) \in SUBSET All /\ \A i \in LoadRows(m) : Row(i).model = m
BY DEF LoadRows, Of

LEMMA BlocksAre ==
  ASSUME OnFile, NEW m
  PROVE  BlocksFor(m) = Classes(LoadRows(m), ByTask)
<1> DEFINE R == LoadRows(m)
           Key(i) == <<Row(i).task>> \o Tail(ModelKey(i, Mixed(R)))
<1>0. R \in SUBSET All /\ \A i \in R : Row(i).model = m
  BY LoadRowsIn
<1>1. \A t, a, b, u, c, d :
        /\ <<t>> \o Tail(<<a>>) = <<t>> /\ <<t>> \o Tail(<<a, b>>) = <<t, b>>
        /\ <<t, b>> # <<u>> /\ (<<t>> = <<u>> <=> t = u)
        /\ (<<t, b>> = <<u, d>> <=> t = u /\ b = d)
  <2>1. \A t, b, u, d : /\ <<t, b>> # <<u>> /\ (<<t>> = <<u>> <=> t = u)
                        /\ (<<t, b>> = <<u, d>> <=> t = u /\ b = d)
    OBVIOUS
  <2>2. ASSUME NEW t, NEW a PROVE <<t>> \o Tail(<<a>>) = <<t>>
    OBVIOUS
  <2>3. ASSUME NEW t, NEW a, NEW b PROVE <<t>> \o Tail(<<a, b>>) = <<t, b>>
    <3>1. Tail(<<a, b>>) = <<b>>
      OBVIOUS
    <3>2. <<t>> \o <<b>> = <<t, b>>
      <4> DEFINE s == <<t>> \o <<b>>
      <4>1. <<t>> \in Seq({t, b}) /\ <<b>> \in Seq({t, b}) /\ <<t, b>> \in Seq({t, b})
        OBVIOUS
      <4>2. s \in Seq({t, b}) /\ Len(s) = 2 /\ s[1] = t /\ s[2] = b
        BY <4>1
      <4> HIDE DEF s
      <4>3. \A q \in Seq({t, b}) : Len(q) = 2 => q = <<q[1], q[2]>>
        OBVIOUS
      <4>4. s = <<s[1], s[2]>>
        BY <4>2, <4>3
      <4> QED
        BY <4>2, <4>4 DEF s
    <3> QED
      BY <3>1, <3>2
  <2> QED
    BY <2>1, <2>2, <2>3
<1>2. ASSUME NEW i \in R, NEW j \in R
      PROVE  Key(j) = Key(i) <=> ByTask[j] = ByTask[i]
  <2>1. ModelKey(i, Mixed(R)) = ModelKey(j, Mixed(R)) <=> Row(i).driver = Row(j).driver
    BY <1>0, KeyIsPopulation
  <2>2. ByTask[j] = ByTask[i] <=> Row(i).driver = Row(j).driver /\ Row(i).task = Row(j).task
    BY <1>0 DEF ByTask
  <2> QED
    BY <1>0, <1>1, <2>1, <2>2 DEF ModelKey
<1>3. BlocksFor(m) = {{j \in R : Key(j) = Key(i)} : i \in R}
  BY DEF BlocksFor, Grouped
<1>4. \A i, j \in R : Key(j) = Key(i) <=> ByTask[j] = ByTask[i]
  BY <1>2
<1> HIDE DEF R, Key
<1>5. {{j \in R : Key(j) = Key(i)} : i \in R} = Classes(R, ByTask)
  BY <1>4 DEF Classes
<1> QED
  BY <1>3, <1>5 DEF R

LEMMA ClassesPart ==
  ASSUME NEW I, IsFiniteSet(I), NEW k
  PROVE  /\ IsFiniteSet(Classes(I, k))
         /\ \A C \in Classes(I, k) : /\ C \in SUBSET I /\ C # {}
                                     /\ \A i \in C, j \in I : k[i] = k[j] <=> j \in C
         /\ \A C, D \in Classes(I, k) : C # D => C \cap D = {}
         /\ \A i \in I : \E C \in Classes(I, k) : i \in C
<1> DEFINE f == [i \in I |-> {j \in I : k[j] = k[i]}]
<1>1. Classes(I, k) = {f[i] : i \in I}
  BY DEF Classes
<1> HIDE DEF f
<1>2. IsFiniteSet({f[i] : i \in I})
  BY ImageIsFinite
<1>3. \A C \in Classes(I, k) : C \in SUBSET I /\ C # {}
  BY DEF Classes
<1>4. \A C \in Classes(I, k) : \A i \in C, j \in I : k[i] = k[j] <=> j \in C
  BY DEF Classes
<1>5. ASSUME NEW i \in I PROVE \E C \in Classes(I, k) : i \in C
  <2> DEFINE C == {j \in I : k[j] = k[i]}
  <2>1. C \in Classes(I, k) /\ i \in C
    BY DEF Classes
  <2> QED
    BY <2>1
<1>6. \A C, D \in Classes(I, k) : C # D => C \cap D = {}
  BY DEF Classes
<1> HIDE DEF Classes
<1> QED
  BY <1>1, <1>2, <1>3, <1>4, <1>5, <1>6

(* Cells that share no row, and have the scored rows of W between them, add *)
(* up to the rate of W.                                                     *)
LEMMA TotalsAre ==
  ASSUME OnFile, NEW T, IsFiniteSet(T), NEW G, NEW W \in SUBSET All,
         \A l \in T : G[l] \in SUBSET All /\ l.rate = Rate(G[l]),
         \A l, k \in T : l # k => G[l] \cap G[k] = {},
         \A i \in All : i \in ScoredRows(W) <=> \E l \in T : i \in ScoredRows(G[l])
  PROVE  Totals(T) = Rate(W)
<1> DEFINE S == [l \in T |-> ScoredRows(G[l])]
           P == [l \in T |-> Passing(ScoredRows(G[l]))]
           n == [l \in T |-> l.rate.n]
           p == [l \in T |-> l.rate.passes]
<1>1. \A l \in T : /\ S[l] \in SUBSET G[l] /\ P[l] \in SUBSET G[l]
                   /\ IsFiniteSet(S[l]) /\ IsFiniteSet(P[l])
                   /\ n[l] = Cardinality(S[l]) /\ p[l] = Cardinality(P[l])
  <2>1. ASSUME NEW l \in T
        PROVE  S[l] \in SUBSET G[l] /\ P[l] \in SUBSET G[l] /\ G[l] \in SUBSET All
    BY DEF ScoredRows, Passing
  <2>2. ASSUME NEW l \in T
        PROVE  IsFiniteSet(S[l]) /\ IsFiniteSet(P[l])
    BY <2>1, AllIsFinite
  <2>3. ASSUME NEW l \in T
        PROVE  n[l] = Cardinality(S[l]) /\ p[l] = Cardinality(P[l])
    <3>1. l.rate = Rate(G[l])
      OBVIOUS
    <3>2. /\ Rate(G[l]).n = Cardinality(ScoredRows(G[l]))
          /\ Rate(G[l]).passes = Cardinality(Passing(ScoredRows(G[l])))
      BY DEF Rate
    <3> QED
      BY <3>1, <3>2
  <2> HIDE DEF S, P, n, p
  <2> QED
    BY <2>1, <2>2, <2>3
<1>2. UNION {S[l] : l \in T} = ScoredRows(W)
  BY DEF ScoredRows
<1>3. UNION {P[l] : l \in T} = Passing(ScoredRows(W))
  BY <1>2 DEF Passing
<1>4. Totals(T) = [n |-> Sum(n, T), passes |-> Sum(p, T)]
  BY DEF Totals, Sum, SumFunction
<1> HIDE DEF S, P, n, p
<1>5. \A l, k \in T : l # k => S[l] \cap S[k] = {} /\ P[l] \cap P[k] = {}
  BY <1>1
<1>6. Sum(n, T) = Cardinality(UNION {S[l] : l \in T})
  <2>1. \A l \in T : IsFiniteSet(S[l]) /\ n[l] = Cardinality(S[l])
    BY <1>1
  <2>2. \A l, k \in T : l # k => S[l] \cap S[k] = {}
    BY <1>5
  <2> QED
    BY <2>1, <2>2, CountOfParts
<1>7. Sum(p, T) = Cardinality(UNION {P[l] : l \in T})
  <2>1. \A l \in T : IsFiniteSet(P[l]) /\ p[l] = Cardinality(P[l])
    BY <1>1
  <2>2. \A l, k \in T : l # k => P[l] \cap P[k] = {}
    BY <1>5
  <2> QED
    BY <2>1, <2>2, CountOfParts
<1> QED
  BY <1>2, <1>3, <1>4, <1>6, <1>7 DEF Rate

(* A table with a line for every class of R, read for one model.            *)
TableOf(table, R, k) ==
  \E L : /\ table = {L[C] : C \in Classes(R, k)}
         /\ \A C \in Classes(R, k) : L[C].rows = C /\ L[C].rate = Rate(C)

ModelsApart(R, k) == \A i, j \in R : k[i] = k[j] => Row(i).model = Row(j).model

LEMMA TotalsOfTable ==
  ASSUME OnFile, NEW R \in SUBSET All, NEW k, ModelsApart(R, k),
         NEW table, TableOf(table, R, k), NEW m
  PROVE  Totals(OfModel(table, m)) = Rate(Of(R, m))
<1> PICK L : /\ table = {L[C] : C \in Classes(R, k)}
             /\ \A C \in Classes(R, k) : L[C].rows = C /\ L[C].rate = Rate(C)
  BY DEF TableOf
<1> DEFINE K == Classes(R, k)
           T == OfModel(table, m)
           G == [l \in T |-> l.rows]
           W == Of(R, m)
<1>1. /\ IsFiniteSet(K)
      /\ \A C \in K : /\ C \in SUBSET R /\ C # {}
                      /\ \A i \in C, j \in R : k[i] = k[j] <=> j \in C
      /\ \A C, D \in K : C # D => C \cap D = {}
      /\ \A i \in R : \E C \in K : i \in C
  BY AllIsFinite, ClassesPart
<1>2. table = {L[C] : C \in K} /\ \A C \in K : L[C].rows = C /\ L[C].rate = Rate(C)
  OBVIOUS
<1> HIDE DEF K
<1>3. IsFiniteSet(T)
  <2>1. IsFiniteSet({L[C] : C \in K}) /\ T \in SUBSET {L[C] : C \in K}
    BY SMTT(30), <1>1, <1>2, ImageIsFinite DEF OfModel
  <2> QED
    BY <2>1, FS_Subset
<1>4. \A l \in T : /\ l.rows \in K /\ L[l.rows] = l /\ l.rate = Rate(l.rows)
                   /\ \E i \in l.rows : Row(i).model = m
  BY <1>2 DEF OfModel
<1>5. \A C \in K : (\E i \in C : Row(i).model = m) => L[C] \in T
  BY <1>2 DEF OfModel
<1> HIDE DEF T
<1>6. ASSUME NEW l \in T PROVE \A i \in l.rows : i \in R /\ Row(i).model = m
  <2>1. PICK j \in l.rows : Row(j).model = m
    BY <1>4
  <2>2. l.rows \in K
    BY <1>4
  <2>3. \A i \in l.rows : i \in R /\ k[i] = k[j]
    BY <1>1, <2>2
  <2> QED
    BY <2>1, <2>3 DEF ModelsApart
<1>7. \A l \in T : G[l] \in SUBSET All /\ l.rate = Rate(G[l])
  BY <1>4, <1>6
<1>8. \A l, u \in T : l # u => G[l] \cap G[u] = {}
  BY <1>1, <1>4
<1>9. ASSUME NEW i \in All
      PROVE  i \in ScoredRows(W) <=> \E l \in T : i \in ScoredRows(G[l])
  <2>1. ASSUME NEW l \in T, i \in ScoredRows(G[l])
        PROVE  i \in ScoredRows(W)
    BY <1>6, <2>1 DEF ScoredRows, Of
  <2>2. ASSUME i \in ScoredRows(W)
        PROVE  \E l \in T : i \in ScoredRows(G[l])
    <3>1. i \in R /\ Row(i).model = m /\ InDenominator(Row(i).why)
      BY <2>2 DEF ScoredRows, Of
    <3>2. PICK C \in K : i \in C
      BY <1>1, <3>1
    <3>3. L[C] \in T /\ G[L[C]] = C
      BY <1>2, <1>5, <3>1, <3>2
    <3> QED
      BY <3>1, <3>2, <3>3 DEF ScoredRows
  <2> QED
    BY <2>1, <2>2
<1> HIDE DEF G
<1>10. \A i \in All : i \in ScoredRows(W) <=> \E l \in T : i \in ScoredRows(G[l])
  BY <1>9
<1>12. W \in SUBSET All
  BY DEF Of
<1>11. Totals(T) = Rate(W)
  BY <1>3, <1>7, <1>8, <1>10, <1>12, TotalsAre
<1> QED
  BY <1>11 DEF T

-----------------------------------------------------------------------------
(***************************************************************************)
(* One truth.                                                              *)
(***************************************************************************)

LEMMA Table1Counts ==
  ASSUME OnFile, NEW m
  PROVE  Totals(OfModel(Table1(All), m)) = Rate(Of(All, m))
<1> DEFINE K == Classes(All, ByTier)
           L == [C \in K |-> Line1(C)]
<1>0. All \in SUBSET All
  OBVIOUS
<1>1. TableOf(Table1(All), All, ByTier)
  <2>1. Table1(All) = {Line1(C) : C \in K}
    BY <1>0, Table1Is
  <2>2. \A C \in K : L[C] = Line1(C)
    OBVIOUS
  <2>3. \A C : Line1(C).rows = C /\ Line1(C).rate = Rate(C)
    BY DEF Line1
  <2> HIDE DEF L
  <2> QED
    BY <2>1, <2>2, <2>3 DEF TableOf
<1>2. ModelsApart(All, ByTier)
  BY DEF ByTier, ModelsApart
<1> QED
  BY <1>0, <1>1, <1>2, TotalsOfTable

LEMMA Section1Counts ==
  ASSUME OnFile, NEW m
  PROVE  Totals(OfModel(Section1, m)) = Rate(Of(All, m))
<1> DEFINE K == Classes(Measured, ByConfig)
           Cell(C) == [rows |-> C, rate |-> [n |-> Cardinality(C), passes |-> Cardinality(Passing(C))]]
           L == [C \in K |-> Cell(C)]
<1>0. Measured \in SUBSET All /\ IsFiniteSet(Measured)
  <2>1. Measured \in SUBSET All
    BY DEF Measured, ScoredRows
  <2> QED
    BY <2>1, AllIsFinite
<1>1. TableOf(Section1, Measured, ByConfig)
  <2>1. Section1 = {Cell(C) : C \in K}
    BY Section1Is
  <2>2. \A C \in K : L[C] = Cell(C)
    OBVIOUS
  <2>3. ASSUME NEW C \in K PROVE Cell(C).rows = C /\ Cell(C).rate = Rate(C)
    <3>1. C \in SUBSET Measured
      BY <1>0, ClassesPart
    <3>2. ScoredRows(C) = C
      BY <3>1 DEF Measured, ScoredRows
    <3>3. Rate(C) = [n |-> Cardinality(C), passes |-> Cardinality(Passing(C))]
      BY <3>2 DEF Rate
    <3> HIDE DEF K
    <3> QED
      BY <3>3
  <2>4. \A C \in K : Cell(C).rows = C /\ Cell(C).rate = Rate(C)
    BY <2>3
  <2> HIDE DEF L, Cell
  <2> QED
    BY <2>1, <2>2, <2>4 DEF TableOf
<1>2. ModelsApart(Measured, ByConfig)
  BY <1>0 DEF ByConfig, ModelsApart
<1>3. Totals(OfModel(Section1, m)) = Rate(Of(Measured, m))
  BY <1>0, <1>1, <1>2, TotalsOfTable
<1>4. ScoredRows(Of(All, m)) = ScoredRows(Of(Measured, m))
  BY DEF Of, Measured, ScoredRows
<1> QED
  BY <1>3, <1>4 DEF Rate

LEMMA LoadedAreScored ==
  ASSUME NEW m
  PROVE  ScoredRows(LoadRows(m)) = ScoredRows(Of(All, m))
BY DEF LoadRows, Of, ScoredRows

LEMMA BlocksCount ==
  ASSUME OnFile, NEW m
  PROVE  Totals({ReportBlock(I) : I \in BlocksFor(m)}) = Rate(Of(All, m))
<1> DEFINE R == LoadRows(m)
           K == Classes(R, ByTask)
           L == [C \in K |-> ReportBlock(C)]
           T == {ReportBlock(I) : I \in BlocksFor(m)}
<1>0. R \in SUBSET All /\ IsFiniteSet(R) /\ \A i \in R : Row(i).model = m
  BY LoadRowsIn, AllIsFinite
<1>1. BlocksFor(m) = K
  BY BlocksAre
<1>2. \A C : ReportBlock(C).rows = C /\ ReportBlock(C).rate = Rate(C)
  BY DEF ReportBlock
<1>3. TableOf(T, R, ByTask)
  <2>1. \A C \in K : L[C] = ReportBlock(C)
    OBVIOUS
  <2> HIDE DEF L, R
  <2> QED
    BY <1>1, <1>2, <2>1 DEF TableOf
<1>4. ModelsApart(R, ByTask)
  BY <1>0 DEF ModelsApart
<1>5. OfModel(T, m) = T
  <2>1. \A C \in K : \E i \in C : Row(i).model = m
    BY <1>0, ClassesPart
  <2> HIDE DEF K
  <2> QED
    BY <1>1, <1>2, <2>1 DEF OfModel
<1>6. Rate(Of(R, m)) = Rate(Of(All, m))
  <2>1. Of(R, m) = R
    BY <1>0 DEF Of
  <2> QED
    BY <2>1, LoadedAreScored DEF Rate
<1> HIDE DEF T, R
<1>7. Totals(OfModel(T, m)) = Rate(Of(R, m))
  BY <1>0, <1>3, <1>4, TotalsOfTable
<1> QED
  BY <1>5, <1>6, <1>7 DEF T

(* The line of a model is the pair of its arms.                             *)
LEMMA ArmsCount ==
  ASSUME OnFile, NEW m
  PROVE  LET table3 == Table3(All)
             arms == {[rows |-> l.rows, arm |-> "bare", rate |-> l.bare] : l \in table3}
                     \cup {[rows |-> l.rows, arm |-> "harness", rate |-> l.harness] : l \in table3}
         IN Totals(OfModel(arms, m)) = Rate(Of(All, m))
<1> DEFINE K == Classes(All, ByPopulation)
           M == {I \in K : Rate(I).n > 0}
           Arm(I, h) == {i \in I : Row(i).harness = h}
           B == [I \in M |-> [rows |-> I, arm |-> "bare", rate |-> Rate(Arm(I, FALSE))]]
           H == [I \in M |-> [rows |-> I, arm |-> "harness", rate |-> Rate(Arm(I, TRUE))]]
           arms == {B[I] : I \in M} \cup {H[I] : I \in M}
           T == OfModel(arms, m)
           G == [l \in T |-> Arm(l.rows, l.arm = "harness")]
<1>1. arms = {[rows |-> l.rows, arm |-> "bare", rate |-> l.bare] : l \in Table3(All)}
             \cup {[rows |-> l.rows, arm |-> "harness", rate |-> l.harness] : l \in Table3(All)}
  <2> DEFINE line == [I \in M |->
                [rows |-> I, bare |-> Rate(Arm(I, FALSE)), bare_spend |-> Spend(Arm(I, FALSE)),
                 harness |-> Rate(Arm(I, TRUE)), harness_spend |-> Spend(Arm(I, TRUE))]]
  <2>1. All \in SUBSET All
    OBVIOUS
  <2>2. PerModel(All) = K
    BY <2>1, PerModelIs
  <2>3. Table3(All) = {line[I] : I \in M}
    BY <2>2 DEF Table3
  <2>4. \A I \in M : /\ line[I].rows = I /\ line[I].bare = Rate(Arm(I, FALSE))
                     /\ line[I].harness = Rate(Arm(I, TRUE))
    OBVIOUS
  <2> HIDE DEF K, M, Arm, line
  <2>5. \A I \in M : /\ B[I] = [rows |-> line[I].rows, arm |-> "bare", rate |-> line[I].bare]
                     /\ H[I] = [rows |-> line[I].rows, arm |-> "harness", rate |-> line[I].harness]
    BY <2>4
  <2> HIDE DEF B, H
  <2> DEFINE bare == [l \in Table3(All) |-> [rows |-> l.rows, arm |-> "bare", rate |-> l.bare]]
             other == [l \in Table3(All) |-> [rows |-> l.rows, arm |-> "harness", rate |-> l.harness]]
  <2>6. \A I \in M : B[I] = bare[line[I]] /\ H[I] = other[line[I]]
    BY <2>3, <2>5
  <2>7. /\ {bare[l] : l \in Table3(All)}
             = {[rows |-> l.rows, arm |-> "bare", rate |-> l.bare] : l \in Table3(All)}
        /\ {other[l] : l \in Table3(All)}
             = {[rows |-> l.rows, arm |-> "harness", rate |-> l.harness] : l \in Table3(All)}
    OBVIOUS
  <2> HIDE DEF bare, other
  <2>8. /\ {B[I] : I \in M} = {bare[l] : l \in Table3(All)}
        /\ {H[I] : I \in M} = {other[l] : l \in Table3(All)}
    BY <2>3, <2>6, ImageOfImage
  <2> QED
    BY <2>7, <2>8
<1>2. /\ IsFiniteSet(K)
      /\ \A C \in K : /\ C \in SUBSET All /\ C # {}
                      /\ \A i \in C, j \in All : ByPopulation[i] = ByPopulation[j] <=> j \in C
      /\ \A C, D \in K : C # D => C \cap D = {}
      /\ \A i \in All : \E C \in K : i \in C
  BY AllIsFinite, ClassesPart
<1>3. \A i, j \in All : ByPopulation[i] = ByPopulation[j] => Row(i).model = Row(j).model
  BY DEF ByPopulation
<1>4. M \in SUBSET K
  OBVIOUS
<1>5. ASSUME NEW C \in K, NEW i \in C, InDenominator(Row(i).why) PROVE C \in M
  <2>1. i \in ScoredRows(C) /\ IsFiniteSet(ScoredRows(C))
    <3>1. i \in ScoredRows(C) /\ ScoredRows(C) \in SUBSET All
      BY <1>2, <1>5 DEF ScoredRows
    <3> QED
      BY <3>1, AllIsFinite
  <2>2. Cardinality(ScoredRows(C)) \in Nat /\ Cardinality(ScoredRows(C)) # 0
    BY <2>1, FS_CardinalityType, FS_EmptySet
  <2>3. Rate(C).n > 0
    BY <2>2 DEF Rate
  <2> QED
    BY <2>3
<1> HIDE DEF K
<1>6. \A I \in M : /\ B[I].rows = I /\ B[I].arm = "bare" /\ B[I].rate = Rate(Arm(I, FALSE))
                   /\ H[I].rows = I /\ H[I].arm = "harness" /\ H[I].rate = Rate(Arm(I, TRUE))
  <2> HIDE DEF M, Arm
  <2> QED
    OBVIOUS
<1> HIDE DEF M, B, H
<1>7. IsFiniteSet(T)
  <2>1. IsFiniteSet(M)
    BY <1>2, <1>4, FS_Subset
  <2>2. IsFiniteSet({B[I] : I \in M}) /\ IsFiniteSet({H[I] : I \in M})
    BY <2>1, ImageIsFinite
  <2>3. IsFiniteSet(arms)
    BY <2>2, FS_Union
  <2>4. T \in SUBSET arms
    BY DEF OfModel
  <2> HIDE DEF arms, T
  <2> QED
    BY <2>3, <2>4, FS_Subset
<1>8. \A l \in T : /\ l.rows \in M /\ (l = B[l.rows] \/ l = H[l.rows])
                   /\ l.arm \in {"bare", "harness"} /\ l.rate = Rate(Arm(l.rows, l.arm = "harness"))
                   /\ \E i \in l.rows : Row(i).model = m
  <2> SUFFICES ASSUME NEW l \in T
               PROVE  /\ l.rows \in M /\ (l = B[l.rows] \/ l = H[l.rows])
                      /\ l.arm \in {"bare", "harness"}
                      /\ l.rate = Rate(Arm(l.rows, l.arm = "harness"))
                      /\ \E i \in l.rows : Row(i).model = m
    OBVIOUS
  <2>1. l \in arms /\ \E i \in l.rows : Row(i).model = m
    BY DEF OfModel
  <2>2. PICK I \in M : l = B[I] \/ l = H[I]
    BY <2>1
  <2>3. CASE l = B[I]
    <3>1. l.rows = I /\ l.arm = "bare" /\ l.rate = Rate(Arm(I, FALSE))
      BY <1>6, <2>3
    <3>2. ("bare" = "harness") = FALSE
      OBVIOUS
    <3> HIDE DEF Arm, T
    <3> QED
      BY <2>1, <2>3, <3>1, <3>2
  <2>4. CASE l = H[I]
    <3>1. l.rows = I /\ l.arm = "harness" /\ l.rate = Rate(Arm(I, TRUE))
      BY <1>6, <2>4
    <3>2. ("harness" = "harness") = TRUE
      OBVIOUS
    <3> HIDE DEF Arm, T
    <3> QED
      BY <2>1, <2>4, <3>1, <3>2
  <2> QED
    BY <2>2, <2>3, <2>4
<1>9. ASSUME NEW I \in M, \E i \in I : Row(i).model = m PROVE B[I] \in T /\ H[I] \in T
  <2>1. B[I] \in arms /\ H[I] \in arms
    OBVIOUS
  <2>2. B[I].rows = I /\ H[I].rows = I
    BY <1>6
  <2> HIDE DEF arms
  <2> QED
    BY <1>9, <2>1, <2>2 DEF OfModel
<1> HIDE DEF T
<1>10. ASSUME NEW l \in T PROVE l.rows \in K /\ \A i \in l.rows : i \in All /\ Row(i).model = m
  <2>1. l.rows \in K
    BY <1>4, <1>8
  <2>2. PICK j \in l.rows : Row(j).model = m
    BY <1>8
  <2>3. \A i \in l.rows : i \in All /\ ByPopulation[i] = ByPopulation[j]
    BY <1>2, <2>1
  <2> QED
    BY <1>3, <2>1, <2>2, <2>3
<1>11. \A l \in T : G[l] \in SUBSET All /\ l.rate = Rate(G[l])
  BY <1>8, <1>10
<1>12. \A l, u \in T : l # u => G[l] \cap G[u] = {}
  <2>1. ASSUME NEW l \in T, NEW u \in T, l # u PROVE G[l] \cap G[u] = {}
    <3>1. CASE l.rows # u.rows
      <4>1. l.rows \cap u.rows = {}
        BY <1>2, <1>10, <3>1
      <4> QED
        BY <4>1
    <3>2. CASE l.rows = u.rows
      <4>1. l.arm # u.arm
        <5>1. /\ l.rows \in M /\ (l = B[l.rows] \/ l = H[l.rows])
              /\ (u = B[l.rows] \/ u = H[l.rows])
          BY <1>8, <3>2
        <5>2. B[l.rows].arm = "bare" /\ H[l.rows].arm = "harness"
          BY <1>6, <5>1
        <5> HIDE DEF T
        <5> QED
          BY <2>1, <5>1, <5>2
      <4> QED
        BY <1>8, <4>1
    <3> QED
      BY <3>1, <3>2
  <2> QED
    BY <2>1
<1>13. ASSUME NEW i \in All
       PROVE  i \in ScoredRows(Of(All, m)) <=> \E l \in T : i \in ScoredRows(G[l])
  <2>1. ASSUME NEW l \in T, i \in ScoredRows(G[l])
        PROVE  i \in ScoredRows(Of(All, m))
    BY <1>10, <2>1 DEF ScoredRows, Of
  <2>2. ASSUME i \in ScoredRows(Of(All, m))
        PROVE  \E l \in T : i \in ScoredRows(G[l])
    <3>1. Row(i).model = m /\ InDenominator(Row(i).why)
      BY <2>2 DEF ScoredRows, Of
    <3>2. PICK C \in K : i \in C
      BY <1>2
    <3>3. C \in M /\ B[C] \in T /\ H[C] \in T
      BY <1>5, <1>9, <3>1, <3>2
    <3>4. CASE Row(i).harness = TRUE
      <4>1. i \in G[H[C]]
        BY <1>6, <3>2, <3>3, <3>4
      <4> QED
        BY <3>1, <3>3, <4>1 DEF ScoredRows
    <3>5. CASE Row(i).harness = FALSE
      <4>1. i \in G[B[C]]
        BY <1>6, <3>2, <3>3, <3>5
      <4> QED
        BY <3>1, <3>3, <4>1 DEF ScoredRows
    <3>6. Row(i).harness \in BOOLEAN
      BY RowIs DEF ResultRow, RunId
    <3> QED
      BY <3>4, <3>5, <3>6
  <2> QED
    BY <2>1, <2>2
<1> HIDE DEF G
<1>14. \A i \in All : i \in ScoredRows(Of(All, m)) <=> \E l \in T : i \in ScoredRows(G[l])
  BY <1>13
<1>15. Of(All, m) \in SUBSET All
  BY DEF Of
<1>16. Totals(T) = Rate(Of(All, m))
  BY <1>7, <1>11, <1>12, <1>14, <1>15, TotalsAre
<1> QED
  BY <1>1, <1>16 DEF T

(* The distribution of the acceptance runs, and those of whom it is unknown.*)
LEMMA BesideCounts ==
  ASSUME OnFile, NEW m
  PROVE  LET beside == AcceptanceSummary(LoadRows(m))
         IN /\ beside.n = Rate(Of(All, m)).n
            /\ beside.none + SumFunction([v \in beside.distribution |-> v[2]]) = beside.n
<1> DEFINE s == ScoredRows(LoadRows(m))
           values == {Row(i).acceptance : i \in s} \ {Unset}
           having(v) == {i \in s : Row(i).acceptance = v}
           D == {<<v, Cardinality(having(v))>> : v \in values}
           G == [d \in D |-> having(d[1])]
           N == [d \in D |-> d[2]]
           beside == AcceptanceSummary(LoadRows(m))
<1>1. /\ beside.n = Cardinality(s) /\ beside.none = Cardinality(having(Unset))
      /\ beside.distribution = D
  BY DEF AcceptanceSummary
<1> HIDE DEF beside
<1>2. Cardinality(s) = Rate(Of(All, m)).n
  BY LoadedAreScored DEF Rate
<1>3. s \in SUBSET All /\ IsFiniteSet(s)
  <2>1. s \in SUBSET All
    BY LoadRowsIn DEF ScoredRows
  <2> QED
    BY <2>1, AllIsFinite
<1> HIDE DEF s
<1>4. IsFiniteSet(D)
  <2> DEFINE a == [i \in s |-> Row(i).acceptance]
             c == [v \in values |-> <<v, Cardinality(having(v))>>]
  <2>1. IsFiniteSet({a[i] : i \in s})
    BY <1>3, ImageIsFinite
  <2>2. values \in SUBSET {a[i] : i \in s}
    OBVIOUS
  <2>3. IsFiniteSet(values)
    BY <2>1, <2>2, FS_Subset
  <2> HIDE DEF values
  <2>4. IsFiniteSet({c[v] : v \in values})
    BY <2>3, ImageIsFinite
  <2>5. {c[v] : v \in values} = D
    OBVIOUS
  <2> QED
    BY <2>4, <2>5
<1>5. \A d \in D : d[1] \in values /\ d[2] = Cardinality(having(d[1]))
  <2> HIDE DEF values, having
  <2> QED
    OBVIOUS
<1>6. ASSUME NEW v \in values PROVE \E d \in D : d[1] = v
  <2> HIDE DEF values, having
  <2> DEFINE d == <<v, Cardinality(having(v))>>
  <2>1. d \in D /\ d[1] = v
    OBVIOUS
  <2> QED
    BY <2>1
<1>7. \A c, d \in D : c # d => c[1] # d[1]
  <2> HIDE DEF values, having
  <2> QED
    OBVIOUS
<1>8. \A v : IsFiniteSet(having(v))
  <2>1. \A v : having(v) \in SUBSET s
    OBVIOUS
  <2> QED
    BY <1>3, <2>1, FS_Subset
<1>9. UNION {G[d] : d \in D} = s \ having(Unset)
  <2>1. ASSUME NEW d \in D, NEW i \in G[d] PROVE i \in s \ having(Unset)
    BY <1>5
  <2>2. ASSUME NEW i \in s \ having(Unset) PROVE \E d \in D : i \in G[d]
    <3>1. Row(i).acceptance \in values
      OBVIOUS
    <3>2. PICK d \in D : d[1] = Row(i).acceptance
      BY <1>6, <3>1
    <3> HIDE DEF D
    <3> QED
      BY <3>2
  <2> HIDE DEF G, D, having
  <2> QED
    BY <2>1, <2>2
<1>10. \A d \in D : IsFiniteSet(G[d]) /\ N[d] = Cardinality(G[d])
  BY <1>5, <1>8
<1>11. \A c, d \in D : c # d => G[c] \cap G[d] = {}
  BY <1>7
<1>12. SumFunction(N) = Sum(N, D)
  BY DEF Sum, SumFunction
<1> HIDE DEF G, D, N
<1>13. Sum(N, D) = Cardinality(s \ having(Unset))
  BY <1>4, <1>9, <1>10, <1>11, CountOfParts
<1>14. Cardinality(s) = Cardinality(having(Unset)) + Cardinality(s \ having(Unset))
  <2> DEFINE A == having(Unset)
             B == s \ having(Unset)
  <2>1. IsFiniteSet(A) /\ IsFiniteSet(B) /\ A \cap B = {} /\ A \cup B = s
    BY <1>3, <1>8, FS_Subset
  <2> HIDE DEF A, B
  <2>2. Cardinality(A \cup B) = Cardinality(A) + Cardinality(B) - Cardinality(A \cap B)
    BY <2>1, FS_Union
  <2>3. Cardinality(A) \in Nat /\ Cardinality(B) \in Nat /\ Cardinality(A \cap B) = 0
    BY <2>1, FS_CardinalityType, FS_EmptySet
  <2>4. Cardinality(A \cup B) = Cardinality(A) + Cardinality(B)
    BY <2>2, <2>3
  <2>5. Cardinality(s) = Cardinality(A) + Cardinality(B)
    BY <2>1, <2>4
  <2> QED
    BY <2>5 DEF A, B
<1>15. N = [v \in beside.distribution |-> v[2]]
  BY <1>1 DEF N
<1> HIDE DEF having
<1>16. beside.none + SumFunction(N) = beside.n
  BY <1>1, <1>12, <1>13, <1>14
<1> QED
  BY <1>1, <1>2, <1>15, <1>16 DEF beside

(* Table 1, table 3, section 1, the ladder of the tasks and the line beside *)
(* its pass rate count the same runs of a model, and the same of them as    *)
(* passing, however each cuts the corpus into cells and drivers.            *)
THEOREM OneDenominatorHolds ==
  ASSUME OnFile
  PROVE  OneDenominator
<1> SUFFICES ASSUME NEW m \in {"fable", "sol"}
             PROVE  LET table1 == Table1(All)
                        table3 == Table3(All)
                        section1 == Section1
                        arms == {[rows |-> l.rows, arm |-> "bare", rate |-> l.bare] : l \in table3}
                                \cup {[rows |-> l.rows, arm |-> "harness", rate |-> l.harness] :
                                        l \in table3}
                        truth == Rate(Of(All, m))
                        beside == AcceptanceSummary(LoadRows(m))
                    IN /\ Totals(OfModel(table1, m)) = truth
                       /\ Totals(OfModel(arms, m)) = truth
                       /\ Totals(OfModel(section1, m)) = truth
                       /\ Totals({ReportBlock(I) : I \in BlocksFor(m)}) = truth
                       /\ beside.n = truth.n
                       /\ beside.none + SumFunction([v \in beside.distribution |-> v[2]]) = truth.n
  BY DEF OneDenominator
<1> QED
  BY Table1Counts, ArmsCount, Section1Counts, BlocksCount, BesideCounts

Outs == [i \in All |-> Out(i)]

LEMMA OutsAre ==
  ASSUME OnFile, NEW I \in SUBSET All
  PROVE  SumOut(I) = Sum(Outs, I) /\ \A i \in I : Outs[i] \in Nat
<1>1. \A i \in I : Outs[i] = Out(i) /\ Out(i) \in Nat
  BY RowIs DEF Outs, Out, ResultRow
<1> DEFINE own == [i \in I |-> Out(i)]
<1>2. SumOut(I) = Sum(own, I)
  BY DEF SumOut, Sum, SumFunction
<1>3. \A i \in I : own[i] = Outs[i]
  BY <1>1
<1>4. IsFiniteSet(I)
  BY AllIsFinite
<1> HIDE DEF own
<1> QED
  BY <1>1, <1>2, <1>3, <1>4, SumsOfEqual

(* What the ladder of the tasks averages at a tier of a model.              *)
LEMMA LadderSpends ==
  ASSUME OnFile, NEW m, NEW e
  PROVE  LET Sampled(I) == LET tiers == TiersFor(I)
                           IN IF e \in DOMAIN tiers THEN Total(tiers[e]) ELSE 0
         IN SumFunction([I \in BlocksFor(m) |-> Sampled(I)])
              = Sum(Outs, At(TokenRows(Of(All, m)), e))
<1> DEFINE R == LoadRows(m)
           T == Classes(R, ByTask)
           G == [I \in T |-> At(TokenRows(I), e)]
           Sampled(I) == LET tiers == TiersFor(I)
                         IN IF e \in DOMAIN tiers THEN Total(tiers[e]) ELSE 0
           N == [I \in T |-> Sampled(I)]
<1>0. R \in SUBSET All /\ IsFiniteSet(R)
  BY LoadRowsIn, AllIsFinite
<1>1. /\ IsFiniteSet(T)
      /\ \A C \in T : C \in SUBSET R
      /\ \A C, D \in T : C # D => C \cap D = {}
      /\ \A i \in R : \E C \in T : i \in C
  BY <1>0, ClassesPart
<1> HIDE DEF T
<1>2. \A I \in T : G[I] \in SUBSET I /\ G[I] \in SUBSET All
  BY <1>0, <1>1 DEF At, TokenRows
<1>3. ASSUME NEW I \in T PROVE N[I] = Sum(Outs, G[I])
  <2> DEFINE kept == TokenRows(I)
             at == At(kept, e)
  <2>1. G[I] = at /\ at \in SUBSET All
    BY <1>2
  <2>2. CASE e \in EffortsIn(kept)
    <3>1. TiersFor(I)[e] = [i \in at |-> Out(i)] /\ e \in DOMAIN TiersFor(I)
      BY <2>2 DEF TiersFor
    <3>2. Total(TiersFor(I)[e]) = SumOut(at)
      BY <3>1 DEF Total, SumOut
    <3> HIDE DEF kept, at
    <3>3. N[I] = SumOut(at)
      BY <3>1, <3>2
    <3> QED
      BY <2>1, <3>3, OutsAre
  <2>3. CASE e \notin EffortsIn(kept)
    <3>1. at = {}
      BY <2>3 DEF EffortsIn, At
    <3>2. e \notin DOMAIN TiersFor(I)
      BY <2>3 DEF TiersFor
    <3> HIDE DEF kept, at
    <3>3. N[I] = 0
      BY <3>2
    <3> QED
      BY <2>1, <3>1, <3>3, SumOfNone
  <2> QED
    BY <2>2, <2>3
<1>4. UNION {G[I] : I \in T} = At(TokenRows(Of(All, m)), e)
  <2>1. TokenRows(R) = TokenRows(Of(All, m))
    BY DEF TokenRows, LoadRows, Of
  <2>2. ASSUME NEW i \in At(TokenRows(R), e) PROVE \E I \in T : i \in G[I]
    <3>1. i \in R
      BY DEF At, TokenRows
    <3>2. PICK I \in T : i \in I
      BY <1>1, <3>1
    <3>3. i \in G[I]
      BY <3>2 DEF At, TokenRows
    <3> QED
      BY <3>3
  <2>3. ASSUME NEW I \in T, NEW i \in G[I] PROVE i \in At(TokenRows(R), e)
    BY <1>1 DEF At, TokenRows
  <2> HIDE DEF G, R
  <2> QED
    BY <2>1, <2>2, <2>3
<1>5. \A I \in T : IsFiniteSet(G[I]) /\ \A i \in G[I] : Outs[i] \in Nat
  BY <1>2, AllIsFinite, OutsAre
<1>6. \A C, D \in T : C # D => G[C] \cap G[D] = {}
  BY <1>1, <1>2
<1>7. \A I \in T : N[I] = Sum(Outs, G[I])
  BY <1>3
<1>8. BlocksFor(m) = T
  BY BlocksAre DEF T
<1>9. SumFunction(N) = Sum(N, T)
  BY DEF Sum, SumFunction
<1> HIDE DEF G, R, N
<1>10. Sum(N, T) = Sum(Outs, UNION {G[I] : I \in T})
  BY <1>1, <1>5, <1>6, <1>7, SumOfParts
<1>11. N = [I \in BlocksFor(m) |-> Sampled(I)]
  BY <1>8 DEF N
<1> QED
  BY <1>4, <1>9, <1>10, <1>11

(* And what table 2 averages.                                               *)
LEMMA Table2Spends ==
  ASSUME OnFile, NEW m, NEW e
  PROVE  LET lines == {l \in OfModel(Table2(All), m) : EffortsIn(l.rows) = {e}}
         IN SumFunction([l \in lines |-> l.spend.sum])
              = Sum(Outs, At(TokenRows(Of(All, m)), e))
<1> DEFINE K == Classes(All, ByTier)
           L == [C \in K |-> Line2(C)]
           T == {l \in OfModel(Table2(All), m) : EffortsIn(l.rows) = {e}}
           G == [l \in T |-> TokenRows(l.rows)]
           N == [l \in T |-> l.spend.sum]
<1>0. All \in SUBSET All
  OBVIOUS
<1>1. /\ IsFiniteSet(K)
      /\ \A C \in K : /\ C \in SUBSET All /\ C # {}
                      /\ \A i \in C, j \in All : ByTier[i] = ByTier[j] <=> j \in C
      /\ \A C, D \in K : C # D => C \cap D = {}
      /\ \A i \in All : \E C \in K : i \in C
  BY <1>0, AllIsFinite, ClassesPart
<1>2. Table2(All) = {Line2(C) : C \in K}
  BY <1>0, Table2Is
<1>3. \A C : /\ Line2(C).rows = C
             /\ Line2(C).spend.sum = SumOut(TokenRows(C))
  BY DEF Line2, Spend
<1> HIDE DEF K
<1>4. IsFiniteSet(T)
  <2>1. IsFiniteSet({L[C] : C \in K})
    <3> HIDE DEF L
    <3> QED
      BY <1>1, ImageIsFinite
  <2>2. T \in SUBSET {L[C] : C \in K}
    BY <1>2 DEF OfModel
  <2> QED
    BY <2>1, <2>2, FS_Subset
<1>5. ASSUME NEW l \in T
      PROVE  /\ l.rows \in K /\ l = Line2(l.rows) /\ l.rows \in SUBSET All
             /\ \A i \in l.rows : Row(i).model = m /\ Row(i).effort = e
  <2>1. l.rows \in K /\ l = Line2(l.rows) /\ EffortsIn(l.rows) = {e}
    BY <1>2, <1>3 DEF OfModel
  <2>2. PICK j \in l.rows : Row(j).model = m
    BY DEF OfModel
  <2>3. l.rows \in SUBSET All /\ \A i \in l.rows : i \in All /\ ByTier[i] = ByTier[j]
    BY <1>1, <2>1
  <2>4. \A i \in l.rows : Row(i).model = m
    BY <2>2, <2>3 DEF ByTier
  <2>5. \A i \in l.rows : Row(i).effort = e
    BY <2>1 DEF EffortsIn
  <2> QED
    BY <2>1, <2>3, <2>4, <2>5
<1>6. ASSUME NEW i \in All, Row(i).model = m, Row(i).effort = e
      PROVE  \E l \in T : i \in l.rows
  <2>1. PICK C \in K : i \in C
    BY <1>1
  <2>2. \A j \in C : j \in All /\ ByTier[i] = ByTier[j]
    BY <1>1, <2>1
  <2>3. \A j \in C : Row(j).effort = e
    BY <1>6, <2>2 DEF ByTier
  <2>4. EffortsIn(C) = {e}
    BY <2>1, <2>3 DEF EffortsIn
  <2>5. Line2(C) \in T
    BY <1>2, <1>3, <1>6, <2>1, <2>4 DEF OfModel
  <2> HIDE DEF T
  <2> QED
    BY <1>3, <2>1, <2>5
<1> HIDE DEF T
<1>7. \A l \in T : G[l] \in SUBSET l.rows /\ G[l] \in SUBSET All
  BY <1>5 DEF TokenRows
<1>8. UNION {G[l] : l \in T} = At(TokenRows(Of(All, m)), e)
  <2>1. ASSUME NEW l \in T, NEW i \in G[l] PROVE i \in At(TokenRows(Of(All, m)), e)
    BY <1>5 DEF At, TokenRows, Of
  <2>2. ASSUME NEW i \in At(TokenRows(Of(All, m)), e) PROVE \E l \in T : i \in G[l]
    <3>1. i \in All /\ Row(i).model = m /\ Row(i).effort = e /\ Summarizable(Row(i))
      BY DEF At, TokenRows, Of
    <3>2. PICK l \in T : i \in l.rows
      BY <1>6, <3>1
    <3>3. i \in G[l]
      BY <3>1, <3>2 DEF TokenRows
    <3> QED
      BY <3>3
  <2> HIDE DEF G
  <2> QED
    BY <2>1, <2>2
<1>9. \A l \in T : IsFiniteSet(G[l]) /\ \A i \in G[l] : Outs[i] \in Nat
  BY <1>7, AllIsFinite, OutsAre
<1>10. \A l, u \in T : l # u => G[l] \cap G[u] = {}
  <2>1. ASSUME NEW l \in T, NEW u \in T, l # u PROVE G[l] \cap G[u] = {}
    <3>1. l.rows \in K /\ u.rows \in K /\ l.rows # u.rows
      BY <1>5, <2>1
    <3>2. l.rows \cap u.rows = {}
      BY <1>1, <3>1
    <3> QED
      BY <1>7, <3>2
  <2> QED
    BY <2>1
<1>11. \A l \in T : N[l] = Sum(Outs, G[l])
  <2>1. ASSUME NEW l \in T PROVE N[l] = Sum(Outs, G[l])
    <3>1. N[l] = SumOut(G[l])
      BY <1>3, <1>5
    <3> HIDE DEF N, G
    <3> QED
      BY <1>7, <3>1, OutsAre
  <2> QED
    BY <2>1
<1>12. SumFunction(N) = Sum(N, T)
  BY DEF Sum, SumFunction
<1> HIDE DEF G, N
<1>13. Sum(N, T) = Sum(Outs, UNION {G[l] : l \in T})
  BY <1>4, <1>9, <1>10, <1>11, SumOfParts
<1> QED
  BY <1>8, <1>12, <1>13 DEF N, T

(* The ladder of the tasks (effort_verdict.py) and table 2 average the same *)
(* output tokens of a tier, those of the runs that came to their end.       *)
THEOREM OneSpendHolds ==
  ASSUME OnFile
  PROVE  OneSpend
<1> SUFFICES ASSUME NEW m \in {"fable", "sol"}, NEW e \in EffortsIn(All)
             PROVE  LET blocks == BlocksFor(m)
                        Sampled(I, t) == LET tiers == TiersFor(I)
                                         IN IF t \in DOMAIN tiers THEN Total(tiers[t]) ELSE 0
                        lines == {l \in OfModel(Table2(All), m) : EffortsIn(l.rows) = {e}}
                    IN SumFunction([I \in blocks |-> Sampled(I, e)])
                         = SumFunction([l \in lines |-> l.spend.sum])
  BY DEF OneSpend
<1> DEFINE Sampled(I) == LET tiers == TiersFor(I)
                         IN IF e \in DOMAIN tiers THEN Total(tiers[e]) ELSE 0
           lines == {l \in OfModel(Table2(All), m) : EffortsIn(l.rows) = {e}}
           total == Sum(Outs, At(TokenRows(Of(All, m)), e))
<1>1. SumFunction([I \in BlocksFor(m) |-> Sampled(I)]) = total
  BY LadderSpends
<1>2. SumFunction([l \in lines |-> l.spend.sum]) = total
  BY Table2Spends
<1> HIDE DEF total
<1> QED
  BY <1>1, <1>2

LEMMA OneDriver ==
  ASSUME OnFile, NEW R \in SUBSET All, NEW k,
         \A i, j \in R : k[i] = k[j] => Row(i).driver = Row(j).driver,
         NEW I \in Classes(R, k)
  PROVE  Cardinality({Row(i).driver : i \in ScoredRows(I)}) <= 1
<1> DEFINE s == ScoredRows(I)
           d == [i \in s |-> Row(i).driver]
           D == {Row(i).driver : i \in s}
<1>1. s \in SUBSET All /\ \A i, j \in s : Row(i).driver = Row(j).driver
  BY DEF Classes, ScoredRows
<1>2. D = {d[i] : i \in s}
  OBVIOUS
<1>3. \A x, y \in D : x = y
  BY <1>1
<1>4. IsFiniteSet(s)
  BY <1>1, AllIsFinite
<1> HIDE DEF d, s
<1>5. IsFiniteSet({d[i] : i \in s})
  BY <1>4, ImageIsFinite
<1> HIDE DEF D
<1>6. Cardinality(D) <= 1
  BY <1>2, <1>3, <1>5, AtMostOne
<1> QED
  BY <1>6 DEF s, D

(* No cell of tables 1 and 4, of section 1 or of the ladder has measured    *)
(* runs of two drivers: model_key splits every model that has two.          *)
THEOREM DriversApartHolds ==
  ASSUME OnFile
  PROVE  DriversApart
<1>1. ASSUME NEW R \in SUBSET All, NEW I \in PerModel(R)
      PROVE  Cardinality({Row(i).driver : i \in ScoredRows(I)}) <= 1
  <2>1. I \in Classes(R, ByPopulation)
    BY PerModelIs
  <2>2. \A i, j \in R : ByPopulation[i] = ByPopulation[j] => Row(i).driver = Row(j).driver
    BY DEF ByPopulation
  <2> QED
    BY <2>1, <2>2, OneDriver
<1>2. ASSUME NEW m, NEW I \in BlocksFor(m)
      PROVE  Cardinality({Row(i).driver : i \in ScoredRows(I)}) <= 1
  <2>1. I \in Classes(LoadRows(m), ByTask) /\ LoadRows(m) \in SUBSET All
    BY BlocksAre, LoadRowsIn
  <2>2. \A i, j \in LoadRows(m) : ByTask[i] = ByTask[j] => Row(i).driver = Row(j).driver
    BY <2>1 DEF ByTask
  <2> QED
    BY <2>1, <2>2, OneDriver
<1>3. All \in SUBSET All /\ T3(All) \in SUBSET All /\ Measured \in SUBSET All
  BY DEF T3, Measured, ScoredRows
<1> QED
  BY <1>1, <1>2, <1>3 DEF DriversApart

LEMMA OkIsScored ==
  ASSUME NEW row, Summarizable(row)
  PROVE  InDenominator(row.why)
<1>1. row.why = {"ok"} /\ row.why # {}
  BY DEF Summarizable
<1> DEFINE worst == CHOOSE r \in {"ok"} : \A s \in {"ok"} : Severity[ClassOf(r)] <= Severity[ClassOf(s)]
<1>2. ClassOf("ok") = "scored"
  BY DEF ClassOf, EXIT_REASON_CLASS, KnownReasons, Scored, Infra, Mock
<1>3. worst = "ok"
  <2>1. Severity["scored"] = 6
    BY DEF Severity
  <2> QED
    BY <1>2, <2>1
<1> HIDE DEF worst
<1>4. StatusClass(row.why) = ClassOf(worst)
  BY <1>1 DEF StatusClass, worst
<1> QED
  BY <1>2, <1>3, <1>4 DEF InDenominator

(* Without a turn cap, a calibration that is verified has the pass rate of  *)
(* the estimand: calibration_report.py divides by every row, and all are.   *)
THEOREM VerifiedGradeHolds ==
  ASSUME OnFile
  PROVE  VerifiedGradeIsTheRate
<1> SUFFICES ASSUME config = Unset, \A i \in All : Summarizable(corpus[i])
             PROVE  /\ Cardinality(All) = Rate(All).n
                    /\ Cardinality({i \in All : corpus[i].pass}) = Rate(All).passes
  BY DEF VerifiedGradeIsTheRate, Calibrated, Rate
<1>1. \A i \in All : Row(i) = corpus[i] /\ InDenominator(Row(i).why)
  BY RowIs, OkIsScored
<1>2. ScoredRows(All) = All
  BY <1>1 DEF ScoredRows
<1>3. Passing(All) = {i \in All : corpus[i].pass}
  BY <1>1 DEF Passing
<1> QED
  BY <1>2, <1>3 DEF Rate

-----------------------------------------------------------------------------
(***************************************************************************)
(* The corpus only grows, and is typed.                                    *)
(***************************************************************************)

(* What is on file was written by the runner, the judge and the probe, the  *)
(* cap is unset, mistyped or a number, and no reader writes to the corpus.  *)
THEOREM ReadersTyped == ReadersSpec => []OnFile
<1>1. ReadersInit => OnFile
  BY DEF ReadersInit, OnFile
<1>2. OnFile /\ [ReadersNext]_readerVars => OnFile'
  <2> SUFFICES ASSUME OnFile, [ReadersNext]_readerVars
               PROVE  OnFile'
    OBVIOUS
  <2>1. CASE RowComes
    BY <2>1 DEF OnFile, RowComes
  <2>2. CASE JudgmentComes
    BY <2>2 DEF OnFile, JudgmentComes
  <2>3. CASE Register
    BY <2>3, ReadersAssumption DEF OnFile, Register
  <2>4. CASE ProbeComes
    BY <2>4 DEF OnFile, ProbeComes
  <2>5. CASE UNCHANGED readerVars
    BY <2>5 DEF OnFile, readerVars
  <2> QED
    BY <2>1, <2>2, <2>3, <2>4, <2>5 DEF ReadersNext
<1> QED
  BY <1>1, <1>2, PTL DEF ReadersSpec

LEMMA RowsAreTyped == OnFile => RowsTypeOK
<1> SUFFICES ASSUME OnFile PROVE RowsTypeOK
  OBVIOUS
<1>1. \A i \in DOMAIN corpus : corpus[i] \in RowsOfRuns
  BY DEF OnFile
<1>2. \A i \in DOMAIN corpus :
        corpus[i] \in ResultRow /\ (corpus[i].pass => "cap_exhausted" \notin corpus[i].why)
  BY <1>1, ReadersAssumption
<1> QED
  BY <1>2 DEF OnFile, RowsTypeOK

(* One corpus, one truth: every reader counts the same runs of a model, and *)
(* averages the same tokens of a tier, for a corpus of any length, whatever *)
(* its rows say.                                                            *)
THEOREM OneTruthHolds == ReadersSpec => []OneTruth
<1>1. OnFile => OneTruth
  BY RowsAreTyped, OneDenominatorHolds, OneSpendHolds, DriversApartHolds, VerifiedGradeHolds
     DEF OneTruth
<1> QED
  BY <1>1, ReadersTyped, PTL

-----------------------------------------------------------------------------
(***************************************************************************)
(* The configuration advised.                                              *)
(***************************************************************************)

LEMMA LeastNat ==
  ASSUME NEW T \in SUBSET Nat, T # {}
  PROVE  \E x \in T : \A y \in T : x <= y
<1>1. PICK x \in T : \A y \in T : ~(<<y, x>> \in OpToRel(<, Nat))
  BY NatLessThanWellFounded, WFMin
<1>2. \A y \in T : ~(y < x)
  BY <1>1 DEF OpToRel
<1> QED
  BY <1>2

LEMMA Times ==
  ASSUME NEW x \in Int, NEW y \in Int, NEW z \in Int, z > 0
  PROVE  (x <= y <=> x * z <= y * z) /\ (x < y <=> x * z < y * z)
OBVIOUS

(* Quotients compared across: p/a <= q/b <= r/c.                            *)
LEMMA AcrossTwo ==
  ASSUME NEW p \in Int, NEW q \in Int, NEW r \in Int,
         NEW a \in Int, NEW b \in Int, NEW c \in Int, a > 0, b > 0, c > 0,
         p * b <= q * a, q * c <= r * b
  PROVE  /\ p * c <= r * a
         /\ p * b < q * a \/ q * c < r * b => p * c < r * a
<1>1. /\ (p * b) * c <= (q * a) * c /\ (q * c) * a <= (r * b) * a
      /\ p * b < q * a => (p * b) * c < (q * a) * c
      /\ q * c < r * b => (q * c) * a < (r * b) * a
  <2> DEFINE u == p * b
             v == q * a
             w == q * c
             x == r * b
  <2>1. u \in Int /\ v \in Int /\ w \in Int /\ x \in Int /\ u <= v /\ w <= x
    OBVIOUS
  <2> HIDE DEF u, v, w, x
  <2>2. u * c <= v * c /\ (u < v => u * c < v * c)
    BY <2>1, Times
  <2>3. w * a <= x * a /\ (w < x => w * a < x * a)
    BY <2>1, Times
  <2> QED
    BY <2>2, <2>3 DEF u, v, w, x
<1>2. /\ (p * b) * c = (p * c) * b /\ (q * a) * c = (q * c) * a /\ (r * b) * a = (r * a) * b
  OBVIOUS
<1>3. /\ (p * c) * b <= (r * a) * b
      /\ p * b < q * a \/ q * c < r * b => (p * c) * b < (r * a) * b
  <2> DEFINE u == (p * b) * c
             v == (q * c) * a
             w == (r * a) * b
  <2>1. u \in Int /\ v \in Int /\ w \in Int
    OBVIOUS
  <2>2. /\ u <= v /\ v <= w /\ (p * b < q * a => u < v) /\ (q * c < r * b => v < w)
        /\ (p * c) * b = u
    BY <1>1, <1>2
  <2> HIDE DEF u, v
  <2> QED
    BY <2>1, <2>2
<1>4. p * c \in Int /\ r * a \in Int
  OBVIOUS
<1> QED
  BY <1>3, <1>4, Times

IsScore(s) == /\ s.rate.n \in Nat /\ s.rate.passes \in Nat
              /\ s.spend.n \in Nat /\ s.spend.sum \in Nat

LEMMA CheaperIsTransitive ==
  ASSUME NEW a, NEW b, NEW c, a.n \in Nat, b.n \in Nat, c.n \in Nat,
         a.sum \in Nat, b.sum \in Nat, c.sum \in Nat, Cheaper(a, b), Cheaper(b, c)
  PROVE  Cheaper(a, c)
<1>1. a.n > 0 /\ b.n > 0 /\ a.sum * b.n < b.sum * a.n
  BY DEF Cheaper
<1>2. CASE c.n = 0
  BY <1>1, <1>2 DEF Cheaper
<1>3. CASE c.n # 0
  <2>1. c.n > 0 /\ b.sum * c.n < c.sum * b.n
    BY <1>3 DEF Cheaper
  <2>2. a.sum * c.n < c.sum * a.n
    <3> DEFINE p == a.sum
               q == b.sum
               r == c.sum
               x == a.n
               y == b.n
               z == c.n
    <3>1. /\ p \in Int /\ q \in Int /\ r \in Int /\ x \in Int /\ y \in Int /\ z \in Int
          /\ x > 0 /\ y > 0 /\ z > 0 /\ p * y < q * x /\ q * z < r * y
      BY <1>1, <2>1
    <3> HIDE DEF p, q, r, x, y, z
    <3>2. p * y <= q * x /\ q * z <= r * y
      BY <3>1
    <3>3. p * z < r * x
      BY <3>1, <3>2, AcrossTwo
    <3> QED
      BY <3>3 DEF p, q, r, x, y, z
  <2> QED
    BY <1>1, <2>2 DEF Cheaper
<1> QED
  BY <1>2, <1>3

LEMMA BeatsIsOrder ==
  /\ \A a : IsScore(a) => ~Beats(a, a)
  /\ \A a, b, c : /\ IsScore(a) /\ IsScore(b) /\ IsScore(c)
                  /\ Beats(a, b) /\ Beats(b, c)
                  => Beats(a, c)
<1>1. ASSUME NEW a, IsScore(a) PROVE ~Beats(a, a)
  <2> DEFINE x == a.rate.passes * a.rate.n
             y == a.spend.sum * a.spend.n
  <2>1. x \in Int /\ y \in Int /\ a.rate.n \in Int /\ a.spend.n \in Int
    BY <1>1 DEF IsScore
  <2> HIDE DEF x, y
  <2>2. ~(x > x) /\ ~(y < y) /\ ~(a.rate.n > 0 /\ a.rate.n = 0) /\ ~(a.spend.n > 0 /\ a.spend.n = 0)
    BY <2>1
  <2> QED
    BY <2>2 DEF Beats, Cheaper, x, y
<1>2. ASSUME NEW a, NEW b, NEW c, IsScore(a), IsScore(b), IsScore(c), Beats(a, b), Beats(b, c)
      PROVE  Beats(a, c)
  <2> DEFINE p == a.rate.passes
             q == b.rate.passes
             r == c.rate.passes
             x == a.rate.n
             y == b.rate.n
             z == c.rate.n
  <2>1. x > 0 /\ y > 0
    BY <1>2 DEF Beats
  <2>2. CASE z = 0
    BY <2>1, <2>2 DEF Beats
  <2>3. CASE z # 0
    <3>1. /\ p \in Int /\ q \in Int /\ r \in Int /\ x \in Int /\ y \in Int /\ z \in Int
          /\ x > 0 /\ y > 0 /\ z > 0
      BY <1>2, <2>1, <2>3 DEF IsScore
    <3>2. p * y > q * x \/ (p * y = q * x /\ Cheaper(a.spend, b.spend))
      BY <1>2, <2>1 DEF Beats
    <3>3. q * z > r * y \/ (q * z = r * y /\ Cheaper(b.spend, c.spend))
      BY <1>2, <2>1, <3>1 DEF Beats
    <3>4. p * z > r * x \/ (p * z = r * x /\ Cheaper(a.spend, c.spend))
      <4> HIDE DEF p, q, r, x, y, z
      <4>1. p * y \in Int /\ q * x \in Int /\ q * z \in Int /\ r * y \in Int
            /\ p * z \in Int /\ r * x \in Int
        BY <3>1
      <4>2. r * y <= q * z /\ q * x <= p * y
        BY <3>2, <3>3, <4>1
      <4>3. r * x <= p * z /\ (r * y < q * z \/ q * x < p * y => r * x < p * z)
        BY <3>1, <4>2, AcrossTwo
      <4>4. CASE r * y < q * z \/ q * x < p * y
        BY <4>1, <4>3, <4>4
      <4>5. CASE ~(r * y < q * z \/ q * x < p * y)
        <5>1. p * y = q * x /\ q * z = r * y
          BY <4>1, <4>2, <4>5
        <5>2. ~(p * y > q * x) /\ ~(q * z > r * y)
          BY <4>1, <5>1
        <5>3. Cheaper(a.spend, b.spend) /\ Cheaper(b.spend, c.spend)
          BY <3>2, <3>3, <5>2
        <5>4. Cheaper(a.spend, c.spend)
          BY <1>2, <5>3, CheaperIsTransitive DEF IsScore
        <5>5. p * y <= q * x /\ q * z <= r * y
          BY <4>1, <5>1
        <5>6. p * z <= r * x
          BY <3>1, <5>5, AcrossTwo
        <5> QED
          BY <4>1, <4>3, <5>4, <5>6
      <4> QED
        BY <4>4, <4>5
    <3> QED
      BY <3>1, <3>4 DEF Beats
  <2> QED
    BY <2>2, <2>3
<1> QED
  BY <1>1, <1>2

(* Of finitely many, one is beaten by none.                                 *)
LEMMA Unbeaten ==
  ASSUME NEW S, IsFiniteSet(S), S # {}, NEW score, \A x \in S : IsScore(score[x])
  PROVE  \E x \in S : \A y \in S : ~Beats(score[y], score[x])
<1> DEFINE Has(s) == \E x \in s : \A y \in s : ~Beats(score[y], score[x])
           P == {n \in Nat : \A s \in SUBSET S : Cardinality(s) <= n => s = {} \/ Has(s)}
<1>1. 0 \in P
  <2>1. \A s \in SUBSET S : Cardinality(s) <= 0 => s = {}
    BY NoneLeft, FS_Subset
  <2> QED
    BY <2>1
<1>2. ASSUME NEW n \in P \cap Nat PROVE n + 1 \in P
  <2>1. ASSUME NEW s \in SUBSET S, Cardinality(s) <= n + 1, s # {} PROVE Has(s)
    <3>1. PICK x : x \in s
      BY <2>1
    <3> DEFINE r == s \ {x}
    <3>2. /\ r \in SUBSET S /\ IsFiniteSet(s) /\ Cardinality(s) \in Nat
          /\ Cardinality(r) = Cardinality(s) - 1
      BY <3>1, OneLess
    <3>3. n \in Nat
      OBVIOUS
    <3>4. Cardinality(r) <= n
      BY <2>1, <3>2, <3>3
    <3>5. r = {} \/ Has(r)
      <4> HIDE DEF r, Has
      <4> QED
        BY <3>2, <3>4
    <3>6. CASE r = {}
      <4>1. s = {x}
        BY <3>1, <3>6
      <4>2. ~Beats(score[x], score[x])
        BY <3>1, BeatsIsOrder
      <4> QED
        BY <4>1, <4>2
    <3>7. CASE Has(r)
      <4>1. PICK u \in r : \A y \in r : ~Beats(score[y], score[u])
        BY <3>7
      <4>2. CASE ~Beats(score[x], score[u])
        BY <4>1, <4>2
      <4>3. CASE Beats(score[x], score[u])
        <5>1. ASSUME NEW y \in s PROVE ~Beats(score[y], score[x])
          <6>1. CASE y = x
            BY <3>1, <6>1, BeatsIsOrder
          <6>2. CASE y # x
            <7>1. y \in r /\ IsScore(score[y]) /\ IsScore(score[x]) /\ IsScore(score[u])
              BY <3>1, <6>2
            <7>2. ~Beats(score[y], score[u])
              BY <4>1, <7>1
            <7> QED
              BY <4>3, <7>1, <7>2, BeatsIsOrder
          <6> QED
            BY <6>1, <6>2
        <5> QED
          BY <3>1, <5>1
      <4> QED
        BY <4>2, <4>3
    <3> QED
      BY <3>5, <3>6, <3>7
  <2> QED
    BY <2>1
<1>3. Cardinality(S) \in P
  <2>1. Nat \subseteq P
    BY <1>1, <1>2, Induction
  <2> QED
    BY <2>1, FS_CardinalityType
<1>4. Cardinality(S) <= Cardinality(S)
  BY FS_CardinalityType
<1> QED
  BY <1>3, <1>4

LEMMA RateIs ==
  ASSUME OnFile, NEW I \in SUBSET All
  PROVE  /\ Rate(I).n \in Nat /\ Rate(I).passes \in Nat
         /\ Spend(I).n \in Nat /\ Spend(I).sum \in Nat
         /\ ScoredRows(I) \in SUBSET I /\ TokenRows(I) \in SUBSET I
         /\ IsScore(Score(I))
<1> DEFINE Right(J) == /\ Rate(J).n \in Nat /\ Rate(J).passes \in Nat
                       /\ Spend(J).n \in Nat /\ Spend(J).sum \in Nat
<1>1. ASSUME NEW J \in SUBSET All PROVE Right(J)
  <2>1. /\ ScoredRows(J) \in SUBSET All /\ Passing(ScoredRows(J)) \in SUBSET All
        /\ TokenRows(J) \in SUBSET All
    BY DEF ScoredRows, Passing, TokenRows
  <2>2. /\ Cardinality(ScoredRows(J)) \in Nat /\ Cardinality(Passing(ScoredRows(J))) \in Nat
        /\ Cardinality(TokenRows(J)) \in Nat /\ IsFiniteSet(TokenRows(J))
    BY <2>1, AllIsFinite
  <2>3. SumOut(TokenRows(J)) \in Nat
    BY <2>1, <2>2, OutsAre, SumType
  <2> QED
    BY <2>2, <2>3 DEF Rate, Spend
<1>2. ScoredRows(I) \in SUBSET I /\ TokenRows(I) \in SUBSET I
  BY DEF ScoredRows, TokenRows
<1>3. ScoredRows(I) \in SUBSET All
  BY <1>2
<1>4. Right(I) /\ Right(ScoredRows(I))
  BY <1>1, <1>3
<1>5. Score(I).rate = Rate(I) /\ Score(I).spend = Spend(ScoredRows(I))
  BY DEF Score
<1> QED
  BY <1>2, <1>4, <1>5 DEF IsScore

LEMMA BestIs ==
  ASSUME OnFile, NEW I \in SUBSET All, I # {}
  PROVE  LET best == Best(Configs(I))
         IN /\ best \in Configs(I) /\ best \in SUBSET I
            /\ \A J \in Configs(I) : ~Beats(Score(J), Score(best))
<1> DEFINE K == Configs(I)
           score == [J \in K |-> Score(J)]
           U == {J \in K : \A C \in K : ~Beats(Score(C), Score(J))}
           M == {Min(J) : J \in U}
<1>1. /\ IsFiniteSet(K) /\ K # {}
      /\ \A J \in K : J \in SUBSET I /\ J # {} /\ J \in SUBSET All
  <2>1. IsFiniteSet(I) /\ K = Classes(I, BySetting)
    BY AllIsFinite, ConfigsIs
  <2> QED
    BY <2>1, ClassesPart
<1> HIDE DEF K
<1>2. U # {}
  <2>1. \A J \in K : IsScore(score[J]) /\ score[J] = Score(J)
    BY <1>1, RateIs
  <2> HIDE DEF score
  <2>2. PICK x \in K : \A y \in K : ~Beats(score[y], score[x])
    BY <1>1, <2>1, Unbeaten
  <2> QED
    BY <2>1, <2>2
<1>3. \A J \in K : Min(J) \in Nat
  <2>1. ASSUME NEW J \in K PROVE Min(J) \in Nat
    <3>1. J \in SUBSET Nat /\ J # {}
      BY <1>1 DEF OnFile, All
    <3>2. \E x \in J : \A y \in J : x <= y
      BY <3>1, LeastNat
    <3>3. Min(J) \in J
      BY <3>2 DEF Min
    <3> QED
      BY <3>1, <3>3
  <2> QED
    BY <2>1
<1>4. PICK l \in M : \A y \in M : l <= y
  <2>1. M \in SUBSET Nat /\ M # {}
    BY <1>2, <1>3
  <2> QED
    BY <2>1, LeastNat
<1>5. \E J \in U : \A C \in U : Min(J) <= Min(C)
  BY <1>4
<1>6. Best(K) \in U
  <2>1. Best(K) = CHOOSE J \in U : \A C \in U : Min(J) <= Min(C)
    BY DEF Best
  <2> HIDE DEF U
  <2> QED
    BY <1>5, <2>1
<1> QED
  BY <1>1, <1>6 DEF K

LEMMA AdviceIs ==
  ASSUME OnFile, NEW I \in SUBSET All, I # {}
  PROVE  LET best == Best(Configs(I))
         IN /\ Advice(I).rows = I /\ Advice(I).rate = Score(best).rate
            /\ Advice(I).spend = Score(best).spend
            /\ best \in Configs(I) /\ best \in SUBSET I /\ IsScore(Score(best))
            /\ \A J \in Configs(I) : ~Beats(Score(J), Score(best))
<1> DEFINE best == Best(Configs(I))
<1>1. /\ best \in Configs(I) /\ best \in SUBSET I
      /\ \A J \in Configs(I) : ~Beats(Score(J), Score(best))
  BY BestIs
<1>2. /\ Advice(I).rows = I /\ Advice(I).rate = Rate(ScoredRows(best))
      /\ Advice(I).spend = Spend(ScoredRows(best))
  BY DEF Advice
<1> HIDE DEF best
<1>3. ScoredRows(ScoredRows(best)) = ScoredRows(best)
  BY DEF ScoredRows
<1>4. Rate(ScoredRows(best)) = Rate(best)
  BY <1>3 DEF Rate
<1>5. Score(best).rate = Rate(best) /\ Score(best).spend = Spend(ScoredRows(best))
  BY DEF Score
<1>6. IsScore(Score(best))
  BY <1>1, RateIs
<1> QED
  BY <1>1, <1>2, <1>4, <1>5, <1>6 DEF best

LEMMA Table6Is ==
  ASSUME OnFile, NEW R \in SUBSET All, NEW won \in Table6(R)
  PROVE  \E I \in Classes(R, ByPopulation) : I \in SUBSET R /\ I # {} /\ won = Advice(I)
<1>1. PICK I \in Classes(R, ByPopulation) : won = Advice(I)
  BY PerModelIs DEF Table6
<1>2. IsFiniteSet(R)
  BY AllIsFinite
<1>3. I \in SUBSET R /\ I # {}
  BY <1>2, ClassesPart
<1> QED
  BY <1>1, <1>3

(* The configuration table 6 advises was measured if any of the model was,  *)
(* and of two with one rate it is not the one whose spend nobody knows.     *)
THEOREM MeasuredConfigWinsHolds ==
  ASSUME OnFile
  PROVE  MeasuredConfigWins
<1> SUFFICES ASSUME NEW won \in Table6(All), NEW J \in Configs(won.rows)
             PROVE  LET other == Score(J)
                    IN /\ other.rate.n > 0 => won.rate.n > 0
                       /\ /\ other.rate.n > 0 /\ other.spend.n > 0
                          /\ other.rate.passes * won.rate.n = won.rate.passes * other.rate.n
                          => won.spend.n > 0
  BY DEF MeasuredConfigWins
<1> DEFINE other == Score(J)
           best == Score(Best(Configs(won.rows)))
<1>1. All \in SUBSET All
  OBVIOUS
<1>2. PICK I : I \in SUBSET All /\ I # {} /\ won = Advice(I)
  BY <1>1, Table6Is
<1>3. /\ won.rate = best.rate /\ won.spend = best.spend /\ IsScore(best) /\ ~Beats(other, best)
      /\ won.rows = I
  BY <1>2, AdviceIs
<1>4. IsScore(other)
  <2>1. J \in Classes(I, BySetting) /\ IsFiniteSet(I)
    BY <1>2, <1>3, ConfigsIs, AllIsFinite
  <2>2. J \in SUBSET All
    BY <1>2, <2>1, ClassesPart
  <2> QED
    BY <2>2, RateIs
<1> HIDE DEF other, best
<1>5. other.rate.n > 0 => won.rate.n > 0
  BY <1>3, <1>4 DEF Beats, IsScore
<1>6. ASSUME other.rate.n > 0, other.spend.n > 0,
             other.rate.passes * won.rate.n = won.rate.passes * other.rate.n
      PROVE  won.spend.n > 0
  <2>1. won.rate.n > 0
    BY <1>5, <1>6
  <2>2. ~Cheaper(other.spend, won.spend)
    BY <1>3, <1>6, <2>1 DEF Beats
  <2>3. won.spend.n # 0
    BY <1>6, <2>2 DEF Cheaper
  <2> QED
    BY <1>3, <2>3 DEF IsScore
<1> QED
  BY <1>5, <1>6 DEF other

(* The input column of table 6 is a mean of true inputs of runs of the      *)
(* configuration it is beside.                                              *)
THEOREM InputIsTrueHolds ==
  ASSUME OnFile
  PROVE  InputIsTrue
<1> SUFFICES ASSUME NEW won \in Table6(All)
             PROVE  \E I \in SUBSET won.rows :
                      /\ Cardinality(I) = won.input.n
                      /\ SumFunction([i \in I |-> Row(i).truth]) = won.input.sum
  BY DEF InputIsTrue
<1>1. All \in SUBSET All
  OBVIOUS
<1>2. PICK J : J \in SUBSET All /\ J # {} /\ won = Advice(J)
  BY <1>1, Table6Is
<1> DEFINE I == {i \in ScoredRows(Best(Configs(J))) : ResolveTokensIn(Row(i)) # Unset}
           true == [i \in I |-> Row(i).truth]
           told == [i \in I |-> ResolveTokensIn(Row(i))]
<1>3. /\ won.rows = J /\ won.input.n = Cardinality(I) /\ won.input.sum = SumFunction(told)
  BY <1>2 DEF Advice
<1>4. I \in SUBSET J /\ I \in SUBSET All
  <2>1. Best(Configs(J)) \in SUBSET J
    BY <1>2, AdviceIs
  <2> QED
    BY <1>2, <2>1 DEF ScoredRows
<1>5. \A i \in I : true[i] = told[i]
  <2>1. ASSUME NEW i \in I PROVE Row(i).truth = ResolveTokensIn(Row(i))
    <3>1. /\ i \in All /\ ResolveTokensIn(Row(i)) # Unset
      BY <1>4
    <3>2. /\ corpus[i] \in RowsOfRuns
          /\ Row(i).tin = corpus[i].tin /\ Row(i).truth = corpus[i].truth
          /\ Row(i).tin_status = corpus[i].tin_status /\ RunId(Row(i)) = RunId(corpus[i])
      BY <3>1, RowIs
    <3>3. /\ TokensInUsable(corpus[i]) => corpus[i].tin = corpus[i].truth
          /\ TokensInRecoverable(corpus[i]) => Recovered(corpus[i]) \in {corpus[i].truth, Unset}
      BY <3>2, ReadersAssumption
    <3>4. /\ Recovered(Row(i)) = Recovered(corpus[i])
          /\ TokensInUsable(Row(i)) <=> TokensInUsable(corpus[i])
          /\ TokensInRecoverable(Row(i)) <=> TokensInRecoverable(corpus[i])
      BY <3>2 DEF Recovered, TokensInUsable, TokensInRecoverable
    <3> QED
      BY <3>1, <3>2, <3>3, <3>4 DEF ResolveTokensIn
  <2> QED
    BY <2>1
<1>6. IsFiniteSet(I)
  BY <1>4, AllIsFinite
<1>7. SumFunction(true) = Sum(true, I) /\ SumFunction(told) = Sum(told, I)
  BY DEF Sum, SumFunction
<1> HIDE DEF I, told
<1>8. SumFunction(true) = won.input.sum
  <2> HIDE DEF true
  <2>1. Sum(true, I) = Sum(told, I)
    BY <1>5, <1>6, SumsOfEqual
  <2> QED
    BY <1>3, <1>7, <2>1
<1> QED
  BY <1>3, <1>4, <1>8

(* The configuration advised was measured if any was, and the input of its  *)
(* line is the true one of the runs it is over.                             *)
THEOREM AdviceHolds == ReadersSpec => []AdviceIsMeasured
<1>1. OnFile => AdviceIsMeasured
  BY MeasuredConfigWinsHolds, InputIsTrueHolds DEF AdviceIsMeasured
<1> QED
  BY <1>1, ReadersTyped, PTL

-----------------------------------------------------------------------------
(***************************************************************************)
(* Rows that are no measurement.                                           *)
(***************************************************************************)

LEMMA MeasuredIn == Measured \in SUBSET All
BY DEF Measured, ScoredRows

LEMMA ClassMeasured ==
  ASSUME NEW S, NEW k, NEW I \in Classes(S, k), I \cap Measured # {}
  PROVE  I \cap Measured \in Classes(S \cap Measured, k)
<1>1. PICK i \in S : I = {j \in S : k[j] = k[i]}
  BY DEF Classes
<1>2. PICK h \in S \cap Measured : k[h] = k[i]
  BY <1>1
<1>3. I \cap Measured = {j \in S \cap Measured : k[j] = k[h]}
  BY <1>1, <1>2
<1> QED
  BY <1>3 DEF Classes

LEMMA MeasuredClass ==
  ASSUME NEW S, NEW k, NEW J \in Classes(S \cap Measured, k)
  PROVE  J # {} /\ J \in SUBSET Measured /\ \E I \in Classes(S, k) : I \cap Measured = J
<1>1. PICK h \in S \cap Measured : J = {j \in S \cap Measured : k[j] = k[h]}
  BY DEF Classes
<1> DEFINE I == {j \in S : k[j] = k[h]}
<1>2. I \in Classes(S, k) /\ I \cap Measured = J /\ h \in J
  BY <1>1 DEF Classes
<1> QED
  BY <1>1, <1>2

LEMMA MeasuredCount ==
  ASSUME NEW I \in SUBSET All
  PROVE  /\ ScoredRows(I \cap Measured) = ScoredRows(I)
         /\ TokenRows(I \cap Measured) = TokenRows(I)
         /\ Rate(I \cap Measured) = Rate(I) /\ Spend(I \cap Measured) = Spend(I)
         /\ Quality(I \cap Measured) = Quality(I) /\ Score(I \cap Measured) = Score(I)
<1>1. ScoredRows(I \cap Measured) = ScoredRows(I)
  BY DEF ScoredRows, Measured
<1>2. TokenRows(I \cap Measured) = TokenRows(I)
  BY OkIsScored DEF ScoredRows, Measured, TokenRows
<1>3. Rate(I \cap Measured) = Rate(I) /\ Spend(I \cap Measured) = Spend(I)
  BY <1>1, <1>2 DEF Rate, Spend
<1>4. Quality(I \cap Measured) = Quality(I)
  BY <1>1 DEF Quality
<1>5. Score(I \cap Measured) = Score(I)
  BY <1>1, <1>3 DEF Score
<1> QED
  BY <1>1, <1>2, <1>3, <1>4, <1>5

(* A line L of a table, and whether it is one (D), depends on the measured  *)
(* rows of its class alone.                                                 *)
OfMeasured(L, D) ==
  \A I \in SUBSET All :
    /\ L[I].rows = I /\ [L[I] EXCEPT !.rows = @ \cap Measured] = L[I \cap Measured]
    /\ I \in D <=> I \cap Measured \in D

(* The lines L of the classes that are in D.                                *)
LinesOf(S, k, L, D) == {L[I] : I \in Classes(S, k) \cap D}

LEMMA AboutIs ==
  ASSUME NEW S \in SUBSET All, NEW k, NEW L, NEW D, OfMeasured(L, D)
  PROVE  About(LinesOf(S, k, L, D))
           = {L[J] : J \in {I \in Classes(S \cap Measured, k) : I \in D}}
<1> DEFINE K == Classes(S, k)
           C == Classes(S \cap Measured, k)
           T == LinesOf(S, k, L, D)
           G == {L[J] : J \in {I \in C : I \in D}}
<1>1. /\ \A I \in K : I \cap Measured # {} => I \cap Measured \in C
      /\ \A J \in C : J # {} /\ J \in SUBSET Measured /\ \E I \in K : I \cap Measured = J
  BY ClassMeasured, MeasuredClass
<1>2. \A I \in K : I \in SUBSET All
  BY DEF Classes
<1>3. T = {L[I] : I \in K \cap D}
  BY DEF LinesOf
<1> HIDE DEF K, C, T
<1>4. \A I \in SUBSET All :
        /\ L[I].rows = I /\ [L[I] EXCEPT !.rows = @ \cap Measured] = L[I \cap Measured]
        /\ I \in D <=> I \cap Measured \in D
  BY DEF OfMeasured
<1>5. ASSUME NEW l \in About(T) PROVE l \in G
  <2>1. PICK t \in T : t.rows \cap Measured # {} /\ l = [t EXCEPT !.rows = @ \cap Measured]
    BY DEF About
  <2>2. PICK I \in K \cap D : t = L[I]
    BY <1>3
  <2>3. I \in SUBSET All /\ t.rows = I
    BY <1>2, <1>4, <2>2
  <2>4. l = L[I \cap Measured] /\ I \cap Measured \in D
    BY <1>4, <2>1, <2>2, <2>3
  <2>5. I \cap Measured \in C
    BY <1>1, <2>1, <2>2, <2>3
  <2> QED
    BY <2>4, <2>5
<1>6. ASSUME NEW l \in G PROVE l \in About(T)
  <2>1. PICK J \in C : J \in D /\ l = L[J]
    OBVIOUS
  <2>2. PICK I \in K : I \cap Measured = J
    BY <1>1
  <2>3. I \in SUBSET All /\ I \in D
    BY <1>2, <1>4, <2>1, <2>2
  <2>4. L[I] \in T /\ L[I].rows = I /\ l = [L[I] EXCEPT !.rows = @ \cap Measured]
    BY <1>3, <1>4, <2>1, <2>2, <2>3
  <2>5. L[I].rows \cap Measured # {}
    BY <1>1, <2>2, <2>4
  <2> QED
    BY <2>4, <2>5 DEF About
<1> HIDE DEF G
<1>7. About(T) = G
  BY <1>5, <1>6
<1> QED
  BY <1>7 DEF T, G, C

LEMMA SameAbout ==
  ASSUME NEW S \in SUBSET All, NEW k, NEW L, NEW D, OfMeasured(L, D)
  PROVE  About(LinesOf(S, k, L, D)) = About(LinesOf(S \cap Measured, k, L, D))
<1> DEFINE R == S \cap Measured
<1>1. R \in SUBSET All /\ R \cap Measured = R
  OBVIOUS
<1>2. About(LinesOf(S, k, L, D)) = {L[J] : J \in {I \in Classes(R, k) : I \in D}}
  BY AboutIs
<1> HIDE DEF R
<1>3. About(LinesOf(R, k, L, D)) = {L[J] : J \in {I \in Classes(R \cap Measured, k) : I \in D}}
  BY <1>1, AboutIs
<1> QED
  BY <1>1, <1>2, <1>3 DEF R

Everything == SUBSET All
FullLines1 == [I \in Everything |-> Line1(I)]
FullLines2 == [I \in Everything |-> Line2(I)]

Arm(I, harness) == {i \in I : Row(i).harness = harness}
Line3(I) == [rows |-> I, bare |-> Rate(Arm(I, FALSE)), bare_spend |-> Spend(Arm(I, FALSE)),
             harness |-> Rate(Arm(I, TRUE)), harness_spend |-> Spend(Arm(I, TRUE))]
FullLines3 == [I \in Everything |-> Line3(I)]
WithRate == {I \in Everything : Rate(I).n > 0}

Toks(I) == {Out(i) : i \in TokenRows(ScoredRows(I))}
Line5(I) == [rows |-> I, passes |-> Rate(I).passes, least |-> Min(Toks(I)), most |-> Max(Toks(I))]
FullLines5 == [I \in Everything |-> Line5(I)]
WithTwo == {I \in Everything : Rate(I).n >= 2 /\ Toks(I) # {}}

LEMMA ClassesIn ==
  ASSUME NEW R \in SUBSET All, NEW k
  PROVE  Classes(R, k) \cap Everything = Classes(R, k)
BY DEF Classes, Everything

LEMMA Lines1Measured == OfMeasured(FullLines1, Everything)
<1> SUFFICES ASSUME NEW I \in SUBSET All
             PROVE  /\ FullLines1[I].rows = I
                    /\ [FullLines1[I] EXCEPT !.rows = @ \cap Measured] = FullLines1[I \cap Measured]
                    /\ I \in Everything <=> I \cap Measured \in Everything
  BY DEF OfMeasured
<1>1. I \in Everything /\ I \cap Measured \in Everything
  BY DEF Everything
<1>2. FullLines1[I] = Line1(I) /\ FullLines1[I \cap Measured] = Line1(I \cap Measured)
  BY <1>1 DEF FullLines1
<1>3. Rate(I \cap Measured) = Rate(I) /\ Quality(I \cap Measured) = Quality(I)
  BY MeasuredCount
<1> QED
  BY <1>1, <1>2, <1>3 DEF Line1

LEMMA Lines2Measured == OfMeasured(FullLines2, Everything)
<1> SUFFICES ASSUME NEW I \in SUBSET All
             PROVE  /\ FullLines2[I].rows = I
                    /\ [FullLines2[I] EXCEPT !.rows = @ \cap Measured] = FullLines2[I \cap Measured]
                    /\ I \in Everything <=> I \cap Measured \in Everything
  BY DEF OfMeasured
<1>1. I \in Everything /\ I \cap Measured \in Everything
  BY DEF Everything
<1>2. FullLines2[I] = Line2(I) /\ FullLines2[I \cap Measured] = Line2(I \cap Measured)
  BY <1>1 DEF FullLines2
<1>3. Rate(I \cap Measured) = Rate(I) /\ Spend(I \cap Measured) = Spend(I)
  BY MeasuredCount
<1> QED
  BY <1>1, <1>2, <1>3 DEF Line2

LEMMA Lines3Measured == OfMeasured(FullLines3, WithRate)
<1> SUFFICES ASSUME NEW I \in SUBSET All
             PROVE  /\ FullLines3[I].rows = I
                    /\ [FullLines3[I] EXCEPT !.rows = @ \cap Measured] = FullLines3[I \cap Measured]
                    /\ I \in WithRate <=> I \cap Measured \in WithRate
  BY DEF OfMeasured
<1>1. I \in Everything /\ I \cap Measured \in Everything
  BY DEF Everything
<1>2. FullLines3[I] = Line3(I) /\ FullLines3[I \cap Measured] = Line3(I \cap Measured)
  BY <1>1 DEF FullLines3
<1>3. Rate(I \cap Measured) = Rate(I)
  BY MeasuredCount
<1>4. ASSUME NEW h
      PROVE  /\ Rate(Arm(I \cap Measured, h)) = Rate(Arm(I, h))
             /\ Spend(Arm(I \cap Measured, h)) = Spend(Arm(I, h))
  <2>1. Arm(I, h) \in SUBSET All /\ Arm(I \cap Measured, h) = Arm(I, h) \cap Measured
    BY DEF Arm
  <2> QED
    BY <2>1, MeasuredCount
<1>5. I \in WithRate <=> I \cap Measured \in WithRate
  BY <1>1, <1>3 DEF WithRate
<1> DEFINE J == I \cap Measured
<1>6. /\ Rate(Arm(J, FALSE)) = Rate(Arm(I, FALSE)) /\ Spend(Arm(J, FALSE)) = Spend(Arm(I, FALSE))
      /\ Rate(Arm(J, TRUE)) = Rate(Arm(I, TRUE)) /\ Spend(Arm(J, TRUE)) = Spend(Arm(I, TRUE))
  BY <1>4
<1>7. Line3(J) = [rows |-> J, bare |-> Rate(Arm(I, FALSE)), bare_spend |-> Spend(Arm(I, FALSE)),
                  harness |-> Rate(Arm(I, TRUE)), harness_spend |-> Spend(Arm(I, TRUE))]
  BY <1>6 DEF Line3
<1>8. Line3(I).rows = I /\ [Line3(I) EXCEPT !.rows = @ \cap Measured] = Line3(J)
  <2>1. \A a, b, c, d :
          [[rows |-> I, bare |-> a, bare_spend |-> b, harness |-> c, harness_spend |-> d]
             EXCEPT !.rows = J]
            = [rows |-> J, bare |-> a, bare_spend |-> b, harness |-> c, harness_spend |-> d]
    <3> HIDE DEF J
    <3> QED
      OBVIOUS
  <2>2. Line3(I).rows = I
    BY DEF Line3
  <2>3. [Line3(I) EXCEPT !.rows = J] = Line3(J)
    <3> DEFINE a == Rate(Arm(I, FALSE))
               b == Spend(Arm(I, FALSE))
               c == Rate(Arm(I, TRUE))
               d == Spend(Arm(I, TRUE))
    <3>1. /\ Line3(I) = [rows |-> I, bare |-> a, bare_spend |-> b, harness |-> c, harness_spend |-> d]
          /\ Line3(J) = [rows |-> J, bare |-> a, bare_spend |-> b, harness |-> c, harness_spend |-> d]
      BY <1>7 DEF Line3
    <3> HIDE DEF J, a, b, c, d
    <3> QED
      BY <2>1, <3>1
  <2> QED
    BY <2>2, <2>3
<1> QED
  BY <1>2, <1>5, <1>8

LEMMA Lines5Measured == OfMeasured(FullLines5, WithTwo)
<1> SUFFICES ASSUME NEW I \in SUBSET All
             PROVE  /\ FullLines5[I].rows = I
                    /\ [FullLines5[I] EXCEPT !.rows = @ \cap Measured] = FullLines5[I \cap Measured]
                    /\ I \in WithTwo <=> I \cap Measured \in WithTwo
  BY DEF OfMeasured
<1>1. I \in Everything /\ I \cap Measured \in Everything
  BY DEF Everything
<1>2. FullLines5[I] = Line5(I) /\ FullLines5[I \cap Measured] = Line5(I \cap Measured)
  BY <1>1 DEF FullLines5
<1>3. Rate(I \cap Measured) = Rate(I) /\ ScoredRows(I \cap Measured) = ScoredRows(I)
  BY MeasuredCount
<1>4. Toks(I \cap Measured) = Toks(I)
  BY <1>3 DEF Toks
<1> QED
  BY <1>1, <1>2, <1>3, <1>4 DEF Line5, WithTwo

LEMMA TablesAre ==
  ASSUME OnFile, NEW R \in SUBSET All
  PROVE  /\ Table1(R) = LinesOf(R, ByTier, FullLines1, Everything)
         /\ Table2(R) = LinesOf(R, ByTier, FullLines2, Everything)
         /\ Table3(R) = LinesOf(R, ByPopulation, FullLines3, WithRate)
         /\ Table4(R) = LinesOf(T3(R), ByPopulation, FullLines2, Everything)
         /\ Table5(R) = LinesOf(R, ByCell, FullLines5, WithTwo)
<1>0. \A S \in SUBSET All : \A k : \A I \in Classes(S, k) : I \in Everything
  BY DEF Classes, Everything
<1>1. Table1(R) = LinesOf(R, ByTier, FullLines1, Everything)
  <2>1. Table1(R) = {Line1(I) : I \in Classes(R, ByTier)}
    BY Table1Is
  <2>2. \A I \in Classes(R, ByTier) : Line1(I) = FullLines1[I]
    BY <1>0 DEF FullLines1
  <2> QED
    BY <2>1, <2>2, ClassesIn DEF LinesOf
<1>2. Table2(R) = LinesOf(R, ByTier, FullLines2, Everything)
  <2>1. Table2(R) = {Line2(I) : I \in Classes(R, ByTier)}
    BY Table2Is
  <2>2. \A I \in Classes(R, ByTier) : Line2(I) = FullLines2[I]
    BY <1>0 DEF FullLines2
  <2> QED
    BY <2>1, <2>2, ClassesIn DEF LinesOf
<1>3. Table3(R) = LinesOf(R, ByPopulation, FullLines3, WithRate)
  <2> DEFINE K == Classes(R, ByPopulation)
  <2>1. Table3(R) = {Line3(I) : I \in {J \in K : Rate(J).n > 0}}
    BY PerModelIs DEF Table3, Line3, Arm
  <2>2. \A I \in K : Line3(I) = FullLines3[I] /\ I \in Everything
    BY <1>0 DEF FullLines3
  <2> HIDE DEF K
  <2>3. {J \in K : Rate(J).n > 0} = K \cap WithRate
    BY <2>2 DEF WithRate
  <2>4. {Line3(I) : I \in K \cap WithRate} = {FullLines3[I] : I \in K \cap WithRate}
    BY <2>2
  <2> QED
    BY <2>1, <2>3, <2>4 DEF LinesOf, K
<1>4. Table4(R) = LinesOf(T3(R), ByPopulation, FullLines2, Everything)
  <2>0. T3(R) \in SUBSET All
    BY DEF T3
  <2> DEFINE K == Classes(T3(R), ByPopulation)
  <2>1. Table4(R) = {Line2(I) : I \in K}
    BY <2>0, PerModelIs DEF Table4, Line2
  <2>2. \A I \in K : Line2(I) = FullLines2[I]
    BY <1>0, <2>0 DEF FullLines2
  <2>3. K \cap Everything = K
    BY <2>0, ClassesIn
  <2> HIDE DEF K
  <2> QED
    BY <2>1, <2>2, <2>3 DEF LinesOf, K
<1>5. Table5(R) = LinesOf(R, ByCell, FullLines5, WithTwo)
  <2> DEFINE Key(i) == <<ModelKey(i, Mixed(R)), Row(i).effort, Row(i).harness, Row(i).task>>
             K == Classes(R, ByCell)
  <2>1. \A i, j \in R : Key(j) = Key(i) <=> ByCell[j] = ByCell[i]
    BY KeyIsPopulation DEF ByCell
  <2>2. {{j \in R : Key(j) = Key(i)} : i \in R} = K
    <3> HIDE DEF Key
    <3> QED
      BY <2>1 DEF Classes
  <2>3. Table5(R) = {Line5(I) : I \in {J \in {{j \in R : Key(j) = Key(i)} : i \in R} :
                                         Rate(J).n >= 2 /\ Toks(J) # {}}}
    BY DEF Table5, Grouped, Line5, Toks
  <2>4. \A I \in K : Line5(I) = FullLines5[I] /\ I \in Everything
    BY <1>0 DEF FullLines5
  <2> HIDE DEF K, Key
  <2>5. {J \in K : Rate(J).n >= 2 /\ Toks(J) # {}} = K \cap WithTwo
    BY <2>4 DEF WithTwo
  <2>6. {Line5(I) : I \in K \cap WithTwo} = {FullLines5[I] : I \in K \cap WithTwo}
    BY <2>4
  <2>7. Table5(R) = {Line5(I) : I \in K \cap WithTwo}
    BY <2>2, <2>3, <2>5
  <2> QED
    BY <2>6, <2>7 DEF LinesOf, K
<1> QED
  BY <1>1, <1>2, <1>3, <1>4, <1>5

LEMMA SamePublished ==
  ASSUME OnFile
  PROVE  Published(All) = Published(Measured)
<1>1. All \in SUBSET All /\ Measured \in SUBSET All /\ T3(All) \in SUBSET All
  BY MeasuredIn DEF T3
<1>2. All \cap Measured = Measured /\ T3(All) \cap Measured = T3(Measured)
  BY <1>1 DEF T3
<1>3. About(Table1(All)) = About(Table1(Measured))
  BY <1>1, <1>2, TablesAre, SameAbout, Lines1Measured
<1>4. About(Table2(All)) = About(Table2(Measured))
  BY <1>1, <1>2, TablesAre, SameAbout, Lines2Measured
<1>5. About(Table3(All)) = About(Table3(Measured))
  BY <1>1, <1>2, TablesAre, SameAbout, Lines3Measured
<1>6. About(Table4(All)) = About(Table4(Measured))
  BY <1>1, <1>2, TablesAre, SameAbout, Lines2Measured
<1>7. About(Table5(All)) = About(Table5(Measured))
  BY <1>1, <1>2, TablesAre, SameAbout, Lines5Measured
<1> QED
  BY <1>3, <1>4, <1>5, <1>6, <1>7 DEF Published

(* Two configurations that are the best of the same rows tie, whether or    *)
(* not the rows that were not measured are looked at.                       *)
LEMMA BestsTie ==
  ASSUME OnFile, NEW I \in SUBSET All, I \cap Measured # {}
  PROVE  LET a == Score(Best(Configs(I)))
             b == Score(Best(Configs(I \cap Measured)))
         IN ~Beats(a, b) /\ ~Beats(b, a)
<1> DEFINE J == I \cap Measured
           bestI == Best(Configs(I))
           bestJ == Best(Configs(J))
<1>1. J \in SUBSET All /\ J # {} /\ I # {}
  OBVIOUS
<1>2. /\ bestI \in Configs(I) /\ bestI \in SUBSET All
      /\ \A C \in Configs(I) : ~Beats(Score(C), Score(bestI))
  BY <1>1, BestIs
<1>3. /\ bestJ \in Configs(J)
      /\ \A C \in Configs(J) : ~Beats(Score(C), Score(bestJ))
  <2> HIDE DEF J
  <2> QED
    BY <1>1, BestIs
<1>4. Configs(I) = Classes(I, BySetting) /\ Configs(J) = Classes(J, BySetting)
  BY <1>1, ConfigsIs
<1> HIDE DEF bestI, bestJ
<1>5. ~Beats(Score(bestJ), Score(bestI))
  <2>1. PICK C \in Classes(I, BySetting) : C \cap Measured = bestJ
    BY <1>3, <1>4, MeasuredClass
  <2>2. C \in SUBSET All
    BY DEF Classes
  <2>3. Score(bestJ) = Score(C)
    BY <2>1, <2>2, MeasuredCount
  <2> QED
    BY <1>2, <1>4, <2>3
<1>6. ~Beats(Score(bestI), Score(bestJ))
  <2>1. Score(bestI \cap Measured) = Score(bestI)
    BY <1>2, MeasuredCount
  <2>2. CASE bestI \cap Measured # {}
    <3>1. bestI \cap Measured \in Classes(J, BySetting)
      BY <1>2, <1>4, <2>2, ClassMeasured
    <3>2. ~Beats(Score(bestI \cap Measured), Score(bestJ))
      BY <1>3, <1>4, <3>1
    <3> QED
      BY <2>1, <3>2
  <2>3. CASE bestI \cap Measured = {}
    <3>1. ScoredRows(bestI) = {}
      BY <1>2, <2>3 DEF ScoredRows, Measured
    <3>2. Score(bestI).rate.n = 0
      BY <3>1, FS_EmptySet DEF Score, Rate
    <3> QED
      BY <3>2 DEF Beats
  <2> QED
    BY <2>2, <2>3
<1> QED
  BY <1>5, <1>6 DEF bestI, bestJ

LEMMA Table6Ties ==
  ASSUME OnFile, NEW l \in About(Table6(All))
  PROVE  \E k \in About(Table6(Measured)) :
           k.rows = l.rows /\ ~Beats(k, l) /\ ~Beats(l, k)
<1>0. All \in SUBSET All /\ Measured \in SUBSET All /\ All \cap Measured = Measured
  BY MeasuredIn
<1>1. PICK t \in Table6(All) : t.rows \cap Measured # {} /\ l = [t EXCEPT !.rows = @ \cap Measured]
  BY DEF About
<1>2. PICK I \in Classes(All, ByPopulation) : I \in SUBSET All /\ I # {} /\ t = Advice(I)
  BY <1>0, Table6Is
<1> DEFINE J == I \cap Measured
           k == [Advice(J) EXCEPT !.rows = @ \cap Measured]
           a == Score(Best(Configs(I)))
           b == Score(Best(Configs(J)))
<1>3. /\ t.rows = I /\ t.rate = a.rate /\ t.spend = a.spend
  BY <1>2, AdviceIs
<1>4. J # {} /\ J \in SUBSET All /\ J \cap Measured = J
  BY <1>1, <1>2, <1>3
<1>5. J \in Classes(Measured, ByPopulation)
  BY <1>0, <1>4, ClassMeasured
<1>6. Advice(J).rows = J /\ Advice(J).rate = b.rate /\ Advice(J).spend = b.spend
  <2> HIDE DEF J
  <2> QED
    BY <1>4, AdviceIs
<1>7. Advice(J) \in Table6(Measured)
  BY <1>0, <1>5, PerModelIs DEF Table6
<1>8. k \in About(Table6(Measured))
  BY <1>4, <1>6, <1>7 DEF About
<1>9. ~Beats(a, b) /\ ~Beats(b, a)
  BY <1>2, <1>4, BestsTie
<1> HIDE DEF a, b, J
<1>10. /\ l.rows = J /\ l.rate = a.rate /\ l.spend = a.spend
  <2>1. /\ t = [rows |-> t.rows, rate |-> t.rate, spend |-> t.spend,
                quality |-> t.quality, input |-> t.input]
    BY <1>2 DEF Advice
  <2>2. l.rows = t.rows \cap Measured /\ l.rate = t.rate /\ l.spend = t.spend
    BY <1>1, <2>1
  <2> QED
    BY <1>3, <2>2 DEF J
<1>11. /\ k.rows = J /\ k.rate = b.rate /\ k.spend = b.spend
  <2>1. /\ Advice(J) = [rows |-> Advice(J).rows, rate |-> Advice(J).rate, spend |-> Advice(J).spend,
                        quality |-> Advice(J).quality, input |-> Advice(J).input]
    BY DEF Advice
  <2>2. /\ k.rows = Advice(J).rows \cap Measured /\ k.rate = Advice(J).rate
        /\ k.spend = Advice(J).spend
    BY <2>1
  <2> HIDE DEF k
  <2> QED
    BY <1>4, <1>6, <2>2
<1>12. ~Beats(k, l) /\ ~Beats(l, k)
  <2> HIDE DEF k
  <2> QED
    BY <1>9, <1>10, <1>11 DEF Beats
<1> QED
  BY <1>8, <1>10, <1>11, <1>12

(* A timeout, a fault of the stack or a session over the cap moves no       *)
(* published number, for a corpus of any length.                            *)
THEOREM VoidRowsHold == ReadersSpec => []VoidRowsMoveNothing
<1>1. OnFile => VoidRowsMoveNothing
  BY SamePublished, Table6Ties DEF VoidRowsMoveNothing
<1> QED
  BY <1>1, ReadersTyped, PTL

-----------------------------------------------------------------------------
(***************************************************************************)
(* Conclusions drawn in two ways.                                          *)
(***************************************************************************)

LEMMA OrderIs == \A e \in Efforts : Order(e) \in 1..6
<1>1. DOMAIN TIER_ORDER = 1..6
  BY DEF TIER_ORDER
<1>2. ASSUME NEW e \in Efforts PROVE Order(e) \in DOMAIN TIER_ORDER
  <2>1. \E i \in DOMAIN TIER_ORDER : TIER_ORDER[i] = e
    BY DEF Efforts
  <2> HIDE DEF TIER_ORDER
  <2> QED
    BY <2>1 DEF Order
<1> QED
  BY <1>1, <1>2

LEMMA EndsAreIn ==
  ASSUME NEW efforts \in SUBSET Efforts, efforts # {}
  PROVE  Lowest(efforts) \in efforts /\ Highest(efforts) \in efforts
<1>1. \E e \in efforts : \A f \in efforts : Order(e) <= Order(f)
  <2> DEFINE T == {Order(e) : e \in efforts}
  <2>1. T \in SUBSET Nat /\ T # {}
    BY OrderIs
  <2>2. PICK x \in T : \A y \in T : x <= y
    BY <2>1, LeastNat
  <2> QED
    BY <2>2
<1>2. \E e \in efforts : \A f \in efforts : Order(f) <= Order(e)
  <2> DEFINE T == {6 - Order(e) : e \in efforts}
  <2>1. T \in SUBSET Nat /\ T # {}
    BY OrderIs
  <2>2. PICK x \in T : \A y \in T : x <= y
    BY <2>1, LeastNat
  <2>3. PICK e \in efforts : x = 6 - Order(e)
    BY <2>2
  <2>4. ASSUME NEW f \in efforts PROVE Order(f) <= Order(e)
    <3>1. x <= 6 - Order(f)
      BY <2>2
    <3>2. Order(e) \in 1..6 /\ Order(f) \in 1..6
      BY OrderIs
    <3> QED
      BY <2>3, <3>1, <3>2
  <2> QED
    BY <2>4
<1> QED
  BY <1>1, <1>2 DEF Lowest, Highest

LEMMA ProbeTiersAre ==
  ASSUME OnFile
  PROVE  /\ DOMAIN ProbeTiers \in SUBSET Efforts /\ Count(ProbeTiers) \in Nat
         /\ \A e \in DOMAIN ProbeTiers :
              /\ Count(ProbeTiers[e]) \in Nat /\ Count(ProbeTiers[e]) > 0
              /\ Mean(ProbeTiers[e]) \in Int
<1> DEFINE kept == {i \in DOMAIN probes : probes[i].reachable /\ ~UsageBlockEmpty(probes[i])}
           effortOf == [i \in kept |-> probes[i].effort]
           at(e) == {j \in kept : probes[j].effort = e}
           efforts == {probes[i].effort : i \in kept}
<1>1. ProbeTiers = [e \in efforts |-> [i \in at(e) |-> probes[i].out]]
  BY DEF ProbeTiers
<1>2. \A i \in kept : probes[i].effort \in Efforts /\ probes[i].out \in Nat
  BY ReadersAssumption DEF OnFile
<1>3. IsFiniteSet(kept)
  <2>1. DOMAIN probes = 1..Len(probes) /\ Len(probes) \in Nat
    BY DEF OnFile
  <2>2. IsFiniteSet(DOMAIN probes)
    BY <2>1, FS_Interval
  <2> QED
    BY <2>2, FS_Subset
<1> HIDE DEF kept
<1>4. efforts \in SUBSET Efforts /\ IsFiniteSet(efforts)
  <2>1. IsFiniteSet({effortOf[i] : i \in kept})
    <3> HIDE DEF effortOf
    <3> QED
      BY <1>3, ImageIsFinite
  <2>2. {effortOf[i] : i \in kept} = efforts
    OBVIOUS
  <2> QED
    BY <1>2, <2>1, <2>2
<1>5. ASSUME NEW e \in efforts
      PROVE  /\ Count(ProbeTiers[e]) \in Nat /\ Count(ProbeTiers[e]) > 0
             /\ Mean(ProbeTiers[e]) \in Int
  <2> DEFINE f == [i \in at(e) |-> probes[i].out]
  <2>1. ProbeTiers[e] = f
    BY <1>1
  <2>2. at(e) \in SUBSET kept /\ at(e) # {}
    OBVIOUS
  <2>3. IsFiniteSet(at(e)) /\ \A i \in at(e) : f[i] \in Nat
    BY <1>2, <1>3, <2>2, FS_Subset
  <2>4. Count(f) \in Nat /\ Count(f) > 0
    BY <2>2, <2>3, FS_CardinalityType, FS_EmptySet DEF Count
  <2>5. Total(f) = Sum(f, at(e))
    BY DEF Total, Sum, SumFunction
  <2> HIDE DEF at, f
  <2>6. Total(f) \in Nat
    BY <2>3, <2>5, SumType
  <2>7. Mean(f) \in Int
    BY <2>4, <2>6 DEF Mean
  <2> QED
    BY <2>1, <2>4, <2>7
<1>6. DOMAIN ProbeTiers = efforts
  BY <1>1
<1> HIDE DEF efforts
<1>7. Count(ProbeTiers) \in Nat
  BY <1>4, <1>6, FS_CardinalityType DEF Count
<1> QED
  BY <1>4, <1>5, <1>6, <1>7

(* BACKWARDS is carved out of AMBIGUOUS and nothing else (ticket 42), and a *)
(* ladder that is called backwards ends lower than it began, for any number *)
(* of tiers and of samples.                                                 *)
THEOREM CarvedOutHolds ==
  ASSUME OnFile
  PROVE  CarvedOutOfAmbiguous
<1> DEFINE tiers == ProbeTiers
           vals == [e \in DOMAIN tiers |-> Mean(tiers[e])]
           verdict == Classify(tiers)
<1>1. /\ DOMAIN tiers \in SUBSET Efforts /\ Count(tiers) \in Nat
      /\ \A e \in DOMAIN tiers : Mean(tiers[e]) \in Int
  BY ProbeTiersAre
<1> HIDE DEF tiers
<1>2. /\ Count(tiers) < 2 => verdict = "INSUFFICIENT" /\ ClassifyBefore(tiers) = "INSUFFICIENT"
      /\ Count(tiers) >= 2 /\ Unreplicated(tiers) =>
           verdict = "UNREPLICATED" /\ ClassifyBefore(tiers) = "UNREPLICATED"
  BY <1>1 DEF Classify, ClassifyBefore
<1> DEFINE real == IsSteep(vals) /\ IsMonotone(vals) /\ BeatsNoise(tiers, vals)
<1>3. Count(tiers) >= 2 /\ ~Unreplicated(tiers) =>
        /\ verdict = IF IsNoop(vals) THEN "NO-OP" ELSE IF real THEN "REAL"
                     ELSE IF RunsBackwards(vals) THEN "BACKWARDS" ELSE "AMBIGUOUS"
        /\ ClassifyBefore(tiers) = IF IsNoop(vals) THEN "NO-OP" ELSE IF real THEN "REAL"
                                   ELSE "AMBIGUOUS"
  BY <1>1 DEF Classify, ClassifyBefore
<1> HIDE DEF real, verdict
<1>4. PreSplitVerdict(verdict) = ClassifyBefore(tiers)
  BY <1>1, <1>2, <1>3 DEF PreSplitVerdict
<1>5. ASSUME verdict = "BACKWARDS"
      PROVE  Mean(tiers[Highest(DOMAIN tiers)]) < Mean(tiers[Lowest(DOMAIN tiers)])
  <2>1. RunsBackwards(vals) /\ Count(tiers) >= 2
    <3> HIDE DEF vals
    <3> QED
      BY <1>1, <1>2, <1>3, <1>5
  <2>2. DOMAIN tiers # {}
    BY <2>1, FS_EmptySet DEF Count
  <2>3. Lowest(DOMAIN tiers) \in DOMAIN tiers /\ Highest(DOMAIN tiers) \in DOMAIN tiers
    BY <1>1, <2>2, EndsAreIn
  <2> DEFINE x == vals[Lowest(DOMAIN vals)]
             y == vals[Highest(DOMAIN vals)]
  <2>4. DOMAIN vals = DOMAIN tiers
    OBVIOUS
  <2>5. /\ x = Mean(tiers[Lowest(DOMAIN tiers)]) /\ y = Mean(tiers[Highest(DOMAIN tiers)])
        /\ x \in Int /\ y \in Int
    BY <1>1, <2>3, <2>4
  <2>6. x > 0 /\ 20 * y <= 19 * x
    BY <2>1 DEF RunsBackwards
  <2> HIDE DEF x, y
  <2>7. y < x
    BY <2>5, <2>6
  <2> QED
    BY <2>5, <2>7
<1> QED
  BY <1>4, <1>5 DEF CarvedOutOfAmbiguous, tiers, verdict

-----------------------------------------------------------------------------
(***************************************************************************)
(* The three cuts of the cost test.                                        *)
(***************************************************************************)

LEMMA SeverityIs ==
  ASSUME NEW r \in KnownReasons
  PROVE  /\ Severity[ClassOf(r)] \in Nat /\ Severity[ClassOf(r)] <= 6
         /\ Severity[ClassOf(r)] = 6 => r \in Scored
<1>1. CASE r \in Scored
  <2>1. r = "ok" \/ r = "cap_exhausted"
    BY <1>1 DEF Scored
  <2>2. ClassOf(r) = "scored"
    BY <2>1 DEF ClassOf, EXIT_REASON_CLASS, KnownReasons, Scored, Infra, Mock
  <2> QED
    BY <1>1, <2>2 DEF Severity
<1>2. CASE r \in Infra \cup Mock
  <2>1. r \notin Scored
    BY <1>2 DEF Scored, Infra, Mock
  <2>2. ClassOf(r) \in {"infra", "mock"}
    BY <1>2, <2>1 DEF ClassOf, EXIT_REASON_CLASS
  <2> QED
    BY <2>2 DEF Severity
<1>3. CASE r \in {"timeout", "turn_cap", "structurally_impossible"}
  <2>1. r \notin Scored \cup Infra \cup Mock
    BY <1>3 DEF Scored, Infra, Mock
  <2>2. ClassOf(r) \in {"timeout", "turn_cap", "structurally_impossible"}
    BY <1>3, <2>1 DEF ClassOf, EXIT_REASON_CLASS
  <2> QED
    BY <2>2 DEF Severity
<1> QED
  BY <1>1, <1>2, <1>3 DEF KnownReasons

(* A row is scored only if every part of its reason is.                     *)
LEMMA ScoredThroughout ==
  ASSUME NEW why \in SUBSET KnownReasons, InDenominator(why)
  PROVE  why # {} /\ why \subseteq Scored
<1> DEFINE sev(r) == Severity[ClassOf(r)]
           worst == CHOOSE r \in why : \A s \in why : sev(r) <= sev(s)
<1>1. why # {}
  BY DEF InDenominator, StatusClass
<1>2. ClassOf(worst) = "scored"
  BY <1>1 DEF InDenominator, StatusClass
<1>3. \A r \in why : sev(r) \in Nat /\ sev(r) <= 6 /\ (sev(r) = 6 => r \in Scored)
  BY SeverityIs
<1>4. \E r \in why : \A s \in why : sev(r) <= sev(s)
  <2> DEFINE N == {sev(r) : r \in why}
  <2>1. N # {} /\ N \in SUBSET Nat
    BY <1>1, <1>3
  <2>2. PICK n \in N : \A k \in N : n <= k
    BY <2>1, LeastNat
  <2> QED
    BY <2>2
<1>5. \A s \in why : sev(worst) <= sev(s)
  BY <1>4
<1>6. sev(worst) = 6
  <2> HIDE DEF worst
  <2> QED
    BY <1>2 DEF Severity
<1> HIDE DEF worst, sev
<1>7. \A s \in why : s \in Scored
  BY <1>3, <1>5, <1>6
<1> QED
  BY <1>1, <1>7

(* A run that passed and counts came to its end: the token gate takes no    *)
(* passing run from the sections that are behind it.                        *)
LEMMA PassingIsWhole ==
  ASSUME OnFile, NEW i \in Measured, Row(i).pass
  PROVE  i \in WholeOnes
<1>1. i \in All /\ InDenominator(Row(i).why)
  BY DEF Measured, ScoredRows
<1>2. /\ corpus[i] \in ResultRow /\ Row(i).pass = corpus[i].pass
      /\ corpus[i].pass => "cap_exhausted" \notin corpus[i].why
  BY <1>1, RowIs, ReadersAssumption
<1>3. Row(i).why = corpus[i].why \/ Row(i).why = {"turn_cap"}
  BY <1>2 DEF Row, ApplyTurnCap, ResultRow
<1>4. Row(i).why \in SUBSET KnownReasons /\ "cap_exhausted" \notin Row(i).why
  BY <1>2, <1>3 DEF ResultRow, KnownReasons
<1>5. Row(i).why # {} /\ Row(i).why \subseteq Scored
  BY <1>1, <1>4, ScoredThroughout
<1>6. Row(i).why = {"ok"}
  BY <1>4, <1>5 DEF Scored
<1> QED
  BY <1>6 DEF WholeOnes, TokenRows, Summarizable

LEMMA BestOfOne ==
  ASSUME NEW I, NEW e, EffortsIn(I) = {e}
  PROVE  BestEffort(I) = e
BY DEF BestEffort

(* The cost test looks at the passing runs alone.                           *)
LEMMA CostsOfPassing ==
  ASSUME NEW A, NEW B, NEW C, NEW D, Passing(A) = Passing(C), Passing(B) = Passing(D)
  PROVE  TaskCostDiffs(A, B) = TaskCostDiffs(C, D)
BY DEF TaskCostDiffs

(* Of a model run bare and at one effort, what is left behind the token     *)
(* gate is at that effort too, and has every passing run.                   *)
LEMMA OneCell ==
  ASSUME OnFile, NEW m \in {"fable", "sol"}, Bare(Measured) = Measured,
         Cardinality(EffortsIn(Of(Measured, m))) = 1, Of(WholeOnes, m) # {}
  PROVE  /\ Bare(WholeOnes) = WholeOnes
         /\ Passing(Of(WholeOnes, m)) = Passing(Of(Measured, m))
         /\ \E e : /\ EffortsIn(Of(WholeOnes, m)) = {e} /\ At(Of(WholeOnes, m), e) = Of(WholeOnes, m)
                   /\ CellsOf(WholeOnes)[m] = e
<1>1. WholeOnes \in SUBSET Measured
  BY DEF WholeOnes, TokenRows
<1>2. Bare(WholeOnes) = WholeOnes
  BY <1>1 DEF Bare
<1>3. Passing(Of(WholeOnes, m)) = Passing(Of(Measured, m))
  BY <1>1, PassingIsWhole DEF Passing, Of
<1>4. Of(WholeOnes, m) \in SUBSET Of(Measured, m)
  BY <1>1 DEF Of
<1>5. IsFiniteSet(EffortsIn(Of(Measured, m)))
  <2> DEFINE I == Of(Measured, m)
             f == [i \in I |-> Row(i).effort]
  <2>1. IsFiniteSet(I)
    BY AllIsFinite DEF Of, Measured, ScoredRows
  <2>2. IsFiniteSet({f[i] : i \in I})
    <3> HIDE DEF f, I
    <3> QED
      BY <2>1, ImageIsFinite
  <2>3. {f[i] : i \in I} = EffortsIn(I)
    BY DEF EffortsIn
  <2> QED
    BY <2>2, <2>3
<1>6. PICK e : EffortsIn(Of(Measured, m)) = {e}
  BY <1>5, FS_Singleton
<1>7. \A i \in Of(Measured, m) : Row(i).effort = e
  BY <1>6 DEF EffortsIn
<1>8. EffortsIn(Of(WholeOnes, m)) = {e} /\ At(Of(WholeOnes, m), e) = Of(WholeOnes, m)
  <2> DEFINE I == Of(WholeOnes, m)
  <2>1. I # {} /\ \A i \in I : Row(i).effort = e
    BY <1>4, <1>7
  <2> HIDE DEF I
  <2>2. EffortsIn(I) = {e} /\ At(I, e) = I
    BY <2>1 DEF EffortsIn, At
  <2> QED
    BY <2>2 DEF I
<1>9. CellsOf(WholeOnes)[m] = BestEffort(Of(WholeOnes, m))
  BY <1>2 DEF CellsOf
<1>10. CellsOf(WholeOnes)[m] = e
  BY <1>8, <1>9, BestOfOne
<1> QED
  BY <1>2, <1>3, <1>8, <1>10

(* On a corpus of one effort per model and no harness the cost test pooled, *)
(* at the winning cell and tier for tier is one test: sections 5, 6a and 6b *)
(* of stats.py, of which the first is not behind the token gate.            *)
THEOREM OneCellHolds ==
  ASSUME OnFile
  PROVE  OneCellOneTest
<1> SUFFICES ASSUME Cardinality(EffortsIn(Of(Measured, "fable"))) = 1,
                    Cardinality(EffortsIn(Of(Measured, "sol"))) = 1,
                    Bare(Measured) = Measured,
                    \A m \in {"fable", "sol"} : Of(WholeOnes, m) # {}
             PROVE  /\ Section6a = Section5
                    /\ \A e \in DOMAIN Section6b : Section6b[e] = Section5
  BY DEF OneCellOneTest
<1> DEFINE F == Of(WholeOnes, "fable")
           S == Of(WholeOnes, "sol")
<1>1. PICK e : /\ EffortsIn(F) = {e} /\ At(F, e) = F /\ CellsOf(WholeOnes)["fable"] = e
  BY OneCell
<1>2. PICK d : /\ EffortsIn(S) = {d} /\ At(S, d) = S /\ CellsOf(WholeOnes)["sol"] = d
  BY OneCell
<1>3. /\ Bare(WholeOnes) = WholeOnes
      /\ Passing(F) = Passing(Of(Measured, "fable")) /\ Passing(S) = Passing(Of(Measured, "sol"))
  BY OneCell
<1>4. TaskCostDiffs(F, S) = Section5
  BY <1>3, CostsOfPassing DEF Section5
<1>5. Section6a = TaskCostDiffs(F, S)
  BY <1>1, <1>2, <1>3 DEF Section6a
<1>6. Section6b = [c \in {e} \cap {d} |-> TaskCostDiffs(At(F, c), At(S, c))]
  BY <1>1, <1>2, <1>3 DEF Section6b
<1>7. ASSUME NEW c \in DOMAIN Section6b PROVE Section6b[c] = TaskCostDiffs(F, S)
  <2>1. c = e /\ c = d
    BY <1>6
  <2> QED
    BY <1>1, <1>2, <1>6, <2>1
<1> QED
  BY <1>4, <1>5, <1>7

-----------------------------------------------------------------------------
(***************************************************************************)
(* Subsets of 1..n are counted: all of them, and those of k elements.      *)
(***************************************************************************)

ChoicesOf(n) == SUBSET (1..n)
OfSize(n, k) == {F \in ChoicesOf(n) : Cardinality(F) = k}
With(A, x) == {F \cup {x} : F \in A}

Pow(n) == Cardinality(ChoicesOf(n))
Ways(n, k) == Cardinality(OfSize(n, k))

LEMMA ChoicesAreFinite ==
  ASSUME NEW n \in Nat
  PROVE  /\ IsFiniteSet(1..n) /\ Cardinality(1..n) = n
         /\ IsFiniteSet(ChoicesOf(n)) /\ Pow(n) = 2^n
         /\ \A A \in SUBSET ChoicesOf(n) : IsFiniteSet(A) /\ Cardinality(A) \in Nat
         /\ \A F \in ChoicesOf(n) : IsFiniteSet(F) /\ Cardinality(F) \in 0..n /\ n + 1 \notin F
<1>1. IsFiniteSet(1..n) /\ Cardinality(1..n) = n
  BY FS_Interval
<1>2. IsFiniteSet(ChoicesOf(n)) /\ Pow(n) = 2^n
  BY <1>1, FS_SUBSET DEF ChoicesOf, Pow
<1>3. \A A \in SUBSET ChoicesOf(n) : IsFiniteSet(A) /\ Cardinality(A) \in Nat
  BY <1>2, FS_Subset, FS_CardinalityType
<1>4. ASSUME NEW F \in ChoicesOf(n)
      PROVE  IsFiniteSet(F) /\ Cardinality(F) \in 0..n /\ n + 1 \notin F
  <2>1. F \in SUBSET (1..n)
    BY DEF ChoicesOf
  <2>2. IsFiniteSet(F) /\ Cardinality(F) <= n /\ Cardinality(F) \in Nat
    BY <1>1, <2>1, FS_Subset, FS_CardinalityType
  <2> QED
    BY <2>1, <2>2
<1> QED
  BY <1>1, <1>2, <1>3, <1>4

LEMMA SameCount ==
  ASSUME NEW S, IsFiniteSet(S), NEW T, NEW f \in [S -> T],
         \A x, y \in S : f[x] = f[y] => x = y, \A z \in T : \E x \in S : f[x] = z
  PROVE  IsFiniteSet(T) /\ Cardinality(T) = Cardinality(S)
<1>1. f \in Bijection(S, T)
  BY DEF Bijection, Injection, Surjection, IsInjective
<1>2. ExistsBijection(S, T)
  BY <1>1 DEF ExistsBijection
<1> QED
  BY <1>2, FS_Bijection

(* One more element to choose from: a choice takes it, or does not.         *)
LEMMA OneMore ==
  ASSUME NEW n \in Nat
  PROVE  /\ ChoicesOf(n + 1) = ChoicesOf(n) \cup With(ChoicesOf(n), n + 1)
         /\ ChoicesOf(n) \cap With(ChoicesOf(n), n + 1) = {}
         /\ \A F \in ChoicesOf(n) : Cardinality(F \cup {n + 1}) = Cardinality(F) + 1
         /\ \A A \in SUBSET ChoicesOf(n) :
              /\ IsFiniteSet(With(A, n + 1)) /\ Cardinality(With(A, n + 1)) = Cardinality(A)
              /\ ChoicesOf(n) \cap With(A, n + 1) = {}
<1>1. 1..(n + 1) = (1..n) \cup {n + 1} /\ n + 1 \notin 1..n
  OBVIOUS
<1>2. ASSUME NEW F \in ChoicesOf(n + 1) PROVE F \in ChoicesOf(n) \cup With(ChoicesOf(n), n + 1)
  <2>1. CASE n + 1 \in F
    <3>1. F \ {n + 1} \in ChoicesOf(n) /\ F = (F \ {n + 1}) \cup {n + 1}
      BY <1>1, <2>1 DEF ChoicesOf
    <3> QED
      BY <3>1 DEF With
  <2>2. CASE n + 1 \notin F
    BY <1>1, <2>2 DEF ChoicesOf
  <2> QED
    BY <2>1, <2>2
<1>3. ChoicesOf(n) \cup With(ChoicesOf(n), n + 1) \subseteq ChoicesOf(n + 1)
  BY <1>1 DEF ChoicesOf, With
<1>4. \A F \in ChoicesOf(n) : n + 1 \notin F
  BY ChoicesAreFinite
<1>5. ASSUME NEW F \in ChoicesOf(n) PROVE Cardinality(F \cup {n + 1}) = Cardinality(F) + 1
  <2>1. IsFiniteSet(F) /\ n + 1 \notin F
    BY ChoicesAreFinite
  <2> QED
    BY <2>1, FS_AddElement
<1>6. ASSUME NEW A \in SUBSET ChoicesOf(n)
      PROVE  /\ IsFiniteSet(With(A, n + 1)) /\ Cardinality(With(A, n + 1)) = Cardinality(A)
             /\ ChoicesOf(n) \cap With(A, n + 1) = {}
  <2> DEFINE f == [F \in A |-> F \cup {n + 1}]
  <2>1. IsFiniteSet(A)
    BY ChoicesAreFinite
  <2>2. f \in [A -> With(A, n + 1)] /\ \A z \in With(A, n + 1) : \E x \in A : f[x] = z
    BY DEF With
  <2>3. ASSUME NEW x \in A, NEW y \in A, f[x] = f[y] PROVE x = y
    <3>1. n + 1 \notin x /\ n + 1 \notin y
      BY <1>4
    <3>2. x \cup {n + 1} = y \cup {n + 1}
      BY <2>3
    <3> QED
      BY <3>1, <3>2
  <2> HIDE DEF f
  <2>4. IsFiniteSet(With(A, n + 1)) /\ Cardinality(With(A, n + 1)) = Cardinality(A)
    BY <2>1, <2>2, <2>3, SameCount
  <2>5. ChoicesOf(n) \cap With(A, n + 1) = {}
    BY <1>4 DEF With
  <2> QED
    BY <2>4, <2>5
<1>7. ChoicesOf(n) \cap With(ChoicesOf(n), n + 1) = {}
  BY <1>6
<1> QED
  BY <1>2, <1>3, <1>5, <1>6, <1>7

LEMMA PowIs ==
  /\ Pow(0) = 1
  /\ \A n \in Nat : Pow(n) \in Nat /\ Pow(n) > 0 /\ Pow(n + 1) = 2 * Pow(n)
<1>1. Pow(0) = 1
  <2>1. ChoicesOf(0) = {{}}
    BY DEF ChoicesOf
  <2> QED
    BY <2>1, FS_Singleton DEF Pow
<1>2. ASSUME NEW n \in Nat PROVE Pow(n) \in Nat /\ Pow(n) > 0 /\ Pow(n + 1) = 2 * Pow(n)
  <2>1. IsFiniteSet(ChoicesOf(n)) /\ Pow(n) \in Nat
    BY ChoicesAreFinite, FS_CardinalityType DEF Pow
  <2>2. ChoicesOf(n) # {}
    BY DEF ChoicesOf
  <2>3. Pow(n) # 0
    BY <2>1, <2>2, FS_EmptySet DEF Pow
  <2> DEFINE A == ChoicesOf(n)
             B == With(ChoicesOf(n), n + 1)
  <2>4. /\ ChoicesOf(n + 1) = A \cup B /\ A \cap B = {}
        /\ IsFiniteSet(B) /\ Cardinality(B) = Cardinality(A)
    BY OneMore
  <2> HIDE DEF A, B
  <2>5. IsFiniteSet(A) /\ Cardinality(A) = Pow(n)
    BY <2>1 DEF A, Pow
  <2>6. Cardinality(A \cup B) = Cardinality(A) + Cardinality(B) - Cardinality(A \cap B)
    BY <2>4, <2>5, FS_Union
  <2>7. Cardinality(A \cap B) = 0
    BY <2>4, FS_EmptySet
  <2>8. Pow(n + 1) = Cardinality(A \cup B)
    BY <2>4 DEF Pow
  <2> QED
    BY <2>1, <2>3, <2>4, <2>5, <2>6, <2>7, <2>8
<1> QED
  BY <1>1, <1>2

LEMMA PowAdds ==
  ASSUME NEW i \in Nat, NEW j \in Nat
  PROVE  Pow(i) * Pow(j) = Pow(i + j)
<1> DEFINE P == {k \in Nat : Pow(i) * Pow(k) = Pow(i + k)}
<1>1. 0 \in P
  BY PowIs
<1>2. ASSUME NEW k \in P \cap Nat PROVE k + 1 \in P
  <2>1. k \in Nat /\ i + k \in Nat /\ i + (k + 1) = (i + k) + 1 /\ k + 1 \in Nat
    OBVIOUS
  <2>2. Pow(i) \in Nat /\ Pow(k) \in Nat /\ Pow(k + 1) = 2 * Pow(k)
    BY <2>1, PowIs
  <2>3. Pow(i + (k + 1)) = 2 * Pow(i + k)
    BY <2>1, PowIs
  <2>4. Pow(i) * Pow(k) = Pow(i + k)
    OBVIOUS
  <2>5. Pow(i) * (2 * Pow(k)) = 2 * (Pow(i) * Pow(k))
    BY <2>2
  <2> QED
    BY <2>1, <2>2, <2>3, <2>4, <2>5
<1>3. Nat \subseteq P
  BY <1>1, <1>2, Induction
<1> QED
  BY <1>3

LEMMA PowGrows ==
  ASSUME NEW i \in Nat, NEW j \in Nat
  PROVE  Pow(i) >= Pow(j) <=> i >= j
<1>1. ASSUME NEW x \in Nat, NEW y \in Nat, x <= y PROVE Pow(x) <= Pow(y)
  <2> DEFINE P == {k \in Nat : Pow(x) <= Pow(x + k)}
  <2>1. 0 \in P
    BY PowIs
  <2>2. ASSUME NEW k \in P \cap Nat PROVE k + 1 \in P
    <3>1. x + k \in Nat /\ x + (k + 1) = (x + k) + 1 /\ k + 1 \in Nat
      OBVIOUS
    <3>2. /\ Pow(x) \in Nat /\ Pow(x + k) \in Nat
          /\ Pow(x + (k + 1)) = 2 * Pow(x + k)
      BY <3>1, PowIs
    <3> QED
      BY <3>1, <3>2
  <2>3. Nat \subseteq P
    BY <2>1, <2>2, Induction
  <2>4. y - x \in P
    BY <1>1, <2>3
  <2> QED
    BY <1>1, <2>4
<1>2. ASSUME NEW x \in Nat, NEW y \in Nat, x < y PROVE Pow(x) < Pow(y)
  <2>1. /\ Pow(x) \in Nat /\ Pow(x) > 0 /\ Pow(x + 1) = 2 * Pow(x) /\ Pow(y) \in Nat
    BY PowIs
  <2>2. Pow(x + 1) <= Pow(y)
    BY <1>1, <1>2
  <2> QED
    BY <2>1, <2>2
<1>3. Pow(i) \in Nat /\ Pow(j) \in Nat
  BY PowIs
<1> QED
  BY <1>1, <1>2, <1>3

LEMMA WaysIs ==
  /\ \A n \in Nat : Ways(n, 0) = 1 /\ Ways(n, n + 1) = 0
  /\ \A n, k \in Nat : /\ Ways(n, k) \in Nat
                       /\ Ways(n + 1, k + 1) = Ways(n, k) + Ways(n, k + 1)
<1>1. ASSUME NEW n \in Nat PROVE Ways(n, 0) = 1 /\ Ways(n, n + 1) = 0
  <2>1. OfSize(n, 0) = {{}}
    <3>1. \A F \in ChoicesOf(n) : Cardinality(F) = 0 <=> F = {}
      BY ChoicesAreFinite, FS_EmptySet
    <3>2. {} \in ChoicesOf(n)
      BY DEF ChoicesOf
    <3> QED
      BY <3>1, <3>2 DEF OfSize
  <2>2. OfSize(n, n + 1) = {}
    <3>1. \A F \in ChoicesOf(n) : Cardinality(F) # n + 1
      BY ChoicesAreFinite
    <3> QED
      BY <3>1 DEF OfSize
  <2> QED
    BY <2>1, <2>2, FS_EmptySet, FS_Singleton DEF Ways
<1>2. ASSUME NEW n \in Nat, NEW k \in Nat
      PROVE  Ways(n, k) \in Nat /\ Ways(n + 1, k + 1) = Ways(n, k) + Ways(n, k + 1)
  <2> DEFINE A == OfSize(n, k + 1)
             B == With(OfSize(n, k), n + 1)
  <2>1. OfSize(n, k) \in SUBSET ChoicesOf(n) /\ A \in SUBSET ChoicesOf(n)
    BY DEF OfSize
  <2>2. /\ IsFiniteSet(A) /\ IsFiniteSet(B) /\ Cardinality(B) = Ways(n, k) /\ A \cap B = {}
        /\ Ways(n, k) \in Nat /\ Cardinality(A) \in Nat
    BY <2>1, OneMore, ChoicesAreFinite DEF Ways
  <2>3. OfSize(n + 1, k + 1) = A \cup B
    <3>1. /\ ChoicesOf(n + 1) = ChoicesOf(n) \cup With(ChoicesOf(n), n + 1)
          /\ \A F \in ChoicesOf(n) : Cardinality(F \cup {n + 1}) = Cardinality(F) + 1
      BY OneMore
    <3>5. \A F \in ChoicesOf(n) : Cardinality(F) \in Nat
      BY ChoicesAreFinite
    <3>2. ASSUME NEW F \in OfSize(n + 1, k + 1) PROVE F \in A \cup B
      <4>1. CASE F \in ChoicesOf(n)
        BY <4>1 DEF OfSize
      <4>2. CASE F \in With(ChoicesOf(n), n + 1)
        <5>1. PICK E \in ChoicesOf(n) : F = E \cup {n + 1}
          BY <4>2 DEF With
        <5>2. Cardinality(F) = k + 1
          BY DEF OfSize
        <5>3. Cardinality(F) = Cardinality(E) + 1 /\ Cardinality(E) \in Nat
          BY <3>1, <3>5, <5>1
        <5>4. Cardinality(E) = k
          BY <5>2, <5>3
        <5> QED
          BY <5>1, <5>4 DEF With, OfSize
      <4>3. F \in ChoicesOf(n + 1)
        BY DEF OfSize
      <4> QED
        BY <3>1, <4>1, <4>2, <4>3
    <3>3. ASSUME NEW F \in A PROVE F \in OfSize(n + 1, k + 1)
      BY <3>1 DEF OfSize
    <3>4. ASSUME NEW F \in B PROVE F \in OfSize(n + 1, k + 1)
      <4>1. PICK E \in OfSize(n, k) : F = E \cup {n + 1}
        BY DEF With
      <4>2. E \in ChoicesOf(n) /\ Cardinality(E) = k
        BY DEF OfSize
      <4>3. F \in ChoicesOf(n + 1) /\ Cardinality(F) = k + 1
        BY <3>1, <4>1, <4>2 DEF With
      <4> QED
        BY <4>3 DEF OfSize
    <3> HIDE DEF A, B
    <3> QED
      BY <3>2, <3>3, <3>4
  <2> HIDE DEF B
  <2>4. Cardinality(A \cup B) = Cardinality(A) + Cardinality(B) - Cardinality(A \cap B)
    BY <2>2, FS_Union
  <2>5. Cardinality(A \cap B) = 0
    BY <2>2, FS_EmptySet
  <2>6. Ways(n + 1, k + 1) = Cardinality(A \cup B) /\ Ways(n, k + 1) = Cardinality(A)
    BY <2>3 DEF Ways
  <2> HIDE DEF A
  <2> QED
    BY <2>2, <2>4, <2>5, <2>6
<1> QED
  BY <1>1, <1>2

(* factorial is the function its definition says.                           *)
Turning(n, f) == IF n = 0 THEN 1 ELSE n * f[n - 1]

LEMMA FactorialExists == \E f : f = [n \in Nat |-> Turning(n, f)]
<1> DEFINE Begun(n, g) == g = [k \in 0..n |-> Turning(k, g)]
           P == {n \in Nat : \E g : Begun(n, g)}
           Same == {k \in Nat : \A m, n \in Nat : k <= m /\ k <= n =>
                      \A g, h : Begun(m, g) /\ Begun(n, h) => g[k] = h[k]}
<1>1. 0 \in P
  <2> DEFINE g == [k \in 0..0 |-> 1]
  <2>1. g = [k \in 0..0 |-> Turning(k, g)]
    BY DEF Turning
  <2> QED
    BY <2>1
<1>2. ASSUME NEW n \in P \cap Nat PROVE n + 1 \in P
  <2>1. PICK g : g = [k \in 0..n |-> Turning(k, g)]
    OBVIOUS
  <2> DEFINE h == [k \in 0..(n + 1) |-> IF k = n + 1 THEN (n + 1) * g[n] ELSE g[k]]
  <2>2. \A k \in 0..n : h[k] = g[k] /\ k \in 0..(n + 1)
    OBVIOUS
  <2>3. \A k \in 0..n : g[k] = Turning(k, g)
    BY <2>1
  <2>4. \A k \in 0..(n + 1) : h[k] = Turning(k, h)
    <3>1. ASSUME NEW k \in 0..n PROVE h[k] = Turning(k, h)
      <4>1. k = 0 \/ (k # 0 /\ k - 1 \in 0..n)
        OBVIOUS
      <4> QED
        BY <2>2, <2>3, <4>1 DEF Turning
    <3>2. h[n + 1] = Turning(n + 1, h)
      <4>1. h[n + 1] = (n + 1) * g[n] /\ h[n] = g[n]
        BY <2>2
      <4>2. n + 1 # 0 /\ (n + 1) - 1 = n
        OBVIOUS
      <4> HIDE DEF h
      <4> QED
        BY <4>1, <4>2 DEF Turning
    <3> QED
      BY <3>1, <3>2
  <2>5. h = [k \in 0..(n + 1) |-> Turning(k, h)]
    <3> DEFINE N == 0..(n + 1)
    <3>1. DOMAIN h = N /\ h = [k \in N |-> h[k]]
      OBVIOUS
    <3> HIDE DEF h
    <3> QED
      BY <2>4, <3>1
  <2> HIDE DEF h
  <2> QED
    BY <2>5
<1>3. Nat \subseteq P
  <2> HIDE DEF P
  <2> QED
    BY <1>1, <1>2, Induction
<1>4. 0 \in Same
  BY DEF Turning
<1>5. ASSUME NEW k \in Same \cap Nat PROVE k + 1 \in Same
  <2>1. ASSUME NEW m \in Nat, NEW n \in Nat, k + 1 <= m, k + 1 <= n,
               NEW g, NEW h, Begun(m, g), Begun(n, h)
        PROVE  g[k + 1] = h[k + 1]
    <3>1. g[k] = h[k]
      BY <2>1
    <3>2. k + 1 \in 0..m /\ k + 1 \in 0..n /\ k + 1 # 0 /\ (k + 1) - 1 = k
      BY <2>1
    <3>3. g[k + 1] = Turning(k + 1, g) /\ h[k + 1] = Turning(k + 1, h)
      BY <2>1, <3>2
    <3> QED
      BY <3>1, <3>2, <3>3 DEF Turning
  <2> QED
    BY <2>1
<1>6. Nat \subseteq Same
  <2> HIDE DEF Same
  <2> QED
    BY <1>4, <1>5, Induction
<1> DEFINE part(n) == CHOOSE g : Begun(n, g)
           f == [n \in Nat |-> part(n)[n]]
<1>7. \A n \in Nat : Begun(n, part(n))
  BY <1>3
<1>8. ASSUME NEW n \in Nat PROVE f[n] = Turning(n, f)
  <2>1. Begun(n, part(n))
    BY <1>7
  <2>2. f[n] = part(n)[n]
    OBVIOUS
  <2>3. part(n)[n] = Turning(n, part(n))
    <3> HIDE DEF part
    <3> QED
      BY <2>1
  <2>4. CASE n = 0
    BY <2>2, <2>3, <2>4 DEF Turning
  <2>5. CASE n # 0
    <3>1. n - 1 \in Nat /\ n - 1 <= n /\ n - 1 <= n - 1
      BY <2>5
    <3>2. Begun(n - 1, part(n - 1))
      BY <1>7, <3>1
    <3>3. n - 1 \in Same
      BY <1>6, <3>1
    <3> HIDE DEF part, UpTo
    <3>4. part(n)[n - 1] = part(n - 1)[n - 1]
      BY <2>1, <3>1, <3>2, <3>3
    <3>5. f[n - 1] = part(n - 1)[n - 1]
      BY <3>1
    <3> HIDE DEF f
    <3> QED
      BY <2>2, <2>3, <2>5, <3>4, <3>5 DEF Turning
  <2> QED
    BY <2>4, <2>5
<1>9. f = [n \in Nat |-> Turning(n, f)]
  <2>1. f = [n \in Nat |-> f[n]]
    OBVIOUS
  <2> HIDE DEF f
  <2> QED
    BY <1>8, <2>1
<1> HIDE DEF f
<1> QED
  BY <1>9

LEMMA FactorialIs ==
  /\ factorial[0] = 1
  /\ \A n \in Nat : /\ factorial[n] \in Nat /\ factorial[n] > 0
                    /\ factorial[n + 1] = (n + 1) * factorial[n]
<1>1. factorial = CHOOSE f : f = [n \in Nat |-> Turning(n, f)]
  BY DEF factorial, Turning
<1>2. factorial = [n \in Nat |-> Turning(n, factorial)]
  BY <1>1, FactorialExists
<1>3. factorial[0] = 1
  BY <1>2 DEF Turning
<1>4. \A n \in Nat : factorial[n + 1] = (n + 1) * factorial[n]
  <2>1. \A n \in Nat : n + 1 \in Nat /\ n + 1 # 0 /\ (n + 1) - 1 = n
    OBVIOUS
  <2>2. \A n \in Nat : factorial[n + 1] = Turning(n + 1, factorial)
    BY <1>2, <2>1
  <2> QED
    BY <2>1, <2>2 DEF Turning
<1> DEFINE P == {n \in Nat : factorial[n] \in Nat /\ factorial[n] > 0}
<1>5. 0 \in P
  BY <1>3
<1>6. ASSUME NEW n \in P \cap Nat PROVE n + 1 \in P
  <2>1. factorial[n] \in Nat /\ factorial[n] > 0 /\ factorial[n + 1] = (n + 1) * factorial[n]
    BY <1>4
  <2>2. (n + 1) * factorial[n] \in Nat /\ (n + 1) * factorial[n] > 0
    BY <2>1
  <2> QED
    BY <2>1, <2>2
<1>7. Nat \subseteq P
  BY <1>5, <1>6, Induction
<1> QED
  BY <1>3, <1>4, <1>7

LEMMA DivExact ==
  ASSUME NEW a \in Nat, NEW d \in Nat, d > 0
  PROVE  (a * d) \div d = a
OBVIOUS

(* The numbers of choices are quotients of factorials.                      *)
LEMMA WaysFactor ==
  ASSUME NEW n \in Nat, NEW k \in 0..n
  PROVE  Ways(n, k) * (factorial[k] * factorial[n - k]) = factorial[n]
<1> DEFINE Right(p, j) == Ways(p, j) * (factorial[j] * factorial[p - j]) = factorial[p]
           P == {p \in Nat : \A j \in 0..p : Right(p, j)}
<1>0. ASSUME NEW p \in Nat PROVE Right(p, 0)
  <2> HIDE DEF P
  <2>1. p - 0 = p
    OBVIOUS
  <2>2. Ways(p, 0) = 1
    BY WaysIs
  <2>3. factorial[0] = 1 /\ factorial[p] \in Nat
    BY FactorialIs
  <2> QED
    BY <2>1, <2>2, <2>3
<1>1. 0 \in P
  BY <1>0
<1>2. ASSUME NEW p \in P \cap Nat PROVE p + 1 \in P
  <2>1. ASSUME NEW j \in 0..p PROVE Right(p + 1, j + 1)
    <3> DEFINE C == Ways(p, j)
               D == Ways(p, j + 1)
               a == factorial[j]
               b == factorial[p - j]
               q == p - j
    <3>1. /\ q \in Nat /\ j \in Nat /\ (p + 1) - (j + 1) = q /\ p = q + j
      OBVIOUS
    <3>2. /\ C \in Nat /\ D \in Nat /\ Ways(p + 1, j + 1) = C + D
      BY <3>1, WaysIs
    <3>3. /\ a \in Nat /\ b \in Nat /\ factorial[p] \in Nat
          /\ factorial[j + 1] = (j + 1) * a /\ factorial[p + 1] = (p + 1) * factorial[p]
      BY <3>1, FactorialIs
    <3>4. C * (a * b) = factorial[p]
      OBVIOUS
    <3>5. D * (((j + 1) * a) * b) = q * factorial[p]
      <4>1. CASE q = 0
        <5>1. j + 1 = p + 1
          BY <3>1, <4>1
        <5>2. D = 0
          BY <5>1, WaysIs
        <5> QED
          BY <3>3, <4>1, <5>2
      <4>2. CASE q > 0
        <5> DEFINE c == factorial[q - 1]
        <5>1. q - 1 \in Nat /\ j + 1 \in 0..p /\ p - (j + 1) = q - 1 /\ (q - 1) + 1 = q
          BY <3>1, <4>2
        <5>2. D * (factorial[j + 1] * c) = factorial[p]
          BY <5>1
        <5>3. c \in Nat /\ b = q * c
          BY <5>1, FactorialIs
        <5> HIDE DEF a, b, c, C, D, q, P
        <5>4. D * (((j + 1) * a) * (q * c)) = q * (D * (((j + 1) * a) * c))
          BY <3>1, <3>2, <3>3, <5>3
        <5> QED
          BY <3>3, <5>2, <5>3, <5>4
      <4> QED
        BY <3>1, <4>1, <4>2
    <3> HIDE DEF a, b, C, D, q, P
    <3>6. C * (((j + 1) * a) * b) = (j + 1) * (C * (a * b))
      BY <3>1, <3>2, <3>3
    <3>7. (C + D) * (((j + 1) * a) * b) = C * (((j + 1) * a) * b) + D * (((j + 1) * a) * b)
      BY <3>1, <3>2, <3>3
    <3>8. (C + D) * (((j + 1) * a) * b) = (p + 1) * factorial[p]
      <4> DEFINE x == factorial[p]
      <4>1. (C + D) * (((j + 1) * a) * b) = (j + 1) * x + q * x
        BY <3>4, <3>5, <3>6, <3>7
      <4>2. x \in Nat
        BY <3>3
      <4> HIDE DEF x
      <4>3. (j + 1) * x + q * x = (p + 1) * x
        BY <3>1, <4>2
      <4> QED
        BY <4>1, <4>3 DEF x
    <3>9. factorial[(p + 1) - (j + 1)] = b
      BY <3>1 DEF b, q
    <3> QED
      BY <3>2, <3>3, <3>8, <3>9
  <2>2. ASSUME NEW j \in 0..(p + 1) PROVE Right(p + 1, j)
    <3>1. CASE j = 0
      BY <1>0, <3>1
    <3>2. CASE j # 0
      <4>1. j - 1 \in 0..p /\ (j - 1) + 1 = j
        BY <3>2
      <4> HIDE DEF Right
      <4> QED
        BY <2>1, <4>1
    <3> QED
      BY <3>1, <3>2
  <2> QED
    BY <2>2
<1>3. Nat \subseteq P
  <2> HIDE DEF P
  <2> QED
    BY <1>1, <1>2, Induction
<1> QED
  BY <1>3

LEMMA ChooseIs ==
  ASSUME NEW n \in Nat, NEW k \in 0..n
  PROVE  choose(n, k) = Ways(n, k)
<1> DEFINE d == factorial[k] * factorial[n - k]
<1>1. k \in Nat /\ n - k \in Nat
  OBVIOUS
<1>2. /\ factorial[k] \in Nat /\ factorial[k] > 0
      /\ factorial[n - k] \in Nat /\ factorial[n - k] > 0
  BY <1>1, FactorialIs
<1>3. d \in Nat /\ d > 0
  BY <1>2
<1>4. Ways(n, k) * d = factorial[n] /\ Ways(n, k) \in Nat
  BY <1>1, WaysFactor, WaysIs
<1>5. choose(n, k) = factorial[n] \div d
  BY DEF choose
<1> HIDE DEF d
<1> QED
  BY <1>3, <1>4, <1>5, DivExact

(* The tail of the binomial counts the sets of at most m elements.          *)
AtMost(n, m) == {F \in ChoicesOf(n) : Cardinality(F) <= m}

LEMMA TailIs ==
  ASSUME NEW n \in Nat, NEW m \in 0..n
  PROVE  MapThenSumSet(LAMBDA i : choose(n, i), 0..m) = Cardinality(AtMost(n, m))
<1> DEFINE S == 0..m
           f == [i \in S |-> choose(n, i)]
           Term(s, g) == IF s = {} THEN 0 ELSE choose(n, Chosen(s)) + g[s \ {Chosen(s)}]
           Fold(g) == g = [s \in SUBSET S |-> Term(s, g)]
           it == CHOOSE g : Fold(g)
<1>1. MapThenSumSet(LAMBDA i : choose(n, i), S) = it[S]
  BY DEF MapThenSumSet, MapThenFoldSet, Chosen
<1>2. IsFiniteSet(S) /\ \A i \in S : i \in 0..n
  BY FS_Interval
<1>3. \A s \in SUBSET S : s # {} => f[Chosen(s)] = choose(n, Chosen(s))
  BY ChosenIn
<1>4. \A g : \A s \in SUBSET S : Term(s, g) = Adding(f, s, g)
  BY <1>3 DEF Adding
<1>5. \A g : SumsOf(f, S, g) <=> Fold(g)
  <2> HIDE DEF Term, f, S
  <2> QED
    BY <1>4 DEF SumsOf
<1>6. PICK g : SumsOf(f, S, g) /\ Sum(f, S) = g[S]
  BY <1>2, SumIs
<1>7. SumsOf(f, S, it)
  <2> HIDE DEF Fold, f, S
  <2> QED
    BY <1>5, <1>6
<1>8. it[S] = Sum(f, S)
  <2> HIDE DEF it, f, S
  <2> QED
    BY <1>2, <1>6, <1>7, SumsAgree
<1> DEFINE G == [i \in S |-> OfSize(n, i)]
<1>9. \A i \in S : IsFiniteSet(G[i]) /\ f[i] = Cardinality(G[i])
  <2> SUFFICES ASSUME NEW i \in S PROVE IsFiniteSet(G[i]) /\ f[i] = Cardinality(G[i])
    OBVIOUS
  <2>1. G[i] = OfSize(n, i) /\ f[i] = choose(n, i) /\ i \in 0..n
    BY <1>2
  <2>2. IsFiniteSet(OfSize(n, i))
    BY ChoicesAreFinite DEF OfSize
  <2> QED
    BY <2>1, <2>2, ChooseIs DEF Ways
<1>10. \A i, j \in S : i # j => G[i] \cap G[j] = {}
  BY DEF OfSize
<1>11. AtMost(n, m) = UNION {G[i] : i \in S}
  <2>1. \A F \in ChoicesOf(n) : Cardinality(F) \in Nat
    BY ChoicesAreFinite
  <2>2. \A F \in ChoicesOf(n) : Cardinality(F) <= m <=> Cardinality(F) \in S
    BY <2>1
  <2> HIDE DEF S
  <2> QED
    BY <2>2 DEF AtMost, OfSize
<1> HIDE DEF S, f, G, it
<1>12. Sum(f, S) = Cardinality(AtMost(n, m))
  BY SMTT(30), <1>2, <1>9, <1>10, <1>11, CountOfParts
<1> QED
  BY <1>1, <1>8, <1>12 DEF S

-----------------------------------------------------------------------------
(***************************************************************************)
(* The sign-flip test of differences of one.                               *)
(***************************************************************************)

Multiplying(h, s, g) == IF s = {} THEN 1 ELSE h[Chosen(s)] * g[s \ {Chosen(s)}]

ProductsOf(h, T, g) == g = [s \in SUBSET T |-> Multiplying(h, s, g)]

Twos(h, s) == {x \in s : h[x] = 2}

(* A product of ones and twos is the power of two that its twos are.        *)
LEMMA TwosTurn ==
  ASSUME NEW T, IsFiniteSet(T), NEW h, \A x \in T : h[x] \in {1, 2}, NEW s \in SUBSET T, s # {}
  PROVE  /\ Cardinality(Twos(h, s)) \in Nat /\ Cardinality(Twos(h, s \ {Chosen(s)})) \in Nat
         /\ Pow(Cardinality(Twos(h, s)))
              = h[Chosen(s)] * Pow(Cardinality(Twos(h, s \ {Chosen(s)})))
<1> DEFINE x == Chosen(s)
           U == Twos(h, s \ {x})
<1>1. x \in s
  BY ChosenIn
<1> HIDE DEF x
<1>2. IsFiniteSet(s) /\ IsFiniteSet(Twos(h, s)) /\ IsFiniteSet(U)
  BY FS_Subset DEF Twos
<1>3. Cardinality(Twos(h, s)) \in Nat /\ Cardinality(U) \in Nat
  BY <1>2, FS_CardinalityType
<1>4. CASE h[x] = 1
  <2>1. Twos(h, s) = U
    BY <1>4 DEF Twos
  <2> QED
    BY <1>3, <1>4, <2>1, PowIs DEF x
<1>5. CASE h[x] = 2
  <2>1. Twos(h, s) = U \cup {x} /\ x \notin U
    BY <1>1, <1>5 DEF Twos
  <2>2. Cardinality(Twos(h, s)) = Cardinality(U) + 1
    BY <1>2, <2>1, FS_AddElement
  <2> QED
    BY <1>3, <1>5, <2>2, PowIs DEF x
<1> QED
  BY <1>1, <1>3, <1>4, <1>5 DEF x

LEMMA ProductsExist ==
  ASSUME NEW T, IsFiniteSet(T), NEW h, \A x \in T : h[x] \in {1, 2}
  PROVE  \E g : ProductsOf(h, T, g)
<1> DEFINE g == [s \in SUBSET T |-> Pow(Cardinality(Twos(h, s)))]
<1>1. ASSUME NEW s \in SUBSET T PROVE g[s] = Multiplying(h, s, g)
  <2>1. CASE s = {}
    <3>1. Cardinality(Twos(h, {})) = 0
      BY FS_EmptySet DEF Twos
    <3> QED
      BY <2>1, <3>1, PowIs DEF Multiplying
  <2>2. CASE s # {}
    <3>1. s \ {Chosen(s)} \in SUBSET T
      OBVIOUS
    <3> QED
      BY <2>2, <3>1, TwosTurn DEF Multiplying
  <2> QED
    BY <2>1, <2>2
<1>2. g = [s \in SUBSET T |-> g[s]]
  OBVIOUS
<1> HIDE DEF g
<1> QED
  BY <1>1, <1>2 DEF ProductsOf

LEMMA ProductIs ==
  ASSUME NEW T, IsFiniteSet(T), NEW h, \A x \in T : h[x] \in {1, 2},
         NEW g, ProductsOf(h, T, g)
  PROVE  g[T] = Pow(Cardinality(Twos(h, T)))
<1> DEFINE Right(s) == g[s] = Pow(Cardinality(Twos(h, s)))
           P == {n \in Nat : \A s \in SUBSET T : Cardinality(s) <= n => Right(s)}
<1>1. \A s \in SUBSET T : g[s] = Multiplying(h, s, g)
  BY DEF ProductsOf
<1>2. Right({})
  <2>1. Cardinality(Twos(h, {})) = 0
    BY FS_EmptySet DEF Twos
  <2> QED
    BY <1>1, <2>1, PowIs DEF Multiplying
<1>3. 0 \in P
  <2>1. \A s \in SUBSET T : Cardinality(s) <= 0 => s = {}
    BY NoneLeft, FS_Subset
  <2> QED
    BY <1>2, <2>1
<1>4. ASSUME NEW n \in P \cap Nat PROVE n + 1 \in P
  <2>1. ASSUME NEW s \in SUBSET T, Cardinality(s) <= n + 1, s # {} PROVE Right(s)
    <3>1. Chosen(s) \in s
      BY <2>1, ChosenIn
    <3>2. /\ s \ {Chosen(s)} \in SUBSET T /\ Cardinality(s) \in Nat
          /\ Cardinality(s \ {Chosen(s)}) = Cardinality(s) - 1
      <4> HIDE DEF P, Right
      <4> QED
        BY SMTT(30), <3>1, OneLess
    <3>3. n \in Nat
      OBVIOUS
    <3>4. Cardinality(s \ {Chosen(s)}) <= n
      BY <2>1, <3>2, <3>3
    <3>5. Right(s \ {Chosen(s)})
      BY <3>2, <3>4
    <3>6. g[s] = h[Chosen(s)] * g[s \ {Chosen(s)}]
      BY <1>1, <2>1 DEF Multiplying
    <3> QED
      BY <2>1, <3>5, <3>6, TwosTurn
  <2> QED
    BY <1>2, <2>1
<1>5. Cardinality(T) \in P
  <2>1. Nat \subseteq P
    <3> HIDE DEF P
    <3> QED
      BY <1>3, <1>4, Induction
  <2> QED
    BY <2>1, FS_CardinalityType
<1>6. Cardinality(T) <= Cardinality(T)
  BY FS_CardinalityType
<1> QED
  BY <1>5, <1>6

Diffs(b, c) == [i \in 1..(b + c) |-> IF i <= b THEN <<2, 1>> ELSE <<1, 2>>]

(* The two sums of the differences whose sign is flipped in F.              *)
UpOf(T, diffs, F) == Product(T, LAMBDA t : IF t \in F THEN diffs[t][2] ELSE diffs[t][1])
DownOf(T, diffs, F) == Product(T, LAMBDA t : IF t \in F THEN diffs[t][1] ELSE diffs[t][2])

(* Who is up when the signs of F are flipped, where 1..b were.              *)
Flipped(F, b) == (F \ (1..b)) \cup ((1..b) \ F)

LEMMA UpIs ==
  ASSUME NEW b \in Nat, NEW c \in Nat, NEW F \in ChoicesOf(b + c)
  PROVE  UpOf(1..(b + c), Diffs(b, c), F) = Pow(Cardinality(Flipped(F, b)))
<1> DEFINE T == 1..(b + c)
           D == Diffs(b, c)
           h == [t \in T |-> IF t \in F THEN D[t][2] ELSE D[t][1]]
           Term(s, g) == IF s = {} THEN 1
                         ELSE (IF Chosen(s) \in F THEN D[Chosen(s)][2] ELSE D[Chosen(s)][1])
                                * g[s \ {Chosen(s)}]
           Fold(g) == g = [s \in SUBSET T |-> Term(s, g)]
           it == CHOOSE g : Fold(g)
<1>1. UpOf(T, D, F) = it[T]
  <2> HIDE DEF T, D
  <2> QED
    BY DEF UpOf, Product, FoldSet, MapThenFoldSet, Chosen
<1>2. \A t \in T : h[t] = IF t \in Flipped(F, b) THEN 2 ELSE 1
  BY DEF Diffs, Flipped
<1>3. Flipped(F, b) \subseteq T
  BY DEF Flipped, ChoicesOf
<1>4. Twos(h, T) = Flipped(F, b)
  BY <1>2, <1>3 DEF Twos
<1>5. IsFiniteSet(T) /\ \A t \in T : h[t] \in {1, 2}
  <2>1. IsFiniteSet(T)
    BY FS_Interval
  <2> HIDE DEF h, T
  <2> QED
    BY <1>2, <2>1
<1>6. \A g : \A s \in SUBSET T : Term(s, g) = Multiplying(h, s, g)
  <2> HIDE DEF D, T
  <2> QED
    BY ChosenIn DEF Multiplying
<1>7. \A g : ProductsOf(h, T, g) <=> Fold(g)
  <2> HIDE DEF Term, h, T
  <2> QED
    BY <1>6 DEF ProductsOf
<1> HIDE DEF h, Fold, T
<1>8. ProductsOf(h, T, it)
  BY <1>5, <1>7, ProductsExist
<1> HIDE DEF it
<1>9. it[T] = Pow(Cardinality(Twos(h, T)))
  BY <1>5, <1>8, ProductIs
<1> QED
  BY <1>1, <1>4, <1>9 DEF T

LEMMA DownIs ==
  ASSUME NEW b \in Nat, NEW c \in Nat, NEW F \in ChoicesOf(b + c)
  PROVE  DownOf(1..(b + c), Diffs(b, c), F) = Pow(Cardinality((1..(b + c)) \ Flipped(F, b)))
<1> DEFINE T == 1..(b + c)
           D == Diffs(b, c)
           h == [t \in T |-> IF t \in F THEN D[t][1] ELSE D[t][2]]
           Term(s, g) == IF s = {} THEN 1
                         ELSE (IF Chosen(s) \in F THEN D[Chosen(s)][1] ELSE D[Chosen(s)][2])
                                * g[s \ {Chosen(s)}]
           Fold(g) == g = [s \in SUBSET T |-> Term(s, g)]
           it == CHOOSE g : Fold(g)
<1>1. DownOf(T, D, F) = it[T]
  <2> HIDE DEF T, D
  <2> QED
    BY DEF DownOf, Product, FoldSet, MapThenFoldSet, Chosen
<1>2. \A t \in T : h[t] = IF t \in Flipped(F, b) THEN 1 ELSE 2
  BY DEF Diffs, Flipped
<1>3. Twos(h, T) = T \ Flipped(F, b)
  BY <1>2 DEF Twos
<1>4. IsFiniteSet(T) /\ \A t \in T : h[t] \in {1, 2}
  <2>1. IsFiniteSet(T)
    BY FS_Interval
  <2> HIDE DEF h, T
  <2> QED
    BY <1>2, <2>1
<1>5. \A g : \A s \in SUBSET T : Term(s, g) = Multiplying(h, s, g)
  <2> HIDE DEF D, T
  <2> QED
    BY ChosenIn DEF Multiplying
<1>6. \A g : ProductsOf(h, T, g) <=> Fold(g)
  <2> HIDE DEF Term, h, T
  <2> QED
    BY <1>5 DEF ProductsOf
<1> HIDE DEF h, Fold, T
<1>7. ProductsOf(h, T, it)
  BY <1>4, <1>6, ProductsExist
<1> HIDE DEF it
<1>8. it[T] = Pow(Cardinality(Twos(h, T)))
  BY <1>4, <1>7, ProductIs
<1> QED
  BY <1>1, <1>3, <1>8 DEF T

MoreOf(x, y) == IF x >= y THEN x ELSE y
LessOf(x, y) == IF x >= y THEN y ELSE x

LEMMA PowsOfTwo ==
  ASSUME NEW i \in Nat, NEW j \in Nat
  PROVE  Max({Pow(i), Pow(j)}) = Pow(MoreOf(i, j)) /\ Min({Pow(i), Pow(j)}) = Pow(LessOf(i, j))
<1>1. Pow(i) \in Nat /\ Pow(j) \in Nat /\ (Pow(i) >= Pow(j) <=> i >= j)
      /\ (Pow(j) >= Pow(i) <=> j >= i)
  BY PowIs, PowGrows
<1> DEFINE x == Pow(i)
           y == Pow(j)
<1>2. x \in Nat /\ y \in Nat
  BY <1>1
<1> HIDE DEF x, y
<1>3. Max({x, y}) = MoreOf(x, y) /\ Min({x, y}) = LessOf(x, y)
  BY <1>2 DEF Max, Min, MoreOf, LessOf
<1> QED
  BY <1>1, <1>3 DEF MoreOf, LessOf, x, y

(* At least as extreme as v of n is what is as near to 0 or to n.           *)
LEMMA AsExtreme ==
  ASSUME NEW n \in Nat, NEW u \in 0..n, NEW v \in 0..n
  PROVE  Max({Pow(u), Pow(n - u)}) * Min({Pow(v), Pow(n - v)})
           >= Max({Pow(v), Pow(n - v)}) * Min({Pow(u), Pow(n - u)})
         <=> LessOf(u, n - u) <= LessOf(v, n - v)
<1> DEFINE M == MoreOf(u, n - u)
           l == LessOf(u, n - u)
           H == MoreOf(v, n - v)
           k == LessOf(v, n - v)
<1>1. /\ u \in Nat /\ n - u \in Nat /\ v \in Nat /\ n - v \in Nat
  OBVIOUS
<1>2. M \in Nat /\ l \in Nat /\ H \in Nat /\ k \in Nat /\ M + l = n /\ H + k = n
  BY <1>1 DEF MoreOf, LessOf
<1>3. /\ Max({Pow(u), Pow(n - u)}) = Pow(M) /\ Min({Pow(u), Pow(n - u)}) = Pow(l)
      /\ Max({Pow(v), Pow(n - v)}) = Pow(H) /\ Min({Pow(v), Pow(n - v)}) = Pow(k)
  BY <1>1, PowsOfTwo
<1> HIDE DEF M, l, H, k
<1>4. Pow(M) * Pow(k) = Pow(M + k) /\ Pow(H) * Pow(l) = Pow(H + l)
  BY <1>2, PowAdds
<1>5. M + k \in Nat /\ H + l \in Nat
  BY <1>2
<1>6. Pow(M + k) >= Pow(H + l) <=> M + k >= H + l
  BY <1>5, PowGrows
<1>7. M + k >= H + l <=> l <= k
  BY <1>2
<1> QED
  BY <1>3, <1>4, <1>6, <1>7 DEF l, k

(* The choices of at most m elements, or of all but at most m.              *)
Extreme(n, m) == {G \in ChoicesOf(n) : LessOf(Cardinality(G), n - Cardinality(G)) <= m}

LEMMA FlippedIs ==
  ASSUME NEW b \in Nat, NEW c \in Nat, NEW F \in ChoicesOf(b + c)
  PROVE  /\ Flipped(F, b) \in ChoicesOf(b + c) /\ Flipped(Flipped(F, b), b) = F
         /\ Cardinality(Flipped(F, b)) \in 0..(b + c)
         /\ Cardinality((1..(b + c)) \ Flipped(F, b)) = (b + c) - Cardinality(Flipped(F, b))
<1> DEFINE T == 1..(b + c)
           E == Flipped(F, b)
<1>1. F \subseteq T /\ 1..b \subseteq T
  BY DEF ChoicesOf
<1>2. E \subseteq T /\ Flipped(E, b) = F
  BY <1>1 DEF Flipped
<1>3. E \in ChoicesOf(b + c)
  BY <1>2 DEF ChoicesOf
<1>4. b + c \in Nat
  OBVIOUS
<1>5. IsFiniteSet(T) /\ Cardinality(T) = b + c /\ Cardinality(E) \in 0..(b + c)
  <2> HIDE DEF E
  <2> QED
    BY <1>3, <1>4, ChoicesAreFinite
<1> HIDE DEF T, E
<1>6. T \cap E = E
  BY <1>2
<1>7. Cardinality(T \ E) = Cardinality(T) - Cardinality(T \cap E)
  BY <1>5, FS_Difference
<1> QED
  BY <1>2, <1>3, <1>5, <1>6, <1>7 DEF T, E

LEMMA SignFlipCounts ==
  ASSUME NEW b \in Nat, NEW c \in Nat
  PROVE  SignFlip(Diffs(b, c)) = Cardinality(Extreme(b + c, LessOf(b, c)))
<1> DEFINE n == b + c
           T == 1..n
           D == Diffs(b, c)
           High(F) == Max({UpOf(T, D, F), DownOf(T, D, F)})
           Low(F) == Min({UpOf(T, D, F), DownOf(T, D, F)})
           S == {F \in SUBSET T : High(F) * Low({}) >= High({}) * Low(F)}
           X == Extreme(n, LessOf(b, c))
           size(F) == Cardinality(Flipped(F, b))
<1>1. SignFlip(D) = Cardinality(S)
  <2>1. DOMAIN D = T
    BY DEF Diffs
  <2> HIDE DEF D, T
  <2> QED
    BY <2>1 DEF SignFlip, UpOf, DownOf
<1>2. n \in Nat /\ {} \in ChoicesOf(n)
  BY DEF ChoicesOf
<1>3. ASSUME NEW F \in ChoicesOf(n)
      PROVE  /\ High(F) = Max({Pow(size(F)), Pow(n - size(F))})
             /\ Low(F) = Min({Pow(size(F)), Pow(n - size(F))})
             /\ size(F) \in 0..n
  <2>1. /\ size(F) \in 0..n /\ Cardinality((1..n) \ Flipped(F, b)) = n - size(F)
    BY FlippedIs
  <2>2. UpOf(T, D, F) = Pow(size(F)) /\ DownOf(T, D, F) = Pow(n - size(F))
    BY <2>1, UpIs, DownIs
  <2> QED
    BY <2>1, <2>2
<1>4. size({}) = b /\ n - size({}) = c
  <2>1. Flipped({}, b) = 1..b
    BY DEF Flipped
  <2>2. Cardinality(1..b) = b
    BY FS_Interval
  <2> QED
    BY <2>1, <2>2
<1> HIDE DEF High, Low, size
<1>5. \A F \in ChoicesOf(n) : F \in S <=> LessOf(size(F), n - size(F)) <= LessOf(b, c)
  <2> SUFFICES ASSUME NEW F \in ChoicesOf(n)
               PROVE  F \in S <=> LessOf(size(F), n - size(F)) <= LessOf(b, c)
    OBVIOUS
  <2> HIDE DEF n
  <2>1. /\ High(F) = Max({Pow(size(F)), Pow(n - size(F))})
        /\ Low(F) = Min({Pow(size(F)), Pow(n - size(F))})
        /\ High({}) = Max({Pow(size({})), Pow(n - size({}))})
        /\ Low({}) = Min({Pow(size({})), Pow(n - size({}))})
        /\ size(F) \in 0..n /\ size({}) \in 0..n
    BY <1>2, <1>3
  <2>2. High(F) * Low({}) >= High({}) * Low(F)
          <=> LessOf(size(F), n - size(F)) <= LessOf(size({}), n - size({}))
    BY <1>2, <2>1, AsExtreme
  <2> QED
    BY <1>4, <2>2 DEF ChoicesOf
<1> DEFINE f == [F \in S |-> Flipped(F, b)]
<1>6. S \in SUBSET ChoicesOf(n)
  BY DEF ChoicesOf
<1>7. \A F \in ChoicesOf(n) : Flipped(F, b) \in ChoicesOf(n) /\ Flipped(Flipped(F, b), b) = F
  BY FlippedIs
<1> HIDE DEF S, n
<1>8. \A F \in ChoicesOf(n) : F \in S <=> Flipped(F, b) \in X
  BY <1>5, <1>7 DEF Extreme, size
<1>9. f \in [S -> X]
  BY <1>6, <1>8
<1>10. \A x, y \in S : f[x] = f[y] => x = y
  BY <1>6, <1>7
<1>11. ASSUME NEW z \in X PROVE \E x \in S : f[x] = z
  <2>1. z \in ChoicesOf(n)
    BY DEF Extreme
  <2>2. Flipped(z, b) \in S /\ f[Flipped(z, b)] = z
    BY <1>7, <1>8, <2>1
  <2> QED
    BY <2>2
<1>12. IsFiniteSet(S)
  BY <1>2, <1>6, ChoicesAreFinite
<1> HIDE DEF f, X
<1>13. Cardinality(X) = Cardinality(S)
  BY <1>9, <1>10, <1>11, <1>12, SameCount
<1> QED
  BY <1>1, <1>13 DEF X, n

AllBut(n, m) == {G \in ChoicesOf(n) : n - Cardinality(G) <= m}

(* What is left out of a choice of at most m is all but at most m.          *)
LEMMA AsManyLeftOut ==
  ASSUME NEW n \in Nat, NEW m \in Nat
  PROVE  Cardinality(AllBut(n, m)) = Cardinality(AtMost(n, m))
<1> DEFINE T == 1..n
           L == AtMost(n, m)
           H == AllBut(n, m)
           f == [F \in L |-> T \ F]
<1>1. IsFiniteSet(T) /\ Cardinality(T) = n
  BY ChoicesAreFinite
<1>2. \A F \in ChoicesOf(n) : /\ T \ F \in ChoicesOf(n) /\ T \ (T \ F) = F
                            /\ Cardinality(F) \in 0..n
  BY ChoicesAreFinite DEF ChoicesOf
<1>3. ASSUME NEW F \in ChoicesOf(n) PROVE Cardinality(T \ F) = n - Cardinality(F)
  <2>1. T \cap F = F
    BY DEF ChoicesOf
  <2>2. Cardinality(T \ F) = Cardinality(T) - Cardinality(T \cap F)
    BY <1>1, FS_Difference
  <2> QED
    BY <1>1, <2>1, <2>2
<1> HIDE DEF T
<1>4. \A F \in ChoicesOf(n) : F \in L <=> T \ F \in H
  <2> SUFFICES ASSUME NEW F \in ChoicesOf(n) PROVE F \in L <=> T \ F \in H
    OBVIOUS
  <2>1. Cardinality(T \ F) = n - Cardinality(F) /\ Cardinality(F) \in 0..n /\ T \ F \in ChoicesOf(n)
    BY <1>2, <1>3
  <2>2. n - (n - Cardinality(F)) = Cardinality(F)
    BY <2>1
  <2> QED
    BY <2>1, <2>2 DEF AtMost, AllBut
<1>5. L \in SUBSET ChoicesOf(n) /\ H \in SUBSET ChoicesOf(n)
  BY DEF AtMost, AllBut
<1> HIDE DEF L, H
<1>6. f \in [L -> H]
  BY <1>2, <1>4, <1>5
<1>7. ASSUME NEW x \in L, NEW y \in L, f[x] = f[y] PROVE x = y
  <2>1. T \ x = T \ y /\ x \in ChoicesOf(n) /\ y \in ChoicesOf(n)
    BY <1>5, <1>7
  <2> QED
    BY <1>2, <2>1
<1>8. ASSUME NEW z \in H PROVE \E x \in L : f[x] = z
  <2>1. z \in ChoicesOf(n) /\ T \ z \in ChoicesOf(n) /\ T \ (T \ z) = z
    BY <1>2, <1>5
  <2>2. T \ z \in L
    BY <1>4, <2>1
  <2>3. f[T \ z] = z
    BY <2>1, <2>2
  <2> QED
    BY <2>2, <2>3
<1>9. IsFiniteSet(L)
  BY <1>5, ChoicesAreFinite
<1> HIDE DEF f
<1> QED
  BY <1>6, <1>7, <1>8, <1>9, SameCount DEF L, H

LEMMA McNemarCounts ==
  ASSUME NEW b \in Nat, NEW c \in Nat
  PROVE  McNemarExact(b, c) = Cardinality(Extreme(b + c, LessOf(b, c)))
<1> DEFINE n == b + c
           m == IF b < c THEN b ELSE c
           L == AtMost(n, m)
           H == AllBut(n, m)
           X == Extreme(n, m)
           tail == Cardinality(L)
<1>1. /\ n \in Nat /\ m \in 0..n /\ m \in Nat /\ m = LessOf(b, c)
      /\ IF b = c THEN n = 2 * m ELSE 2 * m < n
  BY DEF LessOf
<1>2. McNemarExact(b, c) = IF 2 * tail > 2^n THEN 2^n ELSE 2 * tail
  <2>1. MapThenSumSet(LAMBDA i : choose(n, i), 0..m) = tail
    <3> HIDE DEF n, m
    <3> QED
      BY <1>1, TailIs
  <2> HIDE DEF tail
  <2> QED
    BY <2>1 DEF McNemarExact
<1> HIDE DEF n, m
<1>3. L \in SUBSET ChoicesOf(n) /\ H \in SUBSET ChoicesOf(n) /\ X \in SUBSET ChoicesOf(n)
  BY DEF AtMost, AllBut, Extreme
<1>4. IsFiniteSet(L) /\ IsFiniteSet(H) /\ tail \in Nat /\ Cardinality(X) \in Nat
  BY <1>1, <1>3, ChoicesAreFinite
<1>5. Cardinality(H) = tail
  BY <1>1, AsManyLeftOut
<1>6. /\ ChoicesOf(n) \in SUBSET ChoicesOf(n) /\ IsFiniteSet(ChoicesOf(n))
      /\ Cardinality(ChoicesOf(n)) = 2^n /\ 2^n \in Nat
  <2>1. Pow(n) \in Nat /\ Pow(n) = 2^n /\ IsFiniteSet(ChoicesOf(n))
    BY <1>1, PowIs, ChoicesAreFinite
  <2> QED
    BY <2>1 DEF Pow
<1>7. \A G \in ChoicesOf(n) : Cardinality(G) \in 0..n
  BY <1>1, ChoicesAreFinite
<1>8. X = L \cup H
  <2>1. \A G \in ChoicesOf(n) : LessOf(Cardinality(G), n - Cardinality(G)) <= m
                                <=> Cardinality(G) <= m \/ n - Cardinality(G) <= m
    BY <1>1, <1>7 DEF LessOf
  <2> QED
    BY <2>1 DEF Extreme, AtMost, AllBut
<1>9. Cardinality(X) = tail + tail - Cardinality(L \cap H)
  BY <1>4, <1>5, <1>8, FS_Union
<1>10. CASE b # c
  <2>1. L \cap H = {}
    BY <1>1, <1>7, <1>10 DEF AtMost, AllBut
  <2>2. Cardinality(L \cap H) = 0
    BY <2>1, FS_EmptySet
  <2>3. Cardinality(X) <= 2^n
    BY <1>3, <1>6, FS_Subset
  <2> HIDE DEF tail, X
  <2>4. Cardinality(X) = 2 * tail
    BY <1>4, <1>9, <2>2
  <2>5. ~(2 * tail > 2^n)
    BY <1>4, <1>6, <2>3, <2>4
  <2>6. McNemarExact(b, c) = 2 * tail
    BY <1>2, <2>5
  <2> QED
    BY <1>1, <2>4, <2>6 DEF X, n
<1>11. CASE b = c
  <2>1. X = ChoicesOf(n)
    <3>1. \A G \in ChoicesOf(n) : Cardinality(G) <= m \/ n - Cardinality(G) <= m
      BY <1>1, <1>7, <1>11
    <3>2. ChoicesOf(n) \subseteq L \cup H
      BY <3>1 DEF AtMost, AllBut
    <3> QED
      BY <1>3, <1>8, <3>2
  <2>2. Cardinality(X) = 2^n
    BY <1>6, <2>1
  <2>3. Cardinality(L \cap H) \in Nat
    BY <1>4, FS_Intersection, FS_CardinalityType
  <2> HIDE DEF tail, X
  <2>4. 2 * tail >= 2^n
    BY <1>4, <1>6, <1>9, <2>2, <2>3
  <2>5. McNemarExact(b, c) = 2^n
    BY <1>2, <1>4, <1>6, <2>4
  <2> QED
    BY <1>1, <2>2, <2>5 DEF X, n
<1> QED
  BY <1>10, <1>11

(* McNemar's closed form is the count of a sign-flip test, whatever the     *)
(* numbers of discordant pairs.                                             *)
THEOREM ExactTestsAgree ==
  ASSUME NEW b \in Nat, NEW c \in Nat
  PROVE  McNemarExact(b, c) = SignFlip(Diffs(b, c))
BY McNemarCounts, SignFlipCounts

LEMMA DiscordantIs ==
  ASSUME OnFile, NEW A \in SUBSET All, NEW B \in SUBSET All, NEW who
  PROVE  Discordant(BuildPairs(A, B), who) \in Nat
<1> DEFINE f == [i \in A |-> Match(i)]
           K == {Match(i) : i \in A}
           pairs == BuildPairs(A, B)
<1>1. IsFiniteSet(K)
  <2>1. IsFiniteSet(A)
    BY AllIsFinite
  <2>2. IsFiniteSet({f[i] : i \in A})
    <3> HIDE DEF f
    <3> QED
      BY <2>1, ImageIsFinite
  <2>3. {f[i] : i \in A} = K
    OBVIOUS
  <2> QED
    BY <2>2, <2>3
<1>2. DOMAIN pairs \subseteq K
  BY DEF BuildPairs
<1> HIDE DEF K, pairs
<1>3. {k \in DOMAIN pairs : pairs[k] = who} \in SUBSET K
  BY <1>2
<1>4. IsFiniteSet({k \in DOMAIN pairs : pairs[k] = who})
  BY <1>1, <1>3, FS_Subset
<1> QED
  BY <1>4, FS_CardinalityType DEF Discordant, pairs

(* McNemar's exact test, a closed form over the discordant pairs, counts    *)
(* the sign patterns that the sign-flip test of stats.py enumerates when    *)
(* every discordant pair is a difference of one: for any two numbers of     *)
(* discordant pairs, not the ones of a corpus of TLC.                       *)
THEOREM McNemarHolds ==
  ASSUME OnFile
  PROVE  McNemarIsASignFlip
<1>1. \A pairs \in HeadToHead \cup EffortRungs \cup HarnessPairs :
        \E A, B \in SUBSET All : pairs = BuildPairs(A, B)
  <2>1. Measured \in SUBSET All
    BY MeasuredIn
  <2>2. \A pairs \in HeadToHead : \E A, B \in SUBSET All : pairs = BuildPairs(A, B)
    BY <2>1 DEF HeadToHead, At, Of, Bare
  <2>3. ASSUME NEW pairs \in EffortRungs PROVE \E A, B \in SUBSET All : pairs = BuildPairs(A, B)
    <3>1. \E m, lo, hi : pairs = BuildPairs(At(Of(Bare(Measured), m), hi), At(Of(Bare(Measured), m), lo))
      BY DEF EffortRungs
    <3>2. \A m, e : At(Of(Bare(Measured), m), e) \in SUBSET All
      BY <2>1 DEF At, Of, Bare
    <3> HIDE DEF Measured
    <3> QED
      BY <3>1, <3>2
  <2>4. \A pairs \in HarnessPairs : \E A, B \in SUBSET All : pairs = BuildPairs(A, B)
    BY <2>1 DEF HarnessPairs, At, Of, Bare
  <2> QED
    BY <2>2, <2>3, <2>4
<1> SUFFICES ASSUME NEW pairs \in HeadToHead \cup EffortRungs \cup HarnessPairs,
                    NEW x \in 0..1, NEW y \in 0..1
             PROVE  LET b == x + Discordant(pairs, <<TRUE, FALSE>>)
                        c == y + Discordant(pairs, <<FALSE, TRUE>>)
                    IN McNemarExact(b, c) = SignFlip(Diffs(b, c))
  BY DEF McNemarIsASignFlip, Diffs
<1>2. PICK A \in SUBSET All, B \in SUBSET All : pairs = BuildPairs(A, B)
  BY <1>1
<1> DEFINE b == x + Discordant(pairs, <<TRUE, FALSE>>)
           c == y + Discordant(pairs, <<FALSE, TRUE>>)
<1>3. b \in Nat /\ c \in Nat
  BY <1>2, DiscordantIs
<1> QED
  BY <1>3, ExactTestsAgree

(* Conclusions drawn in two ways are one, whatever is on file: the verdicts *)
(* on a ladder of effort_verdict.py before and after ticket 42, the two     *)
(* exact tests of stats.py, and the three cuts of its cost test.            *)
THEOREM ConclusionsHold == ReadersSpec => []ConclusionsAgree
<1>1. OnFile => ConclusionsAgree
  BY CarvedOutHolds, McNemarHolds, OneCellHolds DEF ConclusionsAgree
<1> QED
  BY <1>1, ReadersTyped, PTL
=============================================================================
