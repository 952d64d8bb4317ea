----------------------------- MODULE JudgeProofs -----------------------------
(***************************************************************************)
(* The three promises of the judge, for any number of runs, attempts and   *)
(* invocations, wherever these are killed and whatever a sweep does beside *)
(* them.                                                                   *)
(***************************************************************************)
EXTENDS Judge, FiniteSetTheorems, WellFoundedInduction, TLAPS

(***************************************************************************)
(* The list comprehensions of the judge.                                   *)
(***************************************************************************)

(* Induction, for a set of numbers: a least number outside of it would have *)
(* a predecessor in it.                                                     *)
LEMMA Induction ==
  ASSUME NEW S, 0 \in S, \A n \in S \cap Nat : n + 1 \in S
  PROVE  Nat \subseteq S
<1> DEFINE T == {n \in Nat : n \notin S}
<1> SUFFICES ASSUME T # {}
             PROVE  FALSE
  OBVIOUS
<1>1. \E x \in T : \A y \in T : ~(<<y, x>> \in OpToRel(<, Nat))
  BY NatLessThanWellFounded, WFMin
<1>2. PICK x \in T : \A y \in T : ~(<<y, x>> \in OpToRel(<, Nat))
  BY <1>1
<1>3. x \in Nat /\ x # 0 /\ x - 1 \in Nat /\ (x - 1) + 1 = x
  OBVIOUS
<1>4. x - 1 \in T
  BY <1>3
<1>5. <<x - 1, x>> \in OpToRel(<, Nat)
  BY <1>3 DEF OpToRel
<1> QED
  BY <1>2, <1>4, <1>5

(* The loop of Picked: n elements into it, and all of it.                   *)
Turn(list, positions, f, n) ==
  IF n = 0 THEN <<>>
  ELSE IF n \in positions THEN Append(f[n - 1], list[n]) ELSE f[n - 1]

Loops(list, positions, n, f) ==
  /\ f = [m \in 0..n |-> f[m]]
  /\ \A m \in 0..n : f[m] = Turn(list, positions, f, m)

LEMMA LoopEnds ==
  ASSUME NEW list, NEW positions
  PROVE  \A n \in Nat : \E f : Loops(list, positions, n, f)
<1> DEFINE S == {n \in Nat : \E f : Loops(list, positions, n, f)}
<1>1. 0 \in S
  <2>1. Loops(list, positions, 0, [m \in 0..0 |-> <<>>])
    BY DEF Loops, Turn
  <2> QED
    BY <2>1
<1>2. ASSUME NEW n \in S \cap Nat PROVE n + 1 \in S
  <2>1. PICK f : Loops(list, positions, n, f)
    BY <1>2
  <2> DEFINE g == [m \in 0..(n + 1) |->
                     IF m = n + 1 THEN Turn(list, positions, f, m) ELSE f[m]]
  <2>2. \A m \in 0..n : g[m] = f[m]
    OBVIOUS
  <2>3. g[n + 1] = Turn(list, positions, f, n + 1)
    OBVIOUS
  <2>4. g = [m \in 0..(n + 1) |-> g[m]]
    OBVIOUS
  <2> HIDE DEF g
  <2>5. ASSUME NEW m \in 0..(n + 1)
        PROVE  g[m] = Turn(list, positions, g, m)
    <3>1. g[m] = Turn(list, positions, f, m)
      BY <2>1, <2>2, <2>3 DEF Loops
    <3>2. m # 0 => g[m - 1] = f[m - 1]
      BY <2>2
    <3> QED
      BY <3>1, <3>2 DEF Turn
  <2>6. Loops(list, positions, n + 1, g)
    BY <2>4, <2>5 DEF Loops
  <2> QED
    BY <2>6
<1>3. Nat \subseteq S
  BY <1>1, <1>2, Induction
<1> QED
  BY <1>3

LEMMA PickedIsTheLoop ==
  ASSUME NEW list, Len(list) \in Nat, NEW positions
  PROVE  \E f : Loops(list, positions, Len(list), f) /\ Picked(list, positions) = f[Len(list)]
<1> DEFINE N == Len(list)
           Eq(f) == f = [n \in 0..N |->
                           IF n = 0 THEN <<>>
                           ELSE IF n \in positions THEN Append(f[n - 1], list[n]) ELSE f[n - 1]]
           upto == CHOOSE f : Eq(f)
<1>1. PICK f : Loops(list, positions, N, f)
  BY LoopEnds
<1>2. f = [n \in 0..N |-> Turn(list, positions, f, n)]
  <2> DEFINE r == [n \in 0..N |-> Turn(list, positions, f, n)]
  <2>1. f = [n \in 0..N |-> f[n]] /\ \A n \in 0..N : f[n] = r[n]
    BY <1>1 DEF Loops
  <2>2. r = [n \in 0..N |-> r[n]]
    OBVIOUS
  <2> HIDE DEF r
  <2>3. [n \in 0..N |-> f[n]] = [n \in 0..N |-> r[n]]
    BY <2>1
  <2>4. f = r
    BY <2>1, <2>2, <2>3
  <2> QED
    BY <2>4 DEF r
<1>3. Eq(f)
  BY <1>2 DEF Turn
<1>4. Eq(upto)
  BY <1>3
<1>5. Picked(list, positions) = upto[N]
  BY DEF Picked
<1>6. upto = [n \in 0..N |-> Turn(list, positions, upto, n)]
  BY <1>4 DEF Turn
<1> HIDE DEF upto
<1>7. Loops(list, positions, N, upto)
  BY <1>6 DEF Loops
<1> QED
  BY <1>5, <1>7

(* p is what there is at the positions up to n of a list; and when these    *)
(* are of different elements, each is there once.                           *)
Picks(S, list, positions, n, p) ==
  /\ p \in Seq(S)
  /\ \A k \in DOMAIN p : \E i \in (1..n) \cap positions : p[k] = list[i]
  /\ \A i \in (1..n) \cap positions : \E k \in DOMAIN p : p[k] = list[i]

Once(p) == \A k, l \in DOMAIN p : p[k] = p[l] => k = l

Different(list, positions) ==
  \A i, j \in DOMAIN list \cap positions : list[i] = list[j] => i = j

LEMMA Appended ==
  ASSUME NEW S, NEW p \in Seq(S), NEW e \in S, NEW q, q = Append(p, e)
  PROVE  /\ q \in Seq(S) /\ Len(p) \in Nat /\ Len(q) = Len(p) + 1
         /\ DOMAIN p = 1..Len(p) /\ DOMAIN q = 1..(Len(p) + 1)
         /\ q[Len(p) + 1] = e /\ \A k \in 1..Len(p) : q[k] = p[k]
OBVIOUS

LEMMA OneTurn ==
  ASSUME NEW S, NEW list \in Seq(S), NEW positions, NEW n \in Nat, n < Len(list),
         NEW f, f[n + 1] = Turn(list, positions, f, n + 1),
         Picks(S, list, positions, n, f[n]),
         Different(list, positions) => Once(f[n])
  PROVE  /\ Picks(S, list, positions, n + 1, f[n + 1])
         /\ Different(list, positions) => Once(f[n + 1])
<1> DEFINE p == f[n]
           q == f[n + 1]
<1>1. n + 1 \in DOMAIN list /\ list[n + 1] \in S /\ n + 1 # 0 /\ (n + 1) - 1 = n
  OBVIOUS
<1>2. p \in Seq(S)
  BY DEF Picks
<1>3. CASE n + 1 \notin positions
  <2>1. q = p /\ (1..(n + 1)) \cap positions = (1..n) \cap positions
    BY <1>1, <1>3 DEF Turn
  <2> QED
    BY <2>1 DEF Picks
<1>4. CASE n + 1 \in positions
  <2>1. q = Append(p, list[n + 1])
    BY <1>1, <1>4 DEF Turn
  <2> DEFINE m == Len(p)
  <2>2. /\ m \in Nat /\ DOMAIN p = 1..m /\ DOMAIN q = 1..(m + 1)
        /\ q[m + 1] = list[n + 1] /\ \A k \in 1..m : q[k] = p[k]
        /\ q \in Seq(S)
    BY SMTT(30), <1>1, <1>2, <2>1, Appended
  <2> HIDE DEF p, q, m
  <2>3. (1..(n + 1)) \cap positions = ((1..n) \cap positions) \cup {n + 1}
    BY <1>4
  <2>4. ASSUME NEW k \in DOMAIN q PROVE \E i \in (1..(n + 1)) \cap positions : q[k] = list[i]
    <3>1. CASE k = m + 1
      BY <2>2, <2>3, <3>1
    <3>2. CASE k # m + 1
      <4>1. k \in DOMAIN p /\ q[k] = p[k]
        BY <2>2, <3>2
      <4>2. \E i \in (1..n) \cap positions : p[k] = list[i]
        BY <4>1 DEF Picks, p
      <4> QED
        BY <2>3, <4>1, <4>2
    <3> QED
      BY <3>1, <3>2
  <2>5. ASSUME NEW i \in (1..(n + 1)) \cap positions PROVE \E k \in DOMAIN q : q[k] = list[i]
    <3>1. CASE i = n + 1
      BY <2>2, <3>1
    <3>2. CASE i # n + 1
      <4>1. PICK k \in DOMAIN p : p[k] = list[i]
        BY <2>3, <3>2 DEF Picks, p
      <4> QED
        BY <2>2, <4>1
    <3> QED
      BY <3>1, <3>2
  <2>6. ASSUME Different(list, positions), NEW k \in DOMAIN p, q[m + 1] = p[k] PROVE FALSE
    <3>1. PICK i \in (1..n) \cap positions : p[k] = list[i]
      BY <2>6 DEF Picks, p
    <3>2. list[i] = list[n + 1] /\ i \in DOMAIN list /\ i # n + 1
      BY <1>1, <2>2, <2>6, <3>1
    <3> QED
      BY <1>1, <1>4, <2>6, <3>2 DEF Different
  <2>7. ASSUME Different(list, positions), NEW k \in DOMAIN q, NEW l \in DOMAIN q, q[k] = q[l]
        PROVE  k = l
    <3>1. Once(p)
      BY <2>7 DEF p
    <3>2. CASE k = m + 1 /\ l # m + 1
      BY <2>2, <2>6, <2>7, <3>2
    <3>3. CASE k # m + 1 /\ l = m + 1
      BY <2>2, <2>6, <2>7, <3>3
    <3>4. CASE k # m + 1 /\ l # m + 1
      BY <2>2, <2>7, <3>1, <3>4 DEF Once
    <3> QED
      BY <3>2, <3>3, <3>4
  <2>8. Different(list, positions) => Once(q)
    BY <2>7 DEF Once
  <2>9. Picks(S, list, positions, n + 1, q)
    BY <2>2, <2>4, <2>5 DEF Picks
  <2> QED
    BY <2>8, <2>9 DEF q
<1> QED
  BY <1>3, <1>4

(* What Picked returns.                                                     *)
LEMMA PickedFacts ==
  ASSUME NEW S, NEW list \in Seq(S), NEW positions
  PROVE  /\ Picks(S, list, positions, Len(list), Picked(list, positions))
         /\ Different(list, positions) => Once(Picked(list, positions))
<1> DEFINE N == Len(list)
<1>1. N \in Nat
  OBVIOUS
<1>2. PICK f : Loops(list, positions, N, f) /\ Picked(list, positions) = f[N]
  BY <1>1, PickedIsTheLoop
<1> DEFINE T == {n \in Nat : n <= N => /\ Picks(S, list, positions, n, f[n])
                                       /\ Different(list, positions) => Once(f[n])}
<1>3. 0 \in T
  <2>1. f[0] = <<>>
    BY <1>1, <1>2 DEF Loops, Turn
  <2>2. Picks(S, list, positions, 0, <<>>) /\ Once(<<>>)
    BY DEF Picks, Once
  <2> QED
    BY <2>1, <2>2
<1>4. ASSUME NEW n \in T \cap Nat PROVE n + 1 \in T
  <2> SUFFICES ASSUME n + 1 <= N
               PROVE  /\ Picks(S, list, positions, n + 1, f[n + 1])
                      /\ Different(list, positions) => Once(f[n + 1])
    OBVIOUS
  <2>1. n < N /\ n <= N /\ n + 1 \in 0..N
    BY <1>1
  <2>2. f[n + 1] = Turn(list, positions, f, n + 1)
    BY <1>2, <2>1 DEF Loops
  <2>3. Picks(S, list, positions, n, f[n]) /\ (Different(list, positions) => Once(f[n]))
    BY <1>4, <2>1
  <2> QED
    BY <2>1, <2>2, <2>3, OneTurn
<1>5. Nat \subseteq T
  BY <1>3, <1>4, Induction
<1> QED
  BY <1>1, <1>2, <1>5

-----------------------------------------------------------------------------
(***************************************************************************)
(* The invariants.                                                         *)
(***************************************************************************)

Scores(i) == InDenominator(results[i].why)

(* An attempt is made of what has no scored row, one at a time.  So there   *)
(* is one scored row of a run at most, and the scratch directory is of that *)
(* very attempt, if it is still there.                                      *)
SweepInv ==
  /\ running # 0 => /\ scratch[attempts[running]] = running
                    /\ \A i \in DOMAIN results : results[i].id = attempts[running] => ~Scores(i)
  /\ \A i, j \in DOMAIN results :
       Scores(i) /\ Scores(j) /\ results[i].id = results[j].id => i = j
  /\ \A i \in DOMAIN results : Scores(i) => scratch[results[i].id] \in {0, results[i].attempt}

PassedAs(id, k) ==
  \E i \in DOMAIN results :
    results[i].id = id /\ results[i].attempt = k /\ results[i].why = {"ok"} /\ results[i].pass

HasPassed(id) == \E i \in DOMAIN results : results[i].id = id /\ Passing(results[i])

HasJudgment(id) == \E l \in DOMAIN judgments.lines :
                     judgments.lines[l] # Garbled /\ judgments.lines[l].id = id

Listed(id) == \E k \in DOMAIN todo : todo[k] = id

(* The list of --from-results: each run once, passed, and not judged yet.   *)
TodoInv ==
  mode = "results" =>
    /\ Once(todo)
    /\ \A k \in DOMAIN todo : HasPassed(todo[k]) /\ ~HasJudgment(todo[k])

Busy == {"call claude", "call codex", "meter claude", "meter codex", "append"}

(* The diff in hand is of the attempt that passed.                          *)
SeenInv == mode = "results" /\ pc \in Busy => PassedAs(Head(todo), seen)

(* An invocation that has not come to its end has not died.                 *)
DiedInv == pc \notin Ended => died < invoked

(* Without a cut append every line is a judgment.                           *)
FileInv ==
  /\ judgments.open => judgments.lines # <<>>
  /\ judgments.torn = 0 => /\ ~judgments.open
                           /\ \A l \in DOMAIN judgments.lines : judgments.lines[l] # Garbled

(* What was found is still to do, or judged, as long as none was skipped.   *)
FoundInv ==
  /\ pc \in Ended \cup {"choose"} => todo = <<>>
  /\ pc = "exit 0" => ~missed
  /\ mode = "results" /\ ~missed /\ judgments.torn = 0 /\ pc \notin {"idle", "exit 1", "choose"}
       => \A id \in found : Listed(id) \/ HasJudgment(id)

(* An answer is held from its call to the end of its run.                   *)
RawInv ==
  /\ pc \notin Busy \/ pc = "call claude" => \A h \in Heads : raw[h] = Silent
  /\ pc = "call codex" => raw["codex"] = Silent

-----------------------------------------------------------------------------
(***************************************************************************)
(* Rows, lists and files.                                                  *)
(***************************************************************************)

LEMMA PassingScores ==
  ASSUME NEW row, Passing(row)
  PROVE  InDenominator(row.why)
<1> DEFINE m == CHOOSE r \in {"ok"} : \A s \in {"ok"} : Severity[ClassOf(r)] <= Severity[ClassOf(s)]
<1>1. ClassOf("ok") = "scored"
  BY DEF ClassOf, EXIT_REASON_CLASS, KnownReasons, Scored, Infra, Mock
<1>2. Severity["scored"] = 6
  BY DEF Severity
<1>3. m = "ok"
  <2>1. \E r \in {"ok"} : \A s \in {"ok"} : Severity[ClassOf(r)] <= Severity[ClassOf(s)]
    BY <1>1, <1>2
  <2> QED
    BY <2>1
<1>4. StatusClass({"ok"}) = ClassOf(m)
  BY DEF StatusClass
<1> QED
  BY <1>1, <1>3, <1>4 DEF InDenominator, Passing

LEMMA HeadAndTail ==
  ASSUME NEW S, NEW s \in Seq(S), s # <<>>
  PROVE  /\ Head(s) = s[1] /\ Head(s) \in S /\ 1 \in DOMAIN s
         /\ Tail(s) \in Seq(S)
         /\ \A k \in DOMAIN Tail(s) : k + 1 \in DOMAIN s /\ k + 1 # 1 /\ Tail(s)[k] = s[k + 1]
         /\ \A k \in DOMAIN s : k # 1 => k - 1 \in DOMAIN Tail(s) /\ s[k] = Tail(s)[k - 1]
OBVIOUS

LEMMA WrittenTyped ==
  ASSUME NEW L, Garbled \in L, NEW row \in L, NEW cut \in Cuts,
         NEW file \in Files(L), file.open => file.lines # <<>>,
         NEW new, new = Written(file, row, cut)
  PROVE  new \in Files(L) /\ new.lines # <<>>
<1>1. /\ file.lines \in Seq(L) /\ file.open \in BOOLEAN
      /\ file.appended \in Nat /\ file.torn \in Nat
  BY DEF Files
<1> DEFINE lines == IF file.open
                    THEN [file.lines EXCEPT ![Len(file.lines)] = Garbled]
                    ELSE Append(file.lines, IF cut = "prefix" THEN Garbled ELSE row)
<1>2. lines \in Seq(L) /\ lines # <<>>
  <2>1. CASE file.open
    BY <1>1, <2>1
  <2>2. CASE ~file.open
    BY <1>1, <2>2
  <2> QED
    BY <2>1, <2>2
<1>3. new = [lines |-> lines, open |-> cut # "whole", appended |-> file.appended + 1,
             torn |-> IF cut = "whole" THEN file.torn ELSE file.torn + 1]
  BY DEF Written
<1> HIDE DEF lines
<1> QED
  BY <1>1, <1>2, <1>3 DEF Files

(* What an append does to the lines, whole or cut.                          *)
Appends(file, row, new) ==
  /\ \A l \in DOMAIN new.lines : new.lines[l] # Garbled =>
       \/ l \in DOMAIN file.lines /\ new.lines[l] = file.lines[l]
       \/ l = Len(file.lines) + 1 /\ l \notin DOMAIN file.lines /\ new.lines[l] = row
  /\ new.torn = 0 =>
       /\ file.torn = 0 /\ ~new.open
       /\ \A l \in DOMAIN file.lines : l \in DOMAIN new.lines /\ new.lines[l] = file.lines[l]
       /\ \A l \in DOMAIN new.lines :
            l \in DOMAIN file.lines \/ (l = Len(file.lines) + 1 /\ new.lines[l] = row)
       /\ Len(file.lines) + 1 \in DOMAIN new.lines
       /\ new.lines[Len(file.lines) + 1] = row

LEMMA WrittenLines ==
  ASSUME NEW L, NEW row, row # Garbled, NEW cut \in Cuts,
         NEW file \in Files(L), file.open => file.lines # <<>>,
         file.torn = 0 => ~file.open,
         NEW new, new = Written(file, row, cut)
  PROVE  Appends(file, row, new)
<1>1. /\ file.lines \in Seq(L) /\ file.open \in BOOLEAN
      /\ file.appended \in Nat /\ file.torn \in Nat
  BY DEF Files
<1> DEFINE n == Len(file.lines)
<1>2. /\ new.lines = IF file.open THEN [file.lines EXCEPT ![n] = Garbled]
                     ELSE Append(file.lines, IF cut = "prefix" THEN Garbled ELSE row)
      /\ new.open = (cut # "whole")
      /\ new.torn = IF cut = "whole" THEN file.torn ELSE file.torn + 1
  BY DEF Written
<1>3. n \in Nat /\ DOMAIN file.lines = 1..n
  BY <1>1
<1>4. CASE file.open
  <2>1. new.lines = [file.lines EXCEPT ![n] = Garbled] /\ n \in DOMAIN file.lines
    BY <1>1, <1>2, <1>3, <1>4
  <2>2. \A l \in DOMAIN new.lines : new.lines[l] # Garbled =>
          l \in DOMAIN file.lines /\ new.lines[l] = file.lines[l]
    BY <1>3, <2>1
  <2>3. new.torn # 0
    BY <1>1, <1>2, <1>4
  <2> QED
    BY <2>2, <2>3 DEF Appends
<1>5. CASE ~file.open
  <2> DEFINE line == IF cut = "prefix" THEN Garbled ELSE row
  <2>1. new.lines = Append(file.lines, line)
    BY <1>2, <1>5
  <2>2. /\ DOMAIN new.lines = 1..(n + 1) /\ new.lines[n + 1] = line
        /\ \A l \in 1..n : new.lines[l] = file.lines[l]
    BY <1>1, <1>3, <2>1
  <2>3. new.torn = 0 => file.torn = 0 /\ ~new.open /\ line = row
    BY <1>1, <1>2
  <2>4. line # Garbled => line = row
    OBVIOUS
  <2> HIDE DEF line, n
  <2> QED
    BY <1>3, <2>2, <2>3, <2>4 DEF n, Appends
<1> QED
  BY <1>1, <1>4, <1>5

-----------------------------------------------------------------------------
(***************************************************************************)
(* Types.                                                                  *)
(***************************************************************************)

RowType == [id : Runs, why : SUBSET KnownReasons, pass : BOOLEAN, attempt : Nat]
AnswerType == [scores : BOOLEAN, usage : BOOLEAN]

(* TypeOK by what an action touches.                                        *)
SweepTypes ==
  /\ results \in Seq(RowType) /\ attempts \in Seq(Runs)
  /\ scratch \in [Runs -> 0..Len(attempts)] /\ running \in 0..Len(attempts)

FileTypes == judgments \in Files(JudgmentType) /\ usage \in Seq(UsageType)

ListTypes ==
  /\ pc \in Ended \cup {"choose", "look"} \cup Busy
  /\ todo \in Seq(Runs) /\ (pc \in Busy => todo # <<>>)

MemoryTypes ==
  /\ found \subseteq Runs /\ mode \in {"results", "single"}
  /\ seen \in 0..Len(attempts) /\ missed \in BOOLEAN /\ raw \in [Heads -> AnswerType]

HistoryTypes ==
  /\ called \in [Runs \X Heads -> Nat] /\ mute \in [Runs \X Heads -> Nat]
  /\ invoked \in Nat /\ died \in 0..invoked

Types == SweepTypes /\ FileTypes /\ ListTypes /\ MemoryTypes /\ HistoryTypes

(* What was paid, could be read, and is neither in the ledger nor in hand.  *)
Unledgered(id, head) ==
  called[<<id, head>>] - mute[<<id, head>>] - Ledgered(id, head) - InHand(id, head)

LagInv == \A id \in Runs, h \in Heads : Unledgered(id, h) \in 0..died

JudgeInv ==
  /\ Types /\ DiedInv /\ SweepInv
  /\ FileInv /\ TodoInv /\ SeenInv /\ FoundInv /\ RawInv
  /\ JudgesTheAttemptThatPassed /\ JudgedOnce /\ LagInv

LEMMA TypesAre == Types <=> TypeOK
BY DEF Types, SweepTypes, FileTypes, ListTypes, MemoryTypes, HistoryTypes, RowType, AnswerType,
       Busy, Ended, TypeOK

PassingIds == [i \in DOMAIN results |-> results[i].id]

LEMMA PassingTyped ==
  ASSUME SweepTypes
  PROVE  /\ PassingIds \in Seq(Runs) /\ DOMAIN PassingIds = DOMAIN results
         /\ Len(PassingIds) = Len(results) /\ DOMAIN results = 1..Len(results)
         /\ Len(results) \in Nat
         /\ PassingRunIds \in Seq(Runs)
<1>1. results \in Seq(RowType)
  BY DEF SweepTypes
<1>2. /\ DOMAIN results = 1..Len(results) /\ Len(results) \in Nat
      /\ \A i \in DOMAIN results : results[i].id \in Runs
  <2>1. DOMAIN results = 1..Len(results) /\ Len(results) \in Nat
    BY <1>1
  <2>2. \A i \in DOMAIN results : results[i] \in RowType
    BY <1>1
  <2>3. \A row \in RowType : row.id \in Runs
    BY DEF RowType
  <2> QED
    BY <2>1, <2>2, <2>3
<1>3. PassingIds \in [1..Len(results) -> Runs]
  BY <1>2 DEF PassingIds
<1>4. /\ PassingIds \in Seq(Runs) /\ DOMAIN PassingIds = DOMAIN results
      /\ Len(PassingIds) = Len(results)
  BY <1>2, <1>3
<1>5. PassingRunIds \in Seq(Runs)
  BY <1>4, PickedFacts DEF PassingRunIds, PassingIds, Picks
<1> QED
  BY <1>2, <1>4, <1>5

(* What the list is made of.                                                *)
Unjudged == {i \in DOMAIN PassingRunIds : PassingRunIds[i] \notin AlreadyJudged}

LEMMA ChosenTyped ==
  ASSUME SweepTypes, Choose
  PROVE  todo' \in Seq(Runs) /\ found' \subseteq Runs
<1>1. todo' = Picked(PassingRunIds, Unjudged)
  BY DEF Choose, Unjudged
<1>2. todo' \in Seq(Runs)
  BY <1>1, PassingTyped, PickedFacts DEF Picks
<1>3. found' = {PassingRunIds[k] : k \in DOMAIN PassingRunIds}
  BY DEF Choose, ToSet
<1> QED
  BY <1>2, <1>3, PassingTyped

LEMMA CallTyped ==
  ASSUME Types, NEW h \in Heads, NEW then \in Busy, Call(h, then), todo # <<>>
  PROVE  Types'
<1>1. PICK answer \in Answers :
        /\ raw' = [raw EXCEPT ![h] = answer]
        /\ called' = [called EXCEPT ![<<Head(todo), h>>] = @ + 1]
        /\ mute' = IF answer.usage THEN mute
                   ELSE [mute EXCEPT ![<<Head(todo), h>>] = @ + 1]
  BY DEF Call
<1>2. answer \in AnswerType
  BY JudgeAssumption DEF AnswerType
<1>3. Head(todo) \in Runs
  BY HeadAndTail DEF Types, ListTypes
<1>4. raw' \in [Heads -> AnswerType]
  BY <1>1, <1>2 DEF Types, MemoryTypes
<1>5. called' \in [Runs \X Heads -> Nat] /\ mute' \in [Runs \X Heads -> Nat]
  <2>1. /\ <<Head(todo), h>> \in Runs \X Heads /\ called \in [Runs \X Heads -> Nat]
        /\ mute \in [Runs \X Heads -> Nat]
    BY <1>3 DEF Types, HistoryTypes
  <2> QED
    BY <1>1, <2>1
<1>6. pc' \in Busy /\ UNCHANGED <<sweep, files, mode, todo, seen, missed, found, invoked, died>>
  BY DEF Call
<1>7. SweepTypes' /\ FileTypes'
  BY <1>6 DEF Types, SweepTypes, FileTypes, sweep, files
<1>8. ListTypes' /\ MemoryTypes' /\ HistoryTypes'
  BY <1>4, <1>5, <1>6 DEF Types, ListTypes, MemoryTypes, HistoryTypes, sweep
<1> QED
  BY <1>7, <1>8 DEF Types

LEMMA MeterTyped ==
  ASSUME Types, NEW h \in Heads, NEW then \in Busy, Meter(h, then), todo # <<>>
  PROVE  Types'
<1>1. Head(todo) \in Runs
  BY HeadAndTail DEF Types, ListTypes
<1>2. usage' \in Seq(UsageType)
  <2>1. usage \in Seq(UsageType) /\ [id |-> Head(todo), head |-> h] \in UsageType
    BY <1>1 DEF Types, FileTypes, UsageType
  <2>2. CASE raw[h].usage
    <3>1. usage' = Append(usage, [id |-> Head(todo), head |-> h])
      BY <2>2 DEF Meter
    <3> QED
      BY <2>1, <3>1, Appended
  <2>3. CASE ~raw[h].usage
    BY <2>1, <2>3 DEF Meter
  <2> QED
    BY <2>2, <2>3
<1>3. pc' \in Busy /\ UNCHANGED <<sweep, judgments, memory, history>>
  BY DEF Meter
<1>4. SweepTypes' /\ FileTypes'
  BY <1>2, <1>3 DEF Types, SweepTypes, FileTypes, sweep
<1>5. ListTypes' /\ MemoryTypes' /\ HistoryTypes'
  BY <1>3 DEF Types, ListTypes, MemoryTypes, HistoryTypes, sweep, memory, history
<1> QED
  BY <1>4, <1>5 DEF Types

LEMMA JudgmentTyped ==
  ASSUME Types, todo # <<>>
  PROVE  Judgment \in JudgmentType /\ Judgment # Garbled /\ Judgment.id = Head(todo)
<1>1. Head(todo) \in Runs
  BY HeadAndTail DEF Types, ListTypes
<1>2. raw \in [Heads -> AnswerType] /\ seen \in Nat /\ mode \in {"results", "single"}
  BY DEF Types, MemoryTypes
<1>3. [h \in Heads |-> raw[h].scores] \in [Heads -> BOOLEAN]
  BY <1>2 DEF AnswerType
<1>4. {h \in Heads : raw[h].usage} \in SUBSET Heads
  OBVIOUS
<1>5. Judgment \in JudgmentType
  BY <1>1, <1>2, <1>3, <1>4 DEF Judgment, JudgmentType
<1>6. Judgment # Garbled
  BY <1>1, JudgeAssumption DEF Judgment
<1> QED
  BY <1>5, <1>6 DEF Judgment

LEMMA TypeInit == Init => Types
<1> SUFFICES ASSUME Init
             PROVE  Types
  OBVIOUS
<1>1. FileTypes
  BY DEF Empty, Files, Init, FileTypes
<1>2. MemoryTypes
  <2>1. Silent \in AnswerType
    BY DEF Silent, AnswerType
  <2>2. [h \in Heads |-> Silent] \in [Heads -> AnswerType]
    BY <2>1
  <2>3. Len(attempts) = 0 /\ seen = 0
    BY DEF Init
  <2>4. seen \in 0..Len(attempts)
    BY <2>3
  <2>5. found = {} /\ mode = "results" /\ missed = FALSE /\ raw = [h \in Heads |-> Silent]
    BY DEF Init
  <2> QED
    BY <2>2, <2>4, <2>5 DEF MemoryTypes
<1>3. SweepTypes
  BY DEF Init, SweepTypes
<1>4. ListTypes /\ HistoryTypes
  BY DEF Init, ListTypes, HistoryTypes, Ended, Busy
<1> QED
  BY <1>1, <1>2, <1>3, <1>4 DEF Types

(* Only the sweep grows the list of attempts.                               *)
LEMMA SweepTyped ==
  ASSUME Types, Sweep
  PROVE  Types'
<1> DEFINE n == Len(attempts)
<1>1. /\ results \in Seq(RowType) /\ attempts \in Seq(Runs) /\ n \in Nat /\ DOMAIN attempts = 1..n
      /\ scratch \in [Runs -> 0..n] /\ running \in 0..n /\ seen \in 0..n
  BY DEF Types, SweepTypes, MemoryTypes
<1>2. /\ FileTypes' /\ ListTypes' /\ HistoryTypes'
      /\ UNCHANGED <<found, mode, seen, missed, raw>>
  BY DEF Sweep, Attempt, Cleaned, Recorded, Types, FileTypes, ListTypes, HistoryTypes, files,
         memory, history
<1>3. ASSUME NEW id \in Runs, Attempt(id) PROVE SweepTypes' /\ seen' \in 0..Len(attempts')
  <2>1. attempts' = Append(attempts, id)
    BY <1>3 DEF Attempt
  <2>2. attempts' \in Seq(Runs) /\ Len(attempts') = n + 1
    BY <1>1, <2>1, Appended
  <2>3. 0..n \subseteq 0..(n + 1) /\ n + 1 \in 0..(n + 1)
    BY <1>1
  <2>4. /\ scratch' = [scratch EXCEPT ![id] = n + 1] /\ running' = n + 1
        /\ results' = results /\ seen' = seen
    BY <1>2, <1>3, <2>2 DEF Attempt
  <2>5. scratch' \in [Runs -> 0..(n + 1)]
    BY <1>1, <2>3, <2>4
  <2> QED
    BY <1>1, <2>2, <2>3, <2>4, <2>5 DEF SweepTypes
<1>4. ASSUME NEW id \in Runs, Cleaned(id) PROVE SweepTypes' /\ seen' \in 0..Len(attempts')
  <2>1. /\ scratch' = [scratch EXCEPT ![id] = 0] /\ seen' = seen
        /\ UNCHANGED <<results, running, attempts>>
    BY <1>2, <1>4 DEF Cleaned
  <2>2. scratch' \in [Runs -> 0..n]
    BY <1>1, <2>1
  <2> QED
    BY <1>1, <2>1, <2>2 DEF SweepTypes
<1>5. ASSUME Recorded PROVE SweepTypes' /\ seen' \in 0..Len(attempts')
  <2>1. PICK o \in Outcomes :
          results' = Append(results, [id |-> attempts[running], why |-> o.why, pass |-> o.pass,
                                      attempt |-> running])
    BY <1>5 DEF Recorded
  <2> DEFINE row == [id |-> attempts[running], why |-> o.why, pass |-> o.pass,
                     attempt |-> running]
  <2>2. running \in 1..n
    BY <1>1, <1>5 DEF Recorded
  <2>3. attempts[running] \in Runs /\ running \in Nat
    BY <1>1, <2>2
  <2>4. row \in RowType
    BY <2>3, JudgeAssumption DEF RowType
  <2>5. results' \in Seq(RowType)
    BY <1>1, <2>1, <2>4, Appended
  <2>6. running' = 0 /\ seen' = seen /\ UNCHANGED <<scratch, attempts>>
    BY <1>2, <1>5 DEF Recorded
  <2> QED
    BY <1>1, <2>5, <2>6 DEF SweepTypes
<1>6. SweepTypes' /\ seen' \in 0..Len(attempts')
  BY <1>3, <1>4, <1>5 DEF Sweep
<1>7. MemoryTypes'
  BY <1>2, <1>6 DEF Types, MemoryTypes
<1> QED
  BY <1>2, <1>6, <1>7 DEF Types

LEMMA TypeStep ==
  ASSUME Types, DiedInv, judgments.open => judgments.lines # <<>>, [Next]_vars
  PROVE  Types'
<1>1. Sweep => Types'
  BY SweepTyped
<1>2. CASE Invoke
  <2>1. SweepTypes' /\ FileTypes' /\ MemoryTypes'
    BY <1>2 DEF Invoke, Types, SweepTypes, FileTypes, MemoryTypes, sweep, files
  <2>2. ListTypes'
    <3>1. CASE mode' = "results" /\ pc' = "choose" /\ todo' = <<>>
      BY <3>1 DEF ListTypes, Busy
    <3>2. ASSUME NEW id \in Single, mode' = "single" /\ pc' = "look" /\ todo' = <<id>>
          PROVE  ListTypes'
      <4>1. todo' \in Seq(Runs)
        BY <3>2, JudgeAssumption
      <4> QED
        BY <3>2, <4>1 DEF ListTypes, Busy
    <3> QED
      BY <1>2, <3>1, <3>2 DEF Invoke
  <2>3. HistoryTypes'
    BY <1>2 DEF Invoke, Types, HistoryTypes
  <2> QED
    BY <2>1, <2>2, <2>3 DEF Types
<1>3. CASE Choose
  <2>1. todo' \in Seq(Runs) /\ found' \subseteq Runs
    BY <1>3, ChosenTyped DEF Types
  <2>2. pc' = "look" /\ UNCHANGED <<sweep, files, mode, seen, missed, raw, called, mute, invoked, died>>
    BY <1>3 DEF Choose
  <2>3. SweepTypes' /\ FileTypes' /\ HistoryTypes'
    BY <2>2 DEF Types, SweepTypes, FileTypes, HistoryTypes, sweep, files
  <2>4. ListTypes' /\ MemoryTypes'
    BY <2>1, <2>2 DEF Types, ListTypes, MemoryTypes, sweep, Busy
  <2> QED
    BY <2>3, <2>4 DEF Types
<1>4. CASE Skip
  <2>1. todo' \in Seq(Runs)
    BY <1>4, HeadAndTail DEF Skip, Types, ListTypes
  <2>2. pc' = "look" /\ missed' = TRUE /\ UNCHANGED <<sweep, files, mode, seen, raw, history>>
    BY <1>4 DEF Skip
  <2>3. SweepTypes' /\ FileTypes' /\ HistoryTypes'
    BY <2>2 DEF Types, SweepTypes, FileTypes, HistoryTypes, sweep, files, history
  <2>4. ListTypes' /\ MemoryTypes'
    BY <2>1, <2>2 DEF Types, ListTypes, MemoryTypes, sweep, Busy, history
  <2> QED
    BY <2>3, <2>4 DEF Types
<1>5. CASE Look
  <2>1. Head(todo) \in Runs /\ todo # <<>>
    BY <1>5, HeadAndTail DEF Look, Types, ListTypes
  <2>2. seen' \in 0..Len(attempts)
    BY <1>5, <2>1 DEF Look, Types, SweepTypes
  <2>3. pc' = "call claude" /\ UNCHANGED <<sweep, files, mode, todo, missed, raw, history>>
    BY <1>5 DEF Look
  <2>4. SweepTypes' /\ FileTypes' /\ HistoryTypes'
    BY <2>3 DEF Types, SweepTypes, FileTypes, HistoryTypes, sweep, files, history
  <2>5. ListTypes' /\ MemoryTypes'
    BY <2>1, <2>2, <2>3 DEF Types, ListTypes, MemoryTypes, sweep, Busy, history
  <2> QED
    BY <2>4, <2>5 DEF Types
<1>6. CallClaude \/ CallCodex => Types'
  BY CallTyped DEF CallClaude, CallCodex, Heads, Busy, Types, ListTypes
<1>7. MeterClaude \/ MeterCodex => Types'
  BY MeterTyped DEF MeterClaude, MeterCodex, Heads, Busy, Types, ListTypes
<1>8. CASE AppendJudgment
  <2>1. todo # <<>>
    BY <1>8 DEF AppendJudgment, Types, ListTypes, Busy
  <2>2. PICK cut \in Cuts : judgments' = Written(judgments, Judgment, cut)
    BY <1>8 DEF AppendJudgment
  <2>3. judgments' \in Files(JudgmentType)
    BY <2>1, <2>2, JudgmentTyped, WrittenTyped DEF Types, FileTypes, JudgmentType
  <2>4. todo' \in Seq(Runs)
    BY <1>8, <2>1, HeadAndTail DEF AppendJudgment, Types, ListTypes
  <2>5. /\ pc' = "look" /\ raw' = [h \in Heads |-> Silent] /\ seen' = 0
        /\ UNCHANGED <<sweep, usage, mode, missed, history>>
    BY <1>8 DEF AppendJudgment
  <2>6. raw' \in [Heads -> AnswerType]
    BY <2>5 DEF Silent, AnswerType
  <2>7. SweepTypes' /\ FileTypes' /\ HistoryTypes'
    BY <2>3, <2>5 DEF Types, SweepTypes, FileTypes, HistoryTypes, sweep, history
  <2>8. ListTypes'
    BY <2>4, <2>5 DEF ListTypes, Busy
  <2>9. MemoryTypes'
    BY <2>5, <2>6 DEF Types, MemoryTypes, SweepTypes, sweep, history
  <2> QED
    BY <2>7, <2>8, <2>9 DEF Types
<1>9. CASE Exit
  <2>1. pc' \in Ended /\ UNCHANGED <<sweep, files, memory, history>>
    BY <1>9 DEF Exit, Ended
  <2>2. SweepTypes' /\ FileTypes' /\ HistoryTypes'
    BY <2>1 DEF Types, SweepTypes, FileTypes, HistoryTypes, sweep, files, history
  <2>3. ListTypes' /\ MemoryTypes'
    BY <2>1 DEF Types, ListTypes, MemoryTypes, sweep, memory, history, Busy, Ended
  <2> QED
    BY <2>2, <2>3 DEF Types
<1>10. CASE Die
  <2>1. /\ pc' = "idle" /\ todo' = <<>> /\ seen' = 0 /\ raw' = [h \in Heads |-> Silent]
        /\ UNCHANGED <<sweep, files, mode, missed, found, called, mute, invoked>>
        /\ died' = died + 1 /\ pc \notin Ended
    BY <1>10 DEF Die
  <2>2. HistoryTypes'
    BY <2>1 DEF Types, HistoryTypes, DiedInv
  <2>3. SweepTypes' /\ FileTypes'
    BY <2>1 DEF Types, SweepTypes, FileTypes, sweep, files
  <2>4. ListTypes'
    <3>1. <<>> \in Seq(Runs)
      OBVIOUS
    <3>2. "idle" \in Ended /\ "idle" \notin Busy
      BY DEF Ended, Busy
    <3> QED
      BY <2>1, <3>1, <3>2 DEF ListTypes
  <2>5. MemoryTypes'
    BY <2>1 DEF Types, MemoryTypes, SweepTypes, sweep, Silent, AnswerType
  <2> QED
    BY <2>2, <2>3, <2>4, <2>5 DEF Types
<1>11. CASE UNCHANGED vars
  <2>1. SweepTypes' /\ FileTypes' /\ HistoryTypes'
    BY <1>11 DEF vars, Types, SweepTypes, FileTypes, HistoryTypes, sweep, files, history
  <2>2. ListTypes' /\ MemoryTypes'
    BY <1>11 DEF vars, Types, ListTypes, MemoryTypes, sweep, memory, history
  <2> QED
    BY <2>1, <2>2 DEF Types
<1> QED
  BY <1>1, <1>2, <1>3, <1>4, <1>5, <1>6, <1>7, <1>8, <1>9, <1>10, <1>11 DEF Next, Step
-----------------------------------------------------------------------------
(***************************************************************************)
(* The steps.                                                              *)
(***************************************************************************)

(* Either the sweep moves, or somebody works on the judgments.              *)
LEMMA WhoMoves ==
  ASSUME [Next]_vars
  PROVE  \/ Sweep /\ UNCHANGED <<files, pc, memory, history>>
         \/ (Invoke \/ Step \/ Die \/ UNCHANGED vars) /\ UNCHANGED sweep
BY DEF Next, Step, Sweep, Attempt, Cleaned, Recorded, Invoke, Choose, Skip, Look, CallClaude, CallCodex,
       Call, MeterClaude, MeterCodex, Meter, AppendJudgment, Exit, Die, vars

LEMMA JudgmentsMove ==
  ASSUME [Next]_vars
  PROVE  AppendJudgment \/ UNCHANGED judgments
BY DEF Next, Step, Sweep, Attempt, Cleaned, Recorded, Invoke, Choose, Skip, Look, CallClaude, CallCodex,
       Call, MeterClaude, MeterCodex, Meter, Exit, Die, vars, files

(* No row leaves results.jsonl, so what passed stays passed.                *)
LEMMA ResultsGrow ==
  ASSUME SweepTypes, [Next]_vars
  PROVE  \A i \in DOMAIN results : i \in DOMAIN results' /\ results'[i] = results[i]
<1>1. ASSUME Recorded
      PROVE  \A i \in DOMAIN results : i \in DOMAIN results' /\ results'[i] = results[i]
  <2>1. PICK row : results' = Append(results, row)
    BY <1>1 DEF Recorded
  <2>2. results \in Seq(RowType)
    BY DEF SweepTypes
  <2> QED
    BY <2>1, <2>2
<1>2. Recorded \/ UNCHANGED results
  BY WhoMoves DEF Sweep, Attempt, Cleaned, sweep
<1> QED
  BY <1>1, <1>2

LEMMA PassedStays ==
  ASSUME SweepTypes, [Next]_vars, NEW id, NEW k
  PROVE  (HasPassed(id) => HasPassed(id)') /\ (PassedAs(id, k) => PassedAs(id, k)')
BY ResultsGrow DEF HasPassed, PassedAs, Passing

LEMMA SweepStep ==
  ASSUME SweepTypes, SweepInv, [Next]_vars
  PROVE  SweepInv'
<1> DEFINE n == Len(attempts)
<1>1. /\ results \in Seq(RowType) /\ attempts \in Seq(Runs) /\ n \in Nat /\ DOMAIN attempts = 1..n
      /\ scratch \in [Runs -> 0..n] /\ running \in 0..n
      /\ \A i \in DOMAIN results : results[i].id \in Runs
  <2>1. \A i \in DOMAIN results : results[i].id \in Runs
    BY PassingTyped DEF PassingIds
  <2> QED
    BY <2>1 DEF SweepTypes
<1>2. ASSUME NEW id \in Runs, Attempt(id) PROVE SweepInv'
  <2>1. attempts' = Append(attempts, id) /\ UNCHANGED results /\ running = 0
    BY <1>2 DEF Attempt
  <2>2. Len(attempts') = n + 1 /\ attempts'[n + 1] = id
    BY <1>1, <2>1, Appended
  <2>3. running' = n + 1 /\ scratch' = [scratch EXCEPT ![id] = n + 1]
    BY <1>2, <2>2 DEF Attempt
  <2>4. \A i \in DOMAIN results : results[i].id = id => ~Scores(i)
    BY <1>2 DEF Attempt, Scores
  <2>5. \A i \in DOMAIN results : Scores(i)' = Scores(i)
    BY <2>1 DEF Scores
  <2>6. scratch'[attempts'[running']] = running'
    BY <1>1, <2>2, <2>3
  <2>7. \A i \in DOMAIN results : Scores(i) => scratch'[results[i].id] = scratch[results[i].id]
    BY <1>1, <2>3, <2>4
  <2> QED
    BY <2>1, <2>2, <2>3, <2>4, <2>5, <2>6, <2>7 DEF SweepInv
<1>3. ASSUME NEW id \in Runs, Cleaned(id) PROVE SweepInv'
  <2>1. /\ scratch' = [scratch EXCEPT ![id] = 0] /\ scratch[id] # running
        /\ UNCHANGED <<results, running, attempts>>
    BY <1>3 DEF Cleaned
  <2>2. \A i \in DOMAIN results : Scores(i)' = Scores(i)
    BY <2>1 DEF Scores
  <2>3. running # 0 => scratch'[attempts[running]] = running
    BY <1>1, <2>1 DEF SweepInv
  <2>4. \A i \in DOMAIN results : Scores(i) => scratch'[results[i].id] \in {0, results[i].attempt}
    BY <1>1, <2>1 DEF SweepInv
  <2> QED
    BY <2>1, <2>2, <2>3, <2>4 DEF SweepInv
<1>4. ASSUME Recorded PROVE SweepInv'
  <2>1. PICK o \in Outcomes :
          results' = Append(results, [id |-> attempts[running], why |-> o.why, pass |-> o.pass,
                                      attempt |-> running])
    BY <1>4 DEF Recorded
  <2> DEFINE row == [id |-> attempts[running], why |-> o.why, pass |-> o.pass,
                     attempt |-> running]
             m == Len(results)
  <2>2. running # 0 /\ running' = 0 /\ UNCHANGED <<scratch, attempts>>
    BY <1>4 DEF Recorded
  <2>3. row \in RowType
    <3>1. attempts[running] \in Runs /\ running \in Nat
      BY <1>1, <2>2
    <3> QED
      BY <3>1, JudgeAssumption DEF RowType
  <2>4. /\ m \in Nat /\ DOMAIN results = 1..m /\ DOMAIN results' = 1..(m + 1)
        /\ results'[m + 1] = row /\ \A i \in 1..m : results'[i] = results[i]
    BY <1>1, <2>1, <2>3, Appended
  <2>5. row.id = attempts[running] /\ row.attempt = running
    OBVIOUS
  <2> HIDE DEF row, m
  <2>6. \A i \in 1..m : (Scores(i)' <=> Scores(i)) /\ results'[i].id = results[i].id
                        /\ results'[i].attempt = results[i].attempt
    BY <2>4 DEF Scores
  <2>7. \A i \in 1..m : results[i].id = row.id => ~Scores(i)
    BY <2>2, <2>4, <2>5 DEF SweepInv
  <2>8. ASSUME NEW i \in 1..(m + 1), NEW j \in 1..(m + 1), Scores(i)', Scores(j)',
               results'[i].id = results'[j].id
        PROVE  i = j
    <3>1. CASE i = m + 1 /\ j # m + 1
      BY <2>4, <2>6, <2>7, <2>8, <3>1
    <3>2. CASE i # m + 1 /\ j = m + 1
      BY <2>4, <2>6, <2>7, <2>8, <3>2
    <3>3. CASE i # m + 1 /\ j # m + 1
      BY <2>4, <2>6, <2>8, <3>3 DEF SweepInv
    <3> QED
      BY <3>1, <3>2, <3>3
  <2>9. ASSUME NEW i \in 1..(m + 1), Scores(i)'
        PROVE  scratch[results'[i].id] \in {0, results'[i].attempt}
    <3>1. CASE i = m + 1
      BY <2>2, <2>4, <2>5, <3>1 DEF SweepInv
    <3>2. CASE i # m + 1
      BY <2>4, <2>6, <2>9, <3>2 DEF SweepInv
    <3> QED
      BY <3>1, <3>2
  <2> QED
    BY <2>2, <2>4, <2>8, <2>9 DEF SweepInv
<1>5. ASSUME UNCHANGED sweep PROVE SweepInv'
  BY <1>5 DEF sweep, SweepInv, Scores
<1> QED
  BY <1>2, <1>3, <1>4, <1>5, WhoMoves DEF Sweep

(* The directory of a run that passed is of the attempt that passed.        *)
LEMMA ThePassedOne ==
  ASSUME SweepInv, NEW id, HasPassed(id), scratch[id] # 0
  PROVE  PassedAs(id, scratch[id])
<1>1. PICK i \in DOMAIN results : results[i].id = id /\ Passing(results[i])
  BY DEF HasPassed
<1>2. Scores(i)
  BY <1>1, PassingScores DEF Scores
<1>3. scratch[id] = results[i].attempt
  BY <1>1, <1>2 DEF SweepInv
<1> QED
  BY <1>1, <1>3 DEF PassedAs, Passing

-----------------------------------------------------------------------------
(* An append to judgments.jsonl.                                            *)
LEMMA JudgmentWritten ==
  ASSUME Types, FileInv, AppendJudgment
  PROVE  /\ todo # <<>> /\ Judgment # Garbled /\ Judgment.id = Head(todo)
         /\ Judgment.of = seen /\ Judgment.by = mode
         /\ judgments'.lines # <<>>
         /\ Appends(judgments, Judgment, judgments')
<1>1. todo # <<>>
  BY DEF AppendJudgment, Types, ListTypes, Busy
<1>2. PICK cut \in Cuts : judgments' = Written(judgments, Judgment, cut)
  BY DEF AppendJudgment
<1>3. Judgment # Garbled /\ Judgment.id = Head(todo) /\ Judgment \in JudgmentType
  BY <1>1, JudgmentTyped
<1>4. judgments \in Files(JudgmentType) /\ Garbled \in JudgmentType
  BY DEF Types, FileTypes, JudgmentType
<1>5. judgments'.lines # <<>>
  BY <1>2, <1>3, <1>4, WrittenTyped DEF FileInv
<1>6. Judgment.of = seen /\ Judgment.by = mode
  BY DEF Judgment
<1>7. (judgments.open => judgments.lines # <<>>) /\ (judgments.torn = 0 => ~judgments.open)
  BY DEF FileInv
<1> DEFINE new == judgments'
           row == Judgment
<1>8. new = Written(judgments, row, cut) /\ row # Garbled
  BY <1>2, <1>3
<1> HIDE DEF new, row
<1>9. Appends(judgments, row, new)
  BY <1>4, <1>7, <1>8, WrittenLines
<1> QED
  BY <1>1, <1>3, <1>5, <1>6, <1>9 DEF new, row

LEMMA FileStep ==
  ASSUME Types, FileInv, [Next]_vars
  PROVE  FileInv'
<1>1. CASE UNCHANGED judgments
  BY <1>1 DEF FileInv
<1>2. CASE AppendJudgment
  <2>1. ASSUME judgments'.torn = 0
        PROVE  ~judgments'.open /\ \A l \in DOMAIN judgments'.lines : judgments'.lines[l] # Garbled
    BY <1>2, <2>1, JudgmentWritten DEF FileInv, Appends
  <2>2. judgments'.open => judgments'.lines # <<>>
    BY <1>2, JudgmentWritten
  <2> QED
    BY <2>1, <2>2 DEF FileInv
<1> QED
  BY <1>1, <1>2, JudgmentsMove

(* Only the run in hand gets a judgment; without a cut it does.             *)
LEMMA JudgedByAppend ==
  ASSUME Types, FileInv, AppendJudgment, NEW id
  PROVE  /\ HasJudgment(id)' => HasJudgment(id) \/ id = Head(todo)
         /\ judgments'.torn = 0 /\ (HasJudgment(id) \/ id = Head(todo)) => HasJudgment(id)'
<1>1. HasJudgment(id)' => HasJudgment(id) \/ id = Head(todo)
  BY JudgmentWritten DEF HasJudgment, Appends
<1>2. judgments'.torn = 0 /\ HasJudgment(id) => HasJudgment(id)'
  BY JudgmentWritten DEF HasJudgment, Appends
<1>3. judgments'.torn = 0 /\ id = Head(todo) => HasJudgment(id)'
  BY JudgmentWritten DEF HasJudgment, Appends
<1> QED
  BY <1>1, <1>2, <1>3

LEMMA AlreadyIs ==
  ASSUME NEW id
  PROVE  id \in AlreadyJudged <=> HasJudgment(id)
BY DEF AlreadyJudged, HasJudgment, Parsed
-----------------------------------------------------------------------------
LEMMA TodoStep ==
  ASSUME Types, SweepInv, FileInv, TodoInv, [Next]_vars
  PROVE  TodoInv'
<1>1. CASE Sweep \/ UNCHANGED vars
  <2>1. UNCHANGED <<judgments, mode, todo>>
    BY <1>1 DEF Sweep, Attempt, Cleaned, Recorded, files, memory, vars
  <2>2. \A id : (HasPassed(id) => HasPassed(id)') /\ (HasJudgment(id)' => HasJudgment(id))
    BY <2>1, PassedStays DEF Types, HasJudgment
  <2> QED
    BY <2>1, <2>2 DEF TodoInv, Once
<1> SUFFICES ASSUME Invoke \/ Step \/ Die, mode' = "results", UNCHANGED sweep
             PROVE  Once(todo') /\ (\A k \in DOMAIN todo : HasPassed(todo[k]) /\ ~HasJudgment(todo[k]))'
  BY <1>1, WhoMoves DEF TodoInv, Once
<1>2. \A id : HasPassed(id)' <=> HasPassed(id)
  BY DEF sweep, HasPassed, Passing
<1>3. CASE todo' = <<>>
  BY <1>3 DEF Once
<1>4. CASE Choose
  <2> DEFINE scored == {i \in DOMAIN results : Passing(results[i])}
             ids == PassingRunIds
  <2>1. \A i, j \in DOMAIN PassingIds \cap scored : PassingIds[i] = PassingIds[j] => i = j
    BY PassingTyped, PassingScores DEF PassingIds, SweepInv, Scores, Types
  <2>2. ids = Picked(PassingIds, scored)
    BY DEF PassingRunIds, PassingIds
  <2>3. Picks(Runs, PassingIds, scored, Len(PassingIds), ids) /\ Once(ids)
    BY <2>1, <2>2, PassingTyped, PickedFacts DEF Types, Different
  <2>4. ids \in Seq(Runs) /\ \A i \in DOMAIN ids : HasPassed(ids[i])
    BY <2>3, PassingTyped DEF Picks, PassingIds, HasPassed, Types
  <2>5. Different(ids, Unjudged)
    BY <2>3 DEF Different, Once
  <2>6. todo' = Picked(ids, Unjudged)
    BY <1>4 DEF Choose, Unjudged
  <2> HIDE DEF ids, scored
  <2>7. Picks(Runs, ids, Unjudged, Len(ids), todo') /\ Once(todo')
    BY <2>4, <2>5, <2>6, PickedFacts
  <2>8. \A k \in DOMAIN todo' : \E i \in DOMAIN ids : i \in Unjudged /\ todo'[k] = ids[i]
    BY <2>4, <2>7 DEF Picks
  <2>9. \A i \in DOMAIN ids : i \in Unjudged => ~HasJudgment(ids[i])
    BY AlreadyIs DEF Unjudged, ids
  <2>10. \A id : HasJudgment(id)' <=> HasJudgment(id)
    BY <1>4 DEF Choose, files, HasJudgment
  <2> QED
    BY <1>2, <2>4, <2>7, <2>8, <2>9, <2>10
<1>5. CASE Skip \/ AppendJudgment
  <2>1. todo # <<>> /\ todo' = Tail(todo) /\ mode = "results"
    BY <1>5, JudgmentWritten DEF Skip, AppendJudgment
  <2>2. /\ todo[1] = Head(todo) /\ 1 \in DOMAIN todo
        /\ \A k \in DOMAIN todo' : k + 1 \in DOMAIN todo /\ k + 1 # 1 /\ todo'[k] = todo[k + 1]
    BY <2>1, HeadAndTail DEF Types, ListTypes
  <2>3. Once(todo) /\ \A k \in DOMAIN todo : HasPassed(todo[k]) /\ ~HasJudgment(todo[k])
    BY <2>1 DEF TodoInv
  <2>4. \A k \in DOMAIN todo' : k \in Nat
    BY <2>1, HeadAndTail DEF Types, ListTypes
  <2>5. Once(todo')
    BY <2>2, <2>3, <2>4 DEF Once
  <2>6. \A id : HasJudgment(id)' => HasJudgment(id) \/ id = Head(todo)
    <3>1. CASE Skip
      BY <3>1 DEF Skip, files, HasJudgment
    <3>2. CASE AppendJudgment
      BY <3>2, JudgedByAppend
    <3> QED
      BY <1>5, <3>1, <3>2
  <2>7. \A k \in DOMAIN todo' : todo'[k] # Head(todo)
    BY <2>2, <2>3 DEF Once
  <2> QED
    BY <1>2, <2>2, <2>3, <2>5, <2>6, <2>7
<1>6. CASE UNCHANGED <<judgments, mode, todo>>
  BY <1>2, <1>6 DEF TodoInv, HasJudgment
<1> QED
  BY <1>3, <1>4, <1>5, <1>6
     DEF Invoke, Step, Die, Look, CallClaude, CallCodex, Call, MeterClaude, MeterCodex, Meter,
         Exit, files, memory

LEMMA SeenStep ==
  ASSUME Types, SweepInv, TodoInv, SeenInv, [Next]_vars
  PROVE  SeenInv'
<1>1. \A id, k : PassedAs(id, k) => PassedAs(id, k)'
  BY PassedStays DEF Types
<1>2. CASE UNCHANGED <<pc, mode, todo, seen>>
  BY <1>1, <1>2 DEF SeenInv
<1>3. CASE Look
  <2>1. /\ todo # <<>> /\ scratch[Head(todo)] # 0 /\ seen' = scratch[Head(todo)]
        /\ UNCHANGED <<mode, todo>>
    BY <1>3 DEF Look
  <2>2. mode = "results" => HasPassed(Head(todo))
    BY <2>1, HeadAndTail DEF TodoInv, Types, ListTypes
  <2>3. mode = "results" => PassedAs(Head(todo), seen')
    BY <2>1, <2>2, ThePassedOne
  <2> QED
    BY <1>1, <2>1, <2>3 DEF SeenInv
<1>4. CASE CallClaude \/ CallCodex \/ MeterClaude \/ MeterCodex
  <2>1. pc \in Busy /\ UNCHANGED <<mode, todo, seen>>
    BY <1>4 DEF CallClaude, CallCodex, Call, MeterClaude, MeterCodex, Meter, Busy, memory
  <2> QED
    BY <1>1, <2>1 DEF SeenInv
<1>5. CASE Invoke \/ Choose \/ Skip \/ AppendJudgment \/ Exit \/ Die
  <2>1. pc' \notin Busy
    BY <1>5 DEF Invoke, Choose, Skip, AppendJudgment, Exit, Die, Busy
  <2> QED
    BY <2>1 DEF SeenInv
<1> QED
  BY <1>2, <1>3, <1>4, <1>5, WhoMoves DEF Step, vars, memory

LEMMA DiedStep ==
  ASSUME Types, DiedInv, [Next]_vars
  PROVE  DiedInv'
<1>1. invoked \in Nat /\ died \in 0..invoked
  BY DEF Types, HistoryTypes
<1>2. CASE Invoke
  BY <1>1, <1>2 DEF Invoke, DiedInv
<1>3. CASE Die
  BY <1>3 DEF Die, DiedInv, Ended
<1>4. CASE Step
  <2>1. pc \notin Ended /\ UNCHANGED <<invoked, died>>
    BY <1>4 DEF Step, Choose, Skip, Look, CallClaude, CallCodex, Call, MeterClaude, MeterCodex,
                Meter, AppendJudgment, Exit, history, Ended
  <2> QED
    BY <2>1 DEF DiedInv
<1>5. CASE UNCHANGED <<pc, invoked, died>>
  BY <1>5 DEF DiedInv
<1> QED
  BY <1>2, <1>3, <1>4, <1>5, WhoMoves DEF vars, history

LEMMA RawStep ==
  ASSUME Types, RawInv, [Next]_vars
  PROVE  RawInv'
<1>1. raw \in [Heads -> AnswerType]
  BY DEF Types, MemoryTypes
<1>2. CASE UNCHANGED <<pc, raw>>
  BY <1>2 DEF RawInv
<1>3. CASE CallClaude
  <2>1. PICK answer : raw' = [raw EXCEPT !["claude"] = answer]
    BY <1>3 DEF CallClaude, Call
  <2>2. pc = "call claude" /\ pc' = "call codex"
    BY <1>3 DEF CallClaude, Call
  <2>3. raw'["codex"] = raw["codex"]
    BY <1>1, <2>1 DEF Heads
  <2> QED
    BY <2>2, <2>3 DEF RawInv, Busy, Heads
<1>4. CASE CallCodex \/ MeterClaude \/ MeterCodex
  BY <1>4 DEF CallCodex, Call, MeterClaude, MeterCodex, Meter, RawInv, Busy
<1>5. CASE AppendJudgment \/ Die
  BY <1>5 DEF AppendJudgment, Die, RawInv
<1>6. CASE Invoke \/ Choose \/ Skip \/ Look \/ Exit
  <2>1. pc \notin Busy /\ UNCHANGED raw
    BY <1>6 DEF Invoke, Choose, Skip, Look, Exit, Busy, Ended, memory
  <2>2. pc' # "call codex"
    BY <1>6 DEF Invoke, Choose, Skip, Look, Exit
  <2> QED
    BY <2>1, <2>2 DEF RawInv
<1> QED
  BY <1>2, <1>3, <1>4, <1>5, <1>6, WhoMoves DEF Step, vars, memory

LEMMA FoundStep ==
  ASSUME Types, FileInv, FoundInv, [Next]_vars
  PROVE  FoundInv'
<1>1. CASE UNCHANGED <<pc, mode, todo, missed, judgments, found>>
  BY <1>1 DEF FoundInv, Listed, HasJudgment
<1>2. CASE Invoke
  BY <1>2 DEF Invoke, FoundInv, Ended
<1>3. CASE Die
  BY <1>3 DEF Die, FoundInv
<1>4. CASE Skip
  BY <1>4 DEF Skip, FoundInv, Ended
<1>5. CASE Exit
  BY <1>5 DEF Exit, FoundInv, Ended, files, memory, history, Listed, HasJudgment
<1>6. CASE Look \/ CallClaude \/ CallCodex \/ MeterClaude \/ MeterCodex
  <2>1. /\ pc \notin Ended \cup {"choose"} /\ pc' \notin Ended \cup {"choose"}
        /\ UNCHANGED <<mode, todo, missed, judgments, found>>
    BY <1>6 DEF Look, CallClaude, CallCodex, Call, MeterClaude, MeterCodex, Meter, Ended, files,
                memory, history
  <2>2. \A id : (Listed(id)' <=> Listed(id)) /\ (HasJudgment(id)' <=> HasJudgment(id))
    BY <2>1 DEF Listed, HasJudgment
  <2> QED
    BY <2>1, <2>2 DEF FoundInv, Ended
<1>7. CASE Choose
  <2> DEFINE ids == PassingRunIds
  <2>1. /\ todo' = Picked(ids, Unjudged) /\ found' = {ids[i] : i \in DOMAIN ids} /\ pc' = "look"
        /\ UNCHANGED judgments
    BY <1>7 DEF Choose, Unjudged, ToSet, files
  <2>2. ids \in Seq(Runs)
    BY PassingTyped DEF Types
  <2>3. Picks(Runs, ids, Unjudged, Len(ids), todo')
    BY <2>1, <2>2, PickedFacts
  <2>4. \A i \in DOMAIN ids : i \in Unjudged \/ HasJudgment(ids[i])
    BY AlreadyIs DEF Unjudged
  <2> HIDE DEF ids
  <2>5. \A i \in DOMAIN ids : (\E k \in DOMAIN todo' : todo'[k] = ids[i]) \/ HasJudgment(ids[i])
    BY <2>2, <2>3, <2>4 DEF Picks
  <2>6. \A id \in found' : (\E k \in DOMAIN todo' : todo'[k] = id) \/ HasJudgment(id)
    BY <2>1, <2>5
  <2>7. \A id \in found' : Listed(id)' \/ HasJudgment(id)'
    BY <2>1, <2>6 DEF HasJudgment, Listed
  <2> QED
    BY <2>1, <2>7 DEF FoundInv, Ended
<1>8. CASE AppendJudgment
  <2>1. /\ pc = "append" /\ pc' = "look" /\ todo' = Tail(todo) /\ todo # <<>>
        /\ UNCHANGED <<mode, missed, found>>
    BY <1>8, JudgmentWritten DEF AppendJudgment, history
  <2>2. judgments'.torn = 0 => judgments.torn = 0
    BY <1>8, JudgmentWritten DEF Appends
  <2>3. \A id : Listed(id) => Listed(id)' \/ id = Head(todo)
    <3>1. /\ Head(todo) = todo[1]
          /\ \A k \in DOMAIN todo : k # 1 => k - 1 \in DOMAIN todo' /\ todo[k] = todo'[k - 1]
      BY <2>1, HeadAndTail DEF Types, ListTypes
    <3> QED
      BY <3>1 DEF Listed
  <2>4. \A id : judgments'.torn = 0 /\ (HasJudgment(id) \/ id = Head(todo)) => HasJudgment(id)'
    BY <1>8, JudgedByAppend
  <2> QED
    BY <2>1, <2>2, <2>3, <2>4 DEF FoundInv, Ended
<1> QED
  BY <1>1, <1>2, <1>3, <1>4, <1>5, <1>6, <1>7, <1>8, WhoMoves DEF Step, vars, files, memory, history

-----------------------------------------------------------------------------
LEMMA JudgesStep ==
  ASSUME Types, FileInv, SeenInv, JudgesTheAttemptThatPassed, [Next]_vars
  PROVE  JudgesTheAttemptThatPassed'
<1>1. \A id, k : PassedAs(id, k) => PassedAs(id, k)'
  BY PassedStays DEF Types
<1>2. \A l \in DOMAIN judgments.lines :
        judgments.lines[l] # Garbled /\ judgments.lines[l].by = "results"
          => PassedAs(judgments.lines[l].id, judgments.lines[l].of)
  BY DEF JudgesTheAttemptThatPassed, Parsed, PassedAs
<1>3. \A id, k : PassedAs(id, k) => \E i \in DOMAIN results' :
        /\ results'[i].id = id /\ results'[i].attempt = k
        /\ results'[i].why = {"ok"} /\ results'[i].pass
  BY <1>1 DEF PassedAs
<1> DEFINE lines == judgments'.lines
<1>4. ASSUME NEW l \in DOMAIN lines, lines[l] # Garbled, lines[l].by = "results"
      PROVE  PassedAs(lines[l].id, lines[l].of)
  <2>1. CASE UNCHANGED judgments
    BY <1>2, <1>4, <2>1
  <2>2. CASE AppendJudgment
    <3>1. mode = "results" => PassedAs(Judgment.id, Judgment.of)
      BY <2>2, JudgmentWritten DEF SeenInv, AppendJudgment, Busy
    <3>2. \/ l \in DOMAIN judgments.lines /\ lines[l] = judgments.lines[l]
          \/ lines[l] = Judgment
      BY <1>4, <2>2, JudgmentWritten DEF Appends
    <3>3. Judgment.by = mode
      BY <2>2, JudgmentWritten
    <3> QED
      BY <1>2, <1>4, <3>1, <3>2, <3>3
  <2> QED
    BY <2>1, <2>2, JudgmentsMove
<1> HIDE DEF lines
<1>5. ASSUME NEW l \in DOMAIN lines, lines[l] # Garbled, lines[l].by = "results"
      PROVE  \E i \in DOMAIN results' :
               /\ results'[i].id = lines[l].id /\ results'[i].attempt = lines[l].of
               /\ results'[i].why = {"ok"} /\ results'[i].pass
  <2>1. PassedAs(lines[l].id, lines[l].of)
    BY <1>4, <1>5
  <2> QED
    BY <1>3, <2>1
<1>6. \A j \in Parsed(judgments)' : \E l \in DOMAIN lines : lines[l] # Garbled /\ j = lines[l]
  BY DEF Parsed, lines
<1> QED
  BY <1>5, <1>6 DEF JudgesTheAttemptThatPassed

LEMMA OnceStep ==
  ASSUME Types, FileInv, TodoInv, JudgedOnce, [Next]_vars
  PROVE  JudgedOnce'
<1>1. CASE UNCHANGED judgments
  BY <1>1 DEF JudgedOnce
<1>2. CASE AppendJudgment
  <2> DEFINE lines == judgments.lines
             lines2 == judgments'.lines
  <2> SUFFICES ASSUME judgments'.torn = 0,
                      NEW i \in DOMAIN lines2, NEW j \in DOMAIN lines2,
                      lines2[i].id = lines2[j].id,
                      lines2[i].by = "results", lines2[j].by = "results"
               PROVE  i = j
    BY DEF JudgedOnce
  <2>1. /\ judgments.torn = 0
        /\ \A l \in DOMAIN lines : l \in DOMAIN lines2 /\ lines2[l] = lines[l]
        /\ \A l \in DOMAIN lines2 : l \in DOMAIN lines \/ (l = Len(lines) + 1 /\ lines2[l] = Judgment)
    BY <1>2, JudgmentWritten DEF Appends
  <2>2. todo # <<>> /\ Judgment.id = Head(todo) /\ Judgment.by = mode
    BY <1>2, JudgmentWritten
  <2>3. mode = "results" => ~HasJudgment(Head(todo))
    BY <2>2, HeadAndTail DEF TodoInv, Types, ListTypes
  <2>4. \A l \in DOMAIN lines : mode = "results" => lines[l].id # Judgment.id
    BY <2>1, <2>2, <2>3 DEF HasJudgment, FileInv
  <2> DEFINE row == Judgment
  <2>5. row = Judgment /\ (row.by = "results" => mode = "results")
    BY <2>2
  <2> HIDE DEF row, lines, lines2
  <2>6. CASE i \in DOMAIN lines /\ j \in DOMAIN lines
    BY <2>1, <2>6 DEF JudgedOnce, lines
  <2>7. CASE i \notin DOMAIN lines /\ j \in DOMAIN lines
    BY <2>1, <2>4, <2>5, <2>7
  <2>8. CASE i \in DOMAIN lines /\ j \notin DOMAIN lines
    BY <2>1, <2>4, <2>5, <2>8
  <2>9. CASE i \notin DOMAIN lines /\ j \notin DOMAIN lines
    BY <2>1, <2>9
  <2> QED
    BY <2>6, <2>7, <2>8, <2>9
<1> QED
  BY <1>1, <1>2, JudgmentsMove

-----------------------------------------------------------------------------
(* The lines of a ledger, and one more.                                     *)
LinesOf(file, id, head) == {i \in DOMAIN file : file[i].id = id /\ file[i].head = head}

LEMMA UpTo ==
  ASSUME NEW n \in Nat
  PROVE  IsFiniteSet(1..n)
BY FS_Interval

LEMMA OneMoreLine ==
  ASSUME NEW file \in Seq(UsageType), NEW line \in UsageType, NEW id, NEW head
  PROVE  /\ Cardinality(LinesOf(file, id, head)) \in Nat
         /\ Cardinality(LinesOf(Append(file, line), id, head)) =
              Cardinality(LinesOf(file, id, head)) +
                (IF line.id = id /\ line.head = head THEN 1 ELSE 0)
<1> DEFINE n == Len(file)
           new == Append(file, line)
           before == LinesOf(file, id, head)
           after == LinesOf(new, id, head)
<1>1. /\ n \in Nat /\ DOMAIN file = 1..n /\ DOMAIN new = 1..(n + 1)
      /\ new[n + 1] = line /\ \A k \in 1..n : new[k] = file[k]
  BY Appended
<1> HIDE DEF n, new
<1>2. before \subseteq 1..n
  BY <1>1 DEF LinesOf
<1>3. IsFiniteSet(before)
  BY <1>1, <1>2, UpTo, FS_Subset
<1>4. Cardinality(before) \in Nat
  BY <1>3, FS_CardinalityType
<1>5. n + 1 \notin before
  BY <1>1, <1>2
<1>6. CASE line.id = id /\ line.head = head
  <2>1. after = before \cup {n + 1}
    BY <1>1, <1>6 DEF LinesOf
  <2>2. Cardinality(after) = Cardinality(before) + 1
    BY <1>3, <1>5, <2>1, FS_AddElement
  <2> QED
    BY <1>4, <1>6, <2>2 DEF new
<1>7. CASE ~(line.id = id /\ line.head = head)
  <2>1. after = before
    BY <1>1, <1>7 DEF LinesOf
  <2> QED
    BY <1>4, <1>7, <2>1 DEF new
<1> QED
  BY <1>6, <1>7

LEMMA LedgeredIs ==
  ASSUME FileTypes, NEW id, NEW head
  PROVE  Ledgered(id, head) = Cardinality(LinesOf(usage, id, head)) /\ Ledgered(id, head) \in Nat
<1>1. Ledgered(id, head) = Cardinality(LinesOf(usage, id, head))
  BY DEF Ledgered, LinesOf
<1>2. IsFiniteSet(LinesOf(usage, id, head))
  <2>1. DOMAIN usage = 1..Len(usage) /\ Len(usage) \in Nat
    BY DEF FileTypes
  <2> QED
    BY <2>1, UpTo, FS_Subset DEF LinesOf
<1> QED
  BY <1>1, <1>2, FS_CardinalityType

(* A line of the ledger for a head that was paid about the run in hand, and *)
(* none for the others.                                                     *)
LEMMA MeterLedgered ==
  ASSUME Types, todo # <<>>, NEW h \in Heads, NEW then, Meter(h, then), NEW id \in Runs, NEW g \in Heads
  PROVE  Ledgered(id, g)' = Ledgered(id, g) +
           (IF id = Head(todo) /\ g = h /\ raw[h].usage THEN 1 ELSE 0)
<1>1. usage \in Seq(UsageType) /\ Ledgered(id, g) \in Nat /\ Head(todo) \in Runs
      /\ Ledgered(id, g) = Cardinality(LinesOf(usage, id, g))
  BY LedgeredIs, HeadAndTail DEF Types, FileTypes, ListTypes
<1>2. Ledgered(id, g)' = Cardinality(LinesOf(usage', id, g))
  BY DEF Ledgered, LinesOf
<1>3. CASE raw[h].usage
  <2> DEFINE line == [id |-> Head(todo), head |-> h]
  <2>1. usage' = Append(usage, line)
    BY <1>3 DEF Meter
  <2>2. line \in UsageType /\ line.id = Head(todo) /\ line.head = h
    BY <1>1 DEF UsageType
  <2> HIDE DEF line
  <2> QED
    BY <1>1, <1>2, <1>3, <2>1, <2>2, OneMoreLine
<1>4. CASE ~raw[h].usage
  BY <1>1, <1>2, <1>4 DEF Meter
<1> QED
  BY <1>3, <1>4

(* When the answer of a head about a run is in hand.                        *)
Held(p, t, r, id, head) ==
  /\ t # <<>> /\ Head(t) = id /\ r[head].usage
  /\ p \in {"call codex", "meter claude"} \/ (p = "meter codex" /\ head = "codex")

LEMMA InHandIs ==
  ASSUME NEW id, NEW head
  PROVE  /\ InHand(id, head) = IF Held(pc, todo, raw, id, head) THEN 1 ELSE 0
         /\ InHand(id, head)' = IF Held(pc', todo', raw', id, head) THEN 1 ELSE 0
<1>1. CASE head = "codex"
  BY <1>1 DEF InHand, Held
<1>2. CASE head # "codex"
  BY <1>2 DEF InHand, Held
<1> QED
  BY <1>1, <1>2

(* The second head has not answered before it is called.                    *)
LEMMA RawCodex ==
  ASSUME RawInv, pc \in {"call claude", "call codex"}
  PROVE  ~raw["codex"].usage
<1>1. raw["codex"] = Silent
  BY DEF RawInv, Busy, Heads
<1>2. Silent.usage = FALSE
  BY DEF Silent
<1> QED
  BY <1>1, <1>2

LEMMA UnledgeredStep ==
  ASSUME Types, RawInv, LagInv, [Next]_vars
  PROVE  LagInv'
<1> SUFFICES ASSUME NEW id \in Runs, NEW g \in Heads
             PROVE  Unledgered(id, g)' \in 0..died'
  BY DEF LagInv
<1> DEFINE x == <<id, g>>
           inHand == InHand(id, g)
<1>1. /\ Unledgered(id, g) \in 0..died /\ died \in Nat /\ called[x] \in Nat /\ mute[x] \in Nat
      /\ Ledgered(id, g) \in Nat /\ inHand \in {0, 1}
      /\ Unledgered(id, g) = called[x] - mute[x] - Ledgered(id, g) - inHand
  <2>1. Unledgered(id, g) \in 0..died
    BY DEF LagInv
  <2>2. /\ called \in [Runs \X Heads -> Nat] /\ mute \in [Runs \X Heads -> Nat]
        /\ invoked \in Nat /\ died \in 0..invoked
    BY DEF Types, HistoryTypes
  <2>3. died \in Nat /\ called[x] \in Nat /\ mute[x] \in Nat
    BY <2>2
  <2>4. Ledgered(id, g) \in Nat
    BY LedgeredIs DEF Types
  <2> QED
    BY <2>1, <2>3, <2>4 DEF InHand, Unledgered
<1>2. Unledgered(id, g)' = called'[x] - mute'[x] - Ledgered(id, g)' - inHand'
  BY DEF Unledgered
<1>3. UNCHANGED usage => Ledgered(id, g)' = Ledgered(id, g)
  BY DEF Ledgered
<1> DEFINE holds == {"call codex", "meter claude", "meter codex"}
<1>4. pc \notin holds => inHand = 0
  BY DEF InHand
<1>5. pc' \notin holds => inHand' = 0
  BY DEF InHand
<1>6. CASE UNCHANGED <<pc, todo, raw, called, mute, usage, died>>
  <2>1. inHand' = inHand
    BY <1>6 DEF InHand
  <2> HIDE DEF inHand, x
  <2> QED
    BY <1>1, <1>2, <1>3, <1>6, <2>1
<1>7. CASE Invoke \/ Choose \/ Skip \/ Look \/ AppendJudgment \/ Exit
  <2>1. pc \notin holds /\ pc' \notin holds /\ UNCHANGED <<called, mute, usage, died>>
    BY <1>7 DEF Invoke, Choose, Skip, Look, AppendJudgment, Exit, Ended, files, history
  <2> HIDE DEF inHand, x
  <2> QED
    BY <1>1, <1>2, <1>3, <1>4, <1>5, <2>1
<1>8. CASE Die
  <2>1. pc' \notin holds /\ died' = died + 1 /\ UNCHANGED <<called, mute, usage>>
    BY <1>8 DEF Die, files
  <2> HIDE DEF inHand, x
  <2>2. Ledgered(id, g)' = Ledgered(id, g) /\ inHand' = 0 /\ called'[x] = called[x]
        /\ mute'[x] = mute[x]
    BY <1>3, <1>5, <2>1
  <2>3. Unledgered(id, g)' = Unledgered(id, g) + inHand
    BY <1>1, <1>2, <2>2
  <2>4. /\ Unledgered(id, g) \in Int /\ 0 <= Unledgered(id, g) /\ Unledgered(id, g) <= died
        /\ died \in Nat /\ inHand \in {0, 1}
    BY <1>1
  <2>5. died' = died + 1
    BY <2>1
  <2> QED
    BY <2>3, <2>4, <2>5
<1>9. ASSUME NEW h \in Heads, NEW then, Call(h, then), todo # <<>>,
             \/ pc = "call claude" /\ h = "claude" /\ then = "call codex"
             \/ pc = "call codex" /\ h = "codex" /\ then = "meter claude"
      PROVE  Unledgered(id, g)' \in 0..died'
  <2>1. PICK answer \in Answers :
          /\ raw' = [raw EXCEPT ![h] = answer]
          /\ called' = [called EXCEPT ![<<Head(todo), h>>] = @ + 1]
          /\ mute' = IF answer.usage THEN mute
                     ELSE [mute EXCEPT ![<<Head(todo), h>>] = @ + 1]
    BY <1>9 DEF Call
  <2>2. pc' = then /\ UNCHANGED <<todo, usage, died>>
    BY <1>9 DEF Call, files
  <2>3. answer.usage \in BOOLEAN /\ Head(todo) \in Runs
    BY <1>9, JudgeAssumption, HeadAndTail DEF Types, ListTypes
  <2>4. /\ called \in [Runs \X Heads -> Nat] /\ mute \in [Runs \X Heads -> Nat]
        /\ raw \in [Heads -> AnswerType]
    BY DEF Types, HistoryTypes, MemoryTypes
  <2>5. raw'[g] = IF g = h THEN answer ELSE raw[g]
    BY <2>1, <2>4
  <2> DEFINE mine == Head(todo) = id /\ g = h
             more == IF mine /\ answer.usage THEN 1 ELSE 0
  <2>6. called'[x] - mute'[x] = called[x] - mute[x] + more
    <3>1. CASE mine
      <4>1. <<Head(todo), h>> = x /\ x \in Runs \X Heads
        BY <3>1
      <4> HIDE DEF x
      <4>2. called'[x] = called[x] + 1 /\ mute'[x] = IF answer.usage THEN mute[x] ELSE mute[x] + 1
        BY <2>1, <2>4, <4>1
      <4> QED
        BY <1>1, <3>1, <4>2
    <3>2. CASE ~mine
      <4>1. <<Head(todo), h>> # x
        BY <3>2
      <4> HIDE DEF x
      <4>2. called'[x] = called[x] /\ mute'[x] = mute[x]
        BY <2>1, <2>4, <4>1
      <4> QED
        BY <1>1, <3>2, <4>2
    <3> QED
      BY <3>1, <3>2
  <2>61. called'[x] \in Nat /\ mute'[x] \in Nat
    <3>1. called' \in [Runs \X Heads -> Nat] /\ mute' \in [Runs \X Heads -> Nat]
      BY <2>1, <2>3, <2>4
    <3> QED
      BY <3>1
  <2> DEFINE before == Held(pc, todo, raw, id, g)
             after == Held(pc', todo', raw', id, g)
  <2>7. inHand' = inHand + more
    <3>1. CASE mine
      <4>1. ~before
        BY <1>9, <3>1, RawCodex DEF Held
      <4>2. after <=> answer.usage
        BY <1>9, <2>2, <2>5, <3>1 DEF Held
      <4> QED
        BY <3>1, <4>1, <4>2, InHandIs
    <3>2. CASE Head(todo) # id
      <4>1. ~before /\ ~after
        BY <2>2, <3>2 DEF Held
      <4> QED
        BY <3>2, <4>1, InHandIs
    <3>3. CASE Head(todo) = id /\ g # h
      <4>1. CASE pc = "call claude"
        <5>1. g = "codex" /\ ~raw["codex"].usage /\ raw'[g] = raw[g]
          BY <1>9, <2>5, <3>3, <4>1, RawCodex DEF Heads
        <5>2. ~before /\ ~after
          BY <4>1, <5>1 DEF Held
        <5> QED
          BY <3>3, <5>2, InHandIs
      <4>2. CASE pc = "call codex"
        <5>1. g = "claude" /\ raw'[g] = raw[g] /\ pc' = "meter claude"
          BY <1>9, <2>2, <2>5, <3>3, <4>2 DEF Heads
        <5>2. before <=> after
          BY <2>2, <4>2, <5>1 DEF Held
        <5> QED
          BY <3>3, <5>2, InHandIs
      <4> QED
        BY <1>9, <4>1, <4>2
    <3> QED
      BY <3>1, <3>2, <3>3
  <2>8. more \in {0, 1}
    OBVIOUS
  <2> HIDE DEF inHand, x, more
  <2> QED
    BY <1>1, <1>2, <1>3, <2>2, <2>6, <2>61, <2>7, <2>8
<1>10. CASE CallClaude \/ CallCodex
  <2>1. todo # <<>>
    BY <1>10 DEF CallClaude, CallCodex, Types, ListTypes, Busy
  <2> QED
    BY <1>9, <1>10, <2>1 DEF CallClaude, CallCodex, Heads
<1>11. ASSUME NEW h \in Heads, NEW then, Meter(h, then), todo # <<>>,
              \/ pc = "meter claude" /\ h = "claude" /\ then = "meter codex"
              \/ pc = "meter codex" /\ h = "codex" /\ then = "append"
       PROVE  Unledgered(id, g)' \in 0..died'
  <2> DEFINE less == IF id = Head(todo) /\ g = h /\ raw[h].usage THEN 1 ELSE 0
  <2>1. Ledgered(id, g)' = Ledgered(id, g) + less
    BY <1>11, MeterLedgered
  <2>2. pc' = then /\ UNCHANGED <<todo, raw, called, mute, died>>
    BY <1>11 DEF Meter, memory, history
  <2> DEFINE before == Held(pc, todo, raw, id, g)
             after == Held(pc', todo', raw', id, g)
  <2>3. inHand = inHand' + less
    <3>1. CASE g = h
      <4>1. ~after /\ (before <=> id = Head(todo) /\ raw[h].usage)
        BY <1>11, <2>2, <3>1 DEF Held
      <4> QED
        BY <3>1, <4>1, InHandIs
    <3>2. CASE g # h
      <4>1. before <=> after
        BY <1>11, <2>2, <3>2 DEF Held, Heads
      <4> QED
        BY <3>2, <4>1, InHandIs
    <3> QED
      BY <3>1, <3>2
  <2>4. less \in {0, 1} /\ inHand' \in {0, 1}
    BY InHandIs
  <2> HIDE DEF inHand, x, less
  <2>5. called'[x] = called[x] /\ mute'[x] = mute[x]
    BY <2>2
  <2>6. Unledgered(id, g)' = called[x] - mute[x] - (Ledgered(id, g) + less) - inHand'
    BY <1>2, <2>1, <2>5
  <2>7. Unledgered(id, g)' = Unledgered(id, g)
    BY <1>1, <2>3, <2>4, <2>6
  <2> QED
    BY <1>1, <2>2, <2>7
<1>12. CASE MeterClaude \/ MeterCodex
  <2>1. todo # <<>>
    BY <1>12 DEF MeterClaude, MeterCodex, Types, ListTypes, Busy
  <2> QED
    BY <1>11, <1>12, <2>1 DEF MeterClaude, MeterCodex, Heads
<1> QED
  BY <1>6, <1>7, <1>8, <1>10, <1>12, WhoMoves DEF Step, vars, files, memory, history

-----------------------------------------------------------------------------
(***************************************************************************)
(* The invariant.                                                          *)
(***************************************************************************)

LEMMA JudgeInit == Init => JudgeInv
<1> SUFFICES ASSUME Init
             PROVE  JudgeInv
  OBVIOUS
<1>1. Types
  BY TypeInit
<1>2. DiedInv /\ SweepInv /\ FileInv /\ TodoInv /\ SeenInv /\ FoundInv /\ RawInv
  BY DEF Init, Empty, DiedInv, SweepInv, FileInv, TodoInv, Once, SeenInv, FoundInv, RawInv, Ended, Busy
<1>3. JudgesTheAttemptThatPassed /\ JudgedOnce
  BY DEF Init, Empty, JudgesTheAttemptThatPassed, JudgedOnce, Parsed
<1>4. LagInv
  <2>1. \A id \in Runs, h \in Heads :
          called[<<id, h>>] = 0 /\ mute[<<id, h>>] = 0 /\ InHand(id, h) = 0
    BY DEF Init, InHand
  <2>2. \A id \in Runs, h \in Heads : Ledgered(id, h) = 0
    <3>1. DOMAIN usage = {}
      BY DEF Init
    <3> QED
      BY <3>1, FS_EmptySet DEF Ledgered
  <2>3. died = 0 /\ 0 - 0 - 0 - 0 \in 0..0
    BY DEF Init
  <2> SUFFICES ASSUME NEW id \in Runs, NEW h \in Heads
               PROVE  Unledgered(id, h) \in 0..died
    BY DEF LagInv
  <2> QED
    BY <2>1, <2>2, <2>3 DEF Unledgered
<1> QED
  BY <1>1, <1>2, <1>3, <1>4 DEF JudgeInv

LEMMA JudgeStep == JudgeInv /\ [Next]_vars => JudgeInv'
<1> SUFFICES ASSUME JudgeInv, [Next]_vars
             PROVE  JudgeInv'
  OBVIOUS
<1>1. Types
  BY DEF JudgeInv
<1>3. Types'
  BY <1>1, TypeStep DEF JudgeInv, FileInv
<1>4. SweepInv'
  BY <1>1, SweepStep DEF JudgeInv, Types
<1>5. DiedInv' /\ FileInv' /\ TodoInv' /\ SeenInv' /\ FoundInv' /\ RawInv'
  BY <1>1, DiedStep, FileStep, TodoStep, SeenStep, FoundStep, RawStep DEF JudgeInv
<1>6. JudgesTheAttemptThatPassed' /\ JudgedOnce' /\ LagInv'
  BY <1>1, JudgesStep, OnceStep, UnledgeredStep DEF JudgeInv
<1> QED
  BY <1>3, <1>4, <1>5, <1>6 DEF JudgeInv

LEMMA JudgeInvariant == Spec => []JudgeInv
BY JudgeInit, JudgeStep, PTL DEF Spec

(* judge --from-results: a judgment is of the very attempt that ended by    *)
(* itself and passed, whatever the sweep and the cleaner do to the scratch  *)
(* directories between the diff and the row, and whoever is killed where.   *)
THEOREM TheAttemptThatPassed == Spec => []JudgesTheAttemptThatPassed
<1>1. JudgeInv => JudgesTheAttemptThatPassed
  BY DEF JudgeInv
<1> QED
  BY <1>1, JudgeInvariant, PTL

(* meter_judge_call: usage.jsonl lags what one judge at a time was paid by  *)
(* the calls whose usage could not be read and by one call of a head per    *)
(* invocation that died, at most, and never runs ahead of it.               *)
THEOREM UnledgeredCallsAreMuteOrDiedHolds == Spec => []UnledgeredCallsAreMuteOrDied
<1>1. ASSUME JudgeInv PROVE UnledgeredCallsAreMuteOrDied
  <2> SUFFICES ASSUME NEW id \in Runs, NEW h \in Heads
               PROVE  called[<<id, h>>] - Ledgered(id, h) - InHand(id, h)
                        \in mute[<<id, h>>]..(mute[<<id, h>>] + died)
    BY DEF UnledgeredCallsAreMuteOrDied
  <2> DEFINE c == called[<<id, h>>]
             m == mute[<<id, h>>]
  <2>1. c \in Nat /\ m \in Nat /\ died \in Nat
    <3>1. /\ called \in [Runs \X Heads -> Nat] /\ mute \in [Runs \X Heads -> Nat]
          /\ invoked \in Nat /\ died \in 0..invoked
      BY <1>1 DEF JudgeInv, Types, HistoryTypes
    <3> QED
      BY <3>1
  <2>2. Ledgered(id, h) \in Nat /\ InHand(id, h) \in {0, 1}
    BY <1>1, LedgeredIs DEF JudgeInv, Types, InHand
  <2>3. c - m - Ledgered(id, h) - InHand(id, h) \in 0..died
    BY <1>1 DEF JudgeInv, LagInv, Unledgered
  <2> HIDE DEF c, m
  <2>4. c - Ledgered(id, h) - InHand(id, h) \in m..(m + died)
    BY <2>1, <2>2, <2>3
  <2> QED
    BY <2>4 DEF c, m
<1> QED
  BY <1>1, JudgeInvariant, PTL

LEMMA NothingListed ==
  ASSUME todo = <<>>, NEW id
  PROVE  ~Listed(id)
<1>1. DOMAIN todo = {}
  OBVIOUS
<1> QED
  BY <1>1 DEF Listed

(* Without a cut append, no run is judged twice from the results, and an    *)
(* invocation that exits 0 has left a judgment of all it found passing.     *)
THEOREM EachOnceAndNoneLeftOut == Spec => []JudgedExactlyOnce
<1>1. ASSUME JudgeInv PROVE SuccessLeavesNoneOut
  <2> SUFFICES ASSUME pc = "exit 0", mode = "results", judgments.torn = 0, NEW id \in found
               PROVE  \E j \in Parsed(judgments) : j.id = id
    BY DEF SuccessLeavesNoneOut
  <2>1. todo = <<>> /\ (Listed(id) \/ HasJudgment(id))
    BY <1>1 DEF JudgeInv, FoundInv, Ended
  <2>2. PICK l \in DOMAIN judgments.lines :
               judgments.lines[l] # Garbled /\ judgments.lines[l].id = id
    <3>1. ~Listed(id)
      BY <1>1, <2>1, NothingListed DEF JudgeInv, Types, ListTypes
    <3> QED
      BY <2>1, <3>1 DEF HasJudgment
  <2>3. judgments.lines[l] \in Parsed(judgments)
    BY <2>2 DEF Parsed
  <2> QED
    BY <2>2, <2>3
<1>2. JudgeInv => JudgedExactlyOnce
  BY <1>1, TypesAre DEF JudgeInv, JudgedExactlyOnce
<1> QED
  BY <1>2, JudgeInvariant, PTL
=============================================================================
