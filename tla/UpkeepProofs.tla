----------------------------- MODULE UpkeepProofs -----------------------------
(***************************************************************************)
(* The promises of the usage ledger and of its maintenance passes, for any *)
(* runs, any rows from before the fix, any number of attempts, passes and  *)
(* cut appends, and a death of either side anywhere.                       *)
(***************************************************************************)
EXTENDS Upkeep, FiniteSetTheorems, WellFoundedInduction, TLAPS

Attempt == [id : Runs, session : Sessions, complete : BOOLEAN, archived : BOOLEAN]

(* What an attempt consumed, as far as its output tells.                    *)
Truth(a) == IF a.complete THEN Consumed(a.session) ELSE 0

(***************************************************************************)
(* The invariant.  First the types.                                        *)
(***************************************************************************)

FileTypes ==
  /\ results \in Files(RowType \cup {Garbled})
  /\ usage \in Files(UsageType \cup {Garbled})

SweepTypes ==
  /\ attempts \in Seq(Attempt)
  /\ legacy \in 0..Len(attempts)
  /\ transcripts \in [Runs -> 0..Len(attempts)]
  /\ runner \in [pc : {"idle", "row", "usage"}, attempt : 0..Len(attempts)]

PassTypes ==
  pass \in [pc : {"idle", "scan", "stream", "rows", "ledger", "replace", "done"},
            kind : Kinds, apply : BOOLEAN, begun : Nat, already : SUBSET Runs,
            at : Nat \ {0}, rows : Seq(RowType), ledger : [Runs -> Recoveries \cup {"none"}]]

Types == FileTypes /\ SweepTypes /\ PassTypes

(* A row is of an attempt of its run: one after the fix is right about it   *)
(* and says so, one from before has the number of the old formula, which    *)
(* was right for codex alone.                                               *)
Honest(all, old, row) ==
  /\ row.attempt \in DOMAIN all /\ all[row.attempt].id = row.id
  /\ row.attempt > old =>
       /\ row.version = USAGE_PARSER_VERSION /\ row.status = "measured"
       /\ row.tokens_in = Truth(all[row.attempt])
  /\ row.attempt <= old =>
       /\ row.version < USAGE_PARSER_VERSION /\ (row.version = 0 <=> row.status = Absent)
       /\ row.tokens_in = RecordedBefore(all[row.attempt])
       /\ row.status = "measured" => Family[row.id] = "codex"
       /\ row.status = "recovered_in_ledger" => Family[row.id] # "codex"

(* The attempt a ledger row is of is no earlier than any before the fix.    *)
NotBefore(all, old, id, k) == \A j \in 1..old : all[j].id = id => j <= k

(* A ledger row too, and where it says so it is right about it; what it     *)
(* tells of a run from before the fix it read off the last output.          *)
Spent(all, old, line) ==
  /\ line.of \in DOMAIN all /\ all[line.of].id = line.u.id
  /\ line.u.status = "measured" => line.u.tokens_in = Truth(all[line.of])
  /\ line.u.status = "measured" /\ Family[line.u.id] # "codex" =>
       NotBefore(all, old, line.u.id, line.of)

RowsHonest ==
  /\ \A i \in DOMAIN results.lines :
       results.lines[i] # Garbled => Honest(attempts, legacy, results.lines[i])
  /\ \A i \in DOMAIN pass.rows : Honest(attempts, legacy, pass.rows[i])

LinesHonest ==
  \A i \in DOMAIN usage.lines :
    usage.lines[i] # Garbled => Spent(attempts, legacy, usage.lines[i])

Kept ==
  /\ \A id \in Runs : transcripts[id] # 0 =>
       /\ transcripts[id] \in DOMAIN attempts /\ attempts[transcripts[id]].id = id
       /\ NotBefore(attempts, legacy, id, transcripts[id])
  /\ runner.pc # "idle" => runner.attempt \in DOMAIN attempts /\ runner.attempt > legacy

(* The ledger has a number for a run, unless it was spoiled.                *)
Backed(file, id) ==
  file.torn = 0 =>
    \E i \in DOMAIN file.lines :
      /\ file.lines[i] # Garbled
      /\ file.lines[i].u.id = id /\ file.lines[i].u.status = "measured"

LabelsBacked ==
  /\ usage.torn = 0 => ~usage.open
  /\ \A i \in DOMAIN results.lines :
       results.lines[i] # Garbled /\ results.lines[i].status = "recovered_in_ledger"
         => Backed(usage, results.lines[i].id)
  /\ \A i \in DOMAIN pass.rows :
       pass.rows[i].status = "recovered_in_ledger" => Backed(usage, pass.rows[i].id)
  /\ \A id \in Runs : pass.ledger[id] = "measured" => Backed(usage, id)

(* And with the passes offline: the sweep is at rest while one is under     *)
(* way, what it has in hand has no ledger row yet, a retrofit knows every   *)
(* ledger row there is and a stamp every row.                               *)
Offline == runner.pc = "idle" \/ Resting(pass.pc)

InHand ==
  runner.pc # "idle" =>
    \A i \in DOMAIN usage.lines :
      usage.lines[i] # Garbled => usage.lines[i].of # runner.attempt

Streaming ==
  pass.pc = "stream" =>
    /\ \A i \in DOMAIN usage.lines :
         usage.lines[i] # Garbled => usage.lines[i].u.id \in pass.already
    /\ \A i \in DOMAIN results.lines :
         i < pass.at /\ results.lines[i] # Garbled => results.lines[i].id \in pass.already
    /\ usage.torn = 0 =>
         \A id \in pass.already : \E i \in DOMAIN usage.lines :
           usage.lines[i] # Garbled /\ usage.lines[i].u.id = id

Copied == pass.pc \in {"ledger", "replace"} => pass.rows = results.lines

(***************************************************************************)
(* What an output says of its session.                                     *)
(***************************************************************************)

(* Induction, for a set of numbers: a least number outside of it would have *)
(* a predecessor in it.                                                     *)
LEMMA Induction ==
  ASSUME NEW S, 0 \in S, \A n \in S \cap Nat : n + 1 \in S
  PROVE  Nat \subseteq S
<1> DEFINE T == {n \in Nat : n \notin S}
<1> SUFFICES ASSUME T # {}
             PROVE  FALSE
  OBVIOUS
<1>1. \E x \in T : \A y \in T : ~(<<y, x>> \in OpToRel(<, Nat))
  BY NatLessThanWellFounded, WFMin
<1>2. PICK x \in T : \A y \in T : ~(<<y, x>> \in OpToRel(<, Nat))
  BY <1>1
<1>3. x \in Nat /\ x # 0 /\ x - 1 \in Nat /\ (x - 1) + 1 = x
  OBVIOUS
<1>4. x - 1 \in T
  BY <1>3
<1>5. <<x - 1, x>> \in OpToRel(<, Nat)
  BY <1>3 DEF OpToRel
<1> QED
  BY <1>2, <1>4, <1>5

LEMMA Elements ==
  ASSUME NEW S, NEW s \in Seq(S)
  PROVE  DOMAIN s = 1..Len(s) /\ Len(s) \in Nat /\ \A i \in DOMAIN s : s[i] \in S
OBVIOUS

(* The loop of Sum: n elements into it, and all of it.                      *)
Added(s, at, field, f, n) ==
  IF n = 0 THEN 0 ELSE f[n - 1] + (IF n \in at THEN s[n][field] ELSE 0)

Adds(s, at, field, n, f) ==
  /\ f = [m \in 0..n |-> f[m]]
  /\ \A m \in 0..n : f[m] = Added(s, at, field, f, m)

LEMMA AddsEnds ==
  ASSUME NEW s, NEW at, NEW field
  PROVE  \A n \in Nat : \E f : Adds(s, at, field, n, f)
<1> DEFINE S == {n \in Nat : \E f : Adds(s, at, field, n, f)}
<1>1. 0 \in S
  <2>1. Adds(s, at, field, 0, [m \in 0..0 |-> 0])
    BY DEF Adds, Added
  <2> QED
    BY <2>1
<1>2. ASSUME NEW n \in S \cap Nat PROVE n + 1 \in S
  <2>1. PICK f : Adds(s, at, field, n, f)
    BY <1>2
  <2> DEFINE g == [m \in 0..(n + 1) |->
                     IF m = n + 1 THEN Added(s, at, field, f, m) ELSE f[m]]
  <2>2. \A m \in 0..n : g[m] = f[m]
    OBVIOUS
  <2>3. g[n + 1] = Added(s, at, field, f, n + 1)
    OBVIOUS
  <2>4. g = [m \in 0..(n + 1) |-> g[m]]
    OBVIOUS
  <2> HIDE DEF g
  <2>5. ASSUME NEW m \in 0..(n + 1)
        PROVE  g[m] = Added(s, at, field, g, m)
    <3>1. g[m] = Added(s, at, field, f, m)
      BY <2>1, <2>2, <2>3 DEF Adds
    <3>2. m # 0 => g[m - 1] = f[m - 1]
      BY <2>2
    <3> QED
      BY <3>1, <3>2 DEF Added
  <2>6. Adds(s, at, field, n + 1, g)
    BY <2>4, <2>5 DEF Adds
  <2> QED
    BY <2>6
<1>3. Nat \subseteq S
  BY <1>1, <1>2, Induction
<1> QED
  BY <1>3

LEMMA SumAdds ==
  ASSUME NEW s, Len(s) \in Nat, NEW at, NEW field
  PROVE  \E f : Adds(s, at, field, Len(s), f) /\ Sum(s, at, field) = f[Len(s)]
<1> DEFINE N == Len(s)
           Eq(f) == f = [n \in 0..N |->
                           IF n = 0 THEN 0
                           ELSE f[n - 1] + (IF n \in at THEN s[n][field] ELSE 0)]
           upto == CHOOSE f : Eq(f)
<1>1. PICK f : Adds(s, at, field, N, f)
  BY AddsEnds
<1>2. f = [n \in 0..N |-> Added(s, at, field, f, n)]
  <2> DEFINE r == [n \in 0..N |-> Added(s, at, field, f, n)]
  <2>1. f = [n \in 0..N |-> f[n]] /\ \A n \in 0..N : f[n] = r[n]
    BY <1>1 DEF Adds
  <2>2. r = [n \in 0..N |-> r[n]]
    OBVIOUS
  <2> HIDE DEF r
  <2>3. [n \in 0..N |-> f[n]] = [n \in 0..N |-> r[n]]
    BY <2>1
  <2>4. f = r
    BY <2>1, <2>2, <2>3
  <2> QED
    BY <2>4 DEF r
<1>3. Eq(f)
  BY <1>2 DEF Added
<1>4. Eq(upto)
  BY <1>3
<1>5. Sum(s, at, field) = upto[N]
  BY DEF Sum
<1>6. upto = [n \in 0..N |-> Added(s, at, field, upto, n)]
  BY <1>4 DEF Added
<1> HIDE DEF upto
<1>7. Adds(s, at, field, N, upto)
  BY <1>6 DEF Adds
<1> QED
  BY <1>5, <1>7

LEMMA SumIsNat ==
  ASSUME NEW s, Len(s) \in Nat, NEW at, NEW field,
         \A n \in 1..Len(s) : n \in at => s[n][field] \in Nat
  PROVE  Sum(s, at, field) \in Nat
<1> DEFINE N == Len(s)
<1>1. PICK f : Adds(s, at, field, N, f) /\ Sum(s, at, field) = f[N]
  BY SumAdds
<1> DEFINE S == {n \in Nat : n <= N => f[n] \in Nat}
<1>2. 0 \in S
  <2>1. 0 \in 0..N
    OBVIOUS
  <2>2. f[0] = Added(s, at, field, f, 0)
    BY <1>1, <2>1 DEF Adds
  <2> QED
    BY <2>2 DEF Added
<1>3. ASSUME NEW n \in S \cap Nat PROVE n + 1 \in S
  <2> SUFFICES ASSUME n + 1 <= N
               PROVE  f[n + 1] \in Nat
    OBVIOUS
  <2>1. f[n] \in Nat /\ n + 1 \in 0..N /\ n + 1 # 0 /\ (n + 1) - 1 = n /\ n + 1 \in 1..N
    BY <1>3
  <2>2. f[n + 1] = Added(s, at, field, f, n + 1)
    BY <1>1, <2>1 DEF Adds
  <2>3. f[n + 1] = f[n] + (IF n + 1 \in at THEN s[n + 1][field] ELSE 0)
    BY <2>1, <2>2 DEF Added
  <2>4. CASE n + 1 \in at
    <3>1. s[n + 1][field] \in Nat
      BY <2>1, <2>4
    <3> QED
      BY <2>1, <2>3, <2>4, <3>1
  <2>5. CASE n + 1 \notin at
    BY <2>1, <2>3, <2>5
  <2> QED
    BY <2>4, <2>5
<1>4. Nat \subseteq S
  BY <1>2, <1>3, Induction
<1>5. N \in S
  BY <1>4
<1> QED
  BY <1>1, <1>5

(* One element, the second of two.                                          *)
LEMMA SumOfOne ==
  ASSUME NEW s, Len(s) = 2, NEW field, s[2][field] \in Nat
  PROVE  Sum(s, {2}, field) = s[2][field]
<1>0. Len(s) \in Nat
  OBVIOUS
<1>1. PICK f : Adds(s, {2}, field, Len(s), f) /\ Sum(s, {2}, field) = f[Len(s)]
  BY <1>0, SumAdds
<1>2. f[0] = 0 /\ f[1] = f[0] + 0 /\ f[2] = f[1] + s[2][field]
  <2>1. 0 \in 0..2 /\ 1 \in 0..2 /\ 2 \in 0..2
    OBVIOUS
  <2>2. /\ f[0] = Added(s, {2}, field, f, 0) /\ f[1] = Added(s, {2}, field, f, 1)
        /\ f[2] = Added(s, {2}, field, f, 2)
    BY <1>1, <2>1 DEF Adds
  <2>3. 1 - 1 = 0 /\ 2 - 1 = 1 /\ 1 \notin {2}
    OBVIOUS
  <2> QED
    BY <2>2, <2>3 DEF Added
<1>3. f[2] = s[2][field]
  BY <1>2
<1> QED
  BY <1>1, <1>3

Fields == {"fresh", "created", "read", "out"}

LEMMA TotalIsNat ==
  ASSUME NEW s \in Seq(Request), NEW field \in Fields
  PROVE  Total(s, field) \in Nat
<1>1. Len(s) \in Nat /\ \A n \in 1..Len(s) : s[n] \in Request
  OBVIOUS
<1>2. \A x \in Request : x[field] \in Nat
  BY DEF Request, Fields
<1> QED
  BY <1>1, <1>2, SumIsNat DEF Total

LEMMA ConsumedIsNat ==
  ASSUME NEW s \in Seq(Request)
  PROVE  Consumed(s) \in Nat
<1>1. Total(s, "fresh") \in Nat /\ Total(s, "created") \in Nat /\ Total(s, "read") \in Nat
  BY TotalIsNat DEF Fields
<1> QED
  BY <1>1 DEF Consumed

Details == [tokens_in : Nat, tokens_out : Nat, cache_read : Nat, cache_creation : Nat,
            turns : Nat]

LEMMA CutOffParsed ==
  ASSUME NEW family
  PROVE  ParseUsageDetailed(family, CutOff) = Detail(0, 0, 0, 0, 0)
<1>1. OfType(CutOff, "result") = {} /\ OfType(CutOff, "turn.completed") = {}
  BY DEF OfType, CutOff
<1>2. Cardinality({}) = 0
  BY FS_EmptySet
<1>3. ASSUME NEW field PROVE Sum(CutOff, {}, field) = 0
  <2>0. Len(CutOff) = 1 /\ Len(CutOff) \in Nat
    BY DEF CutOff
  <2>1. PICK f : Adds(CutOff, {}, field, Len(CutOff), f)
                 /\ Sum(CutOff, {}, field) = f[Len(CutOff)]
    BY <2>0, SumAdds
  <2>2. 0 \in 0..1 /\ 1 \in 0..1 /\ 1 - 1 = 0
    OBVIOUS
  <2>3. f[1] = Added(CutOff, {}, field, f, 1) /\ f[0] = Added(CutOff, {}, field, f, 0)
    BY <2>0, <2>1, <2>2 DEF Adds
  <2>4. f[0] = 0 /\ f[1] = f[0] + 0
    BY <2>2, <2>3 DEF Added
  <2> QED
    BY <2>0, <2>1, <2>4
<1>4. FromResult(CutOff) = Detail(0, 0, 0, 0, 0)
  BY <1>1 DEF FromResult
<1>5. FromTurns(CutOff) = Detail(0, 0, 0, 0, 0)
  BY <1>1, <1>2, <1>3 DEF FromTurns
<1> QED
  BY <1>4, <1>5 DEF ParseUsageDetailed

LEMMA EmittedParsed ==
  ASSUME NEW family, NEW s \in Seq(Request)
  PROVE  /\ ParseUsageDetailed(family, Emitted(family, s)) \in Details
         /\ ParseUsageDetailed(family, Emitted(family, s)).tokens_in = Consumed(s)
<1> DEFINE out == Emitted(family, s)
           F == Total(s, "fresh")
           C == Total(s, "created")
           R == Total(s, "read")
           O == Total(s, "out")
<1>1. F \in Nat /\ C \in Nat /\ R \in Nat /\ O \in Nat /\ Len(s) \in Nat
  BY TotalIsNat DEF Fields
<1>2. Consumed(s) = F + C + R /\ Consumed(s) \in Nat
  BY ConsumedIsNat DEF Consumed
<1> HIDE DEF F, C, R, O
<1>3. CASE ParsesClaudeJson(family)
  <2> DEFINE u == [type |-> "result", fresh |-> F, created |-> C, read |-> R, out |-> O,
                   turns |-> Len(s)]
  <2>1. out = <<[type |-> "text"], u>>
    BY <1>3 DEF Emitted, F, C, R, O
  <2>2. OfType(out, "result") = {2}
    BY <2>1 DEF OfType
  <2>3. Max({2}) = 2
    BY DEF Max
  <2>4. out[2] = u
    BY <2>1
  <2>5. FromResult(out) = Detail(u.fresh + u.created + u.read, u.out, u.read, u.created, u.turns)
    BY <2>2, <2>3, <2>4 DEF FromResult
  <2>6. FromResult(out) = Detail(F + C + R, O, R, C, Len(s))
    BY <2>5
  <2> HIDE DEF u, out
  <2> QED
    BY <1>1, <1>2, <1>3, <2>6 DEF ParseUsageDetailed, Detail, Details, out
<1>4. CASE ~ParsesClaudeJson(family)
  <2> DEFINE u == [type |-> "turn.completed", fresh |-> Consumed(s), read |-> R, out |-> O]
  <2>1. out = <<[type |-> "text"], u>>
    BY <1>4 DEF Emitted, F, C, R, O
  <2>2. OfType(out, "turn.completed") = {2}
    BY <2>1 DEF OfType
  <2>3. out[2] = u /\ Len(out) = 2
    BY <2>1
  <2>4. /\ out[2]["fresh"] = Consumed(s) /\ out[2]["out"] = O /\ out[2]["read"] = R
    BY <2>3
  <2>5. Cardinality({2}) = 1
    BY FS_Singleton
  <2> HIDE DEF u, out
  <2>6. /\ Sum(out, {2}, "fresh") = Consumed(s) /\ Sum(out, {2}, "out") = O
        /\ Sum(out, {2}, "read") = R
    BY <1>1, <1>2, <2>3, <2>4, SumOfOne
  <2>7. FromTurns(out) = Detail(Consumed(s), O, R, 0, 1)
    BY <2>2, <2>5, <2>6 DEF FromTurns
  <2> QED
    BY <1>1, <1>2, <1>4, <2>7 DEF ParseUsageDetailed, Detail, Details, out
<1> QED
  BY <1>3, <1>4

(* What is read off the output of an attempt.                               *)
LEMMA DetailIsTrue ==
  ASSUME SweepTypes, NEW k \in DOMAIN attempts
  PROVE  DetailOf(k) \in Details /\ DetailOf(k).tokens_in = Truth(attempts[k])
<1>1. attempts[k] \in Attempt /\ attempts[k].session \in Seq(Request)
  <2>1. attempts \in Seq(Attempt)
    BY DEF SweepTypes
  <2>2. attempts[k] \in Attempt
    BY <2>1, Elements
  <2> QED
    BY <2>2, UpkeepAssumption DEF Attempt
<1>2. CASE attempts[k].complete
  BY <1>1, <1>2, EmittedParsed DEF DetailOf, Output, Truth
<1>3. CASE ~attempts[k].complete
  <2>1. DetailOf(k) = Detail(0, 0, 0, 0, 0)
    BY <1>3, CutOffParsed DEF DetailOf, Output
  <2> QED
    BY <1>3, <2>1 DEF Detail, Details, Truth
<1> QED
  BY <1>2, <1>3

(***************************************************************************)
(* One append, and what each step leaves alone.                            *)
(***************************************************************************)

(* Of the old lines only an open one is spoiled; the one new line there may *)
(* be is the row.                                                           *)
Appended(file, row, cut, new) ==
  /\ \A i \in DOMAIN new.lines : new.lines[i] # Garbled =>
       \/ i \in DOMAIN file.lines /\ new.lines[i] = file.lines[i]
       \/ i = Len(file.lines) + 1 /\ new.lines[i] = row
  /\ \A i \in DOMAIN file.lines :
       /\ i \in DOMAIN new.lines
       /\ \/ new.lines[i] = file.lines[i]
          \/ file.open /\ i = Len(file.lines) /\ new.lines[i] = Garbled
  /\ new.torn = 0 => file.torn = 0 /\ cut = "whole" /\ ~new.open
  /\ ~file.open /\ cut = "whole" =>
       \E i \in DOMAIN new.lines : new.lines[i] = row

LEMMA WrittenAppends ==
  ASSUME NEW L, Garbled \in L, NEW file \in Files(L), NEW row \in L, NEW cut \in Cuts,
         NEW new, new = Written(file, row, cut)
  PROVE  new \in Files(L) /\ Appended(file, row, cut, new)
<1> DEFINE lines == file.lines
           line == IF cut = "prefix" THEN Garbled ELSE row
<1>1. /\ lines \in Seq(L) /\ Len(lines) \in Nat /\ DOMAIN lines = 1..Len(lines)
      /\ file.open \in BOOLEAN /\ file.torn \in Nat /\ file.appended \in Nat
      /\ \A i \in DOMAIN lines : lines[i] \in L
  BY Elements DEF Files
<1>2. /\ new.lines = IF file.open THEN [lines EXCEPT ![Len(lines)] = Garbled]
                     ELSE Append(lines, line)
      /\ new.open = (cut # "whole") /\ new.appended = file.appended + 1
      /\ new.torn = IF cut = "whole" THEN file.torn ELSE file.torn + 1
      /\ new = [lines |-> new.lines, open |-> new.open, appended |-> new.appended,
                torn |-> new.torn]
  BY DEF Written
<1>3. line \in L
  OBVIOUS
<1>4. /\ new.open \in BOOLEAN /\ new.appended \in Nat /\ new.torn \in Nat
      /\ new.torn = 0 => file.torn = 0 /\ cut = "whole" /\ ~new.open
  <2>1. cut = "whole" => ~new.open /\ new.torn = file.torn
    BY <1>2
  <2>2. cut # "whole" => new.open /\ new.torn = file.torn + 1
    BY <1>2
  <2>3. new.open \in BOOLEAN
    BY <1>2
  <2> QED
    BY <1>1, <1>2, <2>1, <2>2, <2>3
<1>5. new.lines \in Seq(L) => new \in Files(L)
  BY <1>2, <1>4 DEF Files
<1>6. CASE file.open
  <2>1. new.lines = [lines EXCEPT ![Len(lines)] = Garbled]
    BY <1>2, <1>6
  <2>2. DOMAIN new.lines = DOMAIN lines /\ \A i \in DOMAIN lines :
          new.lines[i] = IF i = Len(lines) THEN Garbled ELSE lines[i]
    BY <1>1, <2>1
  <2> DEFINE f == [i \in 1..Len(lines) |-> IF i = Len(lines) THEN Garbled ELSE lines[i]]
  <2>3. f \in Seq(L)
    BY <1>1
  <2>4. new.lines = f
    BY <1>1, <2>1
  <2> QED
    BY <1>4, <1>5, <1>6, <2>2, <2>3, <2>4 DEF Appended
<1>7. CASE ~file.open
  <2>1. new.lines = Append(lines, line)
    BY <1>2, <1>7
  <2> HIDE DEF line
  <2>2. /\ new.lines \in Seq(L) /\ DOMAIN new.lines = 1..(Len(lines) + 1)
        /\ \A i \in DOMAIN lines : new.lines[i] = lines[i]
        /\ new.lines[Len(lines) + 1] = line
    BY <1>1, <1>3, <2>1
  <2>3. \A i \in DOMAIN new.lines : i \in DOMAIN lines \/ i = Len(lines) + 1
    BY <1>1, <2>2
  <2>4. \A i \in DOMAIN lines : i \in DOMAIN new.lines
    BY <1>1, <2>2
  <2>5. Len(lines) + 1 \in DOMAIN new.lines
    BY <1>1, <2>2
  <2>6. (line = Garbled \/ line = row) /\ (cut = "whole" => line = row)
    BY DEF line
  <2> HIDE DEF lines
  <2>7. \A i \in DOMAIN new.lines : new.lines[i] # Garbled =>
          \/ i \in DOMAIN lines /\ new.lines[i] = lines[i]
          \/ i = Len(lines) + 1 /\ new.lines[i] = row
    BY <2>2, <2>3, <2>6
  <2> QED
    BY <1>4, <1>5, <2>2, <2>4, <2>5, <2>6, <2>7 DEF Appended, lines
<1> QED
  BY <1>1, <1>6, <1>7

Launches == \E id \in Runs : Launch(id)
Begins == \E kind \in Kinds : Begin(kind)

LEMMA Frames ==
  ASSUME Next \/ UNCHANGED vars
  PROVE  /\ results' = results \/ RecordRow \/ StampReplace
         /\ usage' = usage \/ RecordUsage \/ RetrofitLine
         /\ UNCHANGED <<transcripts, attempts>> \/ Launches
         /\ legacy' = legacy
         /\ \/ UNCHANGED runner
            \/ UNCHANGED pass /\ (Launches \/ RecordRow \/ RecordUsage \/ KillRunner)
         /\ UNCHANGED pass \/ Begins \/ PassStep \/ KillPass
<1>1. ASSUME NEW id, Launch(id) PROVE UNCHANGED <<results, usage, legacy, pass>>
  BY <1>1 DEF Launch
<1>2. RecordRow => UNCHANGED <<usage, transcripts, attempts, legacy, pass>>
  BY DEF RecordRow
<1>3. RecordUsage => UNCHANGED <<results, transcripts, attempts, legacy, pass>>
  BY DEF RecordUsage
<1>4. KillRunner => UNCHANGED <<results, usage, transcripts, attempts, legacy, pass>>
  BY DEF KillRunner
<1>5. ASSUME NEW kind, Begin(kind) PROVE UNCHANGED corpus
  BY <1>5 DEF Begin
<1>6. RetrofitScan \/ RetrofitEnd \/ StampRows \/ StampLedger \/ KillPass => UNCHANGED corpus
  BY DEF RetrofitScan, RetrofitEnd, StampRows, StampLedger, KillPass
<1>7. RetrofitLine => UNCHANGED <<results, transcripts, attempts, legacy, runner>>
  BY DEF RetrofitLine
<1>8. StampReplace => UNCHANGED <<usage, transcripts, attempts, legacy, runner>>
  BY DEF StampReplace
<1>9. UNCHANGED corpus => UNCHANGED <<results, usage, transcripts, attempts, legacy, runner>>
  BY DEF corpus
<1>10. UNCHANGED vars => UNCHANGED <<results, usage, transcripts, attempts, legacy, runner, pass>>
  BY DEF vars, corpus
<1>11. \/ Launches \/ RecordRow \/ RecordUsage \/ KillRunner
       \/ Begins \/ PassStep \/ KillPass \/ UNCHANGED vars
  BY DEF Next, Sweep, Launches, Begins
<1>12. CASE Launches
  BY <1>1, <1>12 DEF Launches
<1>13. CASE RecordRow
  BY <1>2, <1>13
<1>14. CASE RecordUsage
  BY <1>3, <1>14
<1>15. CASE KillRunner
  BY <1>4, <1>15
<1>16. CASE Begins
  BY <1>5, <1>9, <1>16 DEF Begins
<1>17. CASE PassStep
  BY <1>6, <1>7, <1>8, <1>9, <1>17 DEF PassStep
<1>18. CASE KillPass
  BY <1>6, <1>9, <1>18
<1>19. CASE UNCHANGED vars
  BY <1>10, <1>19
<1> QED
  BY <1>11, <1>12, <1>13, <1>14, <1>15, <1>16, <1>17, <1>18, <1>19

(* Of the attempts only the list grows.                                     *)
Grown(all, more) ==
  \A k \in DOMAIN all : k \in DOMAIN more /\ more[k] = all[k]

LEMMA Launched ==
  ASSUME SweepTypes, NEW id \in Runs, Launch(id)
  PROVE  /\ attempts' \in Seq(Attempt) /\ Len(attempts') = Len(attempts) + 1
         /\ Len(attempts) \in Nat /\ DOMAIN attempts = 1..Len(attempts)
         /\ DOMAIN attempts' = 1..Len(attempts')
         /\ Grown(attempts, attempts') /\ attempts'[Len(attempts')].id = id
<1>1. attempts \in Seq(Attempt)
  BY DEF SweepTypes
<1>2. PICK session \in Sessions, complete \in BOOLEAN :
        attempts' = Append(attempts, [id |-> id, session |-> session,
                                      complete |-> complete, archived |-> TRUE])
  BY DEF Launch
<1> DEFINE a == [id |-> id, session |-> session, complete |-> complete, archived |-> TRUE]
<1>3. a \in Attempt /\ a.id = id
  BY DEF Attempt
<1> HIDE DEF a
<1>4. attempts' = Append(attempts, a)
  BY <1>2 DEF a
<1> QED
  BY <1>1, <1>3, <1>4 DEF Grown

LEMMA AttemptsMove ==
  ASSUME SweepTypes, Next \/ UNCHANGED vars
  PROVE  Grown(attempts, attempts') /\ legacy' = legacy
<1>1. CASE Launches
  BY <1>1, Launched, Frames DEF Launches
<1>2. CASE UNCHANGED attempts
  BY <1>2, Frames DEF Grown
<1> QED
  BY <1>1, <1>2, Frames

LEMMA HonestStays ==
  ASSUME NEW all, NEW more, Grown(all, more), NEW old, NEW row, Honest(all, old, row)
  PROVE  Honest(more, old, row)
<1>1. row.attempt \in DOMAIN more /\ more[row.attempt] = all[row.attempt]
  BY DEF Grown, Honest
<1> QED
  BY <1>1 DEF Honest

LEMMA NotBeforeStays ==
  ASSUME NEW all, NEW more, Grown(all, more), NEW old, 1..old \subseteq DOMAIN all,
         NEW id, NEW k, NotBefore(all, old, id, k)
  PROVE  NotBefore(more, old, id, k)
<1>1. \A j \in 1..old : more[j] = all[j]
  BY DEF Grown
<1> QED
  BY <1>1 DEF NotBefore

LEMMA SpentStays ==
  ASSUME NEW all, NEW more, Grown(all, more), NEW old, 1..old \subseteq DOMAIN all,
         NEW line, Spent(all, old, line)
  PROVE  Spent(more, old, line)
<1>1. line.of \in DOMAIN more /\ more[line.of] = all[line.of]
  BY DEF Grown, Spent
<1>2. NotBefore(all, old, line.u.id, line.of) => NotBefore(more, old, line.u.id, line.of)
  BY NotBeforeStays
<1> QED
  BY <1>1, <1>2 DEF Spent

(***************************************************************************)
(* What is written: the rows of a sweep, the ledger rows, the labels.      *)
(***************************************************************************)

LEMMA NotSpoiled ==
  /\ \A row \in RowType : row # Garbled
  /\ \A line \in UsageType : line # Garbled
<1>1. ASSUME NEW row \in RowType PROVE row # Garbled
  <2>1. row.id \in Runs
    BY DEF RowType
  <2> QED
    BY <2>1, UpkeepAssumption
<1>2. ASSUME NEW line \in UsageType PROVE line # Garbled
  <2>1. DOMAIN line = {"u", "of"}
    BY DEF UsageType
  <2>2. DOMAIN Garbled = {"id", "row", "why"}
    BY DEF Garbled
  <2>3. "of" \in DOMAIN line /\ "of" \notin DOMAIN Garbled
    BY <2>1, <2>2
  <2> QED
    BY <2>3
<1> QED
  BY <1>1, <1>2

Numbers == [id : Runs, kind : {"worker"}, tokens_in : Nat, usd : Int, status : Recoveries]

LEMMA UsdIsInt ==
  ASSUME NEW family, NEW d \in Details
  PROVE  UsdEstimate(family, d) \in Int
<1> DEFINE rest == d.tokens_in - d.cache_read - d.cache_creation
           fresh == IF rest > 0 THEN rest ELSE 0
<1>1. /\ d.tokens_in \in Int /\ d.cache_read \in Int /\ d.cache_creation \in Int
      /\ d.tokens_out \in Int
  BY DEF Details
<1>2. fresh \in Int
  BY <1>1
<1>3. CASE family \in DOMAIN PRICING
  <2>1. PRICING[family] = [in_fresh |-> 30, in_cache_read |-> 3, in_cache_write |-> 30,
                           out |-> 150]
    BY <1>3 DEF PRICING
  <2>2. UsdEstimate(family, d) =
          fresh * 30 + d.cache_read * 3 + d.cache_creation * 30 + d.tokens_out * 150
    BY <1>3, <2>1 DEF UsdEstimate
  <2> HIDE DEF fresh
  <2> QED
    BY <1>1, <1>2, <2>2
<1>4. CASE family \notin DOMAIN PRICING
  BY <1>4 DEF UsdEstimate, Unpriced
<1> QED
  BY <1>3, <1>4

LEMMA Built ==
  ASSUME NEW id \in Runs, NEW family, NEW stored \in Nat, NEW detail,
         detail \in Details \/ detail = NoDetail
  PROVE  LET u == BuildUsageRow(id, "worker", family, detail, stored)
         IN /\ u \in Numbers /\ u.id = id
            /\ detail \in Details => u.tokens_in = detail.tokens_in
            /\ detail = NoDetail => u.tokens_in = stored
            /\ detail = NoDetail /\ u.status = "measured" => family = "codex"
<1> DEFINE d == IF detail = NoDetail THEN Detail(stored, 0, 0, 0, 0) ELSE detail
           status == RetrofitStatus(family, detail, stored)
           u == BuildUsageRow(id, "worker", family, detail, stored)
<1>1. detail \in Details => detail # NoDetail
  BY DEF Details, NoDetail, Detail
<1>2. d \in Details /\ (detail = NoDetail => d.tokens_in = stored)
  BY DEF Details, Detail
<1>3. status \in Recoveries /\ (detail = NoDetail /\ status = "measured" => family = "codex")
  <2>1. CASE detail # NoDetail
    BY <2>1 DEF RetrofitStatus, Recoveries
  <2>2. CASE detail = NoDetail /\ stored = 0
    <3>1. status = "not_applicable_zero_tokens"
      BY <2>2 DEF RetrofitStatus
    <3> QED
      BY <3>1 DEF Recoveries
  <2>3. CASE detail = NoDetail /\ stored # 0 /\ family = "codex"
    BY <2>3 DEF RetrofitStatus, Recoveries
  <2>4. CASE detail = NoDetail /\ stored # 0 /\ family # "codex"
    <3>1. status = "unfixable_floor_only"
      BY <2>4 DEF RetrofitStatus
    <3> QED
      BY <3>1 DEF Recoveries
  <2> QED
    BY <2>1, <2>2, <2>3, <2>4
<1>4. u = [id |-> id, kind |-> "worker", tokens_in |-> d.tokens_in,
           usd |-> UsdEstimate(family, d), status |-> status]
  BY DEF BuildUsageRow
<1>5. UsdEstimate(family, d) \in Int
  BY <1>2, UsdIsInt
<1>6. d.tokens_in \in Nat
  BY <1>2 DEF Details
<1>7. detail \in Details => d = detail
  BY <1>1
<1> HIDE DEF d, status, u
<1>8. u \in Numbers
  BY <1>3, <1>4, <1>5, <1>6 DEF Numbers
<1>9. u.id = id /\ u.tokens_in = d.tokens_in /\ u.status = status
  BY <1>4
<1> QED
  BY <1>2, <1>3, <1>7, <1>8, <1>9 DEF u

(* The row and the ledger row of the attempt a sweep has in hand.           *)
RowOf(k) ==
  Row(attempts[k].id, k, DetailOf(k).tokens_in, USAGE_PARSER_VERSION,
      TokensInStatus(Family[attempts[k].id], USAGE_PARSER_VERSION, "none"),
      InvocationMode(Family[attempts[k].id]))

LineOf(k) ==
  [u |-> BuildUsageRow(attempts[k].id, "worker", Family[attempts[k].id], DetailOf(k),
                       DetailOf(k).tokens_in),
   of |-> k]

LEMMA ModeTyped ==
  ASSUME NEW family
  PROVE  InvocationMode(family) \in {"single_shot", "multi_turn", "unknown"}
BY DEF InvocationMode, FAMILY_INVOCATION_MODE

LEMMA RowOfIsHonest ==
  ASSUME SweepTypes, Kept, runner.pc # "idle", NEW k, k = runner.attempt
  PROVE  RowOf(k) \in RowType /\ Honest(attempts, legacy, RowOf(k))
<1>1. k \in DOMAIN attempts /\ k > legacy /\ k \in Nat /\ legacy \in Nat
  BY DEF Kept, SweepTypes
<1>2. DetailOf(k) \in Details /\ DetailOf(k).tokens_in = Truth(attempts[k])
  BY <1>1, DetailIsTrue
<1>3. DetailOf(k).tokens_in \in Nat
  BY <1>2 DEF Details
<1>4. attempts[k].id \in Runs
  <2>1. attempts \in Seq(Attempt)
    BY DEF SweepTypes
  <2>2. attempts[k] \in Attempt
    BY <1>1, <2>1, Elements
  <2> QED
    BY <2>2 DEF Attempt
<1> DEFINE status == TokensInStatus(Family[attempts[k].id], USAGE_PARSER_VERSION, "none")
           mode == InvocationMode(Family[attempts[k].id])
           id == attempts[k].id
           tokens == DetailOf(k).tokens_in
<1>5. status = "measured"
  BY DEF TokensInStatus, USAGE_PARSER_VERSION
<1>6. mode \in {"single_shot", "multi_turn", "unknown"}
  BY ModeTyped
<1>7. RowOf(k) = [id |-> id, attempt |-> k, tokens_in |-> tokens,
                  version |-> USAGE_PARSER_VERSION, status |-> status, mode |-> mode]
  BY DEF RowOf, Row
<1>8. USAGE_PARSER_VERSION \in 0..USAGE_PARSER_VERSION
  BY DEF USAGE_PARSER_VERSION
<1>9. id = attempts[k].id /\ tokens = DetailOf(k).tokens_in
  OBVIOUS
<1> HIDE DEF status, mode, id, tokens
<1>10. RowOf(k) \in RowType
  BY <1>1, <1>3, <1>4, <1>5, <1>6, <1>7, <1>8, <1>9 DEF RowType, Statuses
<1>11. ~(k <= legacy)
  BY <1>1
<1>12. /\ RowOf(k).attempt = k /\ RowOf(k).id = id /\ RowOf(k).version = USAGE_PARSER_VERSION
       /\ RowOf(k).status = "measured" /\ RowOf(k).tokens_in = tokens
  BY <1>5, <1>7
<1> QED
  BY <1>1, <1>2, <1>9, <1>10, <1>11, <1>12 DEF Honest

LEMMA LineOfIsSpent ==
  ASSUME SweepTypes, NEW k \in DOMAIN attempts, k > legacy
  PROVE  /\ LineOf(k) \in UsageType /\ Spent(attempts, legacy, LineOf(k))
         /\ LineOf(k).of = k /\ LineOf(k).u.id = attempts[k].id
<1>1. DetailOf(k) \in Details /\ DetailOf(k).tokens_in = Truth(attempts[k])
  BY DetailIsTrue
<1>2. attempts[k].id \in Runs /\ k \in Nat
  <2>1. attempts \in Seq(Attempt)
    BY DEF SweepTypes
  <2>2. attempts[k] \in Attempt /\ k \in Nat
    BY <2>1, Elements
  <2> QED
    BY <2>2 DEF Attempt
<1>3. DetailOf(k).tokens_in \in Nat
  BY <1>1 DEF Details
<1> DEFINE id == attempts[k].id
           u == BuildUsageRow(id, "worker", Family[id], DetailOf(k), DetailOf(k).tokens_in)
<1>4. u \in Numbers /\ u.id = id /\ u.tokens_in = DetailOf(k).tokens_in
  BY <1>1, <1>2, <1>3, Built
<1>5. LineOf(k) = [u |-> u, of |-> k]
  BY DEF LineOf
<1>6. NotBefore(attempts, legacy, id, k)
  <2>1. legacy \in Nat
    BY DEF SweepTypes
  <2> QED
    BY <1>2, <2>1 DEF NotBefore
<1> HIDE DEF u
<1> QED
  BY <1>1, <1>2, <1>4, <1>5, <1>6 DEF UsageType, Numbers, Spent

(* A retrofit spends an attempt of the run it is about, and what it says it *)
(* measured it did.                                                         *)
LEMMA RetrofittedIsSpent ==
  ASSUME SweepTypes, Kept, NEW row \in RowType, Honest(attempts, legacy, row)
  PROVE  /\ Retrofitted(row) \in UsageType /\ Spent(attempts, legacy, Retrofitted(row))
         /\ Retrofitted(row).u.id = row.id
<1> DEFINE id == row.id
           k == transcripts[id]
           parsed == k # 0 /\ ParsesClaudeJson(Family[id])
           detail == IF parsed THEN ParseUsageDetailed(Family[id], Output(k)) ELSE NoDetail
           u == BuildUsageRow(id, "worker", Family[id], detail, row.tokens_in)
           of == IF detail = NoDetail THEN row.attempt ELSE k
<1>1. id \in Runs /\ row.tokens_in \in Nat /\ row.attempt \in Nat
  BY DEF RowType
<1>2. Retrofitted(row) = [u |-> u, of |-> of]
  BY DEF Retrofitted
<1>3. k \in Nat /\ legacy \in Nat
  BY <1>1 DEF SweepTypes
<1>4. CASE parsed
  <2>1. k \in DOMAIN attempts /\ attempts[k].id = id /\ NotBefore(attempts, legacy, id, k)
    BY <1>1, <1>4 DEF Kept
  <2>2. detail = DetailOf(k)
    BY <1>4, <2>1 DEF DetailOf
  <2>3. detail \in Details /\ detail.tokens_in = Truth(attempts[k])
    BY <2>1, <2>2, DetailIsTrue
  <2>4. of = k
    BY <2>3 DEF Details, NoDetail, Detail
  <2> HIDE DEF detail, of, k, id
  <2>5. u \in Numbers /\ u.id = id /\ u.tokens_in = detail.tokens_in
    BY <1>1, <2>3, Built DEF id
  <2> HIDE DEF u
  <2>6. id = row.id
    BY DEF id
  <2> QED
    BY <1>2, <1>3, <2>1, <2>3, <2>4, <2>5, <2>6 DEF UsageType, Numbers, Spent
<1>5. CASE ~parsed
  <2>1. detail = NoDetail
    BY <1>5
  <2>2. of = row.attempt
    BY <2>1
  <2>3. row.attempt \in DOMAIN attempts /\ attempts[row.attempt].id = id
    BY DEF Honest
  <2> HIDE DEF detail, of, k, id
  <2>4. /\ u \in Numbers /\ u.id = id /\ u.tokens_in = row.tokens_in
        /\ u.status = "measured" => Family[id] = "codex"
    BY <1>1, <2>1, Built DEF id
  <2> HIDE DEF u
  <2>5. id = row.id
    BY DEF id
  <2>6. Family[id] = "codex" => row.tokens_in = Truth(attempts[row.attempt])
    <3>1. CASE row.attempt > legacy
      BY <3>1 DEF Honest
    <3>2. CASE row.attempt <= legacy
      <4>1. row.tokens_in = RecordedBefore(attempts[row.attempt])
        BY <3>2 DEF Honest
      <4>2. CASE attempts[row.attempt].complete
        BY <2>3, <4>1, <4>2 DEF RecordedBefore, Truth
      <4>3. CASE ~attempts[row.attempt].complete
        BY <4>1, <4>3 DEF RecordedBefore, Truth
      <4> QED
        BY <4>2, <4>3
    <3> QED
      BY <1>1, <1>3, <3>1, <3>2
  <2> QED
    BY <1>1, <1>2, <2>2, <2>3, <2>4, <2>5, <2>6 DEF UsageType, Numbers, Spent
<1> QED
  BY <1>4, <1>5

LEMMA StatusTyped ==
  ASSUME NEW family, NEW version, NEW ledgered
  PROVE  TokensInStatus(family, version, ledgered) \in Statuses
BY DEF TokensInStatus, Statuses

(* A label says what is so, whatever the number on the row.                 *)
LEMMA StampedIsHonest ==
  ASSUME PassTypes, legacy \in Nat, NEW row \in RowType, Honest(attempts, legacy, row)
  PROVE  /\ Stamped(row) \in RowType /\ Honest(attempts, legacy, Stamped(row))
         /\ Recorded(Stamped(row)) = Recorded(row) /\ Stamped(row).id = row.id
         /\ Stamped(row).status = "recovered_in_ledger" =>
              row.status = "recovered_in_ledger" \/ pass.ledger[row.id] = "measured"
<1>1. /\ row.id \in Runs /\ row.attempt \in Nat /\ row.tokens_in \in Nat
      /\ row.version \in 0..2
      /\ row.status \in Statuses \cup {Absent}
      /\ row.mode \in {"single_shot", "multi_turn", "unknown", Absent}
      /\ row = [id |-> row.id, attempt |-> row.attempt, tokens_in |-> row.tokens_in,
                version |-> row.version, status |-> row.status, mode |-> row.mode]
  BY DEF RowType, USAGE_PARSER_VERSION
<1>2. row # Garbled
  BY NotSpoiled
<1>3. CASE pass.kind = "stamp-provenance"
  <2> DEFINE version == Version(row)
             status == TokensInStatus(Family[row.id], version, pass.ledger[row.id])
  <2>1. Stamped(row) = [row EXCEPT !.version = version, !.status = status]
    BY <1>3 DEF Stamped, Provenance
  <2>2. version \in 0..2 /\ (row.attempt > legacy => version = 2)
        /\ (row.attempt <= legacy => version = 1)
    BY <1>1 DEF Version, ParserVersionAt, PRE_CACHE_FIX, USAGE_PARSER_VERSION, Honest
  <2>3. status \in Statuses
    BY StatusTyped
  <2>4. /\ version = 2 => status = "measured"
        /\ version = 1 /\ status = "measured" => Family[row.id] = "codex"
        /\ version = 1 /\ status = "recovered_in_ledger" =>
             pass.ledger[row.id] = "measured" /\ Family[row.id] # "codex"
    BY DEF TokensInStatus, USAGE_PARSER_VERSION, UNAFFECTED_PARSE_BRANCHES
  <2> HIDE DEF version, status
  <2>5. Stamped(row) = [id |-> row.id, attempt |-> row.attempt, tokens_in |-> row.tokens_in,
                        version |-> version, status |-> status, mode |-> row.mode]
    BY <1>1, <2>1
  <2>6. Stamped(row) \in RowType
    BY <1>1, <2>2, <2>3, <2>5 DEF RowType, USAGE_PARSER_VERSION
  <2>7. /\ Stamped(row).id = row.id /\ Stamped(row).attempt = row.attempt
        /\ Stamped(row).tokens_in = row.tokens_in
        /\ Stamped(row).version = version /\ Stamped(row).status = status
    BY <2>5
  <2>8. Stamped(row) # Garbled
    BY <2>6, NotSpoiled
  <2>9. status # Absent
    BY <2>3 DEF Statuses, Absent
  <2>10. Honest(attempts, legacy, Stamped(row))
    <3>1. CASE row.attempt > legacy
      BY <1>1, <2>2, <2>4, <2>7, <3>1 DEF Honest, USAGE_PARSER_VERSION
    <3>2. CASE row.attempt <= legacy
      BY <1>1, <2>2, <2>4, <2>7, <2>9, <3>2 DEF Honest, USAGE_PARSER_VERSION
    <3> QED
      BY <1>1, <3>1, <3>2
  <2>11. status = "recovered_in_ledger" => pass.ledger[row.id] = "measured"
    <3>1. CASE row.attempt > legacy
      BY <2>2, <2>4, <3>1
    <3>2. CASE row.attempt <= legacy
      BY <2>2, <2>4, <3>2
    <3> QED
      BY <1>1, <3>1, <3>2
  <2> QED
    BY <1>2, <2>6, <2>7, <2>8, <2>10, <2>11 DEF Recorded
<1>4. CASE pass.kind # "stamp-provenance"
  <2> DEFINE mode == IF row.mode = Absent THEN InvocationMode(Family[row.id]) ELSE row.mode
  <2>1. Stamped(row) = [row EXCEPT !.mode = mode]
    BY <1>4 DEF Stamped, Moded
  <2>2. mode \in {"single_shot", "multi_turn", "unknown", Absent}
    BY <1>1, ModeTyped
  <2> HIDE DEF mode
  <2>3. Stamped(row) = [id |-> row.id, attempt |-> row.attempt, tokens_in |-> row.tokens_in,
                        version |-> row.version, status |-> row.status, mode |-> mode]
    BY <1>1, <2>1
  <2>4. Stamped(row) \in RowType
    BY <1>1, <2>2, <2>3 DEF RowType, USAGE_PARSER_VERSION
  <2>5. /\ Stamped(row).id = row.id /\ Stamped(row).attempt = row.attempt
        /\ Stamped(row).tokens_in = row.tokens_in
        /\ Stamped(row).version = row.version /\ Stamped(row).status = row.status
    BY <2>3
  <2>6. Stamped(row) # Garbled
    BY <2>4, NotSpoiled
  <2>7. Honest(attempts, legacy, Stamped(row))
    BY <2>5 DEF Honest
  <2> QED
    BY <1>2, <2>4, <2>5, <2>6, <2>7 DEF Recorded
<1> QED
  BY <1>3, <1>4

(***************************************************************************)
(* The types, step by step.                                                *)
(***************************************************************************)

(* What an append to either file does.                                      *)
LEMMA RowAppended ==
  ASSUME FileTypes, SweepTypes, Kept, RecordRow
  PROVE  \E cut \in Cuts :
           /\ results' \in Files(RowType \cup {Garbled})
           /\ Appended(results, RowOf(runner.attempt), cut, results')
           /\ RowOf(runner.attempt) \in RowType
           /\ Honest(attempts, legacy, RowOf(runner.attempt))
<1> DEFINE k == runner.attempt
<1>1. runner.pc # "idle" /\ \E cut \in Cuts : results' = Written(results, RowOf(k), cut)
  BY DEF RecordRow, RowOf
<1>2. RowOf(k) \in RowType /\ Honest(attempts, legacy, RowOf(k))
  BY <1>1, RowOfIsHonest
<1> HIDE DEF k
<1>3. PICK cut \in Cuts : results' = Written(results, RowOf(k), cut)
  BY <1>1
<1>4. results \in Files(RowType \cup {Garbled})
  BY DEF FileTypes
<1>5. RowOf(k) \in RowType \cup {Garbled} /\ Garbled \in RowType \cup {Garbled}
  BY <1>2
<1>6. results' \in Files(RowType \cup {Garbled}) /\ Appended(results, RowOf(k), cut, results')
  BY <1>3, <1>4, <1>5, WrittenAppends
<1> QED
  BY <1>2, <1>6 DEF k

LEMMA LineAppended ==
  ASSUME FileTypes, SweepTypes, Kept, RecordUsage
  PROVE  \E cut \in Cuts :
           /\ usage' \in Files(UsageType \cup {Garbled})
           /\ Appended(usage, LineOf(runner.attempt), cut, usage')
           /\ LineOf(runner.attempt) \in UsageType
           /\ Spent(attempts, legacy, LineOf(runner.attempt))
           /\ LineOf(runner.attempt).of = runner.attempt
<1> DEFINE k == runner.attempt
<1>1. runner.pc # "idle" /\ \E cut \in Cuts : usage' = Written(usage, LineOf(k), cut)
  BY DEF RecordUsage, LineOf
<1>2. k \in DOMAIN attempts /\ k > legacy
  BY <1>1 DEF Kept
<1>3. LineOf(k) \in UsageType /\ Spent(attempts, legacy, LineOf(k)) /\ LineOf(k).of = k
  BY <1>2, LineOfIsSpent
<1> HIDE DEF k
<1>4. PICK cut \in Cuts : usage' = Written(usage, LineOf(k), cut)
  BY <1>1
<1>5. usage \in Files(UsageType \cup {Garbled})
  BY DEF FileTypes
<1>6. LineOf(k) \in UsageType \cup {Garbled} /\ Garbled \in UsageType \cup {Garbled}
  BY <1>3
<1>7. usage' \in Files(UsageType \cup {Garbled}) /\ Appended(usage, LineOf(k), cut, usage')
  BY <1>4, <1>5, <1>6, WrittenAppends
<1> QED
  BY <1>3, <1>7 DEF k

(* A retrofit leaves a line, or writes a row about it.                      *)
LEMMA LineRetrofitted ==
  ASSUME FileTypes, SweepTypes, PassTypes, Kept, RowsHonest, RetrofitLine
  PROVE  LET row == results.lines[pass.at]
         IN /\ pass.at \in DOMAIN results.lines
            /\ pass' = [pass EXCEPT !.at = pass.at + 1, !.already = pass'.already]
            /\ \/ /\ row = Garbled \/ row.id \in pass.already
                  /\ usage' = usage /\ pass'.already = pass.already
               \/ /\ row \in RowType /\ row.id \notin pass.already
                  /\ pass'.already = pass.already \cup {row.id}
                  /\ Retrofitted(row) \in UsageType /\ Spent(attempts, legacy, Retrofitted(row))
                  /\ Retrofitted(row).u.id = row.id
                  /\ usage' \in Files(UsageType \cup {Garbled})
                  /\ \E cut \in Cuts : Appended(usage, Retrofitted(row), cut, usage')
<1> DEFINE row == results.lines[pass.at]
<1>1. pass.at \in DOMAIN results.lines /\ row \in RowType \cup {Garbled}
  <2>1. results.lines \in Seq(RowType \cup {Garbled})
    BY DEF FileTypes, Files
  <2>2. pass.at \in Nat \ {0} /\ pass.at <= Len(results.lines)
    BY DEF RetrofitLine, PassTypes
  <2>3. pass.at \in DOMAIN results.lines
    BY <2>1, <2>2, Elements
  <2> QED
    BY <2>1, <2>3, Elements
<1>2. CASE /\ row = Garbled \/ row.id \in pass.already
           /\ usage' = usage /\ pass' = [pass EXCEPT !.at = @ + 1]
  <2>1. pass'.already = pass.already
    BY <1>2 DEF PassTypes
  <2>2. pass' = [pass EXCEPT !.at = pass.at + 1, !.already = pass'.already]
    BY <1>2, <2>1 DEF PassTypes
  <2> QED
    BY <1>1, <1>2, <2>1, <2>2
<1>3. CASE /\ row # Garbled /\ row.id \notin pass.already
           /\ \E cut \in Cuts : usage' = Written(usage, Retrofitted(row), cut)
           /\ pass' = [pass EXCEPT !.at = @ + 1, !.already = @ \cup {row.id}]
  <2>1. row \in RowType /\ Honest(attempts, legacy, row)
    BY <1>1, <1>3 DEF RowsHonest
  <2>2. pass'.already = pass.already \cup {row.id}
    BY <1>3 DEF PassTypes
  <2>3. pass' = [pass EXCEPT !.at = pass.at + 1, !.already = pass'.already]
    BY <1>3, <2>2
  <2>4. /\ Retrofitted(row) \in UsageType /\ Spent(attempts, legacy, Retrofitted(row))
        /\ Retrofitted(row).u.id = row.id
    BY <2>1, RetrofittedIsSpent
  <2>5. PICK cut \in Cuts : usage' = Written(usage, Retrofitted(row), cut)
    BY <1>3
  <2>6. usage \in Files(UsageType \cup {Garbled}) /\ Garbled \in UsageType \cup {Garbled}
    BY DEF FileTypes
  <2> HIDE DEF row
  <2>7. Retrofitted(row) \in UsageType \cup {Garbled}
    BY <2>4
  <2>8. /\ usage' \in Files(UsageType \cup {Garbled})
        /\ Appended(usage, Retrofitted(row), cut, usage')
    BY <2>5, <2>6, <2>7, WrittenAppends
  <2> QED
    BY <1>1, <1>3, <2>1, <2>2, <2>3, <2>4, <2>8 DEF row
<1> QED
  BY <1>2, <1>3 DEF RetrofitLine

(* A set of positions that is not empty has a last one.                     *)
LEMMA LastOne ==
  ASSUME NEW n \in Nat, NEW S, S \subseteq 1..n, S # {}
  PROVE  Max(S) \in S /\ \A j \in S : j <= Max(S)
<1> DEFINE Below == {m \in Nat : \E x \in S : x + m = n}
           T == Below
<1>1. T # {} /\ T \subseteq Nat
  <2>1. PICK x \in S : x \in 1..n
    OBVIOUS
  <2>2. n - x \in Nat /\ x + (n - x) = n
    BY <2>1
  <2> QED
    BY <2>2
<1>2. \E m \in T : \A y \in T : ~(<<y, m>> \in OpToRel(<, Nat))
  BY <1>1, NatLessThanWellFounded, WFMin
<1>3. PICK m \in T : \A y \in T : ~(<<y, m>> \in OpToRel(<, Nat))
  BY <1>2
<1>30. m \in Nat
  BY <1>1, <1>3
<1>4. PICK x \in S : x + m = n
  BY <1>3
<1>5. ASSUME NEW j \in S PROVE j <= x
  <2>0. j \in 1..n /\ x \in 1..n
    OBVIOUS
  <2>1. j \in Int /\ x \in Int /\ m \in Nat /\ j <= n
    BY <1>30, <2>0
  <2>2. CASE j > x
    <3>1. n - j \in Nat /\ j + (n - j) = n /\ n - j < m
      BY <1>4, <2>1, <2>2
    <3>2. n - j \in T
      BY <3>1
    <3>3. <<n - j, m>> \in OpToRel(<, Nat)
      BY <2>1, <3>1 DEF OpToRel
    <3> QED
      BY <1>3, <3>2, <3>3
  <2> QED
    BY <2>1, <2>2
<1>6. x \in S /\ \A j \in S : x >= j
  <2>1. \A j \in S : j \in Int
    OBVIOUS
  <2> QED
    BY <1>5, <2>1
<1>7. Max(S) \in S /\ \A j \in S : Max(S) >= j
  BY <1>6 DEF Max
<1>8. \A j \in S : j \in Int
  OBVIOUS
<1> QED
  BY <1>7, <1>8

LEMMA LastLine ==
  ASSUME FileTypes, NEW S, S \subseteq DOMAIN usage.lines, S # {},
         \A i \in S : usage.lines[i] # Garbled
  PROVE  Max(S) \in S /\ usage.lines[Max(S)] \in UsageType
<1>1. usage.lines \in Seq(UsageType \cup {Garbled})
  BY DEF FileTypes, Files
<1>2. /\ DOMAIN usage.lines = 1..Len(usage.lines) /\ Len(usage.lines) \in Nat
      /\ \A i \in DOMAIN usage.lines : usage.lines[i] \in UsageType \cup {Garbled}
  BY <1>1, Elements
<1>3. Max(S) \in S
  BY <1>2, LastOne
<1> QED
  BY <1>2, <1>3

(* The labelled copy, or the file as it was.                                *)
LEMMA Relabelled ==
  ASSUME FileTypes, SweepTypes, PassTypes, RowsHonest, StampReplace
  PROVE  \/ results' = results
         \/ /\ results' \in Files(RowType \cup {Garbled})
            /\ DOMAIN results'.lines = DOMAIN pass.rows
            /\ \A i \in DOMAIN pass.rows :
                 /\ pass.rows[i] \in RowType /\ Honest(attempts, legacy, pass.rows[i])
                 /\ results'.lines[i] = Stamped(pass.rows[i])
<1> DEFINE lines == [i \in DOMAIN pass.rows |-> Stamped(pass.rows[i])]
<1>1. results' = results \/ results' = [results EXCEPT !.open = FALSE, !.lines = lines]
  BY DEF StampReplace
<1>2. pass.rows \in Seq(RowType) /\ legacy \in Nat
  BY DEF PassTypes, SweepTypes
<1>3. /\ DOMAIN pass.rows = 1..Len(pass.rows) /\ Len(pass.rows) \in Nat
      /\ \A i \in DOMAIN pass.rows :
           pass.rows[i] \in RowType /\ Honest(attempts, legacy, pass.rows[i])
  BY <1>2, Elements DEF RowsHonest
<1>4. \A i \in DOMAIN pass.rows : Stamped(pass.rows[i]) \in RowType
  BY <1>2, <1>3, StampedIsHonest
<1>5. lines \in Seq(RowType \cup {Garbled})
  BY <1>3, <1>4
<1>6. /\ DOMAIN lines = DOMAIN pass.rows
      /\ \A i \in DOMAIN pass.rows : lines[i] = Stamped(pass.rows[i])
  OBVIOUS
<1> HIDE DEF lines
<1>7. CASE results' = [results EXCEPT !.open = FALSE, !.lines = lines]
  <2>1. results' \in Files(RowType \cup {Garbled}) /\ results'.lines = lines
    BY <1>5, <1>7 DEF FileTypes, Files
  <2> QED
    BY <1>3, <1>6, <2>1
<1> QED
  BY <1>1, <1>7

LEMMA FilesStep ==
  ASSUME FileTypes, SweepTypes, PassTypes, Kept, RowsHonest, Next \/ UNCHANGED vars
  PROVE  FileTypes'
<1>1. results' \in Files(RowType \cup {Garbled})
  BY Frames, RowAppended, Relabelled DEF FileTypes
<1>2. usage' \in Files(UsageType \cup {Garbled})
  BY Frames, LineAppended, LineRetrofitted DEF FileTypes
<1> QED
  BY <1>1, <1>2 DEF FileTypes

LEMMA SweepStep ==
  ASSUME SweepTypes, Kept, Next \/ UNCHANGED vars
  PROVE  SweepTypes' /\ Kept'
<1> USE DEF SweepTypes, Kept
<1>1. ASSUME NEW id \in Runs, Launch(id)
      PROVE  SweepTypes' /\ Kept'
  <2> DEFINE n == Len(attempts')
  <2>1. /\ attempts' \in Seq(Attempt) /\ n = Len(attempts) + 1 /\ Len(attempts) \in Nat
        /\ DOMAIN attempts = 1..Len(attempts) /\ DOMAIN attempts' = 1..n
        /\ Grown(attempts, attempts') /\ attempts'[n].id = id
    BY <1>1, Launched
  <2>2. /\ transcripts' = [transcripts EXCEPT ![id] = n]
        /\ runner' = [pc |-> "row", attempt |-> n] /\ legacy' = legacy
    BY <1>1 DEF Launch
  <2> HIDE DEF n
  <2>3. \A x \in 0..Len(attempts) : x \in 0..n
    BY <2>1
  <2>4. n \in 0..n /\ n \in DOMAIN attempts' /\ n > legacy
    BY <2>1
  <2>5. transcripts' \in [Runs -> 0..n] /\ legacy' \in 0..n
    BY <2>2, <2>3, <2>4
  <2>6. runner' \in [pc : {"idle", "row", "usage"}, attempt : 0..n]
    BY <2>2, <2>4
  <2>7. ASSUME NEW r \in Runs, transcripts'[r] # 0
        PROVE  /\ transcripts'[r] \in DOMAIN attempts' /\ attempts'[transcripts'[r]].id = r
               /\ NotBefore(attempts', legacy, r, transcripts'[r])
    <3>1. CASE r = id
      <4>1. transcripts'[r] = n
        BY <2>2, <3>1
      <4>2. NotBefore(attempts', legacy, r, n)
        BY <2>1, <2>4 DEF NotBefore
      <4> QED
        BY <2>1, <2>4, <3>1, <4>1, <4>2
    <3>2. CASE r # id
      <4>1. transcripts'[r] = transcripts[r]
        BY <2>2, <3>2
      <4>2. /\ transcripts[r] \in DOMAIN attempts /\ attempts[transcripts[r]].id = r
            /\ NotBefore(attempts, legacy, r, transcripts[r])
        BY <2>7, <4>1
      <4>3. 1..legacy \subseteq DOMAIN attempts
        BY <2>1
      <4>4. NotBefore(attempts', legacy, r, transcripts[r])
        BY <2>1, <4>2, <4>3, NotBeforeStays
      <4> QED
        BY <2>1, <4>1, <4>2, <4>4 DEF Grown
    <3> QED
      BY <3>1, <3>2
  <2>8. runner'.attempt = n
    BY <2>2
  <2>9. SweepTypes'
    BY <2>1, <2>5, <2>6 DEF n
  <2>10. Kept'
    BY <2>2, <2>4, <2>7, <2>8
  <2> QED
    BY <2>9, <2>10
<1>2. CASE UNCHANGED <<transcripts, attempts>> /\ ~Launches
  <2>1. legacy' = legacy
    BY Frames
  <2>2. UNCHANGED runner \/ RecordRow \/ RecordUsage \/ KillRunner
    BY <1>2, Frames
  <2>3. /\ runner' \in [pc : {"idle", "row", "usage"}, attempt : 0..Len(attempts)]
        /\ runner'.attempt = runner.attempt /\ (runner.pc = "idle" => runner'.pc = "idle")
    BY <2>2 DEF RecordRow, RecordUsage, KillRunner
  <2> QED
    BY <1>2, <2>1, <2>3
<1> QED
  BY <1>1, <1>2, Frames DEF Launches

(* What a pass holds, field by field.                                       *)
PassOf(pc, kind, apply, begun, already, at, rows, ledger) ==
  [pc |-> pc, kind |-> kind, apply |-> apply, begun |-> begun, already |-> already,
   at |-> at, rows |-> rows, ledger |-> ledger]

LEMMA PassFields ==
  ASSUME PassTypes
  PROVE  /\ pass = PassOf(pass.pc, pass.kind, pass.apply, pass.begun, pass.already, pass.at,
                          pass.rows, pass.ledger)
         /\ pass.pc \in {"idle", "scan", "stream", "rows", "ledger", "replace", "done"}
         /\ pass.kind \in Kinds /\ pass.apply \in BOOLEAN /\ pass.begun \in Nat
         /\ pass.already \in SUBSET Runs /\ pass.at \in Nat \ {0}
         /\ pass.rows \in Seq(RowType) /\ pass.ledger \in [Runs -> Recoveries \cup {"none"}]
BY DEF PassTypes, PassOf

LEMMA PassTyped ==
  ASSUME NEW pc \in {"idle", "scan", "stream", "rows", "ledger", "replace", "done"},
         NEW kind \in Kinds, NEW apply \in BOOLEAN, NEW begun \in Nat,
         NEW already \in SUBSET Runs, NEW at \in Nat \ {0}, NEW rows \in Seq(RowType),
         NEW ledger \in [Runs -> Recoveries \cup {"none"}],
         pass' = PassOf(pc, kind, apply, begun, already, at, rows, ledger)
  PROVE  PassTypes'
BY DEF PassTypes, PassOf

LEMMA PassStepTypes ==
  ASSUME FileTypes, SweepTypes, PassTypes, Kept, RowsHonest, Next \/ UNCHANGED vars
  PROVE  PassTypes'
<1> DEFINE none == [id \in Runs |-> "none"]
           p == pass
<1>00. /\ p = PassOf(p.pc, p.kind, p.apply, p.begun, p.already, p.at, p.rows, p.ledger)
       /\ p.pc \in {"idle", "scan", "stream", "rows", "ledger", "replace", "done"}
       /\ p.kind \in Kinds /\ p.apply \in BOOLEAN /\ p.begun \in Nat
       /\ p.already \in SUBSET Runs /\ p.at \in Nat \ {0}
       /\ p.rows \in Seq(RowType) /\ p.ledger \in [Runs -> Recoveries \cup {"none"}]
  BY PassFields
<1>0. <<>> \in Seq(RowType) /\ none \in [Runs -> Recoveries \cup {"none"}]
      /\ {} \in SUBSET Runs /\ 1 \in Nat \ {0}
  OBVIOUS
<1>1. ASSUME NEW at \in {"idle", "done"}, Over(at)
      PROVE  PassTypes'
  <2>1. pass' = PassOf(at, p.kind, p.apply, p.begun, {}, 1, <<>>, none)
    BY <1>00, <1>1 DEF Over, PassOf
  <2> HIDE DEF none, p
  <2> QED
    BY <1>00, <1>0, <2>1, PassTyped
<1>2. CASE UNCHANGED pass
  BY <1>2 DEF PassTypes
<1>3. CASE Begins
  <2>1. PICK kind \in Kinds : Begin(kind)
    BY <1>3 DEF Begins
  <2>2. PICK apply \in BOOLEAN :
          pass' = [pass EXCEPT !.pc = First(kind), !.kind = kind, !.begun = @ + 1,
                               !.apply = apply]
    BY <2>1 DEF Begin
  <2>3. First(kind) \in {"scan", "rows"} /\ p.begun + 1 \in Nat
    BY <1>00 DEF First
  <2>4. pass' = PassOf(First(kind), kind, apply, p.begun + 1, p.already, p.at, p.rows, p.ledger)
    BY <1>00, <2>2 DEF PassOf
  <2> HIDE DEF p
  <2> QED
    BY <1>00, <2>3, <2>4, PassTyped
<1>4. CASE RetrofitScan
  <2> DEFINE ids == {line.u.id : line \in Parsed(usage)}
  <2>1. pass' = [pass EXCEPT !.pc = "stream", !.at = 1, !.already = ids]
    BY <1>4 DEF RetrofitScan
  <2>2. \A line \in Parsed(usage) : line \in UsageType
    <3>1. usage.lines \in Seq(UsageType \cup {Garbled})
      BY DEF FileTypes, Files
    <3> QED
      BY <3>1, Elements DEF Parsed
  <2>3. ids \in SUBSET Runs
    BY <2>2 DEF UsageType
  <2> HIDE DEF ids
  <2>4. pass' = PassOf("stream", p.kind, p.apply, p.begun, ids, 1, p.rows, p.ledger)
    BY <1>00, <2>1 DEF PassOf
  <2> HIDE DEF p
  <2> QED
    BY <1>00, <1>0, <2>3, <2>4, PassTyped
<1>5. CASE RetrofitLine
  <2>1. /\ pass' = [pass EXCEPT !.at = pass.at + 1, !.already = pass'.already]
        /\ pass'.already \in SUBSET Runs
    BY <1>00, <1>5, LineRetrofitted DEF RowType
  <2>2. pass' = PassOf(p.pc, p.kind, p.apply, p.begun, pass'.already, p.at + 1, p.rows, p.ledger)
    BY <1>00, <2>1 DEF PassOf
  <2>3. p.at + 1 \in Nat \ {0}
    BY <1>00
  <2> HIDE DEF p
  <2> QED
    BY <1>00, <2>1, <2>2, <2>3, PassTyped
<1>6. CASE RetrofitEnd
  BY <1>1, <1>6 DEF RetrofitEnd
<1>7. CASE StampRows
  <2>1. CASE Raised
    BY <1>1, <2>1 DEF Raised
  <2>2. CASE /\ Strict(results)
             /\ pass' = [pass EXCEPT !.rows = results.lines,
                                     !.pc = IF pass.kind = "stamp-provenance" THEN "ledger"
                                            ELSE "replace"]
    <3>1. results.lines \in Seq(RowType \cup {Garbled})
      BY DEF FileTypes, Files
    <3>2. /\ DOMAIN results.lines = 1..Len(results.lines) /\ Len(results.lines) \in Nat
          /\ \A i \in DOMAIN results.lines : results.lines[i] \in RowType
      BY <2>2, <3>1, Elements DEF Strict
    <3>3. \A S, s : s \in Seq(S) => \A T :
             (\A i \in 1..Len(s) : s[i] \in T) => s \in Seq(T)
      OBVIOUS
    <3>4. results.lines \in Seq(RowType)
      BY <3>1, <3>2, <3>3
    <3> DEFINE to == IF pass.kind = "stamp-provenance" THEN "ledger" ELSE "replace"
               rows == results.lines
    <3>5. to \in {"ledger", "replace"} /\ rows \in Seq(RowType)
      BY <3>4
    <3>6. pass' = [pass EXCEPT !.rows = rows, !.pc = to]
      BY <2>2
    <3> HIDE DEF to, rows
    <3>7. pass' = PassOf(to, p.kind, p.apply, p.begun, p.already, p.at, rows, p.ledger)
      BY <1>00, <3>6 DEF PassOf
    <3> HIDE DEF p
    <3> QED
      BY <1>00, <3>5, <3>7, PassTyped
  <2> QED
    BY <1>7, <2>1, <2>2 DEF StampRows
<1>8. CASE StampLedger
  <2>1. CASE Raised
    BY <1>1, <2>1 DEF Raised
  <2> DEFINE ledger == [id \in Runs |->
                          IF LedgerOf(id) = {} THEN "none"
                          ELSE usage.lines[Max(LedgerOf(id))].u.status]
  <2>2. CASE pass' = [pass EXCEPT !.pc = "replace", !.ledger = ledger]
    <3>1. ASSUME NEW id \in Runs, LedgerOf(id) # {}
          PROVE  usage.lines[Max(LedgerOf(id))].u.status \in Recoveries
      <4>1. usage.lines[Max(LedgerOf(id))] \in UsageType
        BY <3>1, LastLine DEF LedgerOf
      <4> QED
        BY <4>1 DEF UsageType
    <3>2. ledger \in [Runs -> Recoveries \cup {"none"}]
      BY <3>1
    <3> HIDE DEF ledger
    <3>3. pass' = PassOf("replace", p.kind, p.apply, p.begun, p.already, p.at, p.rows, ledger)
      BY <1>00, <2>2 DEF PassOf
    <3> HIDE DEF p
    <3> QED
      BY <1>00, <3>2, <3>3, PassTyped
  <2> QED
    BY <1>8, <2>1, <2>2 DEF StampLedger
<1>9. CASE StampReplace
  BY <1>1, <1>9 DEF StampReplace, Raised
<1>10. CASE KillPass
  BY <1>1, <1>10 DEF KillPass, Raised
<1> QED
  BY <1>2, <1>3, <1>4, <1>5, <1>6, <1>7, <1>8, <1>9, <1>10, Frames DEF PassStep

(***************************************************************************)
(* What the rows and the ledger say, step by step.                         *)
(***************************************************************************)

LEMMA PassMoves ==
  ASSUME PassTypes, Next \/ UNCHANGED vars
  PROVE  /\ \/ pass'.rows = pass.rows \/ pass'.rows = <<>>
            \/ Strict(results) /\ pass'.rows = results.lines
         /\ \/ pass'.ledger = pass.ledger \/ pass'.ledger = [id \in Runs |-> "none"]
            \/ /\ UNCHANGED corpus
               /\ pass'.ledger = [id \in Runs |->
                                    IF LedgerOf(id) = {} THEN "none"
                                    ELSE usage.lines[Max(LedgerOf(id))].u.status]
<1>0. pass = PassOf(pass.pc, pass.kind, pass.apply, pass.begun, pass.already, pass.at,
                    pass.rows, pass.ledger)
  BY PassFields
<1>1. ASSUME NEW at, Over(at)
      PROVE  pass'.rows = <<>> /\ pass'.ledger = [id \in Runs |-> "none"]
  BY <1>0, <1>1 DEF Over, PassOf
<1>2. CASE UNCHANGED pass
  BY <1>2
<1>3. CASE Begins
  BY <1>0, <1>3 DEF Begins, Begin, PassOf
<1>4. CASE RetrofitScan
  BY <1>0, <1>4 DEF RetrofitScan, PassOf
<1>5. CASE RetrofitLine
  BY <1>0, <1>5 DEF RetrofitLine, PassOf
<1>6. CASE RetrofitEnd
  BY <1>1, <1>6 DEF RetrofitEnd
<1>7. CASE StampRows
  <2>1. CASE Raised
    BY <1>1, <2>1 DEF Raised
  <2>2. CASE /\ Strict(results)
             /\ pass' = [pass EXCEPT !.rows = results.lines,
                                     !.pc = IF pass.kind = "stamp-provenance" THEN "ledger"
                                            ELSE "replace"]
    BY <1>0, <2>2 DEF PassOf
  <2> QED
    BY <1>7, <2>1, <2>2 DEF StampRows
<1>8. CASE StampLedger
  <2>1. CASE Raised
    BY <1>1, <2>1 DEF Raised
  <2> DEFINE ledger == [id \in Runs |->
                          IF LedgerOf(id) = {} THEN "none"
                          ELSE usage.lines[Max(LedgerOf(id))].u.status]
  <2>2. CASE pass' = [pass EXCEPT !.pc = "replace", !.ledger = ledger]
    <3>1. UNCHANGED corpus
      BY <1>8 DEF StampLedger
    <3> HIDE DEF ledger
    <3>2. pass'.rows = pass.rows /\ pass'.ledger = ledger
      BY <1>0, <2>2 DEF PassOf
    <3> QED
      BY <3>1, <3>2 DEF ledger
  <2> QED
    BY <1>8, <2>1, <2>2 DEF StampLedger
<1>9. CASE StampReplace
  BY <1>1, <1>9 DEF StampReplace, Raised
<1>10. CASE KillPass
  BY <1>1, <1>10 DEF KillPass, Raised
<1> QED
  BY <1>2, <1>3, <1>4, <1>5, <1>6, <1>7, <1>8, <1>9, <1>10, Frames DEF PassStep

LEMMA NothingListed == DOMAIN <<>> = {}
OBVIOUS

LEMMA RowsHonestStep ==
  ASSUME FileTypes, SweepTypes, PassTypes, Kept, RowsHonest, Next \/ UNCHANGED vars
  PROVE  RowsHonest'
<1>1. Grown(attempts, attempts') /\ legacy' = legacy
  BY AttemptsMove
<1>2. ASSUME NEW i \in DOMAIN results'.lines, results'.lines[i] # Garbled
      PROVE  Honest(attempts, legacy, results'.lines[i])
  <2>1. CASE results' = results
    BY <1>2, <2>1 DEF RowsHonest
  <2>2. CASE RecordRow
    <3>1. PICK cut \in Cuts :
            /\ Appended(results, RowOf(runner.attempt), cut, results')
            /\ Honest(attempts, legacy, RowOf(runner.attempt))
      BY <2>2, RowAppended
    <3>2. \/ i \in DOMAIN results.lines /\ results'.lines[i] = results.lines[i]
          \/ results'.lines[i] = RowOf(runner.attempt)
      BY <1>2, <3>1 DEF Appended
    <3> QED
      BY <1>2, <3>1, <3>2 DEF RowsHonest
  <2>3. CASE StampReplace
    <3>1. legacy \in Nat
      BY DEF SweepTypes
    <3> QED
      BY <1>2, <2>1, <2>3, <3>1, Relabelled, StampedIsHonest
  <2> QED
    BY <2>1, <2>2, <2>3, Frames
<1>3. ASSUME NEW i \in DOMAIN pass'.rows
      PROVE  Honest(attempts, legacy, pass'.rows[i])
  <2>1. CASE pass'.rows = pass.rows
    BY <1>3, <2>1 DEF RowsHonest
  <2>2. CASE pass'.rows = <<>>
    BY <1>3, <2>2, NothingListed
  <2>3. CASE Strict(results) /\ pass'.rows = results.lines
    BY <1>3, <2>3 DEF RowsHonest, Strict
  <2> QED
    BY <2>1, <2>2, <2>3, PassMoves
<1>4. \A row : Honest(attempts, legacy, row) => Honest(attempts', legacy', row)
  BY <1>1, HonestStays
<1> QED
  BY <1>2, <1>3, <1>4 DEF RowsHonest

(* The ledger gains one line at most, and never one about nothing.          *)
LEMMA UsageMoves ==
  ASSUME FileTypes, SweepTypes, PassTypes, Kept, RowsHonest, Next \/ UNCHANGED vars
  PROVE  \/ usage' = usage
         \/ \E line \in UsageType, cut \in Cuts :
              Spent(attempts, legacy, line) /\ Appended(usage, line, cut, usage')
<1>1. CASE RecordUsage
  BY <1>1, LineAppended
<1>2. CASE RetrofitLine
  BY <1>2, LineRetrofitted
<1> QED
  BY <1>1, <1>2, Frames

LEMMA LinesHonestStep ==
  ASSUME FileTypes, SweepTypes, PassTypes, Kept, RowsHonest, LinesHonest,
         Next \/ UNCHANGED vars
  PROVE  LinesHonest'
<1>1. ASSUME NEW i \in DOMAIN usage'.lines, usage'.lines[i] # Garbled
      PROVE  Spent(attempts, legacy, usage'.lines[i])
  <2>1. CASE usage' = usage
    BY <1>1, <2>1 DEF LinesHonest
  <2>2. CASE \E line \in UsageType, cut \in Cuts :
               Spent(attempts, legacy, line) /\ Appended(usage, line, cut, usage')
    <3>1. PICK line \in UsageType, cut \in Cuts :
                 Spent(attempts, legacy, line) /\ Appended(usage, line, cut, usage')
      BY <2>2
    <3>2. \/ i \in DOMAIN usage.lines /\ usage'.lines[i] = usage.lines[i]
          \/ usage'.lines[i] = line
      BY <1>1, <3>1 DEF Appended
    <3> QED
      BY <1>1, <3>1, <3>2 DEF LinesHonest
  <2> QED
    BY <2>1, <2>2, UsageMoves
<1>2. Grown(attempts, attempts') /\ legacy' = legacy /\ 1..legacy \subseteq DOMAIN attempts
  <2>1. attempts \in Seq(Attempt) /\ legacy \in 0..Len(attempts)
    BY DEF SweepTypes
  <2>2. DOMAIN attempts = 1..Len(attempts) /\ Len(attempts) \in Nat
    BY <2>1, Elements
  <2> QED
    BY <2>1, <2>2, AttemptsMove
<1>3. \A line : Spent(attempts, legacy, line) => Spent(attempts', legacy', line)
  BY <1>2, SpentStays
<1> QED
  BY <1>1, <1>3 DEF LinesHonest

LEMMA BackedStays ==
  ASSUME NEW file, file.torn = 0 => ~file.open, NEW id, Backed(file, id),
         NEW line, NEW cut, NEW new, Appended(file, line, cut, new)
  PROVE  Backed(new, id)
<1> SUFFICES ASSUME new.torn = 0
             PROVE  \E i \in DOMAIN new.lines :
                      /\ new.lines[i] # Garbled
                      /\ new.lines[i].u.id = id /\ new.lines[i].u.status = "measured"
  BY DEF Backed
<1>1. file.torn = 0 /\ ~file.open
  BY DEF Appended
<1>2. PICK i \in DOMAIN file.lines :
        /\ file.lines[i] # Garbled
        /\ file.lines[i].u.id = id /\ file.lines[i].u.status = "measured"
  BY <1>1 DEF Backed
<1>3. i \in DOMAIN new.lines /\ new.lines[i] = file.lines[i]
  BY <1>1 DEF Appended
<1> QED
  BY <1>2, <1>3

LEMMA LabelsBackedStep ==
  ASSUME FileTypes, SweepTypes, PassTypes, Kept, RowsHonest, LabelsBacked,
         Next \/ UNCHANGED vars
  PROVE  LabelsBacked'
<1>1. /\ usage'.torn = 0 => ~usage'.open
      /\ \A id : Backed(usage, id) => Backed(usage', id)
  <2>1. usage.torn = 0 => ~usage.open
    BY DEF LabelsBacked
  <2>2. CASE usage' = usage
    BY <2>1, <2>2
  <2>3. CASE \E line \in UsageType, cut \in Cuts :
               Spent(attempts, legacy, line) /\ Appended(usage, line, cut, usage')
    <3>1. PICK line \in UsageType, cut \in Cuts : Appended(usage, line, cut, usage')
      BY <2>3
    <3>2. usage'.torn = 0 => ~usage'.open
      BY <3>1 DEF Appended
    <3> QED
      BY <2>1, <3>1, <3>2, BackedStays
  <2> QED
    BY <2>2, <2>3, UsageMoves
<1>2. ASSUME NEW i \in DOMAIN results'.lines, results'.lines[i] # Garbled,
             results'.lines[i].status = "recovered_in_ledger"
      PROVE  Backed(usage, results'.lines[i].id)
  <2>1. CASE results' = results
    BY <1>2, <2>1 DEF LabelsBacked
  <2>2. CASE RecordRow
    <3> DEFINE k == runner.attempt
    <3>1. PICK cut \in Cuts :
            /\ Appended(results, RowOf(k), cut, results')
            /\ Honest(attempts, legacy, RowOf(k))
      BY <2>2, RowAppended
    <3>2. runner.pc # "idle" /\ RowOf(k).attempt = k
      BY <2>2 DEF RecordRow, RowOf, Row
    <3>3. k > legacy
      BY <3>2 DEF Kept
    <3> HIDE DEF k
    <3>4. RowOf(k).status = "measured"
      BY <3>1, <3>2, <3>3 DEF Honest
    <3>5. \/ i \in DOMAIN results.lines /\ results'.lines[i] = results.lines[i]
          \/ results'.lines[i] = RowOf(k)
      BY <1>2, <3>1 DEF Appended
    <3> QED
      BY <1>2, <3>4, <3>5 DEF LabelsBacked
  <2>3. CASE StampReplace /\ results' # results
    <3>1. /\ i \in DOMAIN pass.rows /\ pass.rows[i] \in RowType
          /\ Honest(attempts, legacy, pass.rows[i])
          /\ results'.lines[i] = Stamped(pass.rows[i])
      BY <1>2, <2>3, Relabelled
    <3>2. legacy \in Nat
      BY DEF SweepTypes
    <3> DEFINE row == pass.rows[i]
    <3>3. /\ Stamped(row).id = row.id
          /\ Stamped(row).status = "recovered_in_ledger" =>
               row.status = "recovered_in_ledger" \/ pass.ledger[row.id] = "measured"
      BY <3>1, <3>2, StampedIsHonest
    <3>4. row.id \in Runs
      BY <3>1 DEF RowType
    <3> QED
      BY <1>2, <3>1, <3>3, <3>4 DEF LabelsBacked
  <2> QED
    BY <2>1, <2>2, <2>3, Frames
<1>3. ASSUME NEW i \in DOMAIN pass'.rows, pass'.rows[i].status = "recovered_in_ledger"
      PROVE  Backed(usage, pass'.rows[i].id)
  <2>1. CASE pass'.rows = pass.rows
    BY <1>3, <2>1 DEF LabelsBacked
  <2>2. CASE pass'.rows = <<>>
    BY <1>3, <2>2, NothingListed
  <2>3. CASE Strict(results) /\ pass'.rows = results.lines
    BY <1>3, <2>3 DEF LabelsBacked, Strict
  <2> QED
    BY <2>1, <2>2, <2>3, PassMoves
<1>4. ASSUME NEW id \in Runs, pass'.ledger[id] = "measured"
      PROVE  Backed(usage, id)
  <2>1. CASE pass'.ledger = pass.ledger
    BY <1>4, <2>1 DEF LabelsBacked
  <2>2. CASE pass'.ledger = [r \in Runs |-> "none"]
    BY <1>4, <2>2
  <2>3. CASE pass'.ledger = [r \in Runs |->
                               IF LedgerOf(r) = {} THEN "none"
                               ELSE usage.lines[Max(LedgerOf(r))].u.status]
    <3>1. LedgerOf(id) # {} /\ usage.lines[Max(LedgerOf(id))].u.status = "measured"
      BY <1>4, <2>3
    <3>2. Max(LedgerOf(id)) \in LedgerOf(id)
      BY <3>1, LastLine DEF LedgerOf
    <3> QED
      BY <3>1, <3>2 DEF LedgerOf, Backed
  <2> QED
    BY <2>1, <2>2, <2>3, PassMoves
<1> QED
  BY <1>1, <1>2, <1>3, <1>4 DEF LabelsBacked

(***************************************************************************)
(* The corpus to begin with.                                               *)
(***************************************************************************)

LEMMA OldNumber ==
  ASSUME NEW a \in Attempt
  PROVE  RecordedBefore(a) \in Nat
<1>1. /\ a.session \in Seq(Request) /\ a.session # <<>>
      /\ a.complete \in BOOLEAN
  BY UpkeepAssumption DEF Attempt
<1>2. CASE ~a.complete
  BY <1>2 DEF RecordedBefore
<1>3. CASE a.complete /\ Family[a.id] = "codex"
  BY <1>1, <1>3, ConsumedIsNat DEF RecordedBefore
<1>4. CASE a.complete /\ Family[a.id] # "codex"
  <2>1. RecordedBefore(a) = a.session[Len(a.session)].fresh
    BY <1>4 DEF RecordedBefore
  <2>2. a.session[Len(a.session)] \in Request
    BY <1>1
  <2> QED
    BY <2>1, <2>2 DEF Request
<1> QED
  BY <1>1, <1>2, <1>3, <1>4

LEMMA FirstRow ==
  ASSUME NEW old \in Seq(Attempt), NEW k \in DOMAIN old
  PROVE  LET row == Row(old[k].id, k, RecordedBefore(old[k]), 0, Absent, Absent)
         IN row \in RowType /\ Honest(old, Len(old), row) /\ row.status = Absent
<1> DEFINE id == old[k].id
           n == RecordedBefore(old[k])
           row == Row(id, k, n, 0, Absent, Absent)
<1>1. old[k] \in Attempt /\ k \in Nat /\ k <= Len(old) /\ Len(old) \in Nat
  BY Elements
<1>2. id \in Runs /\ n \in Nat
  BY <1>1, OldNumber DEF Attempt
<1>3. row = [id |-> id, attempt |-> k, tokens_in |-> n, version |-> 0, status |-> Absent,
             mode |-> Absent]
  BY DEF Row
<1>4. id = old[k].id /\ n = RecordedBefore(old[k])
  OBVIOUS
<1> HIDE DEF id, n, row
<1>5. row \in RowType
  BY <1>1, <1>2, <1>3 DEF RowType, USAGE_PARSER_VERSION
<1>6. /\ row.attempt = k /\ row.id = id /\ row.tokens_in = n /\ row.version = 0
      /\ row.status = Absent
  BY <1>3
<1>7. ~(k > Len(old)) /\ Absent # "measured" /\ Absent # "recovered_in_ledger"
  BY <1>1 DEF Absent
<1>8. Honest(old, Len(old), row)
  BY <1>4, <1>6, <1>7 DEF Honest, USAGE_PARSER_VERSION
<1> QED
  BY <1>5, <1>6, <1>8 DEF id, n, row

Known == Types /\ RowsHonest /\ LinesHonest /\ Kept /\ LabelsBacked

LEMMA KnownInit == Init => Known
<1> SUFFICES ASSUME Init
             PROVE  Known
  OBVIOUS
<1>1. PICK old \in Legacies :
        /\ attempts = old
        /\ legacy = Len(old)
        /\ results = [Empty EXCEPT !.lines =
                        [k \in DOMAIN old |->
                           Row(old[k].id, k, RecordedBefore(old[k]), 0, Absent, Absent)]]
        /\ usage = Empty
        /\ transcripts = [id \in Runs |->
             LET kept == {k \in DOMAIN old : old[k].id = id /\ old[k].archived}
             IN IF kept = {} THEN 0 ELSE CHOOSE k \in kept : \A j \in kept : j <= k]
        /\ runner = [pc |-> "idle", attempt |-> 0]
        /\ pass = [pc |-> "idle", kind |-> "retrofit", apply |-> FALSE, begun |-> 0,
                   already |-> {}, at |-> 1, rows |-> <<>>,
                   ledger |-> [id \in Runs |-> "none"]]
  BY DEF Init
<1>2. /\ old \in Seq(Attempt) /\ Len(old) \in Nat /\ DOMAIN old = 1..Len(old)
      /\ \A k \in DOMAIN old : old[k] \in Attempt
  BY UpkeepAssumption, Elements DEF Attempt
<1> DEFINE lines == [k \in DOMAIN old |->
                       Row(old[k].id, k, RecordedBefore(old[k]), 0, Absent, Absent)]
<1>3. \A k \in DOMAIN old :
        lines[k] \in RowType /\ Honest(old, Len(old), lines[k]) /\ lines[k].status = Absent
  BY <1>2, FirstRow
<1>4. lines \in Seq(RowType \cup {Garbled})
  BY <1>2, <1>3
<1>5. results = [lines |-> lines, open |-> FALSE, appended |-> 0, torn |-> 0]
  BY <1>1 DEF Empty
<1>6. DOMAIN lines = DOMAIN old
  OBVIOUS
<1> HIDE DEF lines
<1>7. results \in Files(RowType \cup {Garbled}) /\ results.lines = lines
  BY <1>4, <1>5 DEF Files
<1>8. usage \in Files(UsageType \cup {Garbled}) /\ usage.lines = <<>> /\ ~usage.open
  BY <1>1 DEF Files, Empty
<1>9. ASSUME NEW id \in Runs
      PROVE  /\ transcripts[id] \in 0..Len(attempts)
             /\ transcripts[id] # 0 =>
                  /\ transcripts[id] \in DOMAIN attempts /\ attempts[transcripts[id]].id = id
                  /\ NotBefore(attempts, legacy, id, transcripts[id])
  <2> DEFINE kept == {k \in DOMAIN old : old[k].id = id /\ old[k].archived}
  <2>1. transcripts[id] =
          IF kept = {} THEN 0 ELSE CHOOSE k \in kept : \A j \in kept : j <= k
    BY <1>1
  <2>2. CASE kept = {}
    BY <1>1, <1>2, <2>1, <2>2
  <2>3. CASE kept # {}
    <3>1. \E k \in kept : \A j \in kept : j <= k
      <4>1. kept \subseteq 1..Len(old)
        BY <1>2
      <4> HIDE DEF kept
      <4>2. Max(kept) \in kept /\ \A j \in kept : j <= Max(kept)
        BY <1>2, <2>3, <4>1, LastOne
      <4> QED
        BY <4>2
    <3>2. transcripts[id] \in kept /\ \A j \in kept : j <= transcripts[id]
      BY <2>1, <2>3, <3>1
    <3>3. NotBefore(attempts, legacy, id, transcripts[id])
      <4> SUFFICES ASSUME NEW j \in 1..Len(old), old[j].id = id, ~(j <= transcripts[id])
                   PROVE  FALSE
        BY <1>1 DEF NotBefore
      <4>1. /\ transcripts[id] \in DOMAIN old /\ transcripts[id] \in Nat
            /\ old[transcripts[id]].id = id /\ old[transcripts[id]].archived
            /\ j \in DOMAIN old /\ transcripts[id] < j
        BY <1>2, <3>2
      <4>2. old[j].archived
        BY <4>1, UpkeepAssumption
      <4> QED
        BY <3>2, <4>1, <4>2
    <3> QED
      BY <1>1, <1>2, <3>2, <3>3
  <2> QED
    BY <2>2, <2>3
<1>10. transcripts = [id \in Runs |-> transcripts[id]]
  BY <1>1
<1>11. SweepTypes /\ Kept
  <2>1. transcripts \in [Runs -> 0..Len(attempts)]
    BY <1>9, <1>10
  <2>2. runner \in [pc : {"idle", "row", "usage"}, attempt : 0..Len(attempts)]
    BY <1>1, <1>2
  <2>3. legacy \in 0..Len(attempts) /\ attempts \in Seq(Attempt)
    BY <1>1, <1>2
  <2>4. runner.pc = "idle"
    BY <1>1
  <2> QED
    BY <1>9, <2>1, <2>2, <2>3, <2>4 DEF SweepTypes, Kept
<1> DEFINE none == [id \in Runs |-> "none"]
<1>12. none \in [Runs -> Recoveries \cup {"none"}] /\ <<>> \in Seq(RowType)
       /\ {} \in SUBSET Runs /\ \A id \in Runs : none[id] # "measured"
  OBVIOUS
<1>13. pass = [pc |-> "idle", kind |-> "retrofit", apply |-> FALSE, begun |-> 0,
               already |-> {}, at |-> 1, rows |-> <<>>, ledger |-> none]
  BY <1>1
<1> HIDE DEF none
<1>14. PassTypes /\ pass.rows = <<>> /\ pass.ledger = none
  BY <1>12, <1>13 DEF PassTypes, Kinds
<1>15. DOMAIN pass.rows = {} /\ DOMAIN usage.lines = {}
  BY <1>8, <1>14, NothingListed
<1>16. RowsHonest /\ LinesHonest
  BY <1>1, <1>3, <1>6, <1>7, <1>15 DEF RowsHonest, LinesHonest
<1>17. LabelsBacked
  <2>1. Absent # "recovered_in_ledger"
    BY DEF Absent
  <2>2. \A i \in DOMAIN results.lines : results.lines[i].status # "recovered_in_ledger"
    BY <1>3, <1>6, <1>7, <2>1
  <2> QED
    BY <1>8, <1>12, <1>14, <1>15, <2>2 DEF LabelsBacked
<1> QED
  BY <1>7, <1>8, <1>11, <1>14, <1>16, <1>17 DEF Known, Types, FileTypes

LEMMA KnownStep == Known /\ (Next \/ UNCHANGED vars) => Known'
<1> SUFFICES ASSUME Known, Next \/ UNCHANGED vars
             PROVE  Known'
  OBVIOUS
<1> USE DEF Known, Types
<1>1. FileTypes' /\ SweepTypes' /\ Kept' /\ PassTypes'
  BY FilesStep, SweepStep, PassStepTypes
<1>2. RowsHonest' /\ LinesHonest'
  BY RowsHonestStep, LinesHonestStep
<1>3. LabelsBacked'
  BY LabelsBackedStep
<1> QED
  BY <1>1, <1>2, <1>3

LEMMA KnownAlways == Spec => []Known
<1>1. Known /\ [Next]_vars => Known'
  BY KnownStep
<1> QED
  BY KnownInit, <1>1, PTL DEF Spec

LEMMA BothOrNeither ==
  ASSUME NEW all \in Seq(Attempt), NEW old \in Nat, NEW row, Honest(all, old, row)
  PROVE  row.version = 0 <=> row.status = Absent
<1>1. row.attempt \in Nat
  BY Elements DEF Honest
<1>2. CASE row.attempt > old
  <2>1. row.version = 2 /\ row.status = "measured"
    BY <1>2 DEF Honest, USAGE_PARSER_VERSION
  <2> QED
    BY <2>1 DEF Absent
<1>3. CASE row.attempt <= old
  BY <1>3 DEF Honest
<1> QED
  BY <1>1, <1>2, <1>3

LEMMA KnownIsTyped == Known => TypeOK
<1> SUFFICES ASSUME Known
             PROVE  TypeOK
  OBVIOUS
<1> USE DEF Known, Types
<1>1. \A row \in Parsed(results) : row.version = 0 <=> row.status = Absent
  <2>1. attempts \in Seq(Attempt) /\ legacy \in Nat
    BY DEF SweepTypes
  <2>2. ASSUME NEW i \in DOMAIN results.lines, results.lines[i] # Garbled
        PROVE  results.lines[i].version = 0 <=> results.lines[i].status = Absent
    <3>1. Honest(attempts, legacy, results.lines[i])
      BY <2>2 DEF RowsHonest
    <3> QED
      BY <2>1, <3>1, BothOrNeither
  <2> QED
    BY <2>2 DEF Parsed
<1>2. \A k \in DOMAIN attempts : attempts[k].id \in Runs /\ attempts[k].session \in Sessions
  <2>1. attempts \in Seq(Attempt)
    BY DEF SweepTypes
  <2>2. \A k \in DOMAIN attempts : attempts[k] \in Attempt
    BY <2>1, Elements
  <2> QED
    BY <2>2 DEF Attempt
<1>3. runner.pc \in {"idle", "row", "usage"} /\ runner.attempt \in 0..Len(attempts)
  BY DEF SweepTypes
<1>4. /\ pass.pc \in {"idle", "scan", "stream", "rows", "ledger", "replace", "done"}
      /\ pass.kind \in Kinds /\ pass.apply \in BOOLEAN /\ pass.begun \in Nat
      /\ pass.already \subseteq Runs /\ pass.at \in Nat \ {0}
      /\ pass.rows \in Seq(RowType)
      /\ pass.ledger \in [Runs -> Recoveries \cup {"none"}]
  BY PassFields
<1> QED
  BY <1>1, <1>2, <1>3, <1>4 DEF TypeOK, FileTypes, SweepTypes

(* Every file, and whatever a sweep or a pass holds, keeps its type, and no *)
(* row has one of the two provenance labels without the other, also when    *)
(* sweeps go on during a pass (usage_ledger.py, stamp_provenance).          *)
THEOREM TypeCorrect == Spec => []TypeOK
<1>1. Known => TypeOK
  BY KnownIsTyped
<1> QED
  BY KnownAlways, <1>1, PTL

LEMMA KnownLabels == Known => LabelsAreTrue
<1> SUFFICES ASSUME Known
             PROVE  LabelsAreTrue
  OBVIOUS
<1> USE DEF Known, Types
<1>1. ASSUME NEW i \in DOMAIN results.lines, results.lines[i] # Garbled,
             results.lines[i].status = "measured"
      PROVE  results.lines[i].tokens_in = Truth(attempts[results.lines[i].attempt])
  <2> DEFINE row == results.lines[i]
             a == attempts[row.attempt]
  <2>1. Honest(attempts, legacy, row)
    BY <1>1 DEF RowsHonest
  <2>2. row.attempt \in Nat /\ legacy \in Nat /\ a.id = row.id
    <3>1. attempts \in Seq(Attempt)
      BY DEF SweepTypes
    <3> QED
      BY <2>1, <3>1, Elements DEF Honest, SweepTypes
  <2>3. CASE row.attempt > legacy
    BY <2>1, <2>3 DEF Honest
  <2>4. CASE row.attempt <= legacy
    <3>1. row.tokens_in = RecordedBefore(a) /\ Family[a.id] = "codex"
      BY <1>1, <2>1, <2>2, <2>4 DEF Honest
    <3> HIDE DEF a
    <3>2. RecordedBefore(a) = Truth(a)
      <4>1. CASE a.complete
        BY <3>1, <4>1 DEF RecordedBefore, Truth
      <4>2. CASE ~a.complete
        BY <4>2 DEF RecordedBefore, Truth
      <4> QED
        BY <4>1, <4>2
    <3> QED
      BY <3>1, <3>2 DEF a
  <2> QED
    BY <2>2, <2>3, <2>4
<1>2. ASSUME NEW id, usage.torn = 0, Backed(usage, id)
      PROVE  \E k \in DOMAIN attempts :
               /\ attempts[k].id = id /\ RecoveredTokensIn(id) = DetailOf(k).tokens_in
               /\ Family[id] # "codex" => NotBefore(attempts, legacy, id, k)
  <2> DEFINE rows == {i \in LedgerOf(id) : usage.lines[i].u.status = "measured"}
             line == usage.lines[Max(rows)]
  <2>1. rows # {} /\ rows \subseteq DOMAIN usage.lines /\ \A i \in rows : usage.lines[i] # Garbled
    BY <1>2 DEF Backed, LedgerOf
  <2>2. RecoveredTokensIn(id) = line.u.tokens_in
    BY <2>1 DEF RecoveredTokensIn
  <2>3. \A i \in rows : /\ i \in DOMAIN usage.lines /\ usage.lines[i] # Garbled
                        /\ usage.lines[i].u.id = id /\ usage.lines[i].u.status = "measured"
    BY DEF LedgerOf
  <2> HIDE DEF rows
  <2>4. Max(rows) \in rows
    BY <2>1, LastLine
  <2>5. line.u.id = id /\ line.u.status = "measured" /\ Spent(attempts, legacy, line)
    BY <2>3, <2>4 DEF LinesHonest
  <2>6. /\ line.of \in DOMAIN attempts /\ attempts[line.of].id = id
        /\ line.u.tokens_in = Truth(attempts[line.of])
        /\ Family[id] # "codex" => NotBefore(attempts, legacy, id, line.of)
    BY <2>5 DEF Spent
  <2> DEFINE k == line.of
  <2>7. k \in DOMAIN attempts
    BY <2>6
  <2> HIDE DEF line
  <2>8. /\ RecoveredTokensIn(id) = Truth(attempts[k]) /\ attempts[k].id = id
        /\ Family[id] # "codex" => NotBefore(attempts, legacy, id, k)
    BY <2>2, <2>6
  <2> HIDE DEF k
  <2>9. DetailOf(k).tokens_in = Truth(attempts[k])
    BY <2>7, DetailIsTrue
  <2> QED
    BY <2>7, <2>8, <2>9
<1>3. ASSUME NEW row \in Parsed(results)
      PROVE  \E i \in DOMAIN results.lines : results.lines[i] = row /\ row # Garbled
  BY <1>3 DEF Parsed
<1>4. ASSUME NEW row \in Parsed(results), row.status = "measured"
      PROVE  row.tokens_in = Truth(attempts[row.attempt])
  BY <1>1, <1>3, <1>4
<1>5. ASSUME NEW row \in Parsed(results), row.status = "recovered_in_ledger", usage.torn = 0
      PROVE  Backed(usage, row.id)
  BY <1>3, <1>5 DEF LabelsBacked
<1>6. ASSUME NEW row \in Parsed(results), row.status = "recovered_in_ledger", usage.torn = 0,
             Last(row.attempt)
      PROVE  Recovered(row)
  <2>1. Honest(attempts, legacy, row)
    BY <1>3 DEF RowsHonest
  <2>2. attempts \in Seq(Attempt) /\ legacy \in Nat
    BY DEF SweepTypes
  <2>3. row.attempt \in DOMAIN attempts /\ row.attempt \in Nat /\ row.attempt > 0
        /\ attempts[row.attempt].id = row.id
    BY <2>1, <2>2, Elements DEF Honest
  <2>4. ~(row.attempt > legacy)
    BY <1>6, <2>1 DEF Honest
  <2>5. row.attempt <= legacy /\ Family[row.id] # "codex"
    BY <1>6, <2>1, <2>2, <2>3, <2>4 DEF Honest
  <2>6. PICK k \in DOMAIN attempts :
          /\ attempts[k].id = row.id /\ RecoveredTokensIn(row.id) = DetailOf(k).tokens_in
          /\ NotBefore(attempts, legacy, row.id, k)
    BY <1>2, <1>5, <1>6, <2>5
  <2>7. row.attempt \in 1..legacy
    BY <2>2, <2>3, <2>5
  <2>8. row.attempt <= k
    BY <2>3, <2>6, <2>7 DEF NotBefore
  <2>9. k <= row.attempt /\ k \in Nat
    BY <1>6, <2>2, <2>3, <2>6, Elements DEF Last
  <2>10. k = row.attempt
    BY <2>3, <2>8, <2>9
  <2> QED
    BY <2>6, <2>10 DEF Recovered
<1> QED
  BY <1>4, <1>6 DEF LabelsAreTrue, Truth

(* What a label of results.jsonl promises is so: the number on a row called *)
(* measured is what its attempt consumed, and for a row called recovered    *)
(* that is of the last attempt at its run the join finds the number of that *)
(* very attempt (tokens_in_status, stamp_provenance, recovered_tokens_in).  *)
(* No offline discipline is needed for that: it holds with sweeps that go   *)
(* on while a pass is under way.                                            *)
THEOREM LabelsAreTrueHolds == Spec => []LabelsAreTrue
<1>1. Known => LabelsAreTrue
  BY KnownLabels
<1> QED
  BY KnownAlways, <1>1, PTL

(***************************************************************************)
(* With the passes offline.                                                *)
(***************************************************************************)

SweepSide == Launches \/ RecordRow \/ RecordUsage \/ KillRunner
PassSide == Begins \/ PassStep \/ KillPass

LEMMA OneAtATime ==
  ASSUME ~Live, Offline, Next \/ UNCHANGED vars
  PROVE  \/ Resting(pass.pc) /\ UNCHANGED pass /\ SweepSide
         \/ runner.pc = "idle" /\ UNCHANGED <<runner, attempts>> /\ PassSide
         \/ UNCHANGED vars
<1>1. ASSUME NEW id, Launch(id) PROVE Resting(pass.pc) /\ UNCHANGED pass
  BY <1>1 DEF Launch
<1>2. ASSUME RecordRow \/ RecordUsage \/ KillRunner
      PROVE  runner.pc # "idle" /\ UNCHANGED pass
  BY <1>2 DEF RecordRow, RecordUsage, KillRunner
<1>3. ASSUME NEW kind, Begin(kind)
      PROVE  runner.pc = "idle" /\ UNCHANGED <<runner, attempts>>
  BY <1>3 DEF Begin, corpus
<1>4. ASSUME PassStep \/ KillPass
      PROVE  ~Resting(pass.pc) /\ UNCHANGED <<runner, attempts>>
  <2>1. ASSUME RetrofitScan \/ RetrofitLine \/ RetrofitEnd
        PROVE  pass.pc \in {"scan", "stream"} /\ UNCHANGED <<runner, attempts>>
    BY <2>1 DEF RetrofitScan, RetrofitLine, RetrofitEnd, corpus
  <2>2. ASSUME StampRows \/ StampLedger \/ StampReplace
        PROVE  pass.pc \in {"rows", "ledger", "replace"} /\ UNCHANGED <<runner, attempts>>
    BY <2>2 DEF StampRows, StampLedger, StampReplace, corpus
  <2>3. ASSUME KillPass
        PROVE  ~Resting(pass.pc) /\ UNCHANGED <<runner, attempts>>
    BY <2>3 DEF KillPass, corpus
  <2> QED
    BY <1>4, <2>1, <2>2, <2>3 DEF PassStep, Resting
<1>5. SweepSide \/ PassSide \/ UNCHANGED vars
  BY DEF Next, Sweep, Launches, Begins, SweepSide, PassSide
<1>6. CASE SweepSide
  <2>1. CASE Launches
    BY <1>1, <1>6, <2>1 DEF Launches
  <2>2. CASE RecordRow \/ RecordUsage \/ KillRunner
    BY <1>2, <1>6, <2>2 DEF Offline
  <2> QED
    BY <1>6, <2>1, <2>2 DEF SweepSide
<1>7. CASE PassSide
  <2>1. CASE Begins
    BY <1>3, <1>7, <2>1 DEF Begins
  <2>2. CASE PassStep \/ KillPass
    BY <1>4, <1>7, <2>2 DEF Offline
  <2> QED
    BY <1>7, <2>1, <2>2 DEF PassSide
<1> QED
  BY <1>5, <1>6, <1>7

(* Where a step can lead a pass to.                                         *)
LEMMA PassGoes ==
  ASSUME PassTypes, PassSide
  PROVE  /\ pass'.pc = "stream" => RetrofitScan \/ RetrofitLine
         /\ pass'.pc \in {"ledger", "replace"} =>
              \/ StampRows /\ pass'.rows = results.lines
              \/ StampLedger /\ pass.pc = "ledger" /\ pass'.rows = pass.rows
         /\ pass.pc = "stream" /\ pass'.pc = "done" => RetrofitEnd
<1>0. pass = PassOf(pass.pc, pass.kind, pass.apply, pass.begun, pass.already, pass.at,
                    pass.rows, pass.ledger)
  BY PassFields
<1>1. ASSUME NEW at, Over(at)
      PROVE  pass'.pc = at
  BY <1>0, <1>1 DEF Over, PassOf
<1>2. ASSUME Raised PROVE pass'.pc = "idle"
  BY <1>1, <1>2 DEF Raised
<1>3. CASE Begins
  <2>1. pass'.pc \in {"scan", "rows"}
    BY <1>0, <1>3 DEF Begins, Begin, First, PassOf
  <2> QED
    BY <2>1
<1>4. CASE RetrofitScan
  <2>1. pass.pc = "scan" /\ pass'.pc = "stream"
    BY <1>0, <1>4 DEF RetrofitScan, PassOf
  <2> QED
    BY <1>4, <2>1
<1>5. CASE RetrofitLine
  <2>1. pass.pc = "stream" /\ pass'.pc = "stream"
    BY <1>0, <1>5 DEF RetrofitLine, PassOf
  <2> QED
    BY <1>5, <2>1
<1>6. CASE RetrofitEnd
  <2>1. pass'.pc = "done"
    BY <1>1, <1>6 DEF RetrofitEnd
  <2> QED
    BY <1>6, <2>1
<1>7. CASE StampRows
  <2>1. CASE Raised
    BY <1>2, <2>1
  <2>2. CASE /\ Strict(results)
             /\ pass' = [pass EXCEPT !.rows = results.lines,
                                     !.pc = IF pass.kind = "stamp-provenance" THEN "ledger"
                                            ELSE "replace"]
    <3>1. pass'.rows = results.lines /\ pass'.pc \in {"ledger", "replace"}
      BY <1>0, <2>2 DEF PassOf
    <3> QED
      BY <1>7, <3>1
  <2> QED
    BY <1>7, <2>1, <2>2 DEF StampRows
<1>8. CASE StampLedger
  <2>0. pass.pc = "ledger"
    BY <1>8 DEF StampLedger
  <2>1. CASE Raised
    BY <1>2, <2>1
  <2> DEFINE ledger == [id \in Runs |->
                          IF LedgerOf(id) = {} THEN "none"
                          ELSE usage.lines[Max(LedgerOf(id))].u.status]
  <2>2. CASE pass' = [pass EXCEPT !.pc = "replace", !.ledger = ledger]
    <3> HIDE DEF ledger
    <3>1. pass'.rows = pass.rows /\ pass'.pc = "replace"
      BY <1>0, <2>2 DEF PassOf
    <3> QED
      BY <1>8, <2>0, <3>1
  <2> QED
    BY <1>8, <2>1, <2>2 DEF StampLedger
<1>9. CASE StampReplace
  <2>1. pass.pc = "replace" /\ pass'.pc \in {"idle", "done"}
    BY <1>1, <1>2, <1>9 DEF StampReplace
  <2> QED
    BY <2>1
<1>10. CASE KillPass
  <2>1. pass'.pc = "idle"
    BY <1>2, <1>10 DEF KillPass
  <2> QED
    BY <2>1
<1> QED
  BY <1>3, <1>4, <1>5, <1>6, <1>7, <1>8, <1>9, <1>10 DEF PassSide, PassStep

(* A line about an attempt no line is about.                                *)
LEMMA SpentOnceMore ==
  ASSUME SpentOnce, NEW line, NEW cut, Appended(usage, line, cut, usage'),
         \A i \in DOMAIN usage.lines :
           usage.lines[i] # Garbled => usage.lines[i].of # line.of
  PROVE  SpentOnce'
<1> SUFFICES ASSUME NEW i \in DOMAIN usage'.lines, NEW j \in DOMAIN usage'.lines,
                    usage'.lines[i] # Garbled, usage'.lines[j] # Garbled,
                    usage'.lines[i].of = usage'.lines[j].of
             PROVE  i = j
  BY DEF SpentOnce
<1>1. \/ i \in DOMAIN usage.lines /\ usage'.lines[i] = usage.lines[i]
      \/ i = Len(usage.lines) + 1 /\ usage'.lines[i] = line
  BY DEF Appended
<1>2. \/ j \in DOMAIN usage.lines /\ usage'.lines[j] = usage.lines[j]
      \/ j = Len(usage.lines) + 1 /\ usage'.lines[j] = line
  BY DEF Appended
<1> QED
  BY <1>1, <1>2 DEF SpentOnce

LEMMA SweepSideKeeps ==
  ASSUME Known, InHand, SpentOnce, SweepSide, Next
  PROVE  InHand' /\ SpentOnce'
<1> USE DEF Known, Types
<1>1. CASE Launches
  <2>1. PICK id \in Runs : Launch(id)
    BY <1>1 DEF Launches
  <2>2. usage' = usage /\ runner'.attempt = Len(attempts')
    BY <2>1 DEF Launch
  <2>3. Len(attempts') \notin DOMAIN attempts
    <3>1. /\ Len(attempts') = Len(attempts) + 1 /\ Len(attempts) \in Nat
          /\ DOMAIN attempts = 1..Len(attempts)
      BY <2>1, Launched
    <3> QED
      BY <3>1
  <2> QED
    BY <2>2, <2>3 DEF InHand, SpentOnce, LinesHonest, Spent
<1>2. CASE RecordRow
  <2>1. usage' = usage /\ runner.pc # "idle" /\ runner'.attempt = runner.attempt
    BY <1>2 DEF RecordRow, SweepTypes
  <2> QED
    BY <2>1 DEF InHand, SpentOnce
<1>3. CASE RecordUsage
  <2>1. runner.pc # "idle" /\ runner'.pc = "idle"
    BY <1>3 DEF RecordUsage, SweepTypes
  <2>2. PICK cut \in Cuts : /\ Appended(usage, LineOf(runner.attempt), cut, usage')
                            /\ LineOf(runner.attempt).of = runner.attempt
    BY <1>3, LineAppended
  <2>3. SpentOnce'
    BY <2>1, <2>2, SpentOnceMore DEF InHand
  <2> QED
    BY <2>1, <2>3 DEF InHand
<1>4. CASE KillRunner
  <2>1. usage' = usage /\ runner'.pc = "idle"
    BY <1>4 DEF KillRunner, SweepTypes
  <2> QED
    BY <2>1 DEF InHand, SpentOnce
<1> QED
  BY <1>1, <1>2, <1>3, <1>4 DEF SweepSide

(* One line of a retrofit: after it the row is ledgered, whether it was     *)
(* before or is now.                                                        *)
LEMMA RetrofitLineKeeps ==
  ASSUME Known, Streaming, SpentOnce, RetrofitLine
  PROVE  Streaming' /\ SpentOnce'
<1> USE DEF Known, Types
<1> DEFINE row == results.lines[pass.at]
<1>0. /\ pass.pc = "stream" /\ results' = results /\ attempts' = attempts
      /\ pass.at \in Nat
  BY DEF RetrofitLine, PassTypes
<1>1. /\ \A i \in DOMAIN usage.lines :
           usage.lines[i] # Garbled => usage.lines[i].u.id \in pass.already
      /\ \A i \in DOMAIN results.lines :
           i < pass.at /\ results.lines[i] # Garbled => results.lines[i].id \in pass.already
      /\ usage.torn = 0 =>
           \A id \in pass.already : \E i \in DOMAIN usage.lines :
             usage.lines[i] # Garbled /\ usage.lines[i].u.id = id
  BY <1>0 DEF Streaming
<1>2. /\ pass' = [pass EXCEPT !.at = pass.at + 1, !.already = pass'.already]
      /\ \/ /\ row = Garbled \/ row.id \in pass.already
            /\ usage' = usage /\ pass'.already = pass.already
         \/ /\ row \in RowType /\ row.id \notin pass.already
            /\ pass'.already = pass.already \cup {row.id}
            /\ Retrofitted(row) \in UsageType /\ Spent(attempts, legacy, Retrofitted(row))
            /\ Retrofitted(row).u.id = row.id
            /\ \E cut \in Cuts : Appended(usage, Retrofitted(row), cut, usage')
  BY LineRetrofitted
<1>3. pass'.at = pass.at + 1 /\ pass'.pc = "stream"
  <2>1. pass = PassOf(pass.pc, pass.kind, pass.apply, pass.begun, pass.already, pass.at,
                      pass.rows, pass.ledger)
    BY PassFields
  <2> QED
    BY <1>0, <1>2, <2>1 DEF PassOf
<1>4. \A i \in DOMAIN results.lines : i \in Nat /\ (i < pass.at + 1 => i < pass.at \/ i = pass.at)
  <2>1. results.lines \in Seq(RowType \cup {Garbled})
    BY DEF FileTypes, Files
  <2>2. \A i \in DOMAIN results.lines : i \in Nat
    BY <2>1, Elements
  <2> QED
    BY <1>0, <2>2
<1>5. \A i \in DOMAIN results.lines :
        i < pass'.at /\ results.lines[i] # Garbled => results.lines[i].id \in pass'.already
  <2>1. row = Garbled \/ row.id \in pass'.already
    BY <1>2
  <2>2. pass.already \subseteq pass'.already
    BY <1>2
  <2> QED
    BY <1>1, <1>3, <1>4, <2>1, <2>2
<1>6. CASE usage' = usage /\ pass'.already = pass.already
  BY <1>0, <1>1, <1>3, <1>5, <1>6 DEF Streaming, SpentOnce
<1>7. CASE /\ row \in RowType /\ row.id \notin pass.already
           /\ pass'.already = pass.already \cup {row.id}
           /\ Retrofitted(row) \in UsageType /\ Spent(attempts, legacy, Retrofitted(row))
           /\ Retrofitted(row).u.id = row.id
           /\ \E cut \in Cuts : Appended(usage, Retrofitted(row), cut, usage')
  <2> DEFINE line == Retrofitted(row)
             id == row.id
  <2>1. PICK cut \in Cuts : Appended(usage, line, cut, usage')
    BY <1>7
  <2>2. /\ id \notin pass.already /\ pass'.already = pass.already \cup {id}
        /\ line \in UsageType /\ Spent(attempts, legacy, line) /\ line.u.id = id
    BY <1>7
  <2>3. line # Garbled
    BY <2>2, NotSpoiled
  <2>4. ASSUME NEW i \in DOMAIN usage.lines, usage.lines[i] # Garbled,
               usage.lines[i].of = line.of
        PROVE  FALSE
    <3>1. Spent(attempts, legacy, usage.lines[i])
      BY <2>4 DEF LinesHonest
    <3>2. usage.lines[i].u.id = line.u.id
      BY <2>2, <2>4, <3>1 DEF Spent
    <3> QED
      BY <1>1, <2>2, <2>4, <3>2
  <2> HIDE DEF line, id
  <2>5. SpentOnce'
    BY <2>1, <2>4, SpentOnceMore
  <2>6. ASSUME NEW i \in DOMAIN usage'.lines, usage'.lines[i] # Garbled
        PROVE  usage'.lines[i].u.id \in pass'.already
    <3>1. \/ i \in DOMAIN usage.lines /\ usage'.lines[i] = usage.lines[i]
          \/ usage'.lines[i] = line
      BY <2>1, <2>6 DEF Appended
    <3> QED
      BY <1>1, <2>2, <2>6, <3>1
  <2>7. ASSUME usage'.torn = 0, NEW r \in pass'.already
        PROVE  \E i \in DOMAIN usage'.lines :
                 usage'.lines[i] # Garbled /\ usage'.lines[i].u.id = r
    <3>1. usage.torn = 0 /\ cut = "whole" /\ ~usage.open
      BY <2>1, <2>7 DEF Appended, LabelsBacked
    <3>2. CASE r = id
      <4>1. \E i \in DOMAIN usage'.lines : usage'.lines[i] = line
        BY <2>1, <3>1 DEF Appended
      <4> QED
        BY <2>2, <2>3, <3>2, <4>1
    <3>3. CASE r \in pass.already
      <4>1. PICK i \in DOMAIN usage.lines :
              usage.lines[i] # Garbled /\ usage.lines[i].u.id = r
        BY <1>1, <3>1, <3>3
      <4>2. i \in DOMAIN usage'.lines /\ usage'.lines[i] = usage.lines[i]
        BY <2>1, <3>1 DEF Appended
      <4> QED
        BY <4>1, <4>2
    <3> QED
      BY <2>2, <2>7, <3>2, <3>3
  <2> QED
    BY <1>0, <1>3, <1>5, <2>5, <2>6, <2>7 DEF Streaming
<1> QED
  BY <1>2, <1>6, <1>7

LEMMA ScanKeeps ==
  ASSUME Known, RetrofitScan
  PROVE  Streaming'
<1> USE DEF Known, Types
<1>1. pass' = [pass EXCEPT !.pc = "stream", !.at = 1,
                           !.already = {line.u.id : line \in Parsed(usage)}]
      /\ results' = results /\ usage' = usage
  BY DEF RetrofitScan, corpus
<1> DEFINE ids == {line.u.id : line \in Parsed(usage)}
<1>2. pass'.at = 1 /\ pass'.already = ids
  <2>1. pass = PassOf(pass.pc, pass.kind, pass.apply, pass.begun, pass.already, pass.at,
                      pass.rows, pass.ledger)
    BY PassFields
  <2> QED
    BY <1>1, <2>1 DEF PassOf
<1>3. \A i \in DOMAIN results.lines : ~(i < 1)
  <2>1. results.lines \in Seq(RowType \cup {Garbled})
    BY DEF FileTypes, Files
  <2>2. DOMAIN results.lines = 1..Len(results.lines) /\ Len(results.lines) \in Nat
    BY <2>1, Elements
  <2> QED
    BY <2>2
<1>4. /\ \A i \in DOMAIN usage.lines :
           usage.lines[i] # Garbled => usage.lines[i].u.id \in ids
      /\ \A id \in ids : \E i \in DOMAIN usage.lines :
           usage.lines[i] # Garbled /\ usage.lines[i].u.id = id
  BY DEF Parsed
<1> HIDE DEF ids
<1> QED
  BY <1>1, <1>2, <1>3, <1>4 DEF Streaming

Disciplined == Known /\ Offline /\ InHand /\ SpentOnce /\ Streaming /\ Copied

LEMMA DisciplinedInit == Init => Disciplined
<1> SUFFICES ASSUME Init
             PROVE  Disciplined
  OBVIOUS
<1>1. runner.pc = "idle" /\ pass.pc = "idle" /\ usage.lines = <<>>
  BY DEF Init, Empty
<1>2. DOMAIN usage.lines = {}
  BY <1>1, NothingListed
<1> QED
  BY <1>1, <1>2, KnownInit DEF Disciplined, Offline, InHand, SpentOnce, Streaming, Copied

LEMMA DisciplinedStep ==
  ASSUME ~Live, Disciplined, Next \/ UNCHANGED vars
  PROVE  Disciplined'
<1> USE DEF Disciplined
<1>0. Known' /\ PassTypes
  BY KnownStep DEF Known, Types
<1>1. CASE Resting(pass.pc) /\ UNCHANGED pass /\ SweepSide
  <2>1. Next
    BY <1>1 DEF SweepSide, Next, Sweep, Launches
  <2>2. InHand' /\ SpentOnce'
    BY <1>1, <2>1, SweepSideKeeps
  <2> QED
    BY <1>0, <1>1, <2>2 DEF Offline, Streaming, Copied, Resting
<1>2. CASE runner.pc = "idle" /\ UNCHANGED <<runner, attempts>> /\ PassSide
  <2>1. Offline' /\ InHand'
    BY <1>2 DEF Offline, InHand
  <2>2. SpentOnce'
    <3>1. CASE RetrofitLine
      BY <3>1, RetrofitLineKeeps
    <3>2. CASE usage' = usage
      BY <3>2 DEF SpentOnce
    <3>3. RecordUsage => runner.pc # "idle"
      BY DEF RecordUsage
    <3> QED
      BY <1>2, <3>1, <3>2, <3>3, Frames
  <2>3. Streaming'
    <3>1. CASE pass'.pc = "stream"
      BY <1>0, <1>2, <3>1, PassGoes, RetrofitLineKeeps, ScanKeeps
    <3>2. CASE pass'.pc # "stream"
      BY <3>2 DEF Streaming
    <3> QED
      BY <3>1, <3>2
  <2>4. Copied'
    <3> SUFFICES ASSUME pass'.pc \in {"ledger", "replace"}
                 PROVE  pass'.rows = results'.lines
      BY DEF Copied
    <3>1. \/ StampRows /\ pass'.rows = results.lines
          \/ StampLedger /\ pass.pc = "ledger" /\ pass'.rows = pass.rows
      BY <1>0, <1>2, PassGoes
    <3>2. results' = results
      BY <3>1 DEF StampRows, StampLedger, corpus
    <3> QED
      BY <3>1, <3>2 DEF Copied
  <2> QED
    BY <1>0, <2>1, <2>2, <2>3, <2>4
<1>3. CASE UNCHANGED vars
  BY <1>0, <1>3 DEF vars, corpus, Offline, InHand, SpentOnce, Streaming, Copied
<1> QED
  BY <1>1, <1>2, <1>3, OneAtATime

LEMMA DisciplinedAlways == ~Live => (Spec => []Disciplined)
<1> SUFFICES ASSUME ~Live
             PROVE  Spec => []Disciplined
  OBVIOUS
<1>1. Disciplined /\ [Next]_vars => Disciplined'
  BY DisciplinedStep
<1> QED
  BY DisciplinedInit, <1>1, PTL DEF Spec

(* With the passes offline no two readable ledger rows count the tokens of  *)
(* one attempt, whatever was retried, killed, cut or retrofitted twice      *)
(* (retrofit: "without duplicating old rows").                              *)
THEOREM SpentOnceHolds == ~Live => (Spec => []SpentOnce)
<1>1. Disciplined => SpentOnce
  BY DEF Disciplined
<1> QED
  BY DisciplinedAlways, <1>1, PTL

LEMMA RowsStay ==
  ASSUME Disciplined, Next \/ UNCHANGED vars, NEW i \in DOMAIN results.lines
  PROVE  /\ i \in DOMAIN results'.lines
         /\ \/ Recorded(results'.lines[i]) = Recorded(results.lines[i])
            \/ results.open /\ i = Len(results.lines) /\ results'.lines[i] = Garbled
<1> USE DEF Disciplined, Known, Types
<1>1. CASE results' = results
  BY <1>1
<1>2. CASE RecordRow
  <2>1. PICK cut \in Cuts : Appended(results, RowOf(runner.attempt), cut, results')
    BY <1>2, RowAppended
  <2>2. /\ i \in DOMAIN results'.lines
        /\ \/ results'.lines[i] = results.lines[i]
           \/ results.open /\ i = Len(results.lines) /\ results'.lines[i] = Garbled
    BY <2>1 DEF Appended
  <2> QED
    BY <2>2
<1>3. CASE StampReplace /\ results' # results
  <2>1. /\ DOMAIN results'.lines = DOMAIN pass.rows
        /\ \A j \in DOMAIN pass.rows :
             /\ pass.rows[j] \in RowType /\ Honest(attempts, legacy, pass.rows[j])
             /\ results'.lines[j] = Stamped(pass.rows[j])
    BY <1>3, Relabelled
  <2>2. pass.rows = results.lines
    BY <1>3 DEF StampReplace, Copied
  <2>3. legacy \in Nat
    BY DEF SweepTypes
  <2>4. Recorded(Stamped(pass.rows[i])) = Recorded(pass.rows[i])
    BY <2>1, <2>2, <2>3, StampedIsHonest
  <2> QED
    BY <2>1, <2>2, <2>4
<1> QED
  BY <1>1, <1>2, <1>3, Frames

LEMMA NoGap ==
  ASSUME Disciplined, Next \/ UNCHANGED vars,
         pass.pc = "stream", pass'.pc = "done", usage.torn = 0,
         NEW row \in Parsed(results)
  PROVE  \E line \in Parsed(usage) : line.u.id = row.id
<1> USE DEF Disciplined, Known, Types
<1>1. RetrofitEnd
  <2>1. pass' # pass
    OBVIOUS
  <2>2. PassSide
    BY <2>1, Frames DEF PassSide
  <2> QED
    BY <2>2, PassGoes
<1>2. pass.at > Len(results.lines) /\ pass.at \in Nat
  BY <1>1 DEF RetrofitEnd, PassTypes
<1>3. PICK i \in DOMAIN results.lines : results.lines[i] = row /\ row # Garbled
  BY DEF Parsed
<1>4. i < pass.at
  <2>1. results.lines \in Seq(RowType \cup {Garbled})
    BY DEF FileTypes, Files
  <2>2. i \in 1..Len(results.lines) /\ Len(results.lines) \in Nat
    BY <2>1, Elements
  <2> QED
    BY <1>2, <2>2
<1>5. row.id \in pass.already
  BY <1>3, <1>4 DEF Streaming
<1>6. PICK j \in DOMAIN usage.lines : usage.lines[j] # Garbled /\ usage.lines[j].u.id = row.id
  BY <1>5 DEF Streaming
<1> QED
  BY <1>6 DEF Parsed

(* With the passes offline they keep the record at both ends: no stamp      *)
(* takes a row away or changes a number on it, whoever dies where           *)
(* ("Labelling, never recomputation"), and when a retrofit says it is done  *)
(* every run on file has its ledger row, unless an append was cut.          *)
THEOREM PassesKeepTheRecordHolds == ~Live => (Spec => PassesKeepTheRecord)
<1> SUFFICES ASSUME ~Live
             PROVE  Spec => PassesKeepTheRecord
  OBVIOUS
<1>1. Disciplined /\ [Next]_vars =>
        \A i \in DOMAIN results.lines :
          /\ i \in DOMAIN results'.lines
          /\ \/ Recorded(results'.lines[i]) = Recorded(results.lines[i])
             \/ results.open /\ i = Len(results.lines) /\ results'.lines[i] = Garbled
  BY RowsStay
<1>2. Spec => RowsSurvive
  BY <1>1, DisciplinedAlways, PTL DEF Spec, RowsSurvive
<1>3. Disciplined /\ [Next]_vars =>
        (pass.pc = "stream" /\ pass'.pc = "done" /\ usage.torn = 0
           => \A row \in Parsed(results) : \E line \in Parsed(usage) : line.u.id = row.id)
  BY NoGap
<1>4. Spec => RetrofitLeavesNoGap
  BY <1>3, DisciplinedAlways, PTL DEF Spec, RetrofitLeavesNoGap
<1> QED
  BY <1>2, <1>4, TypeCorrect, PTL DEF PassesKeepTheRecord
=============================================================================
