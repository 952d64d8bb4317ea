----------------------------- MODULE Stage0Proofs -----------------------------
(***************************************************************************)
(* The stage-0 probe loses no row of the corpus or the registry except in  *)
(* a race, and what it records was measured: for any number of reps,       *)
(* invocations, kills and rows added and appended beside it.               *)
(***************************************************************************)
EXTENDS Stage0, FiniteSetTheorems, TLAPS

(***************************************************************************)
(* The invariants.                                                         *)
(***************************************************************************)

(* The corpus, and the copy of it the probe holds.  A row of a sweep that   *)
(* is not the probe's is of no rep of it.                                   *)
CorpusRow ==
  [sweep : {"probe", "other"}, rep : Reps \cup {0}, why : SUBSET KnownReasons,
   attempt : -MaxForeign..Len(attempts), tagged : BOOLEAN]

Ending ==
  [why : SUBSET KnownReasons, pass : BOOLEAN, turns : Nat, acceptance_requests : Int]

Attempt == [rep : Reps, end : Ending, live : Servers, gate : {"gated", "ungated"}]

CorpusTypes ==
  /\ results \in Seq(CorpusRow) /\ rows \in Seq(CorpusRow)
  /\ attempts \in Seq(Attempt) /\ foreign \in SUBSET ((-MaxForeign)..(-1))
  /\ IsFiniteSet(foreign)

ProbeTypes ==
  /\ live \in Servers /\ config \in Configs /\ mock \in BOOLEAN /\ ran \subseteq Reps
  /\ pc \in Exits \cup {"look", "gate", "gated", "ungated", "read", "tag", "retag", "count",
                        "truncate", "write"}
  /\ pc = "count" => \A i \in Own(rows) : rows[i].tagged
  /\ overlapped \in BOOLEAN /\ invoked \in 0..MaxInvocations /\ kills \in 0..MaxKills

(* A registry that add-model could have left, and recorded in.              *)
Roster == {r.model : r \in Requests} \ {"torn"}

Apart(s) ==
  \A i, j \in DOMAIN s : i # j => <<s[i].model, s[i].driver>> # <<s[j].model, s[j].driver>>

Sound(s) ==
  /\ s \in Seq(RegistryRow)
  /\ \A i \in DOMAIN s : s[i].model \in Roster
  /\ \A i \in DOMAIN s : s[i].deterministic_loops => s[i].noise_probe # NoProbe
  /\ Apart(s)

TornAfter(s, by) == s = by \/ s = Append(by, Torn)

RegistryTypes ==
  /\ \E by : Sound(by) /\ TornAfter(registry, by)
  /\ adder = [at |-> adder.at, rows |-> adder.rows, request |-> adder.request]
  /\ adder.at \in {"idle", "truncate", "write"}
  /\ Adding =>
       /\ adder.request \in Requests /\ ~NewRowRefused(adder.request)
       /\ Sound(adder.rows) /\ ~Has(adder.rows, adder.request.model, adder.request.driver)
  /\ Probing => Sound(known) /\ Has(known, Model, config.driver) /\ ~mock

Types == CorpusTypes /\ ProbeTypes /\ RegistryTypes

(* What was run or appended is in a corpus, or was exposed to a rewrite.    *)
Ids(corpus) == {corpus[i].attempt : i \in DOMAIN corpus}
InAll == foreign \cup DOMAIN attempts

CorpusKept ==
  /\ pc # "retag" => InAll \subseteq exposed \cup Ids(results)
  /\ pc \in {"tag", "retag"} => InAll \subseteq exposed \cup Ids(rows)

(* While no two rewrites meet, a writer holds all pairs that are on file.   *)
AllPairs == Pairs(Before) \cup added

RegistryKept ==
  overlapped \/
    /\ ~(Adding /\ Probing)
    /\ adder.at # "write" /\ pc # "write" => AllPairs \subseteq Pairs(registry)
    /\ Adding => AllPairs \subseteq Pairs(adder.rows)
    /\ Probing => AllPairs \subseteq Pairs(known)

(* The pins a pair can have: those of the row it begins with, and those it  *)
(* is added with.                                                           *)
Pins ==
  {Before[i] : i \in DOMAIN Before} \cup {NewRow(r) : r \in {q \in Requests : ~NewRowRefused(q)}}

SamePin(p, row) == p.model = row.model /\ p.driver = row.driver /\ p.serving = row.serving

(* The registry never pins two servers for one pair: a row that was lost in *)
(* a race is added again as it was.                                         *)
OnePinPerPair ==
  \A p, q \in Pins : p.model = q.model /\ p.driver = q.driver => p.serving = q.serving

Shows(server, driver) ==
  /\ server.state = "up"
  /\ \E p \in Pins :
       /\ p.model = Model /\ p.driver = driver
       /\ \A f \in PREFLIGHT_FIELDS : server[f] = p.serving[f]

(* Who is past the look has seen the server the row pins, and the server is *)
(* not changed under it.                                                    *)
Looked ==
  /\ pc \in {"gate", "gated", "ungated"} /\ ~mock => Shows(live, config.driver)
  /\ pc \in {"gated", "ungated"} => config.driver = "claude-code"

(* Every scored attempt was run on that server.                             *)
AttemptsShow ==
  \A k \in DOMAIN attempts :
    InDenominator(attempts[k].end.why) => Shows(attempts[k].live, "claude-code")

(* A row of the probe is of an attempt of its rep, or of none and unscored. *)
(* These say it of any history, to compare one with a longer one.           *)
OfAttempt(all, row) ==
  IF row.attempt = 0 THEN ~InDenominator(row.why)
  ELSE /\ row.attempt \in DOMAIN all
       /\ all[row.attempt].rep = row.rep /\ all[row.attempt].end.why = row.why

HonestRow(all, row) ==
  IF row.sweep = "probe" THEN row.rep \in Reps /\ OfAttempt(all, row) ELSE row.rep = 0

Honest(all, corpus) == \A i \in DOMAIN corpus : HonestRow(all, corpus[i])

RowsHonest == Honest(attempts, results) /\ Honest(attempts, rows)

(* What is read back has a row of every rep; and all of them scored only if *)
(* the reps were run.                                                       *)
Covered(corpus, reps) == \A r \in reps : \E i \in Own(corpus) : corpus[i].rep = r
Unrun(corpus) == \E i \in Own(corpus) : ~InDenominator(corpus[i].why)

AllCovered ==
  /\ pc \in {"look", "gate", "gated", "ungated"} => Covered(results, ran)
  /\ pc = "read" => Covered(results, Reps) /\ Unrun(results)
  /\ pc \in {"tag", "retag", "count"} =>
       Covered(rows, Reps) /\ (config.driver = "claude-code" \/ Unrun(rows))

(* The rows of a registry have the pins of their pair, and what they say of *)
(* noise is earned, by a history of attempts.                               *)
BackedBy(all, sample, row) ==
  /\ {all[a].rep : a \in sample} = Reps /\ Cardinality(sample) = Cardinality(Reps)
  /\ \A a \in sample :
       /\ InDenominator(all[a].end.why)
       /\ all[a].live.state = "up"
       /\ \A f \in PREFLIGHT_FIELDS : all[a].live[f] = row.serving[f]

PassesIn(all, sample) == Cardinality({a \in sample : all[a].end.pass})

Measured(all, row) ==
  row.noise_probe # NoProbe =>
    \E sample \in SUBSET DOMAIN all :
      /\ BackedBy(all, sample, row)
      /\ row.noise_probe =
           [identical |-> Max({PassesIn(all, sample),
                              Cardinality(sample) - PassesIn(all, sample)}),
            of |-> Cardinality(sample)]

Determined(all, row) ==
  row.noise_probe # NoProbe /\ row.deterministic_loops =>
    \E sample \in SUBSET DOMAIN all :
      /\ BackedBy(all, sample, row) /\ Cardinality(sample) >= 5
      /\ \A a, b \in sample : all[a].end.pass = all[b].end.pass

Earned(all, row) ==
  (\E p \in Pins : SamePin(p, row)) /\ Measured(all, row) /\ Determined(all, row)

AllEarned(all, s) == \A i \in DOMAIN s : s[i].model # "torn" => Earned(all, s[i])

RegistryEarned ==
  /\ AllEarned(attempts, registry)
  /\ Adding => AllEarned(attempts, adder.rows)
  /\ Probing => AllEarned(attempts, known)

(***************************************************************************)
(* Sequences and sets.                                                     *)
(***************************************************************************)

LEMMA Longer ==
  ASSUME NEW A, NEW B, A \subseteq B, NEW s \in Seq(A)
  PROVE  s \in Seq(B)
OBVIOUS

LEMMA Appended ==
  ASSUME NEW S, NEW p \in Seq(S), NEW e \in S, NEW q, q = Append(p, e)
  PROVE  /\ q \in Seq(S) /\ Len(p) \in Nat /\ Len(q) = Len(p) + 1
         /\ DOMAIN p = 1..Len(p) /\ DOMAIN q = 1..(Len(p) + 1)
         /\ q[Len(p) + 1] = e /\ \A k \in 1..Len(p) : q[k] = p[k]
OBVIOUS

LEMMA Joined ==
  ASSUME NEW S, NEW p \in Seq(S), NEW r \in Seq(S), NEW q, q = p \o r
  PROVE  /\ q \in Seq(S) /\ Len(p) \in Nat /\ Len(r) \in Nat
         /\ DOMAIN p = 1..Len(p) /\ DOMAIN r = 1..Len(r) /\ DOMAIN q = 1..(Len(p) + Len(r))
         /\ \A k \in 1..Len(p) : q[k] = p[k]
         /\ \A k \in 1..Len(r) : q[Len(p) + k] = r[k]
OBVIOUS

LEMMA NothingListed == DOMAIN <<>> = {}
OBVIOUS

(* SetToSeq lists all of a finite set.                                      *)
LEMMA Listed ==
  ASSUME NEW S, IsFiniteSet(S)
  PROVE  /\ Cardinality(S) \in Nat
         /\ SetToSeq(S) \in [1..Cardinality(S) -> S]
         /\ \A x \in S : \E i \in 1..Cardinality(S) : SetToSeq(S)[i] = x
<1> DEFINE N == Cardinality(S)
<1>1. N \in Nat /\ ExistsBijection(1..N, S)
  BY FS_CardinalityType
<1>2. \E f \in [1..N -> S] : IsInjective(f)
  BY <1>1 DEF ExistsBijection, Bijection, Injection
<1>3. SetToSeq(S) \in [1..N -> S] /\ IsInjective(SetToSeq(S))
  BY <1>2 DEF SetToSeq
<1>4. SetToSeq(S) \in Injection(1..N, S)
  BY <1>3 DEF Injection
<1>5. Cardinality(1..N) = N
  BY <1>1, FS_Interval
<1>6. SetToSeq(S) \in Surjection(1..N, S)
  BY <1>4, <1>5, FS_Injection
<1> QED
  BY <1>1, <1>3, <1>6 DEF Surjection

(* The larger of the two halves of a number is that number only if the      *)
(* other is zero.                                                           *)
LEMMA Unanimous ==
  ASSUME NEW n \in Nat, NEW p \in 0..n
  PROVE  /\ Max({p, n - p}) \in Nat
         /\ Max({p, n - p}) = n => p = n \/ p = 0
<1>1. \E x \in {p, n - p} : \A y \in {p, n - p} : x >= y
  <2>1. CASE p >= n - p
    BY <2>1
  <2>2. CASE n - p >= p
    BY <2>2
  <2> QED
    BY <2>1, <2>2
<1>2. Max({p, n - p}) \in {p, n - p}
  BY <1>1 DEF Max
<1> QED
  BY <1>2

(***************************************************************************)
(* Types.                                                                  *)
(***************************************************************************)

USE DEF files, probe, history

LEMMA CorpusInit == Init => CorpusTypes
<1> SUFFICES ASSUME Init PROVE CorpusTypes
  OBVIOUS
<1>1. results = <<>> /\ rows = <<>> /\ attempts = <<>> /\ foreign = {}
  BY DEF Init
<1>2. IsFiniteSet(foreign)
  BY <1>1, FS_EmptySet
<1> QED
  BY <1>1, <1>2 DEF CorpusTypes

LEMMA CorpusStill ==
  ASSUME CorpusTypes, UNCHANGED <<results, rows, attempts, foreign>>
  PROVE  CorpusTypes'
BY DEF CorpusTypes, CorpusRow

(* The rows Undispatched appends: one of each rep without one of its reason.*)
Missing ==
  {r \in Reps : \A i \in DOMAIN results : results[i].rep = r => results[i].why # {GateAnswer}}

NotRun ==
  [i \in 1..Cardinality(Missing) |->
     [sweep |-> "probe", rep |-> SetToSeq(Missing)[i], why |-> {GateAnswer},
      attempt |-> 0, tagged |-> FALSE]]

LEMMA MissingListed ==
  /\ Cardinality(Missing) \in Nat
  /\ SetToSeq(Missing) \in [1..Cardinality(Missing) -> Missing]
  /\ \A r \in Missing : \E i \in 1..Cardinality(Missing) : SetToSeq(Missing)[i] = r
<1>1. IsFiniteSet(Missing)
  BY Stage0Assumption, FS_Subset DEF Missing
<1> QED
  BY <1>1, Listed

LEMMA NotRunTyped ==
  ASSUME CorpusTypes, Undispatched
  PROVE  NotRun \in Seq(CorpusRow) /\ results' = results \o NotRun
<1>1. GateAnswer \in KnownReasons
  BY DEF Undispatched, KnownReasons, Infra
<1>2. Missing \subseteq Reps
  BY DEF Missing
<1>3. Len(attempts) \in Nat
  BY DEF CorpusTypes
<1>4. 0 \in (-MaxForeign)..Len(attempts)
  BY <1>3, Stage0Assumption
<1>5. ASSUME NEW i \in 1..Cardinality(Missing)
      PROVE  [sweep |-> "probe", rep |-> SetToSeq(Missing)[i], why |-> {GateAnswer},
              attempt |-> 0, tagged |-> FALSE] \in CorpusRow
  <2>1. SetToSeq(Missing)[i] \in Reps
    BY <1>2, MissingListed
  <2> QED
    BY <1>1, <1>4, <2>1 DEF CorpusRow
<1>6. NotRun \in [1..Cardinality(Missing) -> CorpusRow]
  BY <1>5 DEF NotRun
<1>7. NotRun \in Seq(CorpusRow)
  BY <1>6, MissingListed
<1> QED
  BY <1>7 DEF Undispatched, NotRun, Missing

(* A rep that is run, and its row.                                          *)
LEMMA RepRun ==
  ASSUME CorpusTypes, ProbeTypes, RunRep
  PROVE  /\ attempts' \in Seq(Attempt') /\ results' \in Seq(CorpusRow')
         /\ rows \in Seq(CorpusRow')
<1>1. PICK r \in Waiting : \E e \in Endings[r] :
        /\ mock <=> e.why = {"mock"}
        /\ attempts' = Append(attempts, [rep |-> r, end |-> e, live |-> live, gate |-> pc])
        /\ results' = Append(results, [sweep |-> "probe", rep |-> r, why |-> e.why,
                                       attempt |-> Len(attempts'), tagged |-> FALSE])
  BY DEF RunRep
<1>2. PICK e \in Endings[r] :
        /\ attempts' = Append(attempts, [rep |-> r, end |-> e, live |-> live, gate |-> pc])
        /\ results' = Append(results, [sweep |-> "probe", rep |-> r, why |-> e.why,
                                       attempt |-> Len(attempts'), tagged |-> FALSE])
  BY <1>1
<1>3. r \in Reps
  BY DEF Waiting
<1>4. e \in Ending
  BY <1>3, Stage0Assumption DEF Ending
<1> DEFINE a == [rep |-> r, end |-> e, live |-> live, gate |-> pc]
           row == [sweep |-> "probe", rep |-> r, why |-> e.why,
                   attempt |-> Len(attempts'), tagged |-> FALSE]
<1>5. a \in Attempt
  BY <1>3, <1>4 DEF Attempt, ProbeTypes, RunRep
<1>6. attempts' \in Seq(Attempt) /\ Len(attempts) \in Nat /\ Len(attempts') = Len(attempts) + 1
  <2>1. attempts \in Seq(Attempt)
    BY DEF CorpusTypes
  <2> QED
    BY <1>2, <1>5, <2>1, Appended
<1>7. Attempt' = Attempt
  BY DEF Attempt
<1>8. /\ (-MaxForeign)..Len(attempts) \subseteq (-MaxForeign)..Len(attempts')
      /\ Len(attempts') \in (-MaxForeign)..Len(attempts')
  BY <1>6, Stage0Assumption
<1>9. CorpusRow \subseteq CorpusRow'
  BY <1>8 DEF CorpusRow
<1>10. results \in Seq(CorpusRow') /\ rows \in Seq(CorpusRow')
  BY <1>9, Longer DEF CorpusTypes
<1>11. row \in CorpusRow'
  BY <1>3, <1>4, <1>8 DEF CorpusRow, Ending
<1>12. results' \in Seq(CorpusRow')
  BY <1>2, <1>10, <1>11, Appended
<1> QED
  BY <1>6, <1>7, <1>10, <1>12

(* The tag changes nothing else.                                            *)
LEMMA TagOne ==
  ASSUME NEW row \in CorpusRow, NEW t, t = [row EXCEPT !.tagged = TRUE]
  PROVE  /\ t \in CorpusRow /\ t.sweep = row.sweep /\ t.rep = row.rep
         /\ t.why = row.why /\ t.attempt = row.attempt /\ t.tagged
BY DEF CorpusRow

LEMMA Tagged ==
  ASSUME CorpusTypes
  PROVE  /\ TagStage0(rows) \in Seq(CorpusRow)
         /\ DOMAIN TagStage0(rows) = DOMAIN rows
         /\ \A i \in DOMAIN rows :
              /\ TagStage0(rows)[i].sweep = rows[i].sweep /\ TagStage0(rows)[i].rep = rows[i].rep
              /\ TagStage0(rows)[i].why = rows[i].why
              /\ TagStage0(rows)[i].attempt = rows[i].attempt
              /\ rows[i].sweep = "probe" => TagStage0(rows)[i].tagged
<1> DEFINE t == TagStage0(rows)
<1>1. rows \in Seq(CorpusRow) /\ DOMAIN rows = 1..Len(rows) /\ Len(rows) \in Nat
  BY DEF CorpusTypes
<1>2. DOMAIN t = DOMAIN rows
  BY DEF TagStage0
<1>3. ASSUME NEW i \in DOMAIN rows
      PROVE  /\ t[i] \in CorpusRow
             /\ t[i].sweep = rows[i].sweep /\ t[i].rep = rows[i].rep
             /\ t[i].why = rows[i].why /\ t[i].attempt = rows[i].attempt
             /\ rows[i].sweep = "probe" => t[i].tagged
  <2>1. rows[i] \in CorpusRow
    BY <1>1
  <2>2. t[i] = IF rows[i].sweep = "probe" THEN [rows[i] EXCEPT !.tagged = TRUE] ELSE rows[i]
    BY DEF TagStage0
  <2> HIDE DEF t
  <2>3. CASE rows[i].sweep = "probe"
    BY <2>1, <2>2, <2>3, TagOne
  <2>4. CASE rows[i].sweep # "probe"
    BY <2>1, <2>2, <2>4
  <2> QED
    BY <2>3, <2>4
<1>4. t = [i \in 1..Len(rows) |-> t[i]]
  BY <1>1 DEF TagStage0
<1> HIDE DEF t
<1>5. t \in [1..Len(rows) -> CorpusRow]
  BY <1>1, <1>3, <1>4
<1>6. t \in Seq(CorpusRow)
  BY <1>1, <1>5
<1> QED
  BY <1>2, <1>3, <1>6 DEF t

LEMMA CorpusStep == CorpusTypes /\ ProbeTypes /\ (Next \/ UNCHANGED vars) => CorpusTypes'
<1> SUFFICES ASSUME CorpusTypes, ProbeTypes, Next \/ UNCHANGED vars
             PROVE  CorpusTypes'
  OBVIOUS
<1> DEFINE Still == UNCHANGED <<results, rows, attempts, foreign>>
<1>1. CASE ForeignAppend
  <2> DEFINE n == -(Cardinality(foreign) + 1)
             row == [sweep |-> "other", rep |-> 0, why |-> {"ok"}, attempt |-> n,
                     tagged |-> FALSE]
  <2>1. /\ Cardinality(foreign) < MaxForeign /\ foreign' = foreign \cup {n}
        /\ results' = Append(results, row) /\ UNCHANGED <<rows, attempts>>
    BY <1>1 DEF ForeignAppend
  <2>2. Cardinality(foreign) \in Nat /\ MaxForeign \in Nat
    BY FS_CardinalityType, Stage0Assumption DEF CorpusTypes
  <2>3. Len(attempts) \in Nat
    BY DEF CorpusTypes
  <2>4. n \in (-MaxForeign)..(-1) /\ n \in (-MaxForeign)..Len(attempts)
    BY <2>1, <2>2, <2>3
  <2>5. IsFiniteSet(foreign')
    BY <2>1, FS_AddElement DEF CorpusTypes
  <2>6. {"ok"} \subseteq KnownReasons
    BY DEF KnownReasons, Scored
  <2> HIDE DEF n
  <2>7. row \in CorpusRow
    BY <2>4, <2>6 DEF CorpusRow
  <2>8. results' \in Seq(CorpusRow)
    BY <2>1, <2>7, Appended DEF CorpusTypes
  <2>9. CorpusRow' = CorpusRow
    BY <2>1 DEF CorpusRow
  <2>10. foreign' \in SUBSET ((-MaxForeign)..(-1))
    BY <2>1, <2>4 DEF CorpusTypes
  <2> QED
    BY <2>1, <2>5, <2>8, <2>9, <2>10 DEF CorpusTypes
<1>2. CASE Invoke
  <2>1. rows' = <<>> /\ UNCHANGED <<results, attempts, foreign>>
    BY <1>2 DEF Invoke
  <2> QED
    BY <2>1 DEF CorpusTypes, CorpusRow
<1>3. CASE Undispatched
  <2>1. results' \in Seq(CorpusRow)
    BY <1>3, NotRunTyped, Joined DEF CorpusTypes
  <2>2. UNCHANGED <<rows, attempts, foreign>>
    BY <1>3 DEF Undispatched
  <2> QED
    BY <2>1, <2>2 DEF CorpusTypes, CorpusRow
<1>4. CASE RunRep
  <2>1. UNCHANGED <<rows, foreign>>
    BY <1>4 DEF RunRep
  <2> QED
    BY <1>4, <2>1, RepRun DEF CorpusTypes
<1>5. CASE Read
  <2>1. rows' = results /\ UNCHANGED <<results, attempts, foreign>>
    BY <1>5 DEF Read
  <2> QED
    BY <2>1 DEF CorpusTypes, CorpusRow
<1>6. CASE TruncateToTag
  <2>1. results' = <<>> /\ UNCHANGED <<rows, attempts, foreign>>
    BY <1>6 DEF TruncateToTag
  <2> QED
    BY <2>1 DEF CorpusTypes, CorpusRow
<1>7. CASE WriteTagged
  <2>1. results' = TagStage0(rows) /\ rows' = TagStage0(rows) /\ UNCHANGED <<attempts, foreign>>
    BY <1>7 DEF WriteTagged
  <2>2. results' \in Seq(CorpusRow) /\ rows' \in Seq(CorpusRow)
    BY <2>1, Tagged
  <2> QED
    BY <2>1, <2>2 DEF CorpusTypes, CorpusRow
<1>8. CASE Still
  BY <1>8, CorpusStill
<1>9. SetServer \/ Adder \/ KillProbe \/ UNCHANGED vars => Still
  BY DEF SetServer, Adder, AddModel, TruncateToAdd, WriteAdded, KillAdder, KillProbe, vars
<1>10. \/ Look \/ Rejected \/ Dispatched \/ WrongCount \/ Refuse \/ Provisional
       \/ RecordElsewhere \/ Record \/ TruncateToRecord \/ WriteRecorded
       => Still
  BY DEF Look, Rejected, Dispatched, WrongCount, Refuse, Provisional, RecordElsewhere, Record,
     TruncateToRecord, WriteRecorded, Quiet
<1> HIDE DEF Still
<1> QED
  BY <1>1, <1>2, <1>3, <1>4, <1>5, <1>6, <1>7, <1>8, <1>9, <1>10 DEF Next, Probe

LEMMA ProbeInit == Init => ProbeTypes
<1> SUFFICES ASSUME Init PROVE ProbeTypes
  OBVIOUS
<1>1. config \in Configs
  BY Stage0Assumption DEF Init
<1>2. invoked \in 0..MaxInvocations /\ kills \in 0..MaxKills
  BY Stage0Assumption DEF Init
<1>3. mock \in BOOLEAN /\ overlapped \in BOOLEAN
  BY Zenon DEF Init
<1>4. pc = "idle" /\ live \in Servers /\ ran = {}
  BY DEF Init
<1> QED
  BY <1>1, <1>2, <1>3, <1>4 DEF ProbeTypes, Exits

(* Truth values.                                                            *)
LEMMA EitherIsTruth ==
  ASSUME NEW a, NEW b, NEW c, c = (a \/ b)
  PROVE  c \in BOOLEAN
BY Zenon

LEMMA OverlappedTyped ==
  ASSUME overlapped \in BOOLEAN, Next \/ UNCHANGED vars
  PROVE  overlapped' \in BOOLEAN
<1>1. overlapped' = (overlapped \/ Probing) => overlapped' \in BOOLEAN
  BY EitherIsTruth
<1>2. overlapped' = (overlapped \/ Adding) => overlapped' \in BOOLEAN
  BY EitherIsTruth
<1>3. \/ overlapped' = overlapped \/ overlapped' = TRUE
      \/ overlapped' = (overlapped \/ Probing) \/ overlapped' = (overlapped \/ Adding)
  BY Zenon DEF Next, Adder, Probe, SetServer, ForeignAppend, AddModel, TruncateToAdd, WriteAdded,
     KillAdder, Invoke, Look, Rejected, Dispatched, Undispatched, RunRep, Read, TruncateToTag,
     WriteTagged, WrongCount, Refuse, Provisional, RecordElsewhere, Record, TruncateToRecord,
     WriteRecorded, KillProbe, Quiet, vars
<1> QED
  BY <1>1, <1>2, <1>3, Zenon

LEMMA OneMore ==
  ASSUME NEW max \in Nat, NEW n \in 0..max, n < max
  PROVE  n + 1 \in 0..max
OBVIOUS

LEMMA ProbeStep == CorpusTypes /\ ProbeTypes /\ (Next \/ UNCHANGED vars) => ProbeTypes'
<1> SUFFICES ASSUME CorpusTypes, ProbeTypes, Next \/ UNCHANGED vars
             PROVE  ProbeTypes'
  OBVIOUS
<1> USE Stage0Assumption
<1>0. overlapped' \in BOOLEAN
  BY OverlappedTyped DEF ProbeTypes
<1> USE <1>0 DEF ProbeTypes, Exits
<1>1. CASE SetServer
  BY <1>1 DEF SetServer
<1>2. CASE ForeignAppend
  BY <1>2 DEF ForeignAppend, Own
<1>3. CASE Adder
  <2>1. UNCHANGED <<live, probe, invoked>> /\ kills' \in 0..MaxKills
    <3>1. CASE KillAdder
      BY <3>1, OneMore DEF KillAdder
    <3>2. CASE AddModel \/ TruncateToAdd \/ WriteAdded
      BY <3>2 DEF AddModel, TruncateToAdd, WriteAdded
    <3> QED
      BY <1>3, <3>1, <3>2 DEF Adder
  <2> QED
    BY <2>1 DEF Own
<1>4. CASE Invoke
  <2>1. config' \in Configs /\ mock' \in BOOLEAN /\ pc' \in {"gate", "look"}
    BY <1>4, Zenon DEF Invoke
  <2>2. invoked' \in 0..MaxInvocations
    BY <1>4, OneMore DEF Invoke
  <2>3. ran' = {} /\ UNCHANGED <<live, kills>>
    BY <1>4 DEF Invoke
  <2> QED
    BY <2>1, <2>2, <2>3
<1>5. CASE Look \/ Rejected \/ Dispatched
  BY <1>5 DEF Look, Rejected, Dispatched, Quiet
<1>6. CASE Undispatched
  BY <1>6 DEF Undispatched
<1>7. CASE RunRep
  <2>1. ran' \subseteq Reps
    BY <1>7 DEF RunRep, Waiting
  <2> QED
    BY <1>7, <2>1 DEF RunRep
<1>8. CASE Read \/ TruncateToTag
  BY <1>8 DEF Read, TruncateToTag
<1>9. CASE WriteTagged
  <2>1. rows' = TagStage0(rows)
    BY <1>9 DEF WriteTagged
  <2>2. \A i \in Own(rows)' : rows'[i].tagged
    BY <2>1, Tagged DEF Own
  <2> QED
    BY <1>9, <2>2 DEF WriteTagged
<1>10. CASE WrongCount \/ Refuse \/ Provisional \/ RecordElsewhere
  BY <1>10 DEF WrongCount, Refuse, Provisional, RecordElsewhere, Quiet
<1>11. CASE Record
  BY <1>11 DEF Record
<1>12. CASE TruncateToRecord \/ WriteRecorded
  BY <1>12 DEF TruncateToRecord, WriteRecorded
<1>13. CASE KillProbe
  <2>1. kills' \in 0..MaxKills
    BY <1>13, OneMore DEF KillProbe
  <2>2. pc' = "idle" /\ UNCHANGED <<live, config, mock, ran, invoked>>
    BY <1>13 DEF KillProbe
  <2> QED
    BY <2>1, <2>2
<1>14. CASE UNCHANGED vars
  BY <1>14 DEF vars, Own
<1> QED
  BY <1>1, <1>2, <1>3, <1>4, <1>5, <1>6, <1>7, <1>8, <1>9, <1>10, <1>11, <1>12, <1>13, <1>14
  DEF Next, Probe

(***************************************************************************)
(* The corpus.                                                             *)
(***************************************************************************)

LEMMA IdsOfAppended ==
  ASSUME NEW S, NEW p \in Seq(S), NEW e \in S, NEW q, q = Append(p, e)
  PROVE  Ids(p) \cup {e.attempt} \subseteq Ids(q)
<1>1. /\ Len(p) \in Nat /\ DOMAIN p = 1..Len(p) /\ DOMAIN q = 1..(Len(p) + 1)
      /\ q[Len(p) + 1] = e /\ \A k \in 1..Len(p) : q[k] = p[k]
  BY Appended
<1>2. e.attempt \in Ids(q)
  <2>1. Len(p) + 1 \in DOMAIN q
    BY <1>1
  <2> QED
    BY <1>1, <2>1 DEF Ids
<1>3. ASSUME NEW i \in DOMAIN p PROVE p[i].attempt \in Ids(q)
  <2>1. i \in DOMAIN q /\ q[i] = p[i]
    BY <1>1
  <2> QED
    BY <2>1 DEF Ids
<1> QED
  BY <1>2, <1>3 DEF Ids

LEMMA IdsOfJoined ==
  ASSUME NEW S, NEW p \in Seq(S), NEW r \in Seq(S), NEW q, q = p \o r
  PROVE  Ids(p) \subseteq Ids(q)
<1>1. /\ Len(p) \in Nat /\ Len(r) \in Nat /\ DOMAIN p = 1..Len(p)
      /\ DOMAIN q = 1..(Len(p) + Len(r)) /\ \A k \in 1..Len(p) : q[k] = p[k]
  BY Joined
<1>2. ASSUME NEW i \in DOMAIN p PROVE p[i].attempt \in Ids(q)
  <2>1. i \in DOMAIN q /\ q[i] = p[i]
    BY <1>1
  <2> QED
    BY <2>1 DEF Ids
<1> QED
  BY <1>2 DEF Ids

LEMMA IdsOfTagged ==
  ASSUME CorpusTypes
  PROVE  Ids(TagStage0(rows)) = Ids(rows)
BY Tagged DEF Ids

LEMMA KeptStep ==
  CorpusTypes /\ ProbeTypes /\ CorpusKept /\ (Next \/ UNCHANGED vars) => CorpusKept'
<1> SUFFICES ASSUME CorpusTypes, ProbeTypes, CorpusKept, Next \/ UNCHANGED vars
             PROVE  CorpusKept'
  OBVIOUS
<1> DEFINE Still == UNCHANGED <<results, rows, attempts, foreign, exposed>>
<1>1. CASE ForeignAppend
  <2> DEFINE n == -(Cardinality(foreign) + 1)
             row == [sweep |-> "other", rep |-> 0, why |-> {"ok"}, attempt |-> n,
                     tagged |-> FALSE]
  <2>1. /\ foreign' = foreign \cup {n} /\ results' = Append(results, row)
        /\ exposed' = IF pc \in {"tag", "retag"} THEN exposed \cup {n} ELSE exposed
        /\ UNCHANGED <<rows, attempts, pc>>
    BY <1>1 DEF ForeignAppend
  <2>2. row.attempt = n
    OBVIOUS
  <2> HIDE DEF row, n
  <2>3. results \in Seq(CorpusRow \cup {row}) /\ row \in CorpusRow \cup {row}
    BY Longer DEF CorpusTypes
  <2>4. Ids(results) \cup {n} \subseteq Ids(results')
    <3>1. results' = Append(results, row)
      BY <2>1
    <3>2. Ids(results) \cup {row.attempt} \subseteq Ids(results')
      BY <2>3, <3>1, IdsOfAppended
    <3> QED
      BY <2>2, <3>2
  <2>5. InAll' = InAll \cup {n}
    BY <2>1 DEF InAll
  <2>6. pc' # "retag" => InAll' \subseteq exposed' \cup Ids(results')
    BY <2>1, <2>4, <2>5 DEF CorpusKept
  <2>7. pc' \in {"tag", "retag"} => InAll' \subseteq exposed' \cup Ids(rows)
    BY <2>1, <2>5 DEF CorpusKept
  <2> QED
    BY <2>1, <2>6, <2>7 DEF CorpusKept
<1>2. CASE Undispatched
  <2>1. Ids(results) \subseteq Ids(results')
    BY <1>2, NotRunTyped, IdsOfJoined DEF CorpusTypes
  <2>2. pc = "gate" /\ pc' = "read" /\ UNCHANGED <<attempts, foreign, exposed>>
    BY <1>2 DEF Undispatched
  <2> QED
    BY <2>1, <2>2 DEF CorpusKept, InAll
<1>3. CASE RunRep
  <2>1. PICK r \in Waiting, e \in UNION {Endings[q] : q \in Reps} :
          /\ attempts' = Append(attempts, [rep |-> r, end |-> e, live |-> live, gate |-> pc])
          /\ results' = Append(results, [sweep |-> "probe", rep |-> r, why |-> e.why,
                                         attempt |-> Len(attempts'), tagged |-> FALSE])
    BY <1>3 DEF RunRep, Waiting
  <2>2. pc \in {"gated", "ungated"} /\ UNCHANGED <<pc, foreign, exposed>>
    BY <1>3 DEF RunRep
  <2> DEFINE row == [sweep |-> "probe", rep |-> r, why |-> e.why,
                     attempt |-> Len(attempts'), tagged |-> FALSE]
             one == [rep |-> r, end |-> e, live |-> live, gate |-> pc]
  <2>3. row.attempt = Len(attempts')
    OBVIOUS
  <2>4. attempts' = Append(attempts, one) /\ results' = Append(results, row)
    BY <2>1
  <2> HIDE DEF row, one
  <2>5. /\ results \in Seq(CorpusRow \cup {row}) /\ row \in CorpusRow \cup {row}
        /\ attempts \in Seq(Attempt \cup {one}) /\ one \in Attempt \cup {one}
    BY Longer DEF CorpusTypes
  <2>6. Ids(results) \cup {Len(attempts')} \subseteq Ids(results')
    <3>1. Ids(results) \cup {row.attempt} \subseteq Ids(results')
      BY <2>4, <2>5, IdsOfAppended
    <3> QED
      BY <2>3, <3>1
  <2>7. /\ Len(attempts) \in Nat /\ Len(attempts') = Len(attempts) + 1
        /\ DOMAIN attempts = 1..Len(attempts) /\ DOMAIN attempts' = 1..(Len(attempts) + 1)
    <3>1. attempts' \in Seq(Attempt \cup {one})
      BY <2>4, <2>5, Appended
    <3> QED
      BY <2>4, <2>5, <3>1, Appended
  <2>8. DOMAIN attempts' = DOMAIN attempts \cup {Len(attempts')}
    BY <2>7
  <2> QED
    BY <2>2, <2>6, <2>8 DEF CorpusKept, InAll
<1>4. CASE Read
  <2>1. rows' = results /\ pc # "retag" /\ pc' = "tag"
        /\ UNCHANGED <<results, attempts, foreign, exposed>>
    BY <1>4 DEF Read
  <2> QED
    BY <2>1 DEF CorpusKept, InAll
<1>5. CASE TruncateToTag
  <2>1. pc = "tag" /\ pc' = "retag" /\ UNCHANGED <<rows, attempts, foreign, exposed>>
    BY <1>5 DEF TruncateToTag
  <2> QED
    BY <2>1 DEF CorpusKept, InAll
<1>6. CASE WriteTagged
  <2>1. /\ pc = "retag" /\ pc' = "count" /\ results' = TagStage0(rows)
        /\ UNCHANGED <<attempts, foreign, exposed>>
    BY <1>6 DEF WriteTagged
  <2>2. Ids(results') = Ids(rows)
    BY <2>1, IdsOfTagged
  <2> QED
    BY <2>1, <2>2 DEF CorpusKept, InAll
<1>7. CASE KillProbe
  <2>1. /\ exposed' = IF pc = "retag" THEN exposed \cup Ids(rows) ELSE exposed
        /\ pc' = "idle" /\ UNCHANGED <<results, attempts, foreign>>
    BY <1>7 DEF KillProbe, Ids
  <2> QED
    BY <2>1 DEF CorpusKept, InAll
<1>8. CASE Invoke
  <2>1. /\ pc # "retag" /\ pc' \in {"gate", "look"}
        /\ UNCHANGED <<results, attempts, foreign, exposed>>
    BY <1>8 DEF Invoke, Exits
  <2> QED
    BY <2>1 DEF CorpusKept, InAll
<1>9. SetServer \/ Adder \/ UNCHANGED vars => Still /\ pc' = pc
  BY DEF SetServer, Adder, AddModel, TruncateToAdd, WriteAdded, KillAdder, vars
<1>10. \/ Look \/ Rejected \/ Dispatched \/ WrongCount \/ Refuse \/ Provisional
       \/ RecordElsewhere \/ Record \/ TruncateToRecord \/ WriteRecorded
       => Still /\ pc # "retag" /\ pc' \notin {"tag", "retag"}
  BY DEF Look, Rejected, Dispatched, WrongCount, Refuse, Provisional, RecordElsewhere, Record,
     TruncateToRecord, WriteRecorded, Quiet
<1>11. CASE Still /\ pc # "retag" /\ pc' \notin {"tag", "retag"}
  BY <1>11 DEF CorpusKept, InAll
<1>12. CASE Still /\ pc' = pc
  BY <1>12 DEF CorpusKept, InAll
<1> HIDE DEF Still
<1> QED
  BY <1>1, <1>2, <1>3, <1>4, <1>5, <1>6, <1>7, <1>8, <1>9, <1>10, <1>11, <1>12 DEF Next, Probe

(* run_stage0: between reading the corpus and having written it back, the   *)
(* probe loses only what other sweeps append, and all of it only when it is *)
(* killed; whatever else runs, is added or is killed.                       *)
THEOREM CorpusLostOnlyInARewriteHolds == Spec => []CorpusLostOnlyInARewrite
<1> DEFINE Inv == CorpusTypes /\ ProbeTypes /\ CorpusKept
<1>1. Init => CorpusKept
  <2> SUFFICES ASSUME Init PROVE CorpusKept
    OBVIOUS
  <2>1. attempts = <<>> /\ foreign = {} /\ pc = "idle"
    BY DEF Init
  <2>2. InAll = {}
    BY <2>1, NothingListed DEF InAll
  <2> QED
    BY <2>1, <2>2 DEF CorpusKept
<1>2. Init => Inv
  BY <1>1, CorpusInit, ProbeInit
<1>3. Inv /\ [Next]_vars => Inv'
  BY CorpusStep, ProbeStep, KeptStep
<1>4. Inv => CorpusLostOnlyInARewrite
  <2> SUFFICES ASSUME CorpusKept PROVE CorpusLostOnlyInARewrite
    OBVIOUS
  <2> DEFINE inHand == IF pc = "retag" THEN ToSet(rows) ELSE {}
  <2>1. pc = "retag" => Ids(rows) \subseteq {row.attempt : row \in ToSet(results) \cup inHand}
    BY DEF Ids, ToSet
  <2>2. Ids(results) \subseteq {row.attempt : row \in ToSet(results) \cup inHand}
    BY DEF Ids, ToSet
  <2>3. InAll \subseteq exposed \cup {row.attempt : row \in ToSet(results) \cup inHand}
    BY <2>1, <2>2 DEF CorpusKept
  <2> QED
    BY <2>3 DEF CorpusLostOnlyInARewrite, InAll
<1> QED
  BY <1>2, <1>3, <1>4, PTL DEF Spec

(***************************************************************************)
(* The registry.                                                           *)
(***************************************************************************)

LEMMA NewRowSound ==
  ASSUME NEW r \in Requests, ~NewRowRefused(r)
  PROVE  /\ NewRow(r) \in RegistryRow /\ NewRow(r).model = r.model /\ NewRow(r).driver = r.driver
         /\ NewRow(r).model \in Roster /\ ~NewRow(r).deterministic_loops
         /\ NewRow(r).noise_probe = NoProbe
<1>1. SERVING_FIELDS \subseteq DOMAIN r.serving
  BY DEF NewRowRefused
<1>2. \A f \in SERVING_FIELDS : r.serving[f] \in Int
  BY <1>1, RegistryAssumption
<1>3. [f \in SERVING_FIELDS |-> r.serving[f]] \in [SERVING_FIELDS -> Int]
  BY <1>2
<1>4. NoProbe \in [identical : Nat, of : Nat]
  BY DEF NoProbe
<1>5. r.model \in STRING /\ r.driver \in STRING /\ r.model \in Roster
  BY RegistryAssumption DEF Roster
<1> QED
  BY <1>3, <1>4, <1>5 DEF NewRow, RegistryRow

LEMMA NoneSound == Sound(<<>>)
<1>1. DOMAIN <<>> = {}
  BY NothingListed
<1>2. <<>> \in Seq(RegistryRow)
  OBVIOUS
<1> QED
  BY <1>1, <1>2 DEF Sound, Apart

LEMMA AddedSound ==
  ASSUME NEW s, Sound(s), NEW row \in RegistryRow, row.model \in Roster,
         ~row.deterministic_loops, ~Has(s, row.model, row.driver),
         NEW t, t = Append(s, row)
  PROVE  Sound(t)
<1>1. s \in Seq(RegistryRow)
  BY DEF Sound
<1>2. /\ t \in Seq(RegistryRow) /\ Len(s) \in Nat /\ DOMAIN s = 1..Len(s)
      /\ DOMAIN t = 1..(Len(s) + 1) /\ t[Len(s) + 1] = row /\ \A k \in 1..Len(s) : t[k] = s[k]
  BY <1>1, Appended
<1>3. ASSUME NEW i \in DOMAIN t
      PROVE  (i \in DOMAIN s /\ t[i] = s[i]) \/ (i = Len(s) + 1 /\ i \notin DOMAIN s /\ t[i] = row)
  BY <1>2
<1>4. \A i \in DOMAIN s : <<s[i].model, s[i].driver>> # <<row.model, row.driver>>
  BY DEF Has, IsOf
<1>5. Apart(t)
  BY <1>3, <1>4 DEF Apart, Sound
<1> QED
  BY <1>2, <1>3, <1>5 DEF Sound

LEMMA OverwrittenTorn ==
  ASSUME NEW s, NEW by, NEW t \in Overwritten(s, by)
  PROVE  TornAfter(t, by)
BY DEF Overwritten, TornAfter

(* What can be read is sound.                                               *)
LEMMA ReadableSound ==
  ASSUME RegistryTypes, Readable
  PROVE  Sound(registry)
<1>1. PICK by : Sound(by) /\ TornAfter(registry, by)
  BY DEF RegistryTypes
<1>2. CASE registry = Append(by, Torn)
  <2>1. by \in Seq(RegistryRow \cup {Torn}) /\ Torn \in RegistryRow \cup {Torn}
    BY <1>1, Longer DEF Sound
  <2>2. /\ Len(by) \in Nat /\ registry[Len(by) + 1] = Torn
        /\ DOMAIN registry = 1..(Len(by) + 1)
    BY <1>2, <2>1, Appended
  <2>3. Len(by) + 1 \in DOMAIN registry
    BY <2>2
  <2>4. Torn.model = "torn"
    BY DEF Torn
  <2> QED
    BY <2>2, <2>3, <2>4 DEF Readable
<1> QED
  BY <1>1, <1>2 DEF TornAfter

(* record_noise_probe on a row of a registry.                               *)
RecordedIn(s, row, identical, of) ==
  [i \in DOMAIN s |-> IF s[i] = row THEN RecordNoiseProbe(row, identical, of) ELSE s[i]]

LEMMA RecordOne ==
  ASSUME NEW row \in RegistryRow, NEW identical \in Nat, NEW of \in Nat,
         NEW t, t = RecordNoiseProbe(row, identical, of)
  PROVE  /\ t \in RegistryRow /\ t.model = row.model /\ t.driver = row.driver
         /\ t.serving = row.serving /\ t.noise_probe = [identical |-> identical, of |-> of]
         /\ t.deterministic_loops => of >= 5 /\ identical = of
<1>1. (of >= 5 /\ identical = of) \in BOOLEAN
  OBVIOUS
<1> QED
  BY <1>1 DEF RecordNoiseProbe, RegistryRow

LEMMA RecordedSound ==
  ASSUME NEW s, Sound(s), NEW row, NEW identical \in Nat, NEW of \in Nat,
         NEW t, t = RecordedIn(s, row, identical, of)
  PROVE  /\ Sound(t) /\ DOMAIN t = DOMAIN s
         /\ \A i \in DOMAIN s : t[i].model = s[i].model /\ t[i].driver = s[i].driver
<1>1. s \in Seq(RegistryRow) /\ DOMAIN s = 1..Len(s) /\ Len(s) \in Nat
  BY DEF Sound
<1>2. DOMAIN t = DOMAIN s
  BY DEF RecordedIn
<1>3. ASSUME NEW i \in DOMAIN s
      PROVE  /\ t[i] \in RegistryRow
             /\ t[i].model = s[i].model /\ t[i].driver = s[i].driver
             /\ t[i].deterministic_loops => t[i].noise_probe # NoProbe
  <2>1. s[i] \in RegistryRow
    BY <1>1
  <2>2. t[i] = IF s[i] = row THEN RecordNoiseProbe(row, identical, of) ELSE s[i]
    BY DEF RecordedIn
  <2>3. CASE s[i] = row
    <3>1. /\ t[i] \in RegistryRow /\ t[i].model = s[i].model /\ t[i].driver = s[i].driver
          /\ t[i].noise_probe = [identical |-> identical, of |-> of]
          /\ t[i].deterministic_loops => of >= 5
      BY <2>1, <2>2, <2>3, RecordOne
    <3>2. of >= 5 => t[i].noise_probe # NoProbe
      BY <3>1 DEF NoProbe
    <3> QED
      BY <3>1, <3>2
  <2>4. CASE s[i] # row
    BY <2>1, <2>2, <2>4 DEF Sound
  <2> QED
    BY <2>3, <2>4
<1>4. t = [i \in 1..Len(s) |-> t[i]]
  BY <1>1 DEF RecordedIn
<1>5. t \in Seq(RegistryRow)
  <2>1. t \in [1..Len(s) -> RegistryRow]
    BY <1>1, <1>3, <1>4
  <2> QED
    BY <1>1, <2>1
<1>6. Apart(t)
  BY <1>2, <1>3 DEF Sound, Apart
<1> QED
  BY <1>2, <1>3, <1>5, <1>6 DEF Sound

(* The numbers that are recorded.                                           *)
LEMMA ScoredFinite ==
  ASSUME NEW S, NEW corpus \in Seq(S)
  PROVE  /\ IsFiniteSet(ScoredOf(corpus)) /\ IsFiniteSet(Own(corpus))
         /\ Cardinality(ScoredOf(corpus)) \in Nat
<1>1. IsFiniteSet(1..Len(corpus)) /\ DOMAIN corpus = 1..Len(corpus)
  BY FS_Interval
<1>2. Own(corpus) \subseteq 1..Len(corpus) /\ ScoredOf(corpus) \subseteq 1..Len(corpus)
  BY <1>1 DEF Own, ScoredOf
<1> QED
  BY <1>1, <1>2, FS_Subset, FS_CardinalityType

Passed(corpus) == {i \in ScoredOf(corpus) : End(corpus[i]).pass}

LEMMA DerivedNumbers ==
  ASSUME NEW S, NEW corpus \in Seq(S)
  PROVE  LET n == Cardinality(ScoredOf(corpus))
             p == Cardinality(Passed(corpus))
             d == Derived(corpus)
         IN /\ n \in Nat /\ p \in 0..n
            /\ d.of = n /\ d.identical = Max({p, n - p}) /\ d.identical \in Nat
<1> DEFINE n == Cardinality(ScoredOf(corpus))
           p == Cardinality(Passed(corpus))
           d == Derived(corpus)
<1>1. IsFiniteSet(ScoredOf(corpus)) /\ n \in Nat
  BY ScoredFinite
<1>2. Passed(corpus) \in SUBSET ScoredOf(corpus)
  BY DEF Passed
<1>3. IsFiniteSet(Passed(corpus)) /\ p <= n
  BY <1>1, <1>2, FS_Subset
<1>4. p \in 0..n
  BY <1>1, <1>3, FS_CardinalityType
<1>5. d.of = n /\ d.identical = Max({p, n - p})
  BY DEF Derived, Passed
<1>6. Max({p, n - p}) \in Nat
  BY <1>1, <1>4, Unanimous
<1> QED
  BY <1>1, <1>4, <1>5, <1>6

(* What the probe hands to the registry.                                    *)
RecordsIt ==
  \E row : \E identical, of \in Nat :
    /\ known' = RecordedIn(registry, row, identical, of)
    /\ Readable /\ Has(registry, Model, config.driver) /\ ~mock /\ pc' = "truncate"

LEMMA RecordIs ==
  ASSUME CorpusTypes, Record
  PROVE  RecordsIt \/ pc' = "exit 2"
<1> DEFINE d == Derived(rows)
           row == FindRow(registry, Model, config.driver)
<1>1. CASE Readable /\ Has(registry, Model, config.driver)
  <2>1. /\ known' = RecordedIn(registry, row, d.identical, d.of) /\ pc' = "truncate" /\ ~mock
    BY <1>1 DEF Record, RecordedIn
  <2>2. d.identical \in Nat /\ d.of \in Nat
    BY DerivedNumbers DEF CorpusTypes
  <2> HIDE DEF d, row
  <2> QED
    BY <1>1, <2>1, <2>2 DEF RecordsIt
<1>2. CASE ~(Readable /\ Has(registry, Model, config.driver))
  BY <1>2 DEF Record
<1> QED
  BY <1>1, <1>2

LEMMA RegistryInit == Init => RegistryTypes
<1> SUFFICES ASSUME Init PROVE RegistryTypes
  OBVIOUS
<1>1. Sound(Before)
  BY RegistryAssumption DEF Sound, Roster, Apart
<1>2. registry = Before /\ adder = Idle /\ pc = "idle"
  BY DEF Init
<1>3. adder = [at |-> adder.at, rows |-> adder.rows, request |-> adder.request]
      /\ adder.at = "idle"
  BY <1>2 DEF Idle
<1> QED
  BY <1>1, <1>2, <1>3 DEF RegistryTypes, TornAfter, Adding, Probing

LEMMA Truncated ==
  ASSUME registry' = <<>>
  PROVE  \E by : Sound(by) /\ TornAfter(registry', by)
BY NoneSound DEF TornAfter

LEMMA RegistryStep ==
  CorpusTypes /\ ProbeTypes /\ RegistryTypes /\ (Next \/ UNCHANGED vars) => RegistryTypes'
<1> SUFFICES ASSUME CorpusTypes, ProbeTypes, RegistryTypes, Next \/ UNCHANGED vars
             PROVE  RegistryTypes'
  OBVIOUS
<1> DEFINE Standing == \E by : Sound(by) /\ TornAfter(registry, by)
           AdderSound ==
             /\ adder = [at |-> adder.at, rows |-> adder.rows, request |-> adder.request]
             /\ adder.at \in {"idle", "truncate", "write"}
             /\ Adding =>
                  /\ adder.request \in Requests /\ ~NewRowRefused(adder.request)
                  /\ Sound(adder.rows) /\ ~Has(adder.rows, adder.request.model, adder.request.driver)
           ProbeSound == Probing => Sound(known) /\ Has(known, Model, config.driver) /\ ~mock
<1>0. Standing /\ AdderSound /\ ProbeSound
  BY DEF RegistryTypes
<1>1. CASE AddModel
  <2>1. Readable /\ UNCHANGED <<files, probe>>
    BY <1>1 DEF AddModel
  <2>2. PICK r \in Requests :
          /\ ~Has(registry, r.model, r.driver) /\ ~NewRowRefused(r)
          /\ adder' = [at |-> "truncate", rows |-> registry, request |-> r]
    BY <1>1 DEF AddModel
  <2>3. /\ adder'.at = "truncate" /\ adder'.rows = registry /\ adder'.request = r
        /\ adder' = [at |-> adder'.at, rows |-> adder'.rows, request |-> adder'.request]
    BY <2>2
  <2>4. Sound(registry)
    BY <2>1, ReadableSound
  <2>5. AdderSound'
    BY <2>2, <2>3, <2>4 DEF Adding
  <2>6. Standing' /\ ProbeSound'
    BY <1>0, <2>1 DEF Probing
  <2> QED
    BY <2>5, <2>6 DEF RegistryTypes
<1>2. CASE TruncateToAdd
  <2>1. /\ adder.at = "truncate" /\ registry' = <<>> /\ adder' = [adder EXCEPT !.at = "write"]
        /\ UNCHANGED probe
    BY <1>2 DEF TruncateToAdd
  <2>2. /\ adder'.at = "write" /\ adder'.rows = adder.rows /\ adder'.request = adder.request
        /\ adder' = [at |-> adder'.at, rows |-> adder'.rows, request |-> adder'.request]
    <3>1. adder = [at |-> adder.at, rows |-> adder.rows, request |-> adder.request]
      BY <1>0
    <3> QED
      BY <2>1, <3>1
  <2>3. AdderSound'
    BY <1>0, <2>1, <2>2 DEF Adding
  <2>4. Standing' /\ ProbeSound'
    BY <1>0, <2>1, Truncated DEF Probing
  <2> QED
    BY <2>3, <2>4 DEF RegistryTypes
<1>3. CASE WriteAdded
  <2> DEFINE r == adder.request
             by == Append(adder.rows, NewRow(r))
  <2>1. adder.at = "write" /\ registry' \in Overwritten(registry, by) /\ adder' = Idle
        /\ UNCHANGED probe
    BY <1>3 DEF WriteAdded
  <2>2. /\ r \in Requests /\ ~NewRowRefused(r)
        /\ Sound(adder.rows) /\ ~Has(adder.rows, r.model, r.driver)
    BY <1>0, <2>1 DEF Adding
  <2>3. /\ NewRow(r) \in RegistryRow /\ NewRow(r).model \in Roster
        /\ ~NewRow(r).deterministic_loops /\ ~Has(adder.rows, NewRow(r).model, NewRow(r).driver)
    <3>1. r \in Requests /\ ~NewRowRefused(r)
      BY <2>2
    <3> HIDE DEF r
    <3> QED
      BY <2>2, <3>1, NewRowSound
  <2>4. Sound(by)
    BY <2>2, <2>3, AddedSound
  <2> HIDE DEF by
  <2>5. Standing'
    BY <2>1, <2>4, OverwrittenTorn
  <2>6. AdderSound' /\ ProbeSound'
    BY <1>0, <2>1 DEF Adding, Probing, Idle
  <2> QED
    BY <2>5, <2>6 DEF RegistryTypes
<1>4. CASE KillAdder
  <2>1. adder' = Idle /\ UNCHANGED <<files, probe>>
    BY <1>4 DEF KillAdder
  <2>2. AdderSound' /\ ProbeSound' /\ Standing'
    BY <1>0, <2>1 DEF Adding, Probing, Idle
  <2> QED
    BY <2>2 DEF RegistryTypes
<1>5. CASE Record
  <2>1. UNCHANGED <<registry, adder, config, mock>>
    BY <1>5 DEF Record
  <2>2. Standing' /\ AdderSound'
    BY <1>0, <2>1 DEF Adding
  <2>3. CASE pc' = "exit 2"
    <3>1. ProbeSound'
      BY <2>3 DEF Probing
    <3> QED
      BY <2>2, <3>1 DEF RegistryTypes
  <2>4. CASE RecordsIt
    <3>1. PICK row : \E identical, of \in Nat :
            /\ known' = RecordedIn(registry, row, identical, of)
            /\ Readable /\ Has(registry, Model, config.driver) /\ ~mock /\ pc' = "truncate"
      BY <2>4 DEF RecordsIt
    <3>2. PICK identical \in Nat, of \in Nat :
            /\ known' = RecordedIn(registry, row, identical, of)
            /\ Readable /\ Has(registry, Model, config.driver) /\ ~mock /\ pc' = "truncate"
      BY <3>1
    <3>3. Sound(registry)
      BY <3>2, ReadableSound
    <3>4. /\ Sound(known') /\ DOMAIN known' = DOMAIN registry
          /\ \A i \in DOMAIN registry : /\ known'[i].model = registry[i].model
                                        /\ known'[i].driver = registry[i].driver
      BY <3>2, <3>3, RecordedSound
    <3>5. Has(known', Model, config.driver)
      BY <3>2, <3>4 DEF Has, IsOf
    <3>6. ProbeSound'
      BY <2>1, <3>2, <3>4, <3>5
    <3> QED
      BY <2>2, <3>6 DEF RegistryTypes
  <2> QED
    BY <1>5, <2>3, <2>4, RecordIs
<1>6. CASE TruncateToRecord
  <2>1. /\ pc = "truncate" /\ registry' = <<>> /\ pc' = "write"
        /\ UNCHANGED <<adder, known, config, mock>>
    BY <1>6 DEF TruncateToRecord
  <2>2. Standing' /\ AdderSound' /\ ProbeSound'
    BY <1>0, <2>1, Truncated DEF Adding, Probing
  <2> QED
    BY <2>2 DEF RegistryTypes
<1>7. CASE WriteRecorded
  <2>1. /\ pc = "write" /\ registry' \in Overwritten(registry, known) /\ pc' = "exit 0"
        /\ UNCHANGED adder
    BY <1>7 DEF WriteRecorded
  <2>2. Sound(known)
    BY <1>0, <2>1 DEF Probing
  <2>3. Standing'
    BY <2>1, <2>2, OverwrittenTorn
  <2>4. AdderSound' /\ ProbeSound'
    BY <1>0, <2>1 DEF Adding, Probing
  <2> QED
    BY <2>3, <2>4 DEF RegistryTypes
<1>8. CASE UNCHANGED <<registry, adder>> /\ pc' \notin {"truncate", "write"}
  <2>1. Standing' /\ AdderSound' /\ ProbeSound'
    BY <1>0, <1>8 DEF Adding, Probing
  <2> QED
    BY <2>1 DEF RegistryTypes
<1>9. CASE UNCHANGED <<registry, adder, probe>>
  <2>1. Standing' /\ AdderSound' /\ ProbeSound'
    BY <1>0, <1>9 DEF Adding, Probing
  <2> QED
    BY <2>1 DEF RegistryTypes
<1> HIDE DEF Standing, AdderSound, ProbeSound
<1>10. SetServer \/ ForeignAppend \/ UNCHANGED vars => UNCHANGED <<registry, adder, probe>>
  BY DEF SetServer, ForeignAppend, vars
<1>11. \/ Invoke \/ Look \/ Rejected \/ Dispatched \/ Undispatched \/ RunRep \/ Read
       \/ TruncateToTag \/ WriteTagged \/ WrongCount \/ Refuse \/ Provisional \/ RecordElsewhere
       \/ KillProbe
       => UNCHANGED <<registry, adder>> /\ pc' \notin {"truncate", "write"}
  BY DEF Invoke, Look, Rejected, Dispatched, Undispatched, RunRep, Read, TruncateToTag,
     WriteTagged, WrongCount, Refuse, Provisional, RecordElsewhere, KillProbe, Quiet
<1> QED
  BY <1>1, <1>2, <1>3, <1>4, <1>5, <1>6, <1>7, <1>8, <1>9, <1>10, <1>11 DEF Next, Probe, Adder

LEMMA PairsOfAppended ==
  ASSUME NEW S, NEW s \in Seq(S), NEW row \in S, NEW t, t = Append(s, row)
  PROVE  Pairs(s) \cup {<<row.model, row.driver>>} \subseteq Pairs(t)
<1>1. /\ Len(s) \in Nat /\ DOMAIN s = 1..Len(s) /\ DOMAIN t = 1..(Len(s) + 1)
      /\ t[Len(s) + 1] = row /\ \A k \in 1..Len(s) : t[k] = s[k]
  BY Appended
<1>2. <<row.model, row.driver>> \in Pairs(t)
  <2>1. Len(s) + 1 \in DOMAIN t
    BY <1>1
  <2> QED
    BY <1>1, <2>1 DEF Pairs
<1>3. ASSUME NEW i \in DOMAIN s PROVE <<s[i].model, s[i].driver>> \in Pairs(t)
  <2>1. i \in DOMAIN t /\ t[i] = s[i]
    BY <1>1
  <2> QED
    BY <2>1 DEF Pairs
<1> QED
  BY <1>2, <1>3 DEF Pairs

LEMMA PairsOfTorn ==
  ASSUME NEW by, Sound(by), NEW t, TornAfter(t, by)
  PROVE  Pairs(by) \subseteq Pairs(t)
<1>1. by \in Seq(RegistryRow \cup {Torn}) /\ Torn \in RegistryRow \cup {Torn}
  BY Longer DEF Sound
<1>2. t = Append(by, Torn) => Pairs(by) \subseteq Pairs(t)
  BY <1>1, PairsOfAppended
<1> QED
  BY <1>2 DEF TornAfter

LEMMA RegistryKeptStep ==
  CorpusTypes /\ ProbeTypes /\ RegistryTypes /\ RegistryKept /\ (Next \/ UNCHANGED vars) => RegistryKept'
<1> SUFFICES ASSUME CorpusTypes, ProbeTypes, RegistryTypes, RegistryKept, Next \/ UNCHANGED vars, ~overlapped'
             PROVE  RegistryKept'
  BY DEF RegistryKept
<1> DEFINE Kept ==
             /\ ~(Adding /\ Probing)
             /\ adder.at # "write" /\ pc # "write" => AllPairs \subseteq Pairs(registry)
             /\ Adding => AllPairs \subseteq Pairs(adder.rows)
             /\ Probing => AllPairs \subseteq Pairs(known)
<1>0. Kept' => RegistryKept'
  BY DEF RegistryKept
<1>00. ~overlapped => Kept
  BY DEF RegistryKept
<1>1. CASE AddModel
  <2>1. /\ adder.at = "idle" /\ Readable /\ overlapped' = (overlapped \/ Probing)
        /\ UNCHANGED <<files, probe, added>>
    BY <1>1 DEF AddModel
  <2>2. adder'.at = "truncate" /\ adder'.rows = registry
    BY <1>1 DEF AddModel
  <2>3. ~overlapped /\ ~Probing
    BY <2>1
  <2>4. AllPairs \subseteq Pairs(registry)
    BY <1>00, <2>1, <2>3 DEF Probing
  <2>5. Kept'
    BY <2>1, <2>2, <2>3, <2>4 DEF Adding, Probing, AllPairs
  <2> QED
    BY <1>0, <2>5
<1>2. CASE TruncateToAdd
  <2>1. /\ adder.at = "truncate" /\ adder' = [adder EXCEPT !.at = "write"]
        /\ UNCHANGED <<probe, overlapped, added>>
    BY <1>2 DEF TruncateToAdd
  <2>2. adder'.at = "write" /\ adder'.rows = adder.rows
    <3>1. adder = [at |-> adder.at, rows |-> adder.rows, request |-> adder.request]
      BY DEF RegistryTypes
    <3> QED
      BY <2>1, <3>1
  <2>3. Kept'
    BY <1>00, <2>1, <2>2 DEF Adding, Probing, AllPairs
  <2> QED
    BY <1>0, <2>3
<1>3. CASE WriteAdded
  <2> DEFINE r == adder.request
             row == NewRow(r)
             by == Append(adder.rows, row)
  <2>1. /\ adder.at = "write" /\ registry' \in Overwritten(registry, by) /\ adder' = Idle
        /\ added' = added \cup {<<r.model, r.driver>>}
        /\ UNCHANGED <<probe, overlapped>>
    BY <1>3 DEF WriteAdded
  <2>2. r \in Requests /\ ~NewRowRefused(r) /\ Sound(adder.rows)
        /\ ~Has(adder.rows, r.model, r.driver)
    BY <2>1 DEF Adding, RegistryTypes
  <2>3. /\ row \in RegistryRow /\ row.model \in Roster /\ ~row.deterministic_loops
        /\ row.model = r.model /\ row.driver = r.driver
    <3>1. r \in Requests /\ ~NewRowRefused(r)
      BY <2>2
    <3> HIDE DEF r
    <3> QED
      BY <3>1, NewRowSound
  <2>4. adder.rows \in Seq(RegistryRow)
    BY <2>2 DEF Sound
  <2> HIDE DEF row, r
  <2>5. Sound(by)
    BY <2>2, <2>3, AddedSound
  <2>6. Pairs(adder.rows) \cup {<<r.model, r.driver>>} \subseteq Pairs(by)
    <3>1. Pairs(adder.rows) \cup {<<row.model, row.driver>>} \subseteq Pairs(by)
      BY <2>3, <2>4, PairsOfAppended
    <3> HIDE DEF by
    <3> QED
      BY <2>3, <3>1
  <2> HIDE DEF by
  <2>7. Pairs(by) \subseteq Pairs(registry')
    BY <2>1, <2>5, OverwrittenTorn, PairsOfTorn
  <2>8. ~Probing /\ AllPairs \subseteq Pairs(adder.rows)
    BY <1>00, <2>1 DEF Adding
  <2>9. AllPairs' = AllPairs \cup {<<r.model, r.driver>>}
    BY <2>1 DEF AllPairs
  <2>10. AllPairs' \subseteq Pairs(registry')
    BY <2>6, <2>7, <2>8, <2>9
  <2>11. ~Adding' /\ ~Probing'
    BY <2>1, <2>8 DEF Adding, Probing, Idle
  <2>12. (AllPairs \subseteq Pairs(registry))'
    BY <2>10
  <2>13. Kept'
    BY <2>11, <2>12
  <2> QED
    BY <1>0, <2>13
<1>4. CASE KillAdder \/ (KillProbe /\ Probing)
  BY <1>4 DEF KillAdder, KillProbe
<1>5. CASE Record
  <2>1. /\ overlapped' = (overlapped \/ Adding) /\ pc = "count"
        /\ UNCHANGED <<registry, adder, added>>
    BY <1>5 DEF Record
  <2>2. ~overlapped /\ ~Adding
    BY <2>1
  <2>3. AllPairs \subseteq Pairs(registry)
    BY <1>00, <2>1, <2>2 DEF Adding
  <2>4. CASE pc' = "exit 2"
    <3>1. Kept'
      BY <2>1, <2>2, <2>3, <2>4 DEF Adding, Probing, AllPairs
    <3> QED
      BY <1>0, <3>1
  <2>5. CASE RecordsIt
    <3>1. PICK row : \E identical, of \in Nat :
            /\ known' = RecordedIn(registry, row, identical, of)
            /\ Readable /\ pc' = "truncate"
      BY <2>5 DEF RecordsIt
    <3>2. PICK identical \in Nat, of \in Nat :
            known' = RecordedIn(registry, row, identical, of) /\ Readable /\ pc' = "truncate"
      BY <3>1
    <3>3. Sound(registry)
      BY <3>2, ReadableSound
    <3>4. /\ DOMAIN known' = DOMAIN registry
          /\ \A i \in DOMAIN registry : /\ known'[i].model = registry[i].model
                                        /\ known'[i].driver = registry[i].driver
      BY <3>2, <3>3, RecordedSound
    <3>5. Pairs(known') = Pairs(registry)
      BY <3>4 DEF Pairs
    <3>6. (AllPairs \subseteq Pairs(known))'
      BY <2>1, <2>3, <3>5 DEF AllPairs
    <3>7. (AllPairs \subseteq Pairs(registry))' /\ ~Adding'
      BY <2>1, <2>2, <2>3 DEF AllPairs, Adding
    <3>8. Kept'
      BY <3>6, <3>7
    <3> QED
      BY <1>0, <3>8
  <2> QED
    BY <1>5, <2>4, <2>5, RecordIs
<1>6. CASE TruncateToRecord
  <2>1. /\ pc = "truncate" /\ pc' = "write" /\ UNCHANGED <<adder, known, overlapped, added>>
    BY <1>6 DEF TruncateToRecord
  <2>2. Kept'
    BY <1>00, <2>1 DEF Adding, Probing, AllPairs
  <2> QED
    BY <1>0, <2>2
<1>7. CASE WriteRecorded
  <2>1. /\ pc = "write" /\ registry' \in Overwritten(registry, known) /\ pc' = "exit 0"
        /\ UNCHANGED <<adder, overlapped, added>>
    BY <1>7 DEF WriteRecorded
  <2>2. Sound(known)
    BY <2>1 DEF Probing, RegistryTypes
  <2>3. Pairs(known) \subseteq Pairs(registry')
    BY <2>1, <2>2, OverwrittenTorn, PairsOfTorn
  <2>4. ~Adding /\ AllPairs \subseteq Pairs(known)
    BY <1>00, <2>1 DEF Probing
  <2>5. (AllPairs \subseteq Pairs(registry))'
    BY <2>1, <2>3, <2>4 DEF AllPairs
  <2>6. ~Adding' /\ ~Probing'
    BY <2>1, <2>4 DEF Adding, Probing
  <2>7. Kept'
    BY <2>5, <2>6
  <2> QED
    BY <1>0, <2>7
<1>8. CASE /\ UNCHANGED <<registry, adder, added, overlapped>> /\ ~Probing
           /\ pc' \notin {"truncate", "write"}
  <2>1. Kept'
    BY <1>00, <1>8 DEF Adding, Probing, AllPairs
  <2> QED
    BY <1>0, <2>1
<1>9. CASE UNCHANGED <<registry, adder, added, overlapped, probe>>
  <2>1. Kept'
    BY <1>00, <1>9 DEF Adding, Probing, AllPairs
  <2> QED
    BY <1>0, <2>1
<1> HIDE DEF Kept
<1>10. SetServer \/ ForeignAppend \/ UNCHANGED vars
       => UNCHANGED <<registry, adder, added, overlapped, probe>>
  BY DEF SetServer, ForeignAppend, vars
<1>11. \/ Invoke \/ Look \/ Rejected \/ Dispatched \/ Undispatched \/ RunRep \/ Read
       \/ TruncateToTag \/ WriteTagged \/ WrongCount \/ Refuse \/ Provisional \/ RecordElsewhere
       => /\ UNCHANGED <<registry, adder, added, overlapped>> /\ ~Probing
          /\ pc' \notin {"truncate", "write"}
  BY DEF Invoke, Look, Rejected, Dispatched, Undispatched, RunRep, Read, TruncateToTag,
     WriteTagged, WrongCount, Refuse, Provisional, RecordElsewhere, Quiet, Exits, Probing
<1>12. KillProbe /\ ~Probing
       => /\ UNCHANGED <<registry, adder, added, overlapped>> /\ ~Probing
          /\ pc' \notin {"truncate", "write"}
  <2> SUFFICES ASSUME KillProbe, ~Probing
               PROVE  /\ UNCHANGED <<registry, adder, added, overlapped>>
                      /\ pc' \notin {"truncate", "write"}
    OBVIOUS
  <2>1. overlapped' = (overlapped \/ Probing) /\ UNCHANGED <<registry, adder, added>>
        /\ pc' = "idle"
    BY DEF KillProbe
  <2>2. overlapped \in BOOLEAN
    BY DEF ProbeTypes
  <2> QED
    BY <2>1, <2>2
<1> QED
  BY <1>1, <1>2, <1>3, <1>4, <1>5, <1>6, <1>7, <1>8, <1>9, <1>10, <1>11, <1>12
  DEF Next, Probe, Adder

LEMMA RegistryKeptInit == Init => RegistryKept
<1> SUFFICES ASSUME Init PROVE RegistryKept
  OBVIOUS
<1>1. registry = Before /\ added = {} /\ adder = Idle /\ pc = "idle"
  BY DEF Init
<1>2. ~Adding /\ ~Probing
  BY <1>1 DEF Adding, Probing, Idle
<1> QED
  BY <1>1, <1>2 DEF RegistryKept, AllPairs

LEMMA TypesGiveTypeOK == Types => TypeOK
<1> SUFFICES ASSUME Types PROVE TypeOK
  OBVIOUS
<1>1. registry \in Seq(RegistryRow \cup {Torn})
  <2>1. PICK by : Sound(by) /\ TornAfter(registry, by)
    BY DEF Types, RegistryTypes
  <2>2. by \in Seq(RegistryRow \cup {Torn}) /\ Torn \in RegistryRow \cup {Torn}
    BY <2>1, Longer DEF Sound
  <2>3. registry = Append(by, Torn) => registry \in Seq(RegistryRow \cup {Torn})
    BY <2>2, Appended
  <2> QED
    BY <2>1, <2>2, <2>3 DEF TornAfter
<1>2. /\ results \in Seq([sweep : {"probe", "other"}, rep : Reps \cup {0},
                          why : SUBSET KnownReasons, attempt : -MaxForeign..Len(attempts),
                          tagged : BOOLEAN])
  BY DEF Types, CorpusTypes, CorpusRow
<1>3. /\ live \in Servers /\ config \in Configs /\ mock \in BOOLEAN /\ ran \subseteq Reps
      /\ pc \in Exits \cup {"look", "gate", "gated", "ungated", "read", "tag", "retag", "count",
                            "truncate", "write"}
      /\ pc = "count" => \A i \in Own(rows) : rows[i].tagged
      /\ overlapped \in BOOLEAN /\ invoked \in 0..MaxInvocations /\ kills \in 0..MaxKills
  BY DEF Types, ProbeTypes
<1>4. /\ Probing => Has(known, Model, config.driver) /\ ~mock
      /\ adder.at \in {"idle", "truncate", "write"} /\ (Adding => adder.request \in Requests)
  BY DEF Types, RegistryTypes
<1> QED
  BY <1>1, <1>2, <1>3, <1>4 DEF TypeOK

(* cmd_add_model beside finalize_stage0: a pair has one row in all that can *)
(* be read of models.yaml, and no pair that was ever added is missing from  *)
(* it, or from what a writer is about to write, unless two rewrites met or  *)
(* one was killed; with it the types of all that the probe keeps.           *)
THEOREM RegistryIsWholeHolds == Spec => []RegistryIsWhole
<1> DEFINE Inv == Types /\ RegistryKept
<1>1. Init => Inv
  BY CorpusInit, ProbeInit, RegistryInit, RegistryKeptInit DEF Types
<1>2. Inv /\ [Next]_vars => Inv'
  BY CorpusStep, ProbeStep, RegistryStep, RegistryKeptStep DEF Types
<1>3. Inv => RegistryIsWhole
  <2> SUFFICES ASSUME Types, RegistryKept PROVE RegistryIsWhole
    OBVIOUS
  <2>1. TypeOK
    BY TypesGiveTypeOK
  <2>2. OneRowPerPair
    <3>1. Readable => Apart(registry)
      BY ReadableSound DEF Types, Sound
    <3> QED
      BY <3>1 DEF OneRowPerPair, Apart
  <2>3. RowsLostOnlyInARace
    <3>1. adder.at = "write" => Adding
      BY DEF Adding
    <3>2. pc = "write" => Probing
      BY DEF Probing
    <3> QED
      BY <3>1, <3>2 DEF RowsLostOnlyInARace, RegistryKept, AllPairs
  <2> QED
    BY <2>1, <2>2, <2>3 DEF RegistryIsWhole
<1> QED
  BY <1>1, <1>2, <1>3, PTL DEF Spec

(***************************************************************************)
(* What is recorded.                                                       *)
(***************************************************************************)

LEMMA Unscored ==
  \A x \in {"structurally_impossible", "driver_unsupported", "mock"} : ~InDenominator({x})
<1> SUFFICES ASSUME NEW x \in {"structurally_impossible", "driver_unsupported", "mock"}
             PROVE  StatusClass({x}) # "scored"
  BY DEF InDenominator
<1>1. x \in KnownReasons
  BY DEF KnownReasons, Infra, Mock
<1>2. ClassOf(x) = EXIT_REASON_CLASS[x]
  BY <1>1 DEF ClassOf
<1>3. EXIT_REASON_CLASS[x] = CASE x \in Scored -> "scored"
                               [] x \in Infra -> "infra"
                               [] x \in Mock -> "mock"
                               [] OTHER -> x
  BY <1>1 DEF EXIT_REASON_CLASS
<1>4. x \notin Scored
  BY DEF Scored
<1>5. ClassOf(x) \in {"infra", "mock", "structurally_impossible"}
  <2>1. CASE x = "structurally_impossible"
    BY <1>2, <1>3, <2>1 DEF Scored, Infra, Mock
  <2>2. CASE x = "driver_unsupported"
    BY <1>2, <1>3, <2>2 DEF Scored, Infra, Mock
  <2>3. CASE x = "mock"
    BY <1>2, <1>3, <2>3 DEF Scored, Infra, Mock
  <2> QED
    BY <2>1, <2>2, <2>3
<1>6. Severity[ClassOf(x)] \in Int
  BY <1>5 DEF Severity
<1>7. \E r \in {x} : \A s \in {x} : Severity[ClassOf(r)] <= Severity[ClassOf(s)]
  BY <1>6
<1>8. (CHOOSE r \in {x} : \A s \in {x} : Severity[ClassOf(r)] <= Severity[ClassOf(s)]) = x
  BY <1>7
<1>9. StatusClass({x}) = ClassOf(x)
  BY <1>8 DEF StatusClass
<1> QED
  BY <1>5, <1>9

(* find_row returns a row of the pair, if there is one.                     *)
LEMMA Found ==
  ASSUME NEW S, NEW s \in Seq(S), NEW model, NEW driver, Has(s, model, driver)
  PROVE  \E i \in DOMAIN s :
           FindRow(s, model, driver) = s[i] /\ s[i].model = model /\ s[i].driver = driver
<1> DEFINE Of(i) == IsOf(s[i], model, driver)
           T == {i \in Nat : i \in DOMAIN s /\ Of(i)}
<1>1. DOMAIN s = 1..Len(s) /\ Len(s) \in Nat
  OBVIOUS
<1>2. T # {} /\ T \subseteq Nat
  BY <1>1 DEF Has
<1>3. \E x \in T : \A y \in T : ~(<<y, x>> \in OpToRel(<, Nat))
  BY <1>2, NatLessThanWellFounded, WFMin
<1>4. PICK x \in T : \A y \in T : ~(<<y, x>> \in OpToRel(<, Nat))
  BY <1>3
<1>5. ASSUME NEW j \in 1..(x - 1)
      PROVE  ~Of(j)
  <2>1. x \in Nat /\ x \in 1..Len(s)
    BY <1>1, <1>4
  <2>2. j \in Nat /\ j < x /\ j \in DOMAIN s
    BY <1>1, <2>1
  <2>3. <<j, x>> \in OpToRel(<, Nat)
    BY <2>1, <2>2 DEF OpToRel
  <2>4. j \notin T
    BY <1>4, <2>3
  <2> QED
    BY <2>2, <2>4
<1> HIDE DEF Of
<1>6. \E i \in DOMAIN s : Of(i) /\ \A j \in 1..(i - 1) : ~Of(j)
  BY <1>4, <1>5
<1> DEFINE first == CHOOSE i \in DOMAIN s : Of(i) /\ \A j \in 1..(i - 1) : ~Of(j)
<1>7. first \in DOMAIN s /\ Of(first)
  BY <1>6
<1>8. FindRow(s, model, driver) = s[first]
  BY DEF FindRow, Of
<1> HIDE DEF first
<1> QED
  BY <1>7, <1>8 DEF Of, IsOf

LEMMA Counted ==
  ASSUME NEW S, NEW T, IsFiniteSet(S), NEW f \in [S -> T],
         \A a, b \in S : f[a] = f[b] => a = b, \A t \in T : \E a \in S : f[a] = t
  PROVE  IsFiniteSet(T) /\ Cardinality(T) = Cardinality(S)
<1>1. f \in Bijection(S, T)
  BY DEF Bijection, Injection, Surjection, IsInjective
<1>2. ExistsBijection(S, T)
  BY <1>1 DEF ExistsBijection
<1> QED
  BY <1>2, FS_Bijection

(* A history and a longer one.                                              *)
Grown(all, more) == DOMAIN all \subseteq DOMAIN more /\ \A k \in DOMAIN all : more[k] = all[k]

LEMMA EarnedStays ==
  ASSUME NEW all, NEW more, Grown(all, more), NEW row, Earned(all, row)
  PROVE  Earned(more, row)
<1>1. ASSUME NEW sample \in SUBSET DOMAIN all
      PROVE  /\ sample \in SUBSET DOMAIN more
             /\ BackedBy(all, sample, row) => BackedBy(more, sample, row)
             /\ PassesIn(more, sample) = PassesIn(all, sample)
             /\ \A a \in sample : more[a] = all[a]
  <2>1. sample \in SUBSET DOMAIN more /\ \A a \in sample : more[a] = all[a]
    BY DEF Grown
  <2>2. BackedBy(all, sample, row) => BackedBy(more, sample, row)
    <3>1. {more[a].rep : a \in sample} = {all[a].rep : a \in sample}
      BY <2>1
    <3> QED
      BY <2>1, <3>1 DEF BackedBy
  <2>3. {a \in sample : more[a].end.pass} = {a \in sample : all[a].end.pass}
    BY <2>1
  <2> QED
    BY <2>1, <2>2, <2>3 DEF PassesIn
<1>2. Measured(more, row)
  BY <1>1 DEF Earned, Measured
<1>3. Determined(more, row)
  <2>1. SUFFICES ASSUME row.noise_probe # NoProbe, row.deterministic_loops
                 PROVE  \E sample \in SUBSET DOMAIN more :
                          /\ BackedBy(more, sample, row) /\ Cardinality(sample) >= 5
                          /\ \A a, b \in sample : more[a].end.pass = more[b].end.pass
    BY DEF Determined
  <2>2. PICK sample \in SUBSET DOMAIN all :
          /\ BackedBy(all, sample, row) /\ Cardinality(sample) >= 5
          /\ \A a, b \in sample : all[a].end.pass = all[b].end.pass
    BY <2>1 DEF Earned, Determined
  <2>3. \A a, b \in sample : more[a].end.pass = more[b].end.pass
    BY <1>1, <2>2
  <2> QED
    BY <1>1, <2>2, <2>3
<1> QED
  BY <1>2, <1>3 DEF Earned

LEMMA AllEarnedStays ==
  ASSUME NEW all, NEW more, Grown(all, more), NEW s, AllEarned(all, s)
  PROVE  AllEarned(more, s)
BY EarnedStays DEF AllEarned

LEMMA HonestStays ==
  ASSUME NEW all, NEW more, Grown(all, more), NEW s, Honest(all, s)
  PROVE  Honest(more, s)
<1>1. ASSUME NEW row, HonestRow(all, row) PROVE HonestRow(more, row)
  BY <1>1 DEF HonestRow, OfAttempt, Grown
<1> QED
  BY <1>1 DEF Honest

(* What an append does.                                                     *)
Extended(p, n, e, q) ==
  /\ n \in Nat \ {0} /\ n \notin DOMAIN p /\ DOMAIN q = DOMAIN p \cup {n}
  /\ q[n] = e /\ \A k \in DOMAIN p : q[k] = p[k]

LEMMA AppendExtends ==
  ASSUME NEW S, NEW p \in Seq(S), NEW e, NEW q, q = Append(p, e)
  PROVE  Extended(p, Len(q), e, q) /\ Len(q) = Len(p) + 1
<1>1. p \in Seq(S \cup {e}) /\ e \in S \cup {e}
  BY Longer
<1>2. /\ Len(p) \in Nat /\ Len(q) = Len(p) + 1
      /\ DOMAIN p = 1..Len(p) /\ DOMAIN q = 1..(Len(p) + 1)
      /\ q[Len(p) + 1] = e /\ \A k \in 1..Len(p) : q[k] = p[k]
  BY <1>1, Appended
<1> QED
  BY <1>2 DEF Extended

ProbeRow(r, why, k) ==
  [sweep |-> "probe", rep |-> r, why |-> why, attempt |-> k, tagged |-> FALSE]

(* A rep that has run: its attempt and its row.                             *)
Ran(r, e, k, i) ==
  /\ Extended(attempts, k, [rep |-> r, end |-> e, live |-> live, gate |-> pc], attempts')
  /\ Extended(results, i, ProbeRow(r, e.why, k), results')
  /\ ran' = ran \cup {r}
  /\ mock => e.why = {"mock"}

LEMMA RepRan ==
  ASSUME CorpusTypes, RunRep
  PROVE  \E r \in Reps : \E e, k, i : Ran(r, e, k, i)
<1>1. PICK r \in Waiting : \E e \in Endings[r] :
        /\ mock <=> e.why = {"mock"}
        /\ attempts' = Append(attempts, [rep |-> r, end |-> e, live |-> live, gate |-> pc])
        /\ results' = Append(results, [sweep |-> "probe", rep |-> r, why |-> e.why,
                                       attempt |-> Len(attempts'), tagged |-> FALSE])
        /\ ran' = ran \cup {r}
  BY DEF RunRep
<1>2. PICK e \in Endings[r] :
        /\ mock <=> e.why = {"mock"}
        /\ attempts' = Append(attempts, [rep |-> r, end |-> e, live |-> live, gate |-> pc])
        /\ results' = Append(results, ProbeRow(r, e.why, Len(attempts')))
        /\ ran' = ran \cup {r}
  BY <1>1 DEF ProbeRow
<1>3. attempts \in Seq(Attempt) /\ results \in Seq(CorpusRow)
  BY DEF CorpusTypes
<1>4. Extended(attempts, Len(attempts'), [rep |-> r, end |-> e, live |-> live, gate |-> pc],
               attempts')
  BY <1>2, <1>3, AppendExtends
<1>5. Extended(results, Len(results'), ProbeRow(r, e.why, Len(attempts')), results')
  BY <1>2, <1>3, AppendExtends
<1>6. r \in Reps
  BY DEF Waiting
<1>7. Ran(r, e, Len(attempts'), Len(results'))
  BY <1>2, <1>4, <1>5 DEF Ran
<1> QED
  BY <1>6, <1>7

LEMMA AttemptsMove ==
  ASSUME CorpusTypes, Next \/ UNCHANGED vars
  PROVE  Grown(attempts, attempts') /\ (RunRep \/ attempts' = attempts)
<1>1. RunRep \/ attempts' = attempts
  BY DEF Next, Adder, Probe, SetServer, ForeignAppend, AddModel, TruncateToAdd, WriteAdded,
     KillAdder, Invoke, Look, Rejected, Dispatched, Undispatched, Read, TruncateToTag,
     WriteTagged, WrongCount, Refuse, Provisional, RecordElsewhere, Record, TruncateToRecord,
     WriteRecorded, KillProbe, Quiet, vars
<1>2. ASSUME RunRep PROVE Grown(attempts, attempts')
  BY <1>2, RepRan DEF Ran, Extended, Grown
<1>3. attempts' = attempts => Grown(attempts, attempts')
  BY DEF Grown
<1> QED
  BY <1>1, <1>2, <1>3

(* Rows are of their attempts.                                              *)
LEMMA HonestExtended ==
  ASSUME NEW all, NEW p, NEW n, NEW e, NEW q, Honest(all, p), HonestRow(all, e),
         Extended(p, n, e, q)
  PROVE  Honest(all, q)
BY DEF Honest, Extended

LEMMA RowsHonestStep ==
  CorpusTypes /\ ProbeTypes /\ RowsHonest /\ (Next \/ UNCHANGED vars) => RowsHonest'
<1> SUFFICES ASSUME CorpusTypes, ProbeTypes, RowsHonest, Next \/ UNCHANGED vars
             PROVE  RowsHonest'
  OBVIOUS
<1>0. /\ Grown(attempts, attempts')
      /\ Honest(attempts', results) /\ Honest(attempts', rows)
  <2>1. Grown(attempts, attempts')
    BY AttemptsMove
  <2> QED
    BY <2>1, HonestStays DEF RowsHonest
<1> USE DEF RowsHonest
<1>1. CASE ForeignAppend
  <2> DEFINE row == [sweep |-> "other", rep |-> 0, why |-> {"ok"},
                     attempt |-> -(Cardinality(foreign) + 1), tagged |-> FALSE]
  <2>1. results' = Append(results, row) /\ UNCHANGED <<rows, attempts>>
    BY <1>1 DEF ForeignAppend
  <2>2. HonestRow(attempts', row)
    BY DEF HonestRow
  <2> HIDE DEF row
  <2>3. Extended(results, Len(results'), row, results')
    BY <2>1, AppendExtends DEF CorpusTypes
  <2>4. Honest(attempts', results')
    BY <1>0, <2>2, <2>3, HonestExtended
  <2> QED
    BY <1>0, <2>1, <2>4
<1>2. CASE Invoke
  <2>1. rows' = <<>> /\ UNCHANGED <<results, attempts>>
    BY <1>2 DEF Invoke
  <2>2. Honest(attempts', <<>>)
    BY NothingListed DEF Honest
  <2> QED
    BY <1>0, <2>1, <2>2
<1>3. CASE Undispatched
  <2>1. /\ results' = results \o NotRun /\ NotRun \in Seq(CorpusRow)
        /\ UNCHANGED <<rows, attempts>>
    BY <1>3, NotRunTyped DEF Undispatched
  <2>2. results \in Seq(CorpusRow)
    BY DEF CorpusTypes
  <2>3. /\ Len(results) \in Nat /\ Len(NotRun) \in Nat /\ DOMAIN results = 1..Len(results)
        /\ DOMAIN NotRun = 1..Len(NotRun) /\ DOMAIN results' = 1..(Len(results) + Len(NotRun))
        /\ \A k \in 1..Len(results) : results'[k] = results[k]
        /\ \A k \in 1..Len(NotRun) : results'[Len(results) + k] = NotRun[k]
    BY <2>1, <2>2, Joined
  <2>4. ASSUME NEW k \in DOMAIN NotRun
        PROVE  HonestRow(attempts', NotRun[k])
    <3>1. k \in 1..Cardinality(Missing)
      BY DEF NotRun
    <3>2. NotRun[k] = [sweep |-> "probe", rep |-> SetToSeq(Missing)[k], why |-> {GateAnswer},
                       attempt |-> 0, tagged |-> FALSE]
      BY <3>1 DEF NotRun
    <3>3. SetToSeq(Missing)[k] \in Missing /\ Missing \subseteq Reps
      BY <3>1, MissingListed DEF Missing
    <3>4. ~InDenominator({GateAnswer})
      BY <1>3, Unscored DEF Undispatched
    <3> QED
      BY <3>2, <3>3, <3>4 DEF HonestRow, OfAttempt
  <2>5. ASSUME NEW i \in DOMAIN results'
        PROVE  HonestRow(attempts', results'[i])
    <3>1. CASE i \in 1..Len(results)
      BY <1>0, <2>3, <3>1 DEF Honest
    <3>2. CASE i \notin 1..Len(results)
      <4> DEFINE k == i - Len(results)
      <4>1. k \in 1..Len(NotRun) /\ i = Len(results) + k
        BY <2>3, <3>2
      <4>2. results'[i] = NotRun[k] /\ k \in DOMAIN NotRun
        BY <2>3, <4>1
      <4> HIDE DEF k
      <4> QED
        BY <2>4, <4>2
    <3> QED
      BY <3>1, <3>2
  <2>6. Honest(attempts', results')
    BY <2>5 DEF Honest
  <2> QED
    BY <1>0, <2>1, <2>6
<1>4. CASE RunRep
  <2>1. PICK r \in Reps : \E e, k, i : Ran(r, e, k, i)
    BY <1>4, RepRan
  <2>2. PICK e, k, i : Ran(r, e, k, i)
    BY <2>1
  <2>3. rows' = rows
    BY <1>4 DEF RunRep
  <2>4. HonestRow(attempts', ProbeRow(r, e.why, k))
    BY <2>2 DEF HonestRow, OfAttempt, ProbeRow, Ran, Extended
  <2>5. Honest(attempts', results')
    BY <1>0, <2>2, <2>4, HonestExtended DEF Ran
  <2> QED
    BY <1>0, <2>3, <2>5
<1>5. CASE Read
  BY <1>0, <1>5 DEF Read
<1>6. CASE TruncateToTag
  <2>1. results' = <<>> /\ UNCHANGED rows
    BY <1>6 DEF TruncateToTag
  <2>2. Honest(attempts', <<>>)
    BY NothingListed DEF Honest
  <2> QED
    BY <1>0, <2>1, <2>2
<1>7. CASE WriteTagged
  <2>1. results' = TagStage0(rows) /\ rows' = TagStage0(rows)
    BY <1>7 DEF WriteTagged
  <2>2. Honest(attempts', TagStage0(rows))
    <3>1. ASSUME NEW i \in DOMAIN TagStage0(rows)
          PROVE  HonestRow(attempts', TagStage0(rows)[i])
      <4>1. /\ i \in DOMAIN rows /\ HonestRow(attempts', rows[i])
            /\ TagStage0(rows)[i].sweep = rows[i].sweep /\ TagStage0(rows)[i].rep = rows[i].rep
            /\ TagStage0(rows)[i].why = rows[i].why
            /\ TagStage0(rows)[i].attempt = rows[i].attempt
        BY <1>0, Tagged DEF Honest
      <4> QED
        BY <4>1 DEF HonestRow, OfAttempt
    <3> QED
      BY <3>1 DEF Honest
  <2> QED
    BY <2>1, <2>2
<1>8. CASE UNCHANGED <<results, rows>>
  BY <1>0, <1>8
<1>9. SetServer \/ Adder \/ KillProbe \/ UNCHANGED vars => UNCHANGED <<results, rows>>
  BY DEF SetServer, Adder, AddModel, TruncateToAdd, WriteAdded, KillAdder, KillProbe, vars
<1>10. \/ Look \/ Rejected \/ Dispatched \/ WrongCount \/ Refuse \/ Provisional
       \/ RecordElsewhere \/ Record \/ TruncateToRecord \/ WriteRecorded
       => UNCHANGED <<results, rows>>
  BY DEF Look, Rejected, Dispatched, WrongCount, Refuse, Provisional, RecordElsewhere, Record,
     TruncateToRecord, WriteRecorded, Quiet
<1> QED
  BY <1>1, <1>2, <1>3, <1>4, <1>5, <1>6, <1>7, <1>8, <1>9, <1>10 DEF Next, Probe

(* What is read back covers the reps.                                       *)
LEMMA CoveredExtended ==
  ASSUME NEW p, NEW n, NEW e, NEW q, Extended(p, n, e, q)
  PROVE  /\ \A reps : Covered(p, reps) => Covered(q, reps)
         /\ Unrun(p) => Unrun(q)
<1>1. ASSUME NEW i \in Own(p) PROVE i \in Own(q) /\ q[i] = p[i]
  BY <1>1 DEF Own, Extended
<1> QED
  BY <1>1 DEF Covered, Unrun

LEMMA CoveredTagged ==
  ASSUME CorpusTypes
  PROVE  /\ \A reps : Covered(rows, reps) => Covered(TagStage0(rows), reps)
         /\ Unrun(rows) => Unrun(TagStage0(rows))
<1>1. ASSUME NEW i \in Own(rows)
      PROVE  /\ i \in Own(TagStage0(rows)) /\ TagStage0(rows)[i].rep = rows[i].rep
             /\ TagStage0(rows)[i].why = rows[i].why
  BY <1>1, Tagged DEF Own
<1> QED
  BY <1>1 DEF Covered, Unrun

LEMMA OwnRows ==
  ASSUME NEW all, NEW s, Honest(all, s), NEW i \in DOMAIN s, s[i].rep \in Reps
  PROVE  i \in Own(s)
<1>1. 0 \notin Reps
  BY Stage0Assumption
<1>2. s[i].sweep # "probe" => s[i].rep = 0
  BY DEF Honest, HonestRow
<1> QED
  BY <1>1, <1>2 DEF Own

LEMMA UndispatchedCovers ==
  ASSUME CorpusTypes, Honest(attempts, results), Undispatched
  PROVE  Covered(results', Reps) /\ Unrun(results')
<1>1. results' = results \o NotRun /\ NotRun \in Seq(CorpusRow) /\ results \in Seq(CorpusRow)
  BY NotRunTyped DEF CorpusTypes
<1>2. /\ Len(results) \in Nat /\ Len(NotRun) \in Nat /\ DOMAIN results = 1..Len(results)
      /\ DOMAIN NotRun = 1..Len(NotRun) /\ DOMAIN results' = 1..(Len(results) + Len(NotRun))
      /\ \A k \in 1..Len(results) : results'[k] = results[k]
      /\ \A k \in 1..Len(NotRun) : results'[Len(results) + k] = NotRun[k]
  BY <1>1, Joined
<1>3. ASSUME NEW r \in Reps
      PROVE  \E i \in Own(results') : results'[i].rep = r /\ results'[i].why = {GateAnswer}
  <2>1. CASE r \in Missing
    <3>1. PICK k \in 1..Cardinality(Missing) : SetToSeq(Missing)[k] = r
      BY <2>1, MissingListed
    <3>2. /\ k \in DOMAIN NotRun /\ NotRun[k].rep = r /\ NotRun[k].why = {GateAnswer}
          /\ NotRun[k].sweep = "probe"
      BY <3>1 DEF NotRun
    <3> DEFINE i == Len(results) + k
    <3>3. i \in DOMAIN results' /\ results'[i] = NotRun[k]
      BY <1>2, <3>2
    <3> HIDE DEF i
    <3> QED
      BY <3>2, <3>3 DEF Own
  <2>2. CASE r \notin Missing
    <3>1. PICK i \in DOMAIN results : results[i].rep = r /\ results[i].why = {GateAnswer}
      BY <2>2 DEF Missing
    <3>2. i \in Own(results)
      BY <3>1, OwnRows
    <3>3. i \in DOMAIN results' /\ results'[i] = results[i]
      BY <1>2
    <3> QED
      BY <3>1, <3>2, <3>3 DEF Own
  <2> QED
    BY <2>1, <2>2
<1>4. PICK r \in Reps : TRUE
  BY Stage0Assumption
<1>5. ~InDenominator({GateAnswer})
  BY Unscored DEF Undispatched
<1> QED
  BY <1>3, <1>4, <1>5 DEF Covered, Unrun

LEMMA CoveredStep ==
  /\ CorpusTypes /\ ProbeTypes /\ RowsHonest /\ Looked /\ AllCovered
  /\ Next \/ UNCHANGED vars
  => AllCovered'
<1> SUFFICES ASSUME CorpusTypes, ProbeTypes, RowsHonest, Looked, AllCovered,
                    Next \/ UNCHANGED vars
             PROVE  AllCovered'
  OBVIOUS
<1>1. CASE ForeignAppend
  <2>1. /\ results' = Append(results, [sweep |-> "other", rep |-> 0, why |-> {"ok"},
                                       attempt |-> -(Cardinality(foreign) + 1),
                                       tagged |-> FALSE])
        /\ UNCHANGED <<pc, ran, rows, config>>
    BY <1>1 DEF ForeignAppend
  <2>2. \E n, e : Extended(results, n, e, results')
    BY <2>1, AppendExtends DEF CorpusTypes
  <2>3. /\ \A reps : Covered(results, reps) => Covered(results', reps)
        /\ Unrun(results) => Unrun(results')
    BY <2>2, CoveredExtended
  <2> QED
    BY <2>1, <2>3 DEF AllCovered
<1>2. CASE Invoke
  <2>1. pc' \in {"gate", "look"} /\ ran' = {}
    BY <1>2 DEF Invoke
  <2> QED
    BY <2>1 DEF AllCovered, Covered
<1>3. CASE Undispatched
  <2>1. pc' = "read"
    BY <1>3 DEF Undispatched
  <2>2. Covered(results', Reps) /\ Unrun(results')
    BY <1>3, UndispatchedCovers DEF RowsHonest
  <2> QED
    BY <2>1, <2>2 DEF AllCovered
<1>4. CASE RunRep
  <2>1. PICK r \in Reps : \E e, k, i : Ran(r, e, k, i)
    BY <1>4, RepRan
  <2>2. PICK e, k, i : Ran(r, e, k, i)
    BY <2>1
  <2>3. pc \in {"gated", "ungated"} /\ pc' = pc
    BY <1>4 DEF RunRep
  <2>4. Covered(results', ran)
    BY <2>2, <2>3, CoveredExtended DEF Ran, AllCovered
  <2>5. i \in Own(results') /\ results'[i].rep = r
    BY <2>2 DEF Ran, Extended, ProbeRow, Own
  <2>6. Covered(results', ran')
    BY <2>2, <2>4, <2>5 DEF Ran, Covered
  <2> QED
    BY <2>3, <2>6 DEF AllCovered
<1>5. CASE Read
  <2>1. rows' = results /\ pc' = "tag" /\ UNCHANGED config
    BY <1>5 DEF Read
  <2>2. CASE pc = "read"
    BY <2>1, <2>2 DEF AllCovered
  <2>3. CASE pc \in {"gated", "ungated"} /\ Waiting = {}
    <3>1. config.driver = "claude-code" /\ Covered(results, ran)
      BY <2>3 DEF Looked, AllCovered
    <3>2. ASSUME NEW r \in Reps
          PROVE  \E i \in Own(results) : results[i].rep = r
      <4>1. r \in ran \/ Done(r)
        BY <2>3 DEF Waiting
      <4>2. CASE r \in ran
        BY <3>1, <4>2 DEF Covered
      <4>3. CASE Done(r)
        <5>1. PICK i \in DOMAIN results : results[i].rep = r
          BY <4>3 DEF Done
        <5>2. i \in Own(results)
          BY <5>1, OwnRows DEF RowsHonest
        <5> QED
          BY <5>1, <5>2
      <4> QED
        BY <4>1, <4>2, <4>3
    <3> QED
      BY <2>1, <3>1, <3>2 DEF AllCovered, Covered
  <2> QED
    BY <1>5, <2>2, <2>3 DEF Read
<1>6. CASE TruncateToTag
  <2>1. pc = "tag" /\ pc' = "retag" /\ UNCHANGED <<rows, config>>
    BY <1>6 DEF TruncateToTag
  <2> QED
    BY <2>1 DEF AllCovered
<1>7. CASE WriteTagged
  <2>1. pc = "retag" /\ pc' = "count" /\ rows' = TagStage0(rows) /\ UNCHANGED config
    BY <1>7 DEF WriteTagged
  <2> QED
    BY <2>1, CoveredTagged DEF AllCovered
<1>8. CASE UNCHANGED <<results, rows, pc, ran, config>>
  BY <1>8 DEF AllCovered
<1>9. CASE /\ UNCHANGED <<results, ran>>
           /\ \/ pc = "look" /\ pc' = "gate"
              \/ pc = "gate" /\ pc' \in {"gated", "ungated"}
  BY <1>9 DEF AllCovered
<1>10. CASE pc' \in {"idle", "exit 0", "exit 2", "preflight", "run.py failed", "wrong count",
                     "truncate", "write"}
  BY <1>10 DEF AllCovered
<1>11. SetServer \/ Adder \/ UNCHANGED vars => UNCHANGED <<results, rows, pc, ran, config>>
  BY DEF SetServer, Adder, AddModel, TruncateToAdd, WriteAdded, KillAdder, vars
<1>12. \/ Rejected \/ WrongCount \/ Refuse \/ Provisional \/ RecordElsewhere \/ Record
       \/ TruncateToRecord \/ WriteRecorded \/ KillProbe
       => pc' \in {"idle", "exit 0", "exit 2", "preflight", "run.py failed", "wrong count",
                   "truncate", "write"}
  BY DEF Rejected, WrongCount, Refuse, Provisional, RecordElsewhere, Record, TruncateToRecord,
     WriteRecorded, KillProbe
<1>13. Look => \/ pc' = "preflight"
               \/ UNCHANGED <<results, ran>> /\ pc = "look" /\ pc' = "gate"
  BY DEF Look, Quiet
<1>14. Dispatched => UNCHANGED <<results, ran>> /\ pc = "gate" /\ pc' \in {"gated", "ungated"}
  BY DEF Dispatched, Quiet
<1> QED
  BY <1>1, <1>2, <1>3, <1>4, <1>5, <1>6, <1>7, <1>8, <1>9, <1>10, <1>11, <1>12, <1>13, <1>14
  DEF Next, Probe

(* Past the look the server shows what a row of the pair pins.              *)
LEMMA LookShows ==
  ASSUME ProbeTypes, RegistryTypes, RegistryEarned, Readable,
         Preflight(registry, Model, config.driver, live) = 0
  PROVE  Shows(live, config.driver)
<1> DEFINE driver == config.driver
           row == FindRow(registry, Model, driver)
<1>1. Has(registry, Model, driver) /\ live.state # "unreadable" /\ live.state # "unloaded"
  BY DEF Preflight
<1>2. \A f \in PREFLIGHT_FIELDS : live[f] = row.serving[f]
  BY <1>1 DEF Preflight
<1>3. live.state = "up"
  BY <1>1, Stage0Assumption DEF ProbeTypes
<1>4. Sound(registry)
  BY ReadableSound
<1>5. \E i \in DOMAIN registry :
        row = registry[i] /\ registry[i].model = Model /\ registry[i].driver = driver
  <2>1. registry \in Seq(RegistryRow)
    BY <1>4 DEF Sound
  <2> HIDE DEF driver
  <2> QED
    BY <1>1, <2>1, Found
<1> HIDE DEF row, driver
<1>6. PICK i \in DOMAIN registry :
        row = registry[i] /\ registry[i].model = Model /\ registry[i].driver = driver
  BY <1>5
<1>7. registry[i].model # "torn"
  BY <1>4 DEF Sound, Roster
<1>8. PICK p \in Pins : SamePin(p, registry[i])
  BY <1>6, <1>7 DEF RegistryEarned, AllEarned, Earned
<1>9. Shows(live, driver)
  BY <1>2, <1>3, <1>6, <1>8 DEF Shows, SamePin
<1> QED
  BY <1>9 DEF driver

LEMMA LookedStep ==
  /\ CorpusTypes /\ ProbeTypes /\ RegistryTypes /\ RegistryEarned /\ Looked
  /\ Next \/ UNCHANGED vars
  => Looked'
<1> SUFFICES ASSUME CorpusTypes, ProbeTypes, RegistryTypes, RegistryEarned, Looked,
                    Next \/ UNCHANGED vars
             PROVE  Looked'
  OBVIOUS
<1>1. CASE Look
  <2>1. UNCHANGED <<live, config, mock>>
    BY <1>1 DEF Look, Quiet
  <2>2. CASE pc' = "preflight"
    BY <2>2 DEF Looked
  <2>3. CASE Readable /\ Preflight(registry, Model, config.driver, live) = 0
    <3>1. Shows(live, config.driver)
      BY <2>3, LookShows
    <3>2. pc' \in {"gate", "preflight"}
      BY <1>1 DEF Look
    <3>3. Shows(live, config.driver)'
      BY <2>1, <3>1 DEF Shows
    <3> QED
      BY <3>2, <3>3 DEF Looked
  <2> QED
    BY <1>1, <2>2, <2>3 DEF Look
<1>2. CASE Dispatched
  <2>1. /\ pc = "gate" /\ GateAnswer \in {"gated", "ungated"} /\ pc' = GateAnswer
        /\ UNCHANGED <<live, config, mock>>
    BY <1>2 DEF Dispatched, Quiet
  <2>2. config.driver = "claude-code"
    <3>1. \/ GateAnswer = "rejected"
          \/ GateAnswer = Dispatch(registry, Model, config.driver, config.serving, config.level)
      BY DEF GateAnswer
    <3>2. Dispatch(registry, Model, config.driver, config.serving, config.level)
            \in {"gated", "ungated"}
      BY <2>1, <3>1
    <3> DEFINE driver == config.driver
               serving == config.serving
               level == config.level
    <3>3. Dispatch(registry, Model, driver, serving, level) \in {"gated", "ungated"}
      BY <3>2
    <3> HIDE DEF driver, serving, level
    <3>4. driver = "claude-code"
      BY <3>3 DEF Dispatch
    <3> QED
      BY <3>4 DEF driver
  <2>3. mock \/ Shows(live, config.driver)'
    BY <2>1 DEF Looked, Shows
  <2> QED
    BY <2>1, <2>2, <2>3 DEF Looked
<1>3. CASE Invoke
  BY <1>3 DEF Invoke, Looked
<1>4. CASE UNCHANGED <<live, config, mock, pc>>
  BY <1>4 DEF Looked, Shows
<1>5. CASE pc' \notin {"gate", "gated", "ungated"}
  BY <1>5 DEF Looked
<1>6. SetServer => pc' \notin {"gate", "gated", "ungated"}
  BY DEF SetServer, Exits
<1>7. Adder \/ ForeignAppend \/ RunRep \/ UNCHANGED vars => UNCHANGED <<live, config, mock, pc>>
  BY DEF ForeignAppend, Adder, AddModel, TruncateToAdd, WriteAdded, KillAdder, RunRep, vars
<1>8. \/ Rejected \/ Undispatched \/ Read \/ TruncateToTag \/ WriteTagged \/ WrongCount \/ Refuse
      \/ Provisional \/ RecordElsewhere \/ Record \/ TruncateToRecord \/ WriteRecorded \/ KillProbe
      => pc' \notin {"gate", "gated", "ungated"}
  BY DEF Rejected, Undispatched, Read, TruncateToTag, WriteTagged, WrongCount, Refuse,
     Provisional, RecordElsewhere, Record, TruncateToRecord, WriteRecorded, KillProbe
<1> QED
  BY <1>1, <1>2, <1>3, <1>4, <1>5, <1>6, <1>7, <1>8 DEF Next, Probe

LEMMA AttemptsShowStep ==
  CorpusTypes /\ Looked /\ AttemptsShow /\ (Next \/ UNCHANGED vars) => AttemptsShow'
<1> SUFFICES ASSUME CorpusTypes, Looked, AttemptsShow, Next \/ UNCHANGED vars
             PROVE  AttemptsShow'
  OBVIOUS
<1>1. CASE attempts' = attempts
  BY <1>1 DEF AttemptsShow, Shows
<1>2. CASE RunRep
  <2>1. PICK r \in Reps : \E e, k, i : Ran(r, e, k, i)
    BY <1>2, RepRan
  <2>2. PICK e, k, i : Ran(r, e, k, i)
    BY <2>1
  <2>3. pc \in {"gated", "ungated"}
    BY <1>2 DEF RunRep
  <2>4. /\ attempts'[k].live = live /\ attempts'[k].end = e
        /\ DOMAIN attempts' = DOMAIN attempts \cup {k}
        /\ \A j \in DOMAIN attempts : attempts'[j] = attempts[j]
        /\ mock => e.why = {"mock"}
    BY <2>2 DEF Ran, Extended
  <2>5. InDenominator(e.why) => Shows(live, "claude-code")
    BY <2>3, <2>4, Unscored DEF Looked
  <2> QED
    BY <2>4, <2>5 DEF AttemptsShow
<1> QED
  BY <1>1, <1>2, AttemptsMove

(* What finalize_stage0 records was measured.                               *)
Sample == {rows[i].attempt : i \in Own(rows)}

(* Where the probe is when it records.                                      *)
Recording ==
  /\ pc = "count" /\ Cardinality(Own(rows)) = Cardinality(Reps)
  /\ Derived(rows).of = Cardinality(Own(rows))

LEMMA AllScored ==
  ASSUME CorpusTypes, Recording
  PROVE  ScoredOf(rows) = Own(rows)
<1>1. IsFiniteSet(Own(rows)) /\ ScoredOf(rows) \in SUBSET Own(rows)
  BY ScoredFinite DEF CorpusTypes, ScoredOf
<1>2. Cardinality(ScoredOf(rows)) = Cardinality(Own(rows))
  BY DerivedNumbers DEF CorpusTypes, Recording
<1> QED
  BY <1>1, <1>2, FS_Subset

LEMMA SampleIsOne ==
  ASSUME CorpusTypes, RowsHonest, AllCovered, Recording
  PROVE  /\ config.driver = "claude-code" /\ Sample \in SUBSET DOMAIN attempts
         /\ \A i \in Own(rows) :
              /\ InDenominator(rows[i].why) /\ rows[i].attempt \in DOMAIN attempts
              /\ attempts[rows[i].attempt].rep = rows[i].rep
              /\ attempts[rows[i].attempt].end.why = rows[i].why
         /\ \A i, j \in Own(rows) : rows[i].attempt = rows[j].attempt => i = j
         /\ IsFiniteSet(Sample) /\ Cardinality(Sample) = Cardinality(Reps)
         /\ {attempts[a].rep : a \in Sample} = Reps
<1>1. \A i \in Own(rows) : InDenominator(rows[i].why)
  BY AllScored DEF ScoredOf
<1>2. Covered(rows, Reps) /\ config.driver = "claude-code"
  BY <1>1 DEF AllCovered, Recording, Unrun
<1>3. ASSUME NEW i \in Own(rows)
      PROVE  /\ rows[i].rep \in Reps /\ rows[i].attempt \in DOMAIN attempts
             /\ attempts[rows[i].attempt].rep = rows[i].rep
             /\ attempts[rows[i].attempt].end.why = rows[i].why
  <2>1. i \in DOMAIN rows /\ rows[i].sweep = "probe"
    BY DEF Own
  <2>2. rows[i].rep \in Reps /\ OfAttempt(attempts, rows[i])
    BY <2>1 DEF RowsHonest, Honest, HonestRow
  <2> QED
    BY <1>1, <2>2 DEF OfAttempt
<1>4. IsFiniteSet(Own(rows)) /\ Cardinality(Own(rows)) = Cardinality(Reps)
  BY ScoredFinite DEF CorpusTypes, Recording
<1>5. \A i, j \in Own(rows) : rows[i].rep = rows[j].rep => i = j
  <2> DEFINE f == [i \in Own(rows) |-> rows[i].rep]
  <2>1. f \in Surjection(Own(rows), Reps)
    BY <1>2, <1>3 DEF Surjection, Covered
  <2>2. f \in Injection(Own(rows), Reps)
    <3> HIDE DEF f
    <3> QED
      BY <1>4, <2>1, FS_SurjSameCardinalityImpliesInj
  <2>3. \A i, j \in Own(rows) : f[i] = f[j] => i = j
    <3> HIDE DEF f
    <3>1. f \in [Own(rows) -> Reps] /\ IsInjective(f)
      BY <2>2 DEF Injection
    <3> QED
      BY <3>1 DEF IsInjective
  <2> QED
    BY <2>3
<1>6. \A i, j \in Own(rows) : rows[i].attempt = rows[j].attempt => i = j
  BY <1>3, <1>5
<1>7. IsFiniteSet(Sample) /\ Cardinality(Sample) = Cardinality(Own(rows))
  <2> DEFINE g == [i \in Own(rows) |-> rows[i].attempt]
  <2>1. g \in [Own(rows) -> Sample] /\ \A i, j \in Own(rows) : g[i] = g[j] => i = j
    BY <1>6 DEF Sample
  <2>2. \A a \in Sample : \E i \in Own(rows) : g[i] = a
    BY DEF Sample
  <2> HIDE DEF g
  <2> QED
    BY <1>4, <2>1, <2>2, Counted
<1>8. {attempts[a].rep : a \in Sample} = Reps
  <2>1. ASSUME NEW a \in Sample PROVE attempts[a].rep \in Reps
    BY <1>3 DEF Sample
  <2>2. ASSUME NEW r \in Reps PROVE \E a \in Sample : attempts[a].rep = r
    <3>1. PICK i \in Own(rows) : rows[i].rep = r
      BY <1>2 DEF Covered
    <3> QED
      BY <1>3, <3>1 DEF Sample
  <2> QED
    BY <2>1, <2>2
<1>9. Sample \in SUBSET DOMAIN attempts
  BY <1>3 DEF Sample
<1> QED
  BY <1>1, <1>2, <1>3, <1>4, <1>6, <1>7, <1>8, <1>9

(* As many of the sample passed as of the rows.                             *)
LEMMA SamplePasses ==
  ASSUME CorpusTypes, RowsHonest, AllCovered, Recording
  PROVE  PassesIn(attempts, Sample) = Cardinality(Passed(rows))
<1> DEFINE T == {a \in Sample : attempts[a].end.pass}
           g == [i \in Passed(rows) |-> rows[i].attempt]
<1>1. Passed(rows) = {i \in Own(rows) : attempts[rows[i].attempt].end.pass}
  BY AllScored DEF Passed, End
<1>2. Passed(rows) \in SUBSET Own(rows) /\ IsFiniteSet(Own(rows))
  BY <1>1, ScoredFinite DEF CorpusTypes
<1>3. IsFiniteSet(Passed(rows))
  BY <1>2, FS_Subset
<1>4. \A i, j \in Own(rows) : rows[i].attempt = rows[j].attempt => i = j
  BY SampleIsOne
<1>5. g \in [Passed(rows) -> T] /\ \A i, j \in Passed(rows) : g[i] = g[j] => i = j
  BY <1>1, <1>2, <1>4 DEF Sample
<1>6. \A a \in T : \E i \in Passed(rows) : g[i] = a
  BY <1>1 DEF Sample
<1> HIDE DEF g, T
<1>7. Cardinality(T) = Cardinality(Passed(rows))
  BY <1>3, <1>5, <1>6, Counted
<1> QED
  BY <1>7 DEF T, PassesIn

LEMMA SampleBacks ==
  ASSUME CorpusTypes, RowsHonest, AllCovered, AttemptsShow, Recording, OnePinPerPair,
         NEW row, row.model = Model, row.driver = config.driver,
         \E p \in Pins : SamePin(p, row)
  PROVE  BackedBy(attempts, Sample, row)
<1>1. /\ config.driver = "claude-code" /\ Sample \in SUBSET DOMAIN attempts
      /\ \A i \in Own(rows) :
           /\ InDenominator(rows[i].why) /\ rows[i].attempt \in DOMAIN attempts
           /\ attempts[rows[i].attempt].end.why = rows[i].why
      /\ Cardinality(Sample) = Cardinality(Reps) /\ {attempts[a].rep : a \in Sample} = Reps
  BY SampleIsOne
<1>2. ASSUME NEW a \in Sample
      PROVE  /\ InDenominator(attempts[a].end.why) /\ attempts[a].live.state = "up"
             /\ \A f \in PREFLIGHT_FIELDS : attempts[a].live[f] = row.serving[f]
  <2>1. a \in DOMAIN attempts /\ InDenominator(attempts[a].end.why)
    BY <1>1 DEF Sample
  <2>2. Shows(attempts[a].live, "claude-code")
    BY <2>1 DEF AttemptsShow
  <2>3. PICK p \in Pins : /\ p.model = Model /\ p.driver = "claude-code"
                          /\ \A f \in PREFLIGHT_FIELDS : attempts[a].live[f] = p.serving[f]
    BY <2>2 DEF Shows
  <2>4. PICK q \in Pins : SamePin(q, row)
    OBVIOUS
  <2>5. p.serving = row.serving
    BY <1>1, <2>3, <2>4 DEF OnePinPerPair, SamePin
  <2> QED
    BY <2>1, <2>2, <2>3, <2>5 DEF Shows
<1> QED
  BY <1>1, <1>2 DEF BackedBy

LEMMA RecordIsEarned ==
  ASSUME CorpusTypes, RowsHonest, AllCovered, AttemptsShow, Recording, OnePinPerPair,
         NEW row \in RegistryRow, row.model = Model, row.driver = config.driver,
         \E p \in Pins : SamePin(p, row),
         NEW t, t = RecordNoiseProbe(row, Derived(rows).identical, Derived(rows).of)
  PROVE  Earned(attempts, t)
<1> DEFINE n == Cardinality(ScoredOf(rows))
           p == Cardinality(Passed(rows))
           d == Derived(rows)
<1>1. /\ n \in Nat /\ p \in 0..n /\ d.of = n /\ d.identical = Max({p, n - p})
      /\ d.identical \in Nat
  BY DerivedNumbers DEF CorpusTypes
<1>2. /\ t.model = row.model /\ t.driver = row.driver /\ t.serving = row.serving
      /\ t.noise_probe = [identical |-> d.identical, of |-> d.of]
      /\ t.deterministic_loops => d.of >= 5 /\ d.identical = d.of
  <2>1. t = RecordNoiseProbe(row, d.identical, d.of) /\ d.identical \in Nat /\ d.of \in Nat
    BY <1>1
  <2> HIDE DEF d
  <2> QED
    BY <2>1, RecordOne
<1>3. \E q \in Pins : SamePin(q, t)
  BY <1>2 DEF SamePin
<1>4. BackedBy(attempts, Sample, t)
  BY <1>2, <1>3, SampleBacks
<1>5. /\ Sample \in SUBSET DOMAIN attempts /\ IsFiniteSet(Sample)
      /\ Cardinality(Sample) = Cardinality(Reps)
  BY SampleIsOne
<1>6. n = Cardinality(Sample)
  BY <1>5, AllScored DEF Recording
<1>7. p = PassesIn(attempts, Sample)
  BY SamplePasses
<1> HIDE DEF n, p, d
<1>8. Measured(attempts, t)
  BY <1>1, <1>2, <1>4, <1>5, <1>6, <1>7 DEF Measured
<1>9. Determined(attempts, t)
  <2> SUFFICES ASSUME t.deterministic_loops
               PROVE  /\ Cardinality(Sample) >= 5
                      /\ \A a, b \in Sample : attempts[a].end.pass = attempts[b].end.pass
    BY <1>4, <1>5 DEF Determined
  <2>1. n >= 5 /\ (p = n \/ p = 0)
    BY <1>1, <1>2, Unanimous
  <2> DEFINE T == {a \in Sample : attempts[a].end.pass}
  <2>2. T \in SUBSET Sample /\ Cardinality(T) = p
    BY <1>7 DEF PassesIn
  <2>3. T = Sample \/ T = {}
    <3> HIDE DEF T
    <3>1. IsFiniteSet(T)
      BY <1>5, <2>2, FS_Subset
    <3>2. p = n => T = Sample
      BY <1>5, <1>6, <2>2, FS_Subset
    <3>3. p = 0 => T = {}
      BY <2>2, <3>1, FS_EmptySet
    <3> QED
      BY <2>1, <3>2, <3>3
  <2>4. \A a \in Sample : attempts[a].end.pass \in BOOLEAN
    <3>1. \A a \in DOMAIN attempts : attempts[a] \in Attempt
      BY DEF CorpusTypes
    <3> QED
      BY <1>5, <3>1 DEF Attempt, Ending
  <2>5. \A a, b \in Sample : attempts[a].end.pass = attempts[b].end.pass
    BY <2>3, <2>4
  <2> QED
    BY <1>6, <2>1, <2>5
<1> QED
  BY <1>3, <1>8, <1>9 DEF Earned

LEMMA EarnedExtended ==
  ASSUME NEW all, NEW p, NEW n, NEW e, NEW q, AllEarned(all, p),
         e.model # "torn" => Earned(all, e), Extended(p, n, e, q)
  PROVE  AllEarned(all, q)
BY DEF AllEarned, Extended

LEMMA EarnedTorn ==
  ASSUME NEW all, NEW by, Sound(by), AllEarned(all, by), NEW t, TornAfter(t, by)
  PROVE  AllEarned(all, t)
<1>1. CASE t = Append(by, Torn)
  <2>1. \E n : Extended(by, n, Torn, t)
    BY <1>1, AppendExtends DEF Sound
  <2>2. Torn.model = "torn"
    BY DEF Torn
  <2> QED
    BY <2>1, <2>2, EarnedExtended
<1> QED
  BY <1>1 DEF TornAfter

LEMMA NewRowEarned ==
  ASSUME NEW all, NEW r \in Requests, ~NewRowRefused(r)
  PROVE  Earned(all, NewRow(r))
<1>1. NewRow(r) \in Pins /\ NewRow(r).noise_probe = NoProbe
  BY NewRowSound DEF Pins
<1> QED
  BY <1>1 DEF Earned, Measured, Determined, SamePin

LEMMA FoundSound ==
  ASSUME NEW s, Sound(s), NEW model, NEW driver, Has(s, model, driver)
  PROVE  \E i \in DOMAIN s :
           FindRow(s, model, driver) = s[i] /\ s[i].model = model /\ s[i].driver = driver
<1>1. s \in Seq(RegistryRow)
  BY DEF Sound
<1> QED
  BY <1>1, Found

LEMMA OursFound ==
  ASSUME Sound(registry), Has(registry, Model, config.driver)
  PROVE  \E i \in DOMAIN registry :
           /\ FindRow(registry, Model, config.driver) = registry[i]
           /\ registry[i].model = Model /\ registry[i].driver = config.driver
<1> DEFINE driver == config.driver
<1>1. Has(registry, Model, driver) /\ Sound(registry)
  OBVIOUS
<1> HIDE DEF driver
<1>2. \E i \in DOMAIN registry :
        /\ FindRow(registry, Model, driver) = registry[i]
        /\ registry[i].model = Model /\ registry[i].driver = driver
  <2> DEFINE s == registry
             model == Model
  <2>1. Has(s, model, driver) /\ Sound(s)
    BY <1>1
  <2> HIDE DEF s, model
  <2>2. \E i \in DOMAIN s :
        /\ FindRow(s, model, driver) = s[i]
        /\ s[i].model = model /\ s[i].driver = driver
    BY <2>1, FoundSound
  <2> QED
    BY <2>2 DEF s, model
<1> QED
  BY <1>2 DEF driver

LEMMA SoundRow ==
  ASSUME NEW s, Sound(s), NEW i \in DOMAIN s
  PROVE  s[i] \in RegistryRow /\ s[i].model # "torn"
<1>1. s \in Seq(RegistryRow) /\ s[i].model \in Roster
  BY DEF Sound
<1>2. \A S, q : q \in Seq(S) => \A j \in DOMAIN q : q[j] \in S
  OBVIOUS
<1>3. s[i] \in RegistryRow
  BY <1>1, <1>2
<1> QED
  BY <1>1, <1>3 DEF Roster

(* The whole of what is handed to the registry.                             *)
LEMMA RecordedEarned ==
  ASSUME CorpusTypes, RegistryTypes, RegistryEarned, RowsHonest, AllCovered, AttemptsShow,
         OnePinPerPair, Record, pc' # "exit 2"
  PROVE  AllEarned(attempts, known')
<1> DEFINE d == Derived(rows)
           row == FindRow(registry, Model, config.driver)
           t == RecordNoiseProbe(row, d.identical, d.of)
<1>1. /\ Recording /\ Readable /\ Has(registry, Model, config.driver)
      /\ known' = RecordedIn(registry, row, d.identical, d.of)
  BY DEF Record, RecordedIn, Recording
<1>2. Sound(registry)
  BY <1>1, ReadableSound
<1>3. \E i \in DOMAIN registry :
        row = registry[i] /\ registry[i].model = Model /\ registry[i].driver = config.driver
  BY <1>1, <1>2, OursFound
<1> HIDE DEF row
<1>4. PICK i \in DOMAIN registry :
        row = registry[i] /\ registry[i].model = Model /\ registry[i].driver = config.driver
  BY <1>3
<1>5. row \in RegistryRow /\ row.model # "torn"
  BY <1>2, <1>4, SoundRow
<1>6. \E p \in Pins : SamePin(p, row)
  BY <1>4, <1>5 DEF RegistryEarned, AllEarned, Earned
<1>7. Earned(attempts, t)
  BY <1>1, <1>4, <1>5, <1>6, RecordIsEarned
<1>8. DOMAIN known' = DOMAIN registry
      /\ \A j \in DOMAIN registry : known'[j] = t \/ known'[j] = registry[j]
  BY <1>1 DEF RecordedIn
<1>9. AllEarned(attempts, registry)
  BY DEF RegistryEarned
<1>10. \A j \in DOMAIN registry : registry[j].model # "torn"
  BY <1>2 DEF Sound, Roster
<1> HIDE DEF t
<1> QED
  BY <1>7, <1>8, <1>9, <1>10 DEF AllEarned

LEMMA RegistryEarnedStep ==
  /\ CorpusTypes /\ ProbeTypes /\ RegistryTypes /\ RowsHonest /\ AllCovered /\ AttemptsShow
  /\ RegistryEarned /\ OnePinPerPair
  /\ (Next \/ UNCHANGED vars)
  => RegistryEarned'
<1> SUFFICES ASSUME CorpusTypes, ProbeTypes, RegistryTypes, RowsHonest, AllCovered, AttemptsShow,
                    RegistryEarned, OnePinPerPair, Next \/ UNCHANGED vars
             PROVE  RegistryEarned'
  OBVIOUS
<1>0. /\ AllEarned(attempts', registry)
      /\ Adding => AllEarned(attempts', adder.rows)
      /\ Probing => AllEarned(attempts', known)
  <2>1. Grown(attempts, attempts')
    BY AttemptsMove
  <2> QED
    BY <2>1, AllEarnedStays DEF RegistryEarned
<1>00. AllEarned(attempts', <<>>)
  BY NothingListed DEF AllEarned
<1> USE DEF RegistryEarned
<1>1. CASE AddModel
  <2>1. adder'.rows = registry /\ UNCHANGED <<registry, known, pc>>
    BY <1>1 DEF AddModel
  <2> QED
    BY <1>0, <2>1 DEF Probing
<1>2. CASE TruncateToAdd
  <2>1. /\ adder.at = "truncate" /\ registry' = <<>> /\ adder' = [adder EXCEPT !.at = "write"]
        /\ UNCHANGED <<known, pc>>
    BY <1>2 DEF TruncateToAdd
  <2>2. adder'.rows = adder.rows
    BY <2>1
  <2> QED
    BY <1>0, <1>00, <2>1, <2>2 DEF Adding, Probing
<1>3. CASE WriteAdded
  <2> DEFINE r == adder.request
             row == NewRow(r)
             by == Append(adder.rows, row)
  <2>1. adder.at = "write" /\ registry' \in Overwritten(registry, by) /\ adder' = Idle
        /\ UNCHANGED <<known, pc>>
    BY <1>3 DEF WriteAdded
  <2>2. /\ r \in Requests /\ ~NewRowRefused(r)
        /\ Sound(adder.rows) /\ ~Has(adder.rows, r.model, r.driver)
    BY <2>1 DEF Adding, RegistryTypes
  <2>3. AllEarned(attempts', adder.rows)
    BY <1>0, <2>1 DEF Adding
  <2> HIDE DEF r
  <2>4. /\ row \in RegistryRow /\ row.model \in Roster /\ ~row.deterministic_loops
        /\ ~Has(adder.rows, row.model, row.driver)
    BY <2>2, NewRowSound
  <2>5. Earned(attempts', row)
    BY <2>2, NewRowEarned
  <2> HIDE DEF row
  <2>6. Sound(by)
    BY <2>2, <2>4, AddedSound
  <2>7. Extended(adder.rows, Len(by), row, by)
    BY <2>2, AppendExtends DEF Sound
  <2>8. AllEarned(attempts', by)
    BY <2>3, <2>5, <2>7, EarnedExtended
  <2> HIDE DEF by
  <2>9. AllEarned(attempts', registry')
    BY <2>1, <2>6, <2>8, OverwrittenTorn, EarnedTorn
  <2> QED
    BY <1>0, <2>1, <2>9 DEF Adding, Probing, Idle
<1>4. CASE KillAdder
  <2>1. adder' = Idle /\ UNCHANGED <<registry, known, pc>>
    BY <1>4 DEF KillAdder
  <2> QED
    BY <1>0, <2>1 DEF Adding, Probing, Idle
<1>5. CASE Record
  <2>1. UNCHANGED <<registry, adder, attempts>>
    BY <1>5 DEF Record
  <2>2. CASE pc' = "exit 2"
    BY <1>0, <2>1, <2>2 DEF Adding, Probing
  <2>3. CASE pc' # "exit 2"
    <3>1. AllEarned(attempts, known')
      BY <1>5, <2>3, RecordedEarned
    <3> QED
      BY <1>0, <2>1, <3>1 DEF Adding
  <2> QED
    BY <2>2, <2>3
<1>6. CASE TruncateToRecord
  <2>1. /\ pc = "truncate" /\ registry' = <<>> /\ pc' = "write" /\ UNCHANGED <<adder, known>>
    BY <1>6 DEF TruncateToRecord
  <2> QED
    BY <1>0, <1>00, <2>1 DEF Adding, Probing
<1>7. CASE WriteRecorded
  <2>1. /\ pc = "write" /\ registry' \in Overwritten(registry, known) /\ pc' = "exit 0"
        /\ UNCHANGED adder
    BY <1>7 DEF WriteRecorded
  <2>2. Sound(known) /\ AllEarned(attempts', known)
    BY <1>0, <2>1 DEF Probing, RegistryTypes
  <2>3. AllEarned(attempts', registry')
    BY <2>1, <2>2, OverwrittenTorn, EarnedTorn
  <2> QED
    BY <1>0, <2>1, <2>3 DEF Adding, Probing
<1>8. CASE UNCHANGED <<registry, adder>> /\ pc' \notin {"truncate", "write"}
  BY <1>0, <1>8 DEF Adding, Probing
<1>9. CASE UNCHANGED <<registry, adder, probe>>
  BY <1>0, <1>9 DEF Adding, Probing
<1>10. SetServer \/ ForeignAppend \/ UNCHANGED vars => UNCHANGED <<registry, adder, probe>>
  BY DEF SetServer, ForeignAppend, vars
<1>11. \/ Invoke \/ Look \/ Rejected \/ Dispatched \/ Undispatched \/ RunRep \/ Read
       \/ TruncateToTag \/ WriteTagged \/ WrongCount \/ Refuse \/ Provisional \/ RecordElsewhere
       \/ KillProbe
       => UNCHANGED <<registry, adder>> /\ pc' \notin {"truncate", "write"}
  BY DEF Invoke, Look, Rejected, Dispatched, Undispatched, RunRep, Read, TruncateToTag,
     WriteTagged, WrongCount, Refuse, Provisional, RecordElsewhere, KillProbe, Quiet
<1> QED
  BY <1>1, <1>2, <1>3, <1>4, <1>5, <1>6, <1>7, <1>8, <1>9, <1>10, <1>11 DEF Next, Probe, Adder

LEMMA EarnedInit ==
  Init => Looked /\ AttemptsShow /\ RowsHonest /\ AllCovered /\ RegistryEarned
<1> SUFFICES ASSUME Init
             PROVE  Looked /\ AttemptsShow /\ RowsHonest /\ AllCovered /\ RegistryEarned
  OBVIOUS
<1>1. /\ pc = "idle" /\ attempts = <<>> /\ results = <<>> /\ rows = <<>>
      /\ registry = Before /\ adder = Idle
  BY DEF Init
<1>2. Looked /\ AllCovered
  BY <1>1 DEF Looked, AllCovered
<1>3. AttemptsShow /\ RowsHonest
  BY <1>1, NothingListed DEF AttemptsShow, RowsHonest, Honest
<1>4. ASSUME NEW i \in DOMAIN Before PROVE Earned(attempts, Before[i])
  <2>1. Before[i] \in Pins /\ Before[i].noise_probe = NoProbe
    BY RegistryAssumption DEF Pins
  <2> QED
    BY <2>1 DEF Earned, Measured, Determined, SamePin
<1>5. RegistryEarned
  BY <1>1, <1>4 DEF RegistryEarned, AllEarned, Adding, Probing, Idle
<1> QED
  BY <1>2, <1>3, <1>5

(* finalize_stage0 and record_noise_probe: what a row of models.yaml says   *)
(* of noise and determinism was measured, by one scored attempt of each rep *)
(* under the server that row pins, whatever was killed, torn, lost, mocked  *)
(* or run again on the way, as long as no pair is ever added with other     *)
(* pins than it had: run_ids do not name the pins, so the reps of the old   *)
(* server would count for the new one.                                      *)
THEOREM RegistryIsEarnedHolds == OnePinPerPair => (Spec => []RegistryIsEarned)
<1> SUFFICES ASSUME OnePinPerPair PROVE Spec => []RegistryIsEarned
  OBVIOUS
<1> DEFINE Inv == Types /\ Looked /\ AttemptsShow /\ RowsHonest /\ AllCovered /\ RegistryEarned
<1>1. Init => Inv
  BY CorpusInit, ProbeInit, RegistryInit, EarnedInit DEF Types
<1>2. Inv /\ [Next]_vars => Inv'
  BY CorpusStep, ProbeStep, RegistryStep, LookedStep, AttemptsShowStep, RowsHonestStep,
     CoveredStep, RegistryEarnedStep DEF Types
<1>3. Inv => RegistryIsEarned
  <2> SUFFICES ASSUME Types, RegistryEarned PROVE RegistryIsEarned
    OBVIOUS
  <2>1. ASSUME NEW i \in Probed PROVE Earned(attempts, registry[i])
    BY DEF Probed, RegistryEarned, AllEarned
  <2>2. NoiseProbeIsMeasured
    BY <2>1 DEF NoiseProbeIsMeasured, Probed, Earned, Measured, BackedBy, Backs, PassesIn
  <2>3. ASSUME NEW i \in Probed, registry[i].deterministic_loops
        PROVE  \E sample \in SUBSET DOMAIN attempts :
                 /\ Backs(sample, registry[i]) /\ Cardinality(sample) >= 5
                 /\ \A a, b \in sample : attempts[a].end.pass = attempts[b].end.pass
    BY <2>1, <2>3 DEF Probed, Earned, Determined, BackedBy, Backs
  <2>4. Readable => Validate(registry, {r.model : r \in Requests}) # 1
    <3> SUFFICES ASSUME Readable PROVE Validate(registry, {r.model : r \in Requests}) # 1
      OBVIOUS
    <3>1. Sound(registry)
      BY ReadableSound DEF Types
    <3> QED
      BY <3>1 DEF Validate, Sound, Roster
  <2> QED
    BY <2>2, <2>3, <2>4 DEF RegistryIsEarned, DeterminismIsEarned
<1> QED
  BY <1>1, <1>2, <1>3, PTL DEF Spec
=============================================================================
