-------------------------- MODULE TokenUnitsProofs --------------------------
(***************************************************************************)
(* TokenUnits, for any number of homes, runs and requests.  First what the *)
(* runs do to the credential: LoginSurvives, of CredentialHomes by itself  *)
(* and of the runs, with their rows, logs and deaths.  Then what a log is  *)
(* reduced to: a series adds up to its session, however often a line is    *)
(* repeated.                                                               *)
(* Then the records: whatever is on file is of a session that was, so that *)
(* the check confirms nothing else, and a snapshot finds what there is.    *)
(***************************************************************************)
EXTENDS TokenUnits, WellFoundedInduction, TLAPS

HomesTypeOK ==
  /\ token \in Nat \ {0} /\ source \in 0..token
  /\ homes \in [Homes -> [st : {"none", "live", "closing"}, held : Nat]]
  /\ lost \in BOOLEAN

(* A real file in a home is the one good token, while the operator's is     *)
(* spent: who reads a spent one is not served, so that there is one such    *)
(* home at most, and what it copies back replaces nothing that is good.     *)
HolderInv ==
  /\ \A h \in Homes : homes[h].held # 0 =>
       /\ homes[h].st # "none"
       /\ homes[h].held = token /\ source # token
       /\ \A g \in Homes : g # h => homes[g].held = 0
  /\ \A h \in Homes : homes[h].st = "closing" => homes[h].held # 0

HomesInv == HomesTypeOK /\ HolderInv /\ LoginSurvives

LEMMA InitHomes == HomesInit => HomesInv
<1> SUFFICES ASSUME HomesInit
             PROVE  HomesInv
  OBVIOUS
<1> USE DEF HomesInit, None
<1>1. HomesTypeOK
  <2>1. [st |-> "none", held |-> 0] \in [st : {"none", "live", "closing"}, held : Nat]
    OBVIOUS
  <2>2. homes \in [Homes -> [st : {"none", "live", "closing"}, held : Nat]]
    BY <2>1
  <2>3. token \in Nat \ {0} /\ source \in 0..token
    OBVIOUS
  <2>4. lost \in BOOLEAN
    OBVIOUS
  <2>5. QED
    BY <2>2, <2>3, <2>4 DEF HomesTypeOK
<1>2. \A h \in Homes : homes[h].held = 0 /\ homes[h].st = "none"
  OBVIOUS
<1>3. HolderInv
  BY <1>2 DEF HolderInv
<1>4. LoginSurvives
  BY DEF LoginSurvives
<1>5. QED
  BY <1>1, <1>3, <1>4 DEF HomesInv

(* Every step of a home, and of the operator, keeps the three.              *)
LEMMA StepHomes == HomesInv /\ [HomesNext]_homeVars => HomesInv'
<1> SUFFICES ASSUME HomesInv, [HomesNext]_homeVars
             PROVE  HomesInv'
  OBVIOUS
<1> USE DEF HomesInv, HomesTypeOK, HolderInv, LoginSurvives
<1>1. CASE OperatorRefreshes
  BY <1>1 DEF OperatorRefreshes
<1>2. ASSUME NEW h \in Homes, Open(h)
      PROVE  HomesInv'
  BY <1>2 DEF Open, None, Link
<1>3. ASSUME NEW h \in Homes, Refresh(h)
      PROVE  HomesInv'
  BY <1>3 DEF Refresh, Reads
<1>4. ASSUME NEW h \in Homes, CloseLink(h)
      PROVE  HomesInv'
  BY <1>4 DEF CloseLink, None, Link
<1>5. ASSUME NEW h \in Homes, CopyBack(h)
      PROVE  HomesInv'
  BY <1>5 DEF CopyBack
<1>6. ASSUME NEW h \in Homes, Close(h)
      PROVE  HomesInv'
  BY <1>6 DEF Close, None
<1>7. ASSUME NEW h \in Homes, Leave(h)
      PROVE  HomesInv'
  BY <1>7 DEF Leave, None
<1>8. CASE UNCHANGED homeVars
  BY <1>8 DEF homeVars
<1>9. QED
  BY <1>1, <1>2, <1>3, <1>4, <1>5, <1>6, <1>7, <1>8 DEF HomesNext

(* Until a run is killed, no overlap of runs and refreshes loses the        *)
(* operator's login (the teardown of scoped_codex_home and                  *)
(* scoped_claude_home).                                                     *)
THEOREM LoginSurvivesHolds == HomesSpec => []LoginSurvives
<1>1. HomesInit => HomesInv
  BY InitHomes
<1>2. HomesInv /\ [HomesNext]_homeVars => HomesInv'
  BY StepHomes
<1>3. HomesInv => LoginSurvives
  BY DEF HomesInv
<1>4. QED
  BY <1>1, <1>2, <1>3, PTL DEF HomesSpec

-----------------------------------------------------------------------------
(* Every step of a run, of the runner, of a visitor or of the snapshot is a *)
(* step of a home, or leaves the credential alone.                          *)
LEMMA StepOfTheHomes ==
  ASSUME Next
  PROVE  [HomesNext]_homeVars
<1> USE DEF HomesNext
<1>1. ASSUME NEW h \in Homes, CliEnds(h) PROVE UNCHANGED homeVars
  BY <1>1 DEF CliEnds
<1>2. ASSUME NEW h \in Homes, TearDown(h) PROVE HomesNext
  BY <1>2 DEF TearDown
<1>3. ASSUME NEW h \in Homes, Record(h) PROVE UNCHANGED homeVars
  BY <1>3 DEF Record
<1>4. ASSUME NEW h \in Homes, Die(h) PROVE HomesNext \/ UNCHANGED homeVars
  BY <1>4 DEF Die
<1>5. ASSUME NEW h \in Homes, NEW c \in Cells, Run(h, c) PROVE HomesNext \/ UNCHANGED homeVars
  BY <1>5 DEF Run
<1>6. ASSUME NEW c \in Cells, Visit(c) PROVE UNCHANGED homeVars
  BY <1>6 DEF Visit
<1>7. ASSUME TokenIsRefreshed PROVE HomesNext
  BY <1>7 DEF TokenIsRefreshed
<1>8. ASSUME Prune PROVE UNCHANGED homeVars
  BY <1>8 DEF Prune
<1>9. ASSUME Snapshot \/ SnapshotRow \/ SnapshotDies PROVE UNCHANGED homeVars
  BY <1>9 DEF Snapshot, SnapshotRow, SnapshotDies
<1> QED
  BY <1>1, <1>2, <1>3, <1>4, <1>5, <1>6, <1>7, <1>8, <1>9 DEF Next

LEMMA HomesAreUsedAsSuch == Spec => HomesSpec
<1>1. Init => HomesInit
  BY DEF Init
<1>2. [Next]_vars => [HomesNext]_homeVars
  BY StepOfTheHomes DEF vars, homeVars
<1> QED
  BY <1>1, <1>2, PTL DEF Spec, HomesSpec

(* No overlap of the runs of a corpus with refreshes, and of their       *)
(* teardowns with each other, loses the operator's login.                   *)
THEOREM LoginSurvivesTheRuns == Spec => []LoginSurvives
BY HomesAreUsedAsSuch, LoginSurvivesHolds

-----------------------------------------------------------------------------
(***************************************************************************)
(* The check.  First what a series is to the session it was taken from.    *)
(***************************************************************************)

(* Induction, for a set of numbers: a least number outside of it would have *)
(* a predecessor in it.                                                     *)
LEMMA Induction ==
  ASSUME NEW S, 0 \in S, \A n \in S \cap Nat : n + 1 \in S
  PROVE  Nat \subseteq S
<1> DEFINE T == {n \in Nat : n \notin S}
<1> SUFFICES ASSUME T # {}
             PROVE  FALSE
  OBVIOUS
<1>1. \E x \in T : \A y \in T : ~(<<y, x>> \in OpToRel(<, Nat))
  BY NatLessThanWellFounded, WFMin
<1>2. PICK x \in T : \A y \in T : ~(<<y, x>> \in OpToRel(<, Nat))
  BY <1>1
<1>3. x \in Nat /\ x # 0 /\ x - 1 \in Nat /\ (x - 1) + 1 = x
  OBVIOUS
<1>4. x - 1 \in T
  BY <1>3
<1>5. <<x - 1, x>> \in OpToRel(<, Nat)
  BY <1>3 DEF OpToRel
<1> QED
  BY <1>2, <1>4, <1>5

(* The loop of RunningTotal.                                                *)
Zero == [session_total |-> 0, tokens_out |-> 0]

Plus(t, r) == [session_total |-> t.session_total + Context(r), tokens_out |-> t.tokens_out + r.out]

Totals(s, n, f) ==
  /\ f = [m \in 0..n |-> f[m]]
  /\ \A m \in 0..n : f[m] = IF m = 0 THEN Zero ELSE Plus(f[m - 1], s[m])

LEMMA TotalsExist ==
  ASSUME NEW s
  PROVE  \A n \in Nat : \E f : Totals(s, n, f)
<1> DEFINE S == {n \in Nat : \E f : Totals(s, n, f)}
<1>1. 0 \in S
  <2>1. Totals(s, 0, [m \in 0..0 |-> Zero])
    BY DEF Totals
  <2> QED
    BY <2>1
<1>2. ASSUME NEW n \in S \cap Nat PROVE n + 1 \in S
  <2>1. PICK f : Totals(s, n, f)
    BY <1>2
  <2> DEFINE g == [m \in 0..(n + 1) |-> IF m = n + 1 THEN Plus(f[n], s[m]) ELSE f[m]]
  <2>2. \A m \in 0..n : g[m] = f[m]
    OBVIOUS
  <2>3. g[n + 1] = Plus(f[n], s[n + 1])
    OBVIOUS
  <2>4. g = [m \in 0..(n + 1) |-> g[m]]
    OBVIOUS
  <2> HIDE DEF g
  <2>5. ASSUME NEW m \in 0..(n + 1)
        PROVE  g[m] = IF m = 0 THEN Zero ELSE Plus(g[m - 1], s[m])
    <3>1. CASE m = n + 1
      BY <2>2, <2>3, <3>1
    <3>2. CASE m # n + 1
      <4>1. m \in 0..n /\ (m # 0 => m - 1 \in 0..n)
        BY <3>2
      <4> QED
        BY <2>1, <2>2, <4>1 DEF Totals
    <3> QED
      BY <3>1, <3>2
  <2>6. Totals(s, n + 1, g)
    BY <2>4, <2>5 DEF Totals
  <2> QED
    BY <2>6
<1>3. Nat \subseteq S
  BY <1>1, <1>2, Induction
<1> QED
  BY <1>3

LEMMA RunningTotals ==
  ASSUME NEW s, Len(s) \in Nat
  PROVE  Totals(s, Len(s), RunningTotal(s))
<1> DEFINE N == Len(s)
           Eq(f) == f = [i \in 0..N |->
                           IF i = 0 THEN [session_total |-> 0, tokens_out |-> 0]
                           ELSE [session_total |-> f[i - 1].session_total + Context(s[i]),
                                 tokens_out |-> f[i - 1].tokens_out + s[i].out]]
           upto == CHOOSE f : Eq(f)
<1>1. PICK f : Totals(s, N, f)
  BY TotalsExist
<1>2. Eq(f)
  <2> DEFINE r == [i \in 0..N |-> IF i = 0 THEN Zero ELSE Plus(f[i - 1], s[i])]
  <2>1. f = [n \in 0..N |-> f[n]] /\ \A n \in 0..N : f[n] = r[n]
    BY <1>1 DEF Totals
  <2>2. r = [n \in 0..N |-> r[n]]
    OBVIOUS
  <2> HIDE DEF r
  <2>3. f = r
    BY <2>1, <2>2
  <2> QED
    BY <2>3 DEF r, Zero, Plus
<1>3. Eq(upto)
  BY <1>2
<1>4. RunningTotal(s) = upto
  BY DEF RunningTotal
<1>5. upto = [i \in 0..N |-> IF i = 0 THEN Zero ELSE Plus(upto[i - 1], s[i])]
  BY <1>3 DEF Zero, Plus
<1> HIDE DEF upto
<1> QED
  BY <1>4, <1>5 DEF Totals

FiguresType == [session_total : Nat, tokens_out : Nat]

LEMMA Contexts ==
  ASSUME NEW r \in Request
  PROVE  Context(r) \in Nat /\ r.out \in Nat
BY DEF Request, Context

LEMMA TotalsStep ==
  ASSUME NEW s \in Seq(Request)
  PROVE  /\ RunningTotal(s)[0] = Zero
         /\ \A m \in 1..Len(s) : RunningTotal(s)[m] = Plus(RunningTotal(s)[m - 1], s[m])
         /\ \A m \in 0..Len(s) : RunningTotal(s)[m] \in FiguresType
<1> DEFINE N == Len(s)
           f == RunningTotal(s)
<1>0. N \in Nat /\ \A m \in 1..N : s[m] \in Request
  OBVIOUS
<1>1. Totals(s, N, f)
  BY <1>0, RunningTotals
<1> HIDE DEF f
<1>2. f[0] = Zero
  <2>1. 0 \in 0..N
    BY <1>0
  <2> QED
    BY <1>1, <2>1 DEF Totals
<1>3. ASSUME NEW m \in 1..N PROVE f[m] = Plus(f[m - 1], s[m])
  <2>1. m \in 0..N /\ m # 0
    BY <1>0
  <2> QED
    BY <1>1, <2>1 DEF Totals
<1> DEFINE S == {n \in Nat : n <= N => f[n] \in FiguresType}
<1>4. 0 \in S
  BY <1>2 DEF Zero, FiguresType
<1>5. ASSUME NEW n \in S \cap Nat PROVE n + 1 \in S
  <2> SUFFICES ASSUME n + 1 <= N
               PROVE  f[n + 1] \in FiguresType
    OBVIOUS
  <2>1. n + 1 \in 1..N /\ (n + 1) - 1 = n /\ f[n] \in FiguresType
    BY <1>0, <1>5
  <2>2. f[n + 1] = Plus(f[n], s[n + 1])
    BY <1>3, <2>1
  <2>3. Context(s[n + 1]) \in Nat /\ s[n + 1].out \in Nat
    BY <1>0, <2>1, Contexts
  <2> QED
    BY <2>1, <2>2, <2>3 DEF Plus, FiguresType
<1>6. Nat \subseteq S
  BY <1>4, <1>5, Induction
<1>7. \A m \in 0..N : f[m] \in FiguresType
  <2>1. ASSUME NEW m \in 0..N PROVE m \in S /\ m <= N
    BY <1>0, <1>6
  <2> QED
    BY <2>1
<1> QED
  BY <1>2, <1>3, <1>7 DEF f

LEMMA FiguresTyped ==
  ASSUME NEW s \in Seq(Request)
  PROVE  figures(s) \in FiguresType
<1>1. Len(s) \in 0..Len(s)
  OBVIOUS
<1> QED
  BY <1>1, TotalsStep DEF figures

(* One request more.                                                        *)
LEMMA FiguresAppend ==
  ASSUME NEW s \in Seq(Request), NEW r \in Request
  PROVE  figures(Append(s, r)) = Plus(figures(s), r)
<1> DEFINE N == Len(s)
           t == Append(s, r)
           f == RunningTotal(s)
           g == RunningTotal(t)
<1>1. /\ N \in Nat /\ t \in Seq(Request) /\ Len(t) = N + 1 /\ t[N + 1] = r
      /\ \A m \in 1..N : t[m] = s[m]
  OBVIOUS
<1>2. f[0] = Zero /\ \A m \in 1..N : f[m] = Plus(f[m - 1], s[m])
  BY TotalsStep
<1>3. g[0] = Zero /\ \A m \in 1..(N + 1) : g[m] = Plus(g[m - 1], t[m])
  BY <1>1, TotalsStep
<1> HIDE DEF f, g, t
<1> DEFINE S == {n \in Nat : n <= N => g[n] = f[n]}
<1>4. 0 \in S
  BY <1>2, <1>3
<1>5. ASSUME NEW n \in S \cap Nat PROVE n + 1 \in S
  <2> SUFFICES ASSUME n + 1 <= N
               PROVE  g[n + 1] = f[n + 1]
    OBVIOUS
  <2>1. n + 1 \in 1..N /\ n + 1 \in 1..(N + 1) /\ (n + 1) - 1 = n /\ g[n] = f[n]
    BY <1>1, <1>5
  <2> QED
    BY <1>1, <1>2, <1>3, <2>1
<1>6. Nat \subseteq S
  BY <1>4, <1>5, Induction
<1>7. g[N] = f[N]
  BY <1>1, <1>6
<1>8. g[N + 1] = Plus(g[N], r)
  <2>1. N + 1 \in 1..(N + 1) /\ (N + 1) - 1 = N
    BY <1>1
  <2> QED
    BY <1>1, <1>3, <2>1
<1> QED
  BY <1>1, <1>7, <1>8 DEF figures, f, g, t

LEMMA FiguresPositive ==
  ASSUME NEW s \in Seq(Request), NEW i \in DOMAIN s, Context(s[i]) > 0
  PROVE  figures(s).session_total > 0
<1> DEFINE N == Len(s)
           f == RunningTotal(s)
<1>1. N \in Nat /\ i \in 1..N /\ \A m \in 1..N : s[m] \in Request
  OBVIOUS
<1>2. /\ \A m \in 1..N : f[m] = Plus(f[m - 1], s[m])
      /\ \A m \in 0..N : f[m] \in FiguresType
  BY TotalsStep
<1> HIDE DEF f
<1> DEFINE S == {n \in Nat : i <= n /\ n <= N => f[n].session_total > 0}
<1>3. 0 \in S
  BY <1>1
<1>4. ASSUME NEW n \in S \cap Nat PROVE n + 1 \in S
  <2> SUFFICES ASSUME i <= n + 1, n + 1 <= N
               PROVE  f[n + 1].session_total > 0
    OBVIOUS
  <2>1. n + 1 \in 1..N /\ n \in 0..N /\ (n + 1) - 1 = n
    BY <1>1, <1>4
  <2>2. f[n + 1].session_total = f[n].session_total + Context(s[n + 1])
    <3>1. f[n + 1] = Plus(f[n], s[n + 1])
      BY <1>2, <2>1
    <3> QED
      BY <3>1 DEF Plus
  <2>3. f[n].session_total \in Nat /\ Context(s[n + 1]) \in Nat
    BY <1>1, <1>2, <2>1, Contexts DEF FiguresType
  <2>4. i = n + 1 \/ i <= n
    BY <1>1, <1>4
  <2>5. CASE i = n + 1
    BY <2>2, <2>3, <2>5
  <2>6. CASE i <= n
    <3>1. f[n].session_total > 0
      BY <1>1, <1>4, <2>1, <2>6
    <3> QED
      BY <2>2, <2>3, <3>1
  <2> QED
    BY <2>4, <2>5, <2>6
<1>5. Nat \subseteq S
  BY <1>3, <1>4, Induction
<1>6. N \in S /\ i <= N
  BY <1>1, <1>5
<1> QED
  BY <1>6 DEF figures, f

(* The loop of Picked.                                                      *)
Picks(s, places, n, f) ==
  /\ f = [m \in 0..n |-> f[m]]
  /\ \A m \in 0..n : f[m] = IF m = 0 THEN <<>>
                            ELSE IF m \in places THEN Append(f[m - 1], s[m]) ELSE f[m - 1]

LEMMA PicksExist ==
  ASSUME NEW s, NEW places
  PROVE  \A n \in Nat : \E f : Picks(s, places, n, f)
<1> DEFINE S == {n \in Nat : \E f : Picks(s, places, n, f)}
<1>1. 0 \in S
  <2>1. Picks(s, places, 0, [m \in 0..0 |-> <<>>])
    BY DEF Picks
  <2> QED
    BY <2>1
<1>2. ASSUME NEW n \in S \cap Nat PROVE n + 1 \in S
  <2>1. PICK f : Picks(s, places, n, f)
    BY <1>2
  <2> DEFINE last == IF n + 1 \in places THEN Append(f[n], s[n + 1]) ELSE f[n]
             g == [m \in 0..(n + 1) |-> IF m = n + 1 THEN last ELSE f[m]]
  <2>2. \A m \in 0..n : g[m] = f[m]
    OBVIOUS
  <2>3. g[n + 1] = IF n + 1 \in places THEN Append(f[n], s[n + 1]) ELSE f[n]
    OBVIOUS
  <2>4. g = [m \in 0..(n + 1) |-> g[m]]
    OBVIOUS
  <2> HIDE DEF g
  <2>5. ASSUME NEW m \in 0..(n + 1)
        PROVE  g[m] = IF m = 0 THEN <<>>
                      ELSE IF m \in places THEN Append(g[m - 1], s[m]) ELSE g[m - 1]
    <3>1. CASE m = n + 1
      <4>1. m # 0 /\ m - 1 = n /\ n \in 0..n
        BY <3>1
      <4> QED
        BY <2>2, <2>3, <3>1, <4>1
    <3>2. CASE m # n + 1
      <4>1. m \in 0..n /\ (m # 0 => m - 1 \in 0..n)
        BY <3>2
      <4> QED
        BY <2>1, <2>2, <4>1 DEF Picks
    <3> QED
      BY <3>1, <3>2
  <2>6. Picks(s, places, n + 1, g)
    BY <2>4, <2>5 DEF Picks
  <2> QED
    BY <2>6
<1>3. Nat \subseteq S
  BY <1>1, <1>2, Induction
<1> QED
  BY <1>3

LEMMA PickedLoop ==
  ASSUME NEW s, Len(s) \in Nat, NEW places
  PROVE  \E f : Picks(s, places, Len(s), f) /\ Picked(s, places) = f[Len(s)]
<1> DEFINE N == Len(s)
           Eq(f) == f = [i \in 0..N |->
                           IF i = 0 THEN <<>>
                           ELSE IF i \in places THEN Append(f[i - 1], s[i]) ELSE f[i - 1]]
           upto == CHOOSE f : Eq(f)
<1>1. PICK f : Picks(s, places, N, f)
  BY PicksExist
<1>2. Eq(f)
  <2> DEFINE r == [i \in 0..N |->
                     IF i = 0 THEN <<>>
                     ELSE IF i \in places THEN Append(f[i - 1], s[i]) ELSE f[i - 1]]
  <2>1. f = [n \in 0..N |-> f[n]] /\ \A n \in 0..N : f[n] = r[n]
    BY <1>1 DEF Picks
  <2>2. r = [n \in 0..N |-> r[n]]
    OBVIOUS
  <2> HIDE DEF r
  <2>3. f = r
    BY <2>1, <2>2
  <2> QED
    BY <2>3 DEF r
<1>3. Eq(upto)
  BY <1>2
<1>4. Picked(s, places) = upto[N]
  BY DEF Picked
<1>5. upto = [i \in 0..N |-> IF i = 0 THEN <<>>
                             ELSE IF i \in places THEN Append(upto[i - 1], s[i]) ELSE upto[i - 1]]
  BY <1>3
<1> HIDE DEF upto
<1>6. Picks(s, places, N, upto)
  BY <1>5 DEF Picks
<1> QED
  BY <1>4, <1>6

(* What is picked out of a log adds up to the session, if place m of the    *)
(* log is about request k[m] of the session, and every place that is left   *)
(* out adds nothing to the total before it.                                 *)
LEMMA PickedFigures ==
  ASSUME NEW s \in Seq(Request), NEW used \in Seq(Request), NEW places, NEW k,
         Len(s) > 0, 1 \in places, k[0] = 0, k[Len(s)] = Len(used),
         \A m \in 1..Len(s) : k[m] \in 1..Len(used),
         \A m \in 1..Len(s) :
           IF m \in places
           THEN /\ k[m] = k[m - 1] + 1
                /\ Context(s[m]) = Context(used[k[m]]) /\ s[m].out = used[k[m]].out
           ELSE RunningTotal(used)[k[m]] = RunningTotal(used)[k[m - 1]]
  PROVE  /\ Picked(s, places) \in Seq(Request) /\ Picked(s, places) # <<>>
         /\ figures(Picked(s, places)) = figures(used)
<1> DEFINE N == Len(s)
           T == RunningTotal(used)
<1>1. N \in Nat /\ N > 0 /\ Len(used) \in Nat /\ \A m \in 1..N : s[m] \in Request
  OBVIOUS
<1>2. PICK f : Picks(s, places, N, f) /\ Picked(s, places) = f[N]
  BY <1>1, PickedLoop
<1>3. f[0] = <<>>
  <2>1. 0 \in 0..N
    BY <1>1
  <2> QED
    BY <1>2, <2>1 DEF Picks
<1>4. ASSUME NEW m \in 1..N
      PROVE  f[m] = IF m \in places THEN Append(f[m - 1], s[m]) ELSE f[m - 1]
  <2>1. m \in 0..N /\ m # 0
    BY <1>1
  <2> QED
    BY <1>2, <2>1 DEF Picks
<1>5. T[0] = Zero /\ \A m \in 1..Len(used) : T[m] = Plus(T[m - 1], used[m])
  BY TotalsStep
<1> HIDE DEF T
<1> DEFINE S == {n \in Nat : n <= N => /\ f[n] \in Seq(Request) /\ (n > 0 => f[n] # <<>>)
                                       /\ figures(f[n]) = T[k[n]]}
<1>6. 0 \in S
  <2>1. <<>> \in Seq(Request) /\ Len(<<>>) = 0
    OBVIOUS
  <2>2. figures(<<>>) = Zero
    BY <2>1, TotalsStep DEF figures
  <2>3. T[k[0]] = Zero
    BY <1>5
  <2>4. f[0] \in Seq(Request) /\ figures(f[0]) = T[k[0]]
    BY <1>3, <2>1, <2>2, <2>3
  <2> QED
    BY <2>4
<1>7. ASSUME NEW n \in S \cap Nat PROVE n + 1 \in S
  <2> SUFFICES ASSUME n + 1 <= N
               PROVE  /\ f[n + 1] \in Seq(Request) /\ f[n + 1] # <<>>
                      /\ figures(f[n + 1]) = T[k[n + 1]]
    OBVIOUS
  <2>1. /\ n + 1 \in 1..N /\ (n + 1) - 1 = n /\ f[n] \in Seq(Request)
        /\ figures(f[n]) = T[k[n]] /\ (n > 0 => f[n] # <<>>)
    BY <1>1, <1>7
  <2>2. f[n + 1] = IF n + 1 \in places THEN Append(f[n], s[n + 1]) ELSE f[n]
    BY <1>4, <2>1
  <2>3. CASE n + 1 \in places
    <3>1. f[n + 1] = Append(f[n], s[n + 1]) /\ s[n + 1] \in Request
      BY <1>1, <2>1, <2>2, <2>3
    <3>2. figures(f[n + 1]) = Plus(T[k[n]], s[n + 1])
      BY <2>1, <3>1, FiguresAppend
    <3>3. /\ k[n + 1] \in 1..Len(used) /\ k[n + 1] = k[n] + 1
          /\ Context(s[n + 1]) = Context(used[k[n + 1]]) /\ s[n + 1].out = used[k[n + 1]].out
      BY <2>1, <2>3
    <3>4. k[n] \in Nat
      <4>1. n = 0 \/ n \in 1..N
        BY <1>1, <2>1
      <4>2. CASE n = 0
        BY <4>2
      <4>3. CASE n \in 1..N
        BY <1>1, <4>3
      <4> QED
        BY <4>1, <4>2, <4>3
    <3>5. k[n + 1] - 1 = k[n]
      BY <3>3, <3>4
    <3>6. T[k[n + 1]] = Plus(T[k[n]], used[k[n + 1]])
      BY <1>5, <3>3, <3>5
    <3>7. Plus(T[k[n]], s[n + 1]) = Plus(T[k[n]], used[k[n + 1]])
      BY <3>3 DEF Plus
    <3>8. f[n + 1] \in Seq(Request) /\ f[n + 1] # <<>>
      BY <2>1, <3>1
    <3> QED
      BY <3>2, <3>6, <3>7, <3>8
  <2>4. CASE n + 1 \notin places
    <3>1. n # 0 /\ n > 0
      BY <1>7, <2>4
    <3>2. T[k[n + 1]] = T[k[n]]
      BY <2>1, <2>4 DEF T
    <3> QED
      BY <2>1, <2>2, <2>4, <3>1, <3>2
  <2> QED
    BY <2>3, <2>4
<1>8. Nat \subseteq S
  BY <1>6, <1>7, Induction
<1>9. N \in S
  BY <1>1, <1>8
<1>10. figures(used) = T[Len(used)]
  BY DEF figures, T
<1> QED
  BY <1>1, <1>2, <1>9, <1>10

Once(family, used) ==
  [i \in DOMAIN used |->
     IF family = "codex"
     THEN [last |-> [input |-> Context(used[i]), cached |-> used[i].read, out |-> used[i].out],
           total |-> RunningTotal(used)[i]]
     ELSE [id |-> i, usage |-> used[i]]]

LEMMA Halves ==
  ASSUME NEW m \in Nat
  PROVE  (m + 1) \div 2 \in Nat /\ (2 * ((m + 1) \div 2) = m \/ 2 * ((m + 1) \div 2) = m + 1)
OBVIOUS

LEMMA HalfSteps ==
  ASSUME NEW n \in Nat, NEW i \in Nat, i > 0, i <= 2 * n, NEW a \in Nat, NEW b \in Nat,
         2 * a = i \/ 2 * a = i + 1, 2 * b = i - 1 \/ 2 * b = i
  PROVE  a \in 1..n /\ (a = b + 1 \/ (i > 1 /\ a = b))
OBVIOUS

(* A log goes through its session from the first request to the last, and   *)
(* stays at one for a while at most.                                        *)
Goes(k, m, n) ==
  /\ m \in Nat /\ m > 0 /\ k[0] = 0 /\ k[m] = n
  /\ \A i \in 1..m : k[i] \in 1..n /\ (k[i] = k[i - 1] + 1 \/ (i > 1 /\ k[i] = k[i - 1]))
  /\ \A i \in 1..m : \A j \in 1..(i - 1) : k[j] = k[i] => k[i - 1] = k[i]

LEMMA LinesGo ==
  ASSUME NEW used \in Seq(Request), used # <<>>, NEW family, NEW twice \in BOOLEAN
  PROVE  \E m, k : /\ Goes(k, m, Len(used))
                   /\ Lines(family, used, twice) = [i \in 1..m |-> Once(family, used)[k[i]]]
<1> DEFINE n == Len(used)
           once == Once(family, used)
<1>1. n \in Nat /\ n > 0 /\ DOMAIN used = 1..n
  OBVIOUS
<1>2. DOMAIN once = 1..n /\ once = [i \in 1..n |-> once[i]]
  BY <1>1 DEF Once
<1>3. Lines(family, used, twice) =
        IF twice THEN [j \in 1..(2 * Len(once)) |-> once[(j + 1) \div 2]] ELSE once
  BY DEF Lines, Once
<1>4. Len(once) = n
  BY <1>1, <1>2
<1> HIDE DEF once
<1>5. CASE twice
  <2> DEFINE k == [i \in 0..(2 * n) |-> (i + 1) \div 2]
  <2>1. \A i \in 0..(2 * n) : k[i] \in Nat /\ (2 * k[i] = i \/ 2 * k[i] = i + 1)
    BY <1>1, Halves
  <2>2. \A i \in 1..(2 * n) : k[i] = (i + 1) \div 2
    BY <1>1
  <2> HIDE DEF k
  <2>3. 0 \in 0..(2 * n) /\ 2 * n \in 0..(2 * n) /\ 2 * n \in Nat /\ 2 * n > 0
    BY <1>1
  <2>4. k[0] = 0 /\ k[2 * n] = n
    BY <1>1, <2>1, <2>3
  <2>5. ASSUME NEW i \in 1..(2 * n)
        PROVE  k[i] \in 1..n /\ (k[i] = k[i - 1] + 1 \/ (i > 1 /\ k[i] = k[i - 1]))
    <3>1. i \in 0..(2 * n) /\ i - 1 \in 0..(2 * n) /\ i \in Nat /\ i > 0 /\ i <= 2 * n
      BY <1>1
    <3>2. /\ k[i] \in Nat /\ (2 * k[i] = i \/ 2 * k[i] = i + 1)
          /\ k[i - 1] \in Nat /\ (2 * k[i - 1] = i - 1 \/ 2 * k[i - 1] = (i - 1) + 1)
          /\ (i - 1) + 1 = i
      BY <2>1, <3>1
    <3>3. 2 * k[i - 1] = i - 1 \/ 2 * k[i - 1] = i
      BY <3>1, <3>2
    <3>4. k[i] \in Nat /\ k[i - 1] \in Nat /\ (2 * k[i] = i \/ 2 * k[i] = i + 1)
      BY <3>2
    <3> DEFINE a == k[i]
               b == k[i - 1]
    <3>5. i \in Nat /\ i > 0 /\ i <= 2 * n /\ n \in Nat
      BY <1>1, <3>1
    <3> HIDE DEF a, b
    <3>6. a \in 1..n /\ (a = b + 1 \/ (i > 1 /\ a = b))
      BY SMTT(30), <3>3, <3>4, <3>5, HalfSteps DEF a, b
    <3> QED
      BY <3>6 DEF a, b
  <2>6. ASSUME NEW i \in 1..(2 * n), NEW j \in 1..(i - 1), k[j] = k[i]
        PROVE  k[i - 1] = k[i]
    <3>1. /\ i \in 0..(2 * n) /\ i - 1 \in 0..(2 * n) /\ j \in 0..(2 * n)
          /\ i \in Nat /\ j \in Nat /\ j < i
      BY <1>1
    <3>2. /\ k[i] \in Nat /\ (2 * k[i] = i \/ 2 * k[i] = i + 1)
          /\ k[i - 1] \in Nat /\ (2 * k[i - 1] = i - 1 \/ 2 * k[i - 1] = (i - 1) + 1)
          /\ (2 * k[j] = j \/ 2 * k[j] = j + 1)
      BY <2>1, <3>1
    <3> QED
      BY SMTT(30), <2>6, <3>1, <3>2
  <2>7. Goes(k, 2 * n, n)
    BY <2>3, <2>4, <2>5, <2>6 DEF Goes
  <2>8. Lines(family, used, twice) = [i \in 1..(2 * n) |-> once[k[i]]]
    BY <1>3, <1>4, <1>5, <2>2
  <2> QED
    BY <2>7, <2>8 DEF once
<1>6. CASE ~twice
  <2> DEFINE k == [i \in 0..n |-> i]
  <2>1. \A i \in 0..n : k[i] = i
    OBVIOUS
  <2> HIDE DEF k
  <2>2. \A i \in 1..n : i \in 0..n /\ i - 1 \in 0..n /\ \A j \in 1..(i - 1) : j \in 0..n
    BY <1>1
  <2>3. Goes(k, n, n)
    <3>1. k[0] = 0 /\ k[n] = n
      BY <1>1, <2>1
    <3>2. \A i \in 1..n : k[i] \in 1..n /\ k[i] = k[i - 1] + 1
      BY <1>1, <2>1, <2>2
    <3>3. \A i \in 1..n : \A j \in 1..(i - 1) : k[j] # k[i]
      BY <1>1, <2>1, <2>2
    <3> QED
      BY <1>1, <3>1, <3>2, <3>3 DEF Goes
  <2>4. Lines(family, used, twice) = [i \in 1..n |-> once[k[i]]]
    BY <1>2, <1>3, <1>6, <2>1, <2>2
  <2> QED
    BY <2>3, <2>4 DEF once
<1> QED
  BY <1>5, <1>6

Same(s, used) == s \in Seq(Request) /\ s # <<>> /\ figures(s) = figures(used)

(* However often claude writes a response down, and whatever codex repeats, *)
(* the series adds up to the session.                                       *)
LEMMA ClaudeSeries ==
  ASSUME NEW used \in Seq(Request), used # <<>>, NEW family, family # "codex",
         NEW twice \in BOOLEAN
  PROVE  Same(claude_series(Lines(family, used, twice)), used)
<1>1. PICK m, k : /\ Goes(k, m, Len(used))
                  /\ Lines(family, used, twice) = [i \in 1..m |-> Once(family, used)[k[i]]]
  BY LinesGo
<1> DEFINE lines == Lines(family, used, twice)
           s == [i \in DOMAIN lines |-> lines[i].usage]
           places == {i \in DOMAIN lines : \A j \in 1..(i - 1) : lines[j].id # lines[i].id}
<1>2. /\ m \in Nat /\ m > 0 /\ k[0] = 0 /\ k[m] = Len(used)
      /\ \A i \in 1..m : /\ k[i] \in 1..Len(used)
                         /\ k[i] = k[i - 1] + 1 \/ (i > 1 /\ k[i] = k[i - 1])
      /\ \A i \in 1..m : \A j \in 1..(i - 1) : k[j] = k[i] => k[i - 1] = k[i]
  BY <1>1 DEF Goes
<1>3. DOMAIN used = 1..Len(used) /\ \A i \in DOMAIN used : used[i] \in Request
  OBVIOUS
<1>4. DOMAIN lines = 1..m
  BY <1>1
<1>5. \A i \in 1..m : lines[i].id = k[i] /\ lines[i].usage = used[k[i]]
  BY <1>1, <1>2, <1>3 DEF Once
<1> HIDE DEF lines
<1>6. \A i \in 1..m : s[i] = used[k[i]] /\ used[k[i]] \in Request
  BY <1>2, <1>3, <1>4, <1>5
<1>7. s = [i \in 1..m |-> s[i]]
  BY <1>4
<1>8. \A i \in 1..m : i \in places <=> \A j \in 1..(i - 1) : k[j] # k[i]
  <2>1. \A i \in 1..m : \A j \in 1..(i - 1) : j \in 1..m
    BY <1>2
  <2> QED
    BY <1>4, <1>5, <2>1
<1>9. claude_series(lines) = Picked(s, places)
  BY DEF claude_series
<1> HIDE DEF s, places
<1>10. s \in Seq(Request) /\ Len(s) = m
  BY <1>2, <1>6, <1>7
<1>11. 1 \in places
  BY <1>2, <1>8
<1>12. ASSUME NEW i \in 1..m
       PROVE  IF i \in places
              THEN /\ k[i] = k[i - 1] + 1
                   /\ Context(s[i]) = Context(used[k[i]]) /\ s[i].out = used[k[i]].out
              ELSE RunningTotal(used)[k[i]] = RunningTotal(used)[k[i - 1]]
  <2>1. CASE i \in places
    <3>1. i > 1 => i - 1 \in 1..(i - 1)
      BY <1>2
    <3>2. i > 1 => k[i - 1] # k[i]
      BY <1>8, <2>1, <3>1
    <3>3. k[i] = k[i - 1] + 1
      BY <1>2, <3>2
    <3> QED
      BY <1>6, <2>1, <3>3
  <2>2. CASE i \notin places
    <3>1. PICK j \in 1..(i - 1) : k[j] = k[i]
      BY <1>8, <2>2
    <3>2. k[i - 1] = k[i]
      BY <1>2, <3>1
    <3> QED
      BY <2>2, <3>2
  <2> QED
    BY <2>1, <2>2
<1>13. /\ Picked(s, places) \in Seq(Request) /\ Picked(s, places) # <<>>
       /\ figures(Picked(s, places)) = figures(used)
  <2>1. Len(s) > 0 /\ k[Len(s)] = Len(used) /\ \A i \in 1..Len(s) : k[i] \in 1..Len(used)
    BY <1>2, <1>10
  <2>2. \A i \in 1..Len(s) :
           IF i \in places
           THEN /\ k[i] = k[i - 1] + 1
                /\ Context(s[i]) = Context(used[k[i]]) /\ s[i].out = used[k[i]].out
           ELSE RunningTotal(used)[k[i]] = RunningTotal(used)[k[i - 1]]
    BY <1>10, <1>12
  <2>3. s \in Seq(Request) /\ k[0] = 0
    BY <1>2, <1>10
  <2> QED
    BY <1>11, <2>1, <2>2, <2>3, PickedFigures
<1> QED
  BY <1>9, <1>13 DEF Same, lines

LEMMA CodexSeries ==
  ASSUME NEW used \in Seq(Request), used # <<>>, NEW family, family = "codex",
         NEW twice \in BOOLEAN
  PROVE  Same(codex_series(Lines(family, used, twice)), used)
<1>1. PICK m, k : /\ Goes(k, m, Len(used))
                  /\ Lines(family, used, twice) = [i \in 1..m |-> Once(family, used)[k[i]]]
  BY SMTT(30), LinesGo
<1> DEFINE lines == Lines(family, used, twice)
           T == RunningTotal(used)
           s == [i \in DOMAIN lines |-> CodexRequest(lines[i])]
           places == {i \in DOMAIN lines : i = 1 \/ lines[i].total # lines[i - 1].total}
<1>2. /\ m \in Nat /\ m > 0 /\ k[0] = 0 /\ k[m] = Len(used)
      /\ \A i \in 1..m : /\ k[i] \in 1..Len(used)
                         /\ k[i] = k[i - 1] + 1 \/ (i > 1 /\ k[i] = k[i - 1])
  BY <1>1 DEF Goes
<1>3. DOMAIN used = 1..Len(used) /\ \A i \in DOMAIN used : used[i] \in Request
  OBVIOUS
<1>4. DOMAIN lines = 1..m
  BY <1>1
<1> DEFINE Last(i) == [input |-> Context(used[k[i]]), cached |-> used[k[i]].read,
                       out |-> used[k[i]].out]
<1>5. ASSUME NEW i \in 1..m
      PROVE  lines[i].total = T[k[i]] /\ lines[i].last = Last(i)
  <2>1. lines[i] = Once(family, used)[k[i]]
    BY <1>1
  <2>2. k[i] \in DOMAIN used
    BY <1>2, <1>3
  <2>3. Once(family, used)[k[i]] = [last |-> Last(i), total |-> T[k[i]]]
    BY <2>2 DEF Once
  <2> QED
    BY <2>1, <2>3
<1> HIDE DEF lines, T
<1>6. ASSUME NEW i \in 1..m
      PROVE  /\ s[i] \in Request
             /\ Context(s[i]) = Context(used[k[i]]) /\ s[i].out = used[k[i]].out
  <2>1. used[k[i]] \in Request
    BY <1>2, <1>3
  <2>2. s[i] = CodexRequest(lines[i])
    BY <1>4
  <2>3. s[i] = [fresh |-> Context(used[k[i]]) - used[k[i]].read, creation |-> 0,
                read |-> used[k[i]].read, out |-> used[k[i]].out]
    <3>1. lines[i].last = Last(i)
      BY <1>5
    <3> QED
      BY <2>2, <3>1 DEF CodexRequest
  <2> DEFINE r == used[k[i]]
  <2> HIDE DEF r, s
  <2>4. r.fresh \in Nat /\ r.creation \in Nat /\ r.read \in Nat /\ r.out \in Nat
    BY <2>1 DEF Request, r
  <2>5. Context(r) = r.fresh + r.creation + r.read
    BY DEF Context
  <2>6. Context(r) - r.read \in Nat /\ (Context(r) - r.read) + 0 + r.read = Context(r)
    BY <2>4, <2>5
  <2>7. s[i] = [fresh |-> Context(r) - r.read, creation |-> 0, read |-> r.read, out |-> r.out]
    BY <2>3 DEF r
  <2>8. Context(s[i]) = (Context(r) - r.read) + 0 + r.read
    BY <2>7 DEF Context
  <2>9. s[i] \in Request /\ s[i].out = r.out
    BY <2>4, <2>6, <2>7 DEF Request
  <2> QED
    BY <2>6, <2>8, <2>9 DEF r
<1>7. s = [i \in 1..m |-> s[i]]
  BY <1>4
<1>8. \A i \in 1..m : i \in places <=> (i = 1 \/ T[k[i]] # T[k[i - 1]])
  <2>1. \A i \in 1..m : i # 1 => i - 1 \in 1..m
    BY <1>2
  <2> QED
    BY <1>4, <1>5, <2>1
<1>9. codex_series(lines) = Picked(s, places)
  BY DEF codex_series
<1> HIDE DEF s, places
<1>10. s \in Seq(Request) /\ Len(s) = m
  BY <1>2, <1>6, <1>7
<1>11. 1 \in places
  BY <1>2, <1>8
<1>12. ASSUME NEW i \in 1..m
       PROVE  IF i \in places
              THEN /\ k[i] = k[i - 1] + 1
                   /\ Context(s[i]) = Context(used[k[i]]) /\ s[i].out = used[k[i]].out
              ELSE RunningTotal(used)[k[i]] = RunningTotal(used)[k[i - 1]]
  <2>1. CASE i \in places
    <3>1. k[i] = k[i - 1] => i = 1
      BY <1>8, <2>1
    <3>2. k[i] = k[i - 1] + 1
      BY <1>2, <3>1
    <3> QED
      BY <1>6, <2>1, <3>2
  <2>2. CASE i \notin places
    BY <1>8, <2>2 DEF T
  <2> QED
    BY <2>1, <2>2
<1>13. /\ Picked(s, places) \in Seq(Request) /\ Picked(s, places) # <<>>
       /\ figures(Picked(s, places)) = figures(used)
  <2>1. Len(s) > 0 /\ k[Len(s)] = Len(used) /\ \A i \in 1..Len(s) : k[i] \in 1..Len(used)
    BY <1>2, <1>10
  <2>2. \A i \in 1..Len(s) :
           IF i \in places
           THEN /\ k[i] = k[i - 1] + 1
                /\ Context(s[i]) = Context(used[k[i]]) /\ s[i].out = used[k[i]].out
           ELSE RunningTotal(used)[k[i]] = RunningTotal(used)[k[i - 1]]
    BY <1>10, <1>12
  <2>3. s \in Seq(Request) /\ k[0] = 0
    BY <1>2, <1>10
  <2> QED
    BY <1>11, <2>1, <2>2, <2>3, PickedFigures
<1> QED
  BY <1>9, <1>13 DEF Same, lines

-----------------------------------------------------------------------------
(***************************************************************************)
(* The invariant: whatever is on file is of a session that was.            *)
(***************************************************************************)

Session == [cell : Cells, used : Truths, by : {"run", "visitor"}]
RunAt == [st : {"cli", "over"}, cell : Cells, n : Nat \ {0}, used : Truths, killed : BOOLEAN]
LedgerRow == [cell : Cells, n : Nat \ {0}, killed : BOOLEAN, ti : Nat, to : Nat]
SeriesRow == [cell : Cells, n : Nat \ {0}, requests : Seq(Request), alternates : SUBSET Seq(Request)]

Types ==
  /\ consumed \in Seq(Session)
  /\ at \in [Homes -> {NoRun} \cup RunAt]
  /\ transcripts \in [Cells -> Nat]
  /\ ledger \in Seq(LedgerRow) /\ todo \in Seq(LedgerRow) /\ done \in 0..Len(todo)

(* The run in a home has a session of its own, and a home goes with it.     *)
RunsInHand ==
  /\ \A h \in Homes : at[h] # NoRun =>
       /\ at[h].n \in DOMAIN consumed
       /\ consumed[at[h].n] = [cell |-> at[h].cell, used |-> at[h].used, by |-> "run"]
       /\ \A g \in Homes \ {h} : at[g].n # at[h].n
  /\ \A h \in Homes : at[h].st = "cli" /\ budget.scoped => homes[h].st # "none"
  /\ \A h \in Homes : homes[h].st # "none" => at[h] # NoRun

FamilyOf(session) == IF session.by = "run" THEN Family[session.cell] ELSE "codex"

Logged(all, l) ==
  /\ l.n \in DOMAIN all
  /\ \E twice \in BOOLEAN :
       l = Log(all[l.n].cell, l.n, FamilyOf(all[l.n]), all[l.n].used, twice)

(* A log is of one session, and a session has one log at most, which it     *)
(* leaves when it ends.                                                     *)
LogsTrue ==
  /\ \A l \in logs : Logged(consumed, l)
  /\ \A k, l \in logs : k.n = l.n => k = l
  /\ \A l \in logs, h \in Homes : at[h].st = "cli" => at[h].n # l.n

TranscriptsTrue ==
  \A c \in Cells : transcripts[c] # 0 =>
    /\ transcripts[c] \in DOMAIN consumed
    /\ consumed[transcripts[c]].by = "run" /\ consumed[transcripts[c]].cell = c

Filed(all, row) ==
  /\ row.n \in DOMAIN all /\ all[row.n].cell = row.cell /\ all[row.n].by = "run"
  /\ [session_total |-> row.ti, tokens_out |-> row.to] =
       IF row.killed THEN Zero ELSE figures(all[row.n].used)

LedgerTrue ==
  /\ \A i \in DOMAIN ledger : Filed(consumed, ledger[i])
  /\ \A i \in DOMAIN todo : Filed(consumed, todo[i])

Derived(all, s) ==
  /\ s.n \in DOMAIN all /\ all[s.n].cell = s.cell
  /\ s.requests # <<>> /\ figures(s.requests) = figures(all[s.n].used)
  /\ \A other \in s.alternates : \E n \in DOMAIN all \ {s.n} :
       all[n].cell = s.cell /\ figures(other) = figures(all[n].used)

SeriesTrue ==
  /\ series \in Seq(SeriesRow) /\ Len(series) <= done
  /\ \A i \in DOMAIN series : Derived(consumed, series[i])

(* Visitors come when the last run of a cell is over.                       *)
VisitorsAfter ==
  \A i, j \in DOMAIN consumed :
    consumed[i].cell = consumed[j].cell /\ consumed[i].by = "visitor" /\ consumed[j].by = "run"
      => j < i

Truthful ==
  HomesInv /\ Types /\ RunsInHand /\ LogsTrue /\ TranscriptsTrue /\ LedgerTrue /\ SeriesTrue
  /\ VisitorsAfter

LEMMA Elements ==
  ASSUME NEW S, NEW s \in Seq(S)
  PROVE  DOMAIN s = 1..Len(s) /\ Len(s) \in Nat /\ \A i \in DOMAIN s : s[i] \in S
OBVIOUS

LEMMA Appended ==
  ASSUME NEW S, NEW s \in Seq(S), NEW x \in S
  PROVE  /\ Append(s, x) \in Seq(S) /\ Len(Append(s, x)) = Len(s) + 1
         /\ DOMAIN Append(s, x) = DOMAIN s \cup {Len(s) + 1}
         /\ Append(s, x)[Len(s) + 1] = x
         /\ \A i \in DOMAIN s : Append(s, x)[i] = s[i]
OBVIOUS

LEMMA SessionsAre ==
  ASSUME NEW t \in Truths
  PROVE  /\ t \in Seq(Request) /\ t # <<>>
         /\ figures(t) \in FiguresType /\ figures(t).session_total > 0
<1>1. t \in Seq(Request) /\ \E i \in DOMAIN t : Context(t[i]) > 0
  BY TokenUnitsAssumption
<1>2. PICK i \in DOMAIN t : Context(t[i]) > 0
  BY <1>1
<1>3. DOMAIN t # {}
  BY <1>2
<1>4. t # <<>>
  BY <1>3
<1> QED
  BY <1>1, <1>2, <1>4, FiguresTyped, FiguresPositive

LEMMA InitTruthful == Init => Truthful
<1> SUFFICES ASSUME Init PROVE Truthful
  OBVIOUS
<1>1. HomesInv
  BY InitHomes DEF Init
<1>2. \A h \in Homes : at[h] = NoRun /\ homes[h] = None
  BY DEF Init, HomesInit
<1>3. Types
  <2>1. at \in [Homes -> {NoRun} \cup RunAt]
    BY DEF Init
  <2>2. transcripts \in [Cells -> Nat]
    BY DEF Init
  <2>3. consumed = <<>> /\ ledger = <<>> /\ todo = <<>> /\ done = 0
    BY DEF Init
  <2>4. consumed \in Seq(Session) /\ ledger \in Seq(LedgerRow) /\ todo \in Seq(LedgerRow)
    BY <2>3
  <2>5. done \in 0..Len(todo)
    BY <2>3
  <2> QED
    BY <2>1, <2>2, <2>4, <2>5 DEF Types
<1>4. RunsInHand
  BY <1>2 DEF RunsInHand, NoRun, None
<1>5. DOMAIN consumed = {} /\ DOMAIN ledger = {} /\ DOMAIN todo = {} /\ DOMAIN series = {}
  BY DEF Init
<1>6. LogsTrue /\ TranscriptsTrue /\ LedgerTrue /\ VisitorsAfter
  <2>1. logs = {} /\ \A c \in Cells : transcripts[c] = 0
    BY DEF Init
  <2> QED
    BY <1>5, <2>1 DEF LogsTrue, TranscriptsTrue, LedgerTrue, VisitorsAfter
<1>7. SeriesTrue
  <2>1. series = <<>> /\ done = 0
    BY DEF Init
  <2>2. series \in Seq(SeriesRow) /\ Len(series) <= done
    BY <2>1
  <2> QED
    BY <1>5, <2>2 DEF SeriesTrue
<1> QED
  BY <1>1, <1>3, <1>4, <1>6, <1>7 DEF Truthful

(* Who changes what.                                                        *)
LEMMA Frames ==
  ASSUME [Next]_vars
  PROVE  /\ budget' = budget
         /\ \/ \E h \in Homes, c \in Cells : Run(h, c)
            \/ \E c \in Cells : Visit(c)
            \/ UNCHANGED consumed
         /\ \/ \E h \in Homes, c \in Cells : Run(h, c)
            \/ \E h \in Homes : CliEnds(h) \/ Record(h) \/ Die(h)
            \/ UNCHANGED at
         /\ \/ \E h \in Homes : CliEnds(h)
            \/ \E c \in Cells : Visit(c)
            \/ logs' \subseteq logs
         /\ (\E h \in Homes : Record(h)) \/ UNCHANGED <<transcripts, ledger>>
         /\ Snapshot \/ SnapshotRow \/ SnapshotDies \/ UNCHANGED snapshotVars
<1> USE DEF records, snapshotVars
<1>1. ASSUME NEW h \in Homes, CliEnds(h)
      PROVE  UNCHANGED <<budget, consumed, transcripts, ledger, snapshotVars>>
  BY <1>1 DEF CliEnds
<1>2. ASSUME NEW h \in Homes, TearDown(h)
      PROVE  UNCHANGED <<budget, consumed, at, logs, transcripts, ledger, snapshotVars>>
  BY <1>2 DEF TearDown
<1>3. ASSUME NEW h \in Homes, Record(h)
      PROVE  UNCHANGED <<budget, consumed, logs, snapshotVars>>
  BY <1>3 DEF Record
<1>4. ASSUME NEW h \in Homes, Die(h)
      PROVE  UNCHANGED <<budget, consumed, logs, transcripts, ledger, snapshotVars>>
  BY <1>4 DEF Die
<1>5. ASSUME NEW h \in Homes, NEW c \in Cells, Run(h, c)
      PROVE  UNCHANGED <<budget, logs, transcripts, ledger, snapshotVars>>
  BY <1>5 DEF Run, Spend
<1>6. ASSUME NEW c \in Cells, Visit(c)
      PROVE  UNCHANGED <<budget, at, transcripts, ledger, snapshotVars>>
  BY <1>6 DEF Visit, Spend
<1>7. ASSUME TokenIsRefreshed
      PROVE  UNCHANGED <<budget, consumed, at, logs, transcripts, ledger, snapshotVars>>
  BY <1>7 DEF TokenIsRefreshed
<1>8. ASSUME Prune
      PROVE  /\ UNCHANGED <<budget, consumed, at, transcripts, ledger, snapshotVars>>
             /\ logs' \subseteq logs
  BY <1>8 DEF Prune
<1>9. ASSUME Snapshot \/ SnapshotRow \/ SnapshotDies
      PROVE  UNCHANGED <<budget, consumed, at, logs, transcripts, ledger>>
  BY <1>9 DEF Snapshot, SnapshotRow, SnapshotDies, Spend
<1>10. ASSUME UNCHANGED vars
       PROVE  UNCHANGED <<budget, consumed, at, logs, transcripts, ledger, snapshotVars>>
  BY <1>10 DEF vars
<1> QED
  BY <1>1, <1>2, <1>3, <1>4, <1>5, <1>6, <1>7, <1>8, <1>9, <1>10 DEF Next

(* Sessions are added, and stay as they are.                                *)
LEMMA SessionsStay ==
  ASSUME Types, [Next]_vars
  PROVE  /\ consumed' \in Seq(Session)
         /\ \A n \in DOMAIN consumed : n \in DOMAIN consumed' /\ consumed'[n] = consumed[n]
<1>0. consumed \in Seq(Session)
  BY DEF Types
<1>1. ASSUME NEW h \in Homes, NEW c \in Cells, Run(h, c)
      PROVE  \E s \in Session : consumed' = Append(consumed, s)
  <2>1. PICK used \in Truths : consumed' = Append(consumed, [cell |-> c, used |-> used, by |-> "run"])
    BY <1>1 DEF Run
  <2> QED
    BY <2>1 DEF Session
<1>2. ASSUME NEW c \in Cells, Visit(c)
      PROVE  \E s \in Session : consumed' = Append(consumed, s)
  <2>1. PICK used \in Truths : consumed' = Append(consumed, [cell |-> c, used |-> used, by |-> "visitor"])
    BY <1>2 DEF Visit
  <2> QED
    BY <2>1 DEF Session
<1>3. (\E s \in Session : consumed' = Append(consumed, s)) \/ UNCHANGED consumed
  BY <1>1, <1>2, Frames
<1>4. ASSUME NEW s \in Session, consumed' = Append(consumed, s)
      PROVE  /\ consumed' \in Seq(Session)
             /\ \A n \in DOMAIN consumed : n \in DOMAIN consumed' /\ consumed'[n] = consumed[n]
  BY <1>0, <1>4, Appended
<1> QED
  BY <1>0, <1>3, <1>4

(* What a run leaves on file.                                               *)
LEMMA RecordedRow ==
  ASSUME Truthful, NEW h \in Homes, Record(h)
  PROVE  \E row \in LedgerRow : /\ ledger' = Append(ledger, row)
                                /\ Filed(consumed, row)
<1> DEFINE r == at[h]
           f == figures(r.used)
           row == [cell |-> r.cell, n |-> r.n, killed |-> r.killed,
                   ti |-> IF r.killed THEN 0 ELSE f.session_total,
                   to |-> IF r.killed THEN 0 ELSE f.tokens_out]
<1>1. ledger' = Append(ledger, row) /\ r.st = "over"
  BY DEF Record
<1>2. r \in {NoRun} \cup RunAt
  BY DEF Truthful, Types
<1>3. r # NoRun /\ r \in RunAt
  BY <1>1, <1>2 DEF NoRun
<1>4. r.cell \in Cells /\ r.n \in Nat \ {0} /\ r.killed \in BOOLEAN /\ r.used \in Truths
  BY <1>3 DEF RunAt
<1>5. f \in FiguresType
  BY <1>4, SessionsAre
<1>6. r.n \in DOMAIN consumed /\ consumed[r.n] = [cell |-> r.cell, used |-> r.used, by |-> "run"]
  BY <1>3 DEF Truthful, RunsInHand
<1> HIDE DEF r
<1>7. row \in LedgerRow
  BY <1>4, <1>5 DEF LedgerRow, FiguresType
<1>8. Filed(consumed, row)
  <2>1. row.n = r.n /\ row.cell = r.cell /\ row.killed = r.killed
    OBVIOUS
  <2>2. CASE r.killed
    <3>1. row.ti = 0 /\ row.to = 0
      BY <2>2
    <3> QED
      BY <1>6, <2>1, <2>2, <3>1 DEF Filed, Zero
  <2>3. CASE ~r.killed
    <3>1. row.ti = f.session_total /\ row.to = f.tokens_out
      BY <2>3
    <3>2. f = [session_total |-> f.session_total, tokens_out |-> f.tokens_out]
      BY <1>5 DEF FiguresType
    <3>3. figures(consumed[row.n].used) = f
      BY <1>6, <2>1
    <3> HIDE DEF row, f
    <3> QED
      BY <1>6, <2>1, <2>3, <3>1, <3>2, <3>3 DEF Filed
  <2> QED
    BY <2>2, <2>3
<1> QED
  BY <1>1, <1>7, <1>8

LEMMA StepTypes ==
  ASSUME Truthful, [Next]_vars
  PROVE  Types'
<1> USE DEF Truthful
<1>1. consumed' \in Seq(Session)
  BY SessionsStay
<1>2. at' \in [Homes -> {NoRun} \cup RunAt]
  <2>1. at \in [Homes -> {NoRun} \cup RunAt] /\ sessions + 1 \in Nat \ {0}
    BY DEF Types, sessions
  <2>2. ASSUME NEW h \in Homes, NEW c \in Cells, Run(h, c) PROVE at' \in [Homes -> {NoRun} \cup RunAt]
    <3>1. PICK used \in Truths, killed \in BOOLEAN :
            at' = [at EXCEPT ![h] = [st |-> "cli", cell |-> c, n |-> sessions + 1, used |-> used,
                                     killed |-> killed]]
      BY <2>2 DEF Run
    <3>2. [st |-> "cli", cell |-> c, n |-> sessions + 1, used |-> used, killed |-> killed] \in RunAt
      BY <2>1 DEF RunAt
    <3> QED
      BY <2>1, <3>1, <3>2
  <2>3. ASSUME NEW h \in Homes, CliEnds(h) PROVE at' \in [Homes -> {NoRun} \cup RunAt]
    <3>1. at[h].st = "cli" /\ at' = [at EXCEPT ![h].st = "over"]
      BY <2>3 DEF CliEnds
    <3>2. at[h] \in RunAt
      BY <2>1, <3>1 DEF NoRun
    <3>3. [at[h] EXCEPT !.st = "over"] \in RunAt
      BY <3>2 DEF RunAt
    <3>4. at' = [at EXCEPT ![h] = [at[h] EXCEPT !.st = "over"]]
      BY <3>1
    <3> QED
      BY <2>1, <3>3, <3>4
  <2>4. ASSUME NEW h \in Homes, Record(h) \/ Die(h) PROVE at' \in [Homes -> {NoRun} \cup RunAt]
    <3>1. at' = [at EXCEPT ![h] = NoRun]
      BY <2>4 DEF Record, Die
    <3> QED
      BY <2>1, <3>1
  <2> QED
    BY <2>1, <2>2, <2>3, <2>4, Frames
<1>3. transcripts' \in [Cells -> Nat]
  <2>1. transcripts \in [Cells -> Nat] /\ at \in [Homes -> {NoRun} \cup RunAt]
    BY DEF Types
  <2>2. ASSUME NEW h \in Homes, Record(h) PROVE transcripts' \in [Cells -> Nat]
    <3>1. PICK b \in BOOLEAN :
            transcripts' = [transcripts EXCEPT ![at[h].cell] = IF b THEN at[h].n ELSE 0]
      BY <2>2 DEF Record
    <3>2. at[h].n \in Nat
      BY <2>1 DEF NoRun, RunAt
    <3> QED
      BY <2>1, <3>1, <3>2
  <2> QED
    BY <2>1, <2>2, Frames
<1>4. ledger' \in Seq(LedgerRow)
  <2>1. ledger \in Seq(LedgerRow)
    BY DEF Types
  <2>2. ASSUME NEW h \in Homes, Record(h) PROVE ledger' \in Seq(LedgerRow)
    BY <2>1, <2>2, RecordedRow, Appended
  <2> QED
    BY <2>1, <2>2, Frames
<1>5. todo' \in Seq(LedgerRow) /\ done' \in 0..Len(todo')
  <2>1. ledger \in Seq(LedgerRow) /\ todo \in Seq(LedgerRow) /\ done \in 0..Len(todo)
    BY DEF Types
  <2>2. CASE Snapshot
    BY <2>1, <2>2 DEF Snapshot
  <2>3. CASE SnapshotRow
    BY <2>1, <2>3 DEF SnapshotRow
  <2>4. CASE SnapshotDies
    <3>1. done < Len(todo) /\ todo' = SubSeq(todo, 1, done) /\ done' = done
      BY <2>4 DEF SnapshotDies
    <3>2. done \in Nat /\ todo' \in Seq(LedgerRow) /\ Len(todo') = done
      BY <2>1, <3>1
    <3> QED
      BY <3>1, <3>2
  <2>5. CASE UNCHANGED snapshotVars
    BY <2>1, <2>5 DEF snapshotVars
  <2> QED
    BY <2>2, <2>3, <2>4, <2>5, Frames
<1> QED
  BY <1>1, <1>2, <1>3, <1>4, <1>5 DEF Types

LEMMA StepInHand ==
  ASSUME Truthful, [Next]_vars
  PROVE  RunsInHand'
<1> USE DEF Truthful
<1>0. /\ consumed \in Seq(Session) /\ at \in [Homes -> {NoRun} \cup RunAt]
      /\ homes \in [Homes -> [st : {"none", "live", "closing"}, held : Nat]]
      /\ budget' = budget
  BY Frames DEF Types, HomesInv, HomesTypeOK
<1>1. /\ \A h \in Homes : at[h] # NoRun =>
           /\ at[h].n \in DOMAIN consumed
           /\ consumed[at[h].n] = [cell |-> at[h].cell, used |-> at[h].used, by |-> "run"]
           /\ \A g \in Homes \ {h} : at[g].n # at[h].n
      /\ \A h \in Homes : at[h].st = "cli" /\ budget.scoped => homes[h].st # "none"
      /\ \A h \in Homes : homes[h].st # "none" => at[h] # NoRun
  BY DEF RunsInHand
<1>2. \A n \in DOMAIN consumed : n \in DOMAIN consumed' /\ consumed'[n] = consumed[n]
  BY SessionsStay
<1>3. NoRun.st = "none" /\ NoRun.n = 0 /\ \A h \in Homes : at[h].n \in Nat /\ (at[h] # NoRun => at[h] \in RunAt)
  BY <1>0 DEF NoRun, RunAt
(* Homes: what happens to them while the runs stay as they are.             *)
<1>4. ASSUME UNCHANGED at,
             \A h \in Homes : at[h].st = "cli" /\ homes[h].st # "none" => homes'[h].st # "none",
             \A h \in Homes : homes'[h].st # "none" => homes[h].st # "none"
      PROVE  RunsInHand'
  BY <1>0, <1>1, <1>2, <1>4 DEF RunsInHand
<1>5. ASSUME NEW h \in Homes, CliEnds(h) PROVE RunsInHand'
  <2>1. at[h].st = "cli" /\ at' = [at EXCEPT ![h].st = "over"] /\ homes' = homes /\ consumed' = consumed
    BY <1>5 DEF CliEnds, homeVars
  <2>2. at[h] \in RunAt
    BY <1>0, <2>1 DEF NoRun
  <2>3. /\ at'[h] = [at[h] EXCEPT !.st = "over"] /\ at'[h] # NoRun
        /\ at'[h].n = at[h].n /\ at'[h].cell = at[h].cell /\ at'[h].used = at[h].used
        /\ at'[h].st = "over"
    BY <1>0, <2>1, <2>2 DEF RunAt, NoRun
  <2>4. \A g \in Homes \ {h} : at'[g] = at[g]
    BY <1>0, <2>1
  <2>5. at[h] # NoRun
    BY <2>2 DEF NoRun, RunAt
  <2> QED
    BY <1>0, <1>1, <2>1, <2>3, <2>4, <2>5 DEF RunsInHand
<1>6. ASSUME NEW h \in Homes, TearDown(h) PROVE RunsInHand'
  <2>1. at[h].st = "over" /\ at' = at
    BY <1>6 DEF TearDown
  <2>2. (CloseLink(h) \/ CopyBack(h) \/ Close(h))
    BY <1>6 DEF TearDown
  <2>3. \A g \in Homes \ {h} : homes'[g] = homes[g]
    BY <1>0, <2>2 DEF CloseLink, CopyBack, Close
  <2>4. homes[h].st # "none"
    BY <2>2 DEF CloseLink, CopyBack, Close, Link
  <2> QED
    BY <1>4, <2>1, <2>3, <2>4
<1>7. ASSUME NEW h \in Homes, at' = [at EXCEPT ![h] = NoRun], homes'[h].st = "none",
             \A g \in Homes \ {h} : homes'[g] = homes[g]
      PROVE  RunsInHand'
  <2>1. at'[h] = NoRun /\ \A g \in Homes \ {h} : at'[g] = at[g]
    BY <1>0, <1>7
  <2>2. \A g \in Homes : at[g] # NoRun => at[g].n # 0
    BY <1>3 DEF RunAt
  <2> QED
    BY <1>0, <1>1, <1>2, <1>3, <1>7, <2>1, <2>2 DEF RunsInHand
<1>8. ASSUME NEW h \in Homes, Record(h) PROVE RunsInHand'
  <2>1. at' = [at EXCEPT ![h] = NoRun] /\ homes' = homes /\ homes[h] = None
    BY <1>8 DEF Record, homeVars
  <2>2. homes'[h].st = "none"
    BY <2>1 DEF None
  <2> QED
    BY <1>7, <2>1, <2>2
<1>9. ASSUME NEW h \in Homes, Die(h) PROVE RunsInHand'
  <2>1. CASE homes[h] = None
    <3>1. at' = [at EXCEPT ![h] = NoRun] /\ homes' = homes
      BY <1>9, <2>1 DEF Die, homeVars
    <3>2. homes'[h].st = "none"
      BY <2>1, <3>1 DEF None
    <3> QED
      BY <1>7, <3>1, <3>2
  <2>2. CASE homes[h] # None
    <3>1. homes' = [homes EXCEPT ![h] = None] /\ at' = [at EXCEPT ![h] = NoRun]
      BY <1>9, <2>2 DEF Die, Leave
    <3> QED
      BY <1>0, <1>7, <3>1 DEF None
  <2> QED
    BY <2>1, <2>2
<1>10. ASSUME NEW h \in Homes, NEW c \in Cells, Run(h, c) PROVE RunsInHand'
  <2>1. PICK used \in Truths, killed \in BOOLEAN :
          /\ consumed' = Append(consumed, [cell |-> c, used |-> used, by |-> "run"])
          /\ at' = [at EXCEPT ![h] = [st |-> "cli", cell |-> c, n |-> sessions + 1, used |-> used,
                                      killed |-> killed]]
    BY <1>10 DEF Run
  <2>2. at[h] = NoRun /\ (IF budget.scoped THEN Open(h) ELSE UNCHANGED homeVars)
    BY <1>10 DEF Run
  <2> DEFINE x == [cell |-> c, used |-> used, by |-> "run"]
             r == [st |-> "cli", cell |-> c, n |-> sessions + 1, used |-> used, killed |-> killed]
  <2>3. x \in Session /\ sessions = Len(consumed) /\ sessions \in Nat
    BY <1>0 DEF Session, sessions
  <2>4. sessions + 1 \in DOMAIN consumed' /\ consumed'[sessions + 1] = x
    BY <1>0, <2>1, <2>3, Appended
  <2>5. at'[h] = r /\ \A g \in Homes \ {h} : at'[g] = at[g]
    BY <1>0, <2>1
  <2>6. r.n = sessions + 1 /\ r.cell = c /\ r.used = used /\ r.st = "cli" /\ r # NoRun
    BY DEF NoRun
  <2>7. \A g \in Homes \ {h} : at[g].n # sessions + 1
    <3>1. ASSUME NEW g \in Homes \ {h} PROVE at[g].n # sessions + 1
      <4>1. CASE at[g] = NoRun
        BY <1>3, <2>3, <4>1
      <4>2. CASE at[g] # NoRun
        <5>0. DOMAIN consumed = 1..Len(consumed)
          BY <1>0, Elements
        <5>1. at[g].n \in 1..Len(consumed)
          BY <1>1, <4>2, <5>0
        <5> QED
          BY <2>3, <5>1
      <4> QED
        BY <4>1, <4>2
    <3> QED
      BY <3>1
  <2>8. \A g \in Homes \ {h} : homes'[g] = homes[g]
    BY <1>0, <2>2 DEF Open, homeVars
  <2>9. budget.scoped => homes'[h].st # "none"
    BY <1>0, <2>2 DEF Open, Link
  <2> HIDE DEF r, x
  <2> QED
    <3>1. ASSUME NEW g \in Homes, at'[g] # NoRun
          PROVE  /\ at'[g].n \in DOMAIN consumed'
                 /\ consumed'[at'[g].n] = [cell |-> at'[g].cell, used |-> at'[g].used, by |-> "run"]
                 /\ \A k \in Homes \ {g} : at'[k].n # at'[g].n
      <4>1. CASE g = h
        BY <2>4, <2>5, <2>6, <2>7, <4>1 DEF x
      <4>2. CASE g # h
        <5>1. at'[g] = at[g] /\ at[g] # NoRun
          BY <2>5, <3>1, <4>2
        <5>2. \A k \in Homes \ {g} : at[k].n # at[g].n
          BY <1>1, <5>1
        <5>3. at[g].n # sessions + 1
          BY <2>7, <4>2
        <5>4. \A k \in Homes \ {g} : at'[k].n # at[g].n
          BY <2>5, <2>6, <5>2, <5>3
        <5> QED
          BY <1>1, <1>2, <5>1, <5>4
      <4> QED
        BY <4>1, <4>2
    <3>2. \A g \in Homes : at'[g].st = "cli" /\ budget'.scoped => homes'[g].st # "none"
      BY <1>0, <1>1, <2>5, <2>8, <2>9
    <3>3. \A g \in Homes : homes'[g].st # "none" => at'[g] # NoRun
      BY <1>1, <2>5, <2>6, <2>8
    <3> QED
      BY <3>1, <3>2, <3>3 DEF RunsInHand
<1>11. ASSUME TokenIsRefreshed PROVE RunsInHand'
  <2>1. at' = at /\ (OperatorRefreshes \/ \E h \in Homes : Refresh(h))
    BY <1>11 DEF TokenIsRefreshed
  <2>2. \A g \in Homes : homes'[g].st = homes[g].st
    <3>1. CASE OperatorRefreshes
      BY <3>1 DEF OperatorRefreshes
    <3>2. ASSUME NEW h \in Homes, Refresh(h) PROVE \A g \in Homes : homes'[g].st = homes[g].st
      BY <1>0, <3>2 DEF Refresh
    <3> QED
      BY <2>1, <3>1, <3>2
  <2> QED
    BY <1>4, <2>1, <2>2
<1>12. ASSUME UNCHANGED <<at, homes>> PROVE RunsInHand'
  BY <1>4, <1>12
<1>13. ASSUME (\E c \in Cells : Visit(c)) \/ Prune \/ Snapshot \/ SnapshotRow \/ SnapshotDies
       PROVE  UNCHANGED <<at, homes>>
  BY <1>13 DEF Visit, Prune, Snapshot, SnapshotRow, SnapshotDies, homeVars
<1>14. ASSUME UNCHANGED vars PROVE UNCHANGED <<at, homes>>
  BY <1>14 DEF vars, homeVars
<1> QED
  BY <1>5, <1>6, <1>8, <1>9, <1>10, <1>11, <1>12, <1>13, <1>14 DEF Next

LEMMA LoggedStays ==
  ASSUME Truthful, [Next]_vars, NEW l, Logged(consumed, l)
  PROVE  Logged(consumed', l)
<1>1. \A n \in DOMAIN consumed : n \in DOMAIN consumed' /\ consumed'[n] = consumed[n]
  BY SessionsStay DEF Truthful
<1> QED
  BY <1>1 DEF Logged

LEMMA NewSession ==
  ASSUME Truthful
  PROVE  /\ sessions + 1 \notin DOMAIN consumed
         /\ \A l \in logs : l.n # sessions + 1
         /\ \A h \in Homes : at[h].n # sessions + 1
<1>1. consumed \in Seq(Session) /\ at \in [Homes -> {NoRun} \cup RunAt]
  BY DEF Truthful, Types
<1>2. DOMAIN consumed = 1..Len(consumed) /\ Len(consumed) \in Nat
  BY <1>1, Elements
<1>3. sessions + 1 \notin DOMAIN consumed
  BY <1>2 DEF sessions
<1>4. \A l \in logs : l.n \in DOMAIN consumed
  BY DEF Truthful, LogsTrue, Logged
<1>5. ASSUME NEW h \in Homes PROVE at[h].n # sessions + 1
  <2>1. CASE at[h] = NoRun
    BY <1>2, <2>1 DEF NoRun, sessions
  <2>2. CASE at[h] # NoRun
    BY <1>3, <2>2 DEF Truthful, RunsInHand
  <2> QED
    BY <2>1, <2>2
<1> QED
  BY <1>3, <1>4, <1>5

LEMMA StepLogs ==
  ASSUME Truthful, [Next]_vars
  PROVE  LogsTrue'
<1>0. at \in [Homes -> {NoRun} \cup RunAt] /\ consumed \in Seq(Session)
  BY DEF Truthful, Types
<1>1. /\ \A l \in logs : Logged(consumed, l)
      /\ \A k, l \in logs : k.n = l.n => k = l
      /\ \A l \in logs, h \in Homes : at[h].st = "cli" => at[h].n # l.n
  BY DEF Truthful, LogsTrue
<1>2. \A l \in logs : Logged(consumed', l)
  BY <1>1, LoggedStays
<1>3. ASSUME NEW l, logs' = logs \cup {l}, Logged(consumed', l), \A k \in logs : k.n # l.n,
             \A h \in Homes : at'[h].st = "cli" =>
               at'[h].n # l.n /\ (at[h].st = "cli" /\ at'[h].n = at[h].n)
      PROVE  LogsTrue'
  BY <1>1, <1>2, <1>3 DEF LogsTrue
<1>4. ASSUME logs' \subseteq logs,
             \A h \in Homes : at'[h].st = "cli" =>
               at'[h].n = sessions + 1 \/ (at[h].st = "cli" /\ at'[h].n = at[h].n)
      PROVE  LogsTrue'
  BY <1>1, <1>2, <1>4, NewSession DEF LogsTrue
<1>5. ASSUME NEW h \in Homes, CliEnds(h) PROVE LogsTrue'
  <2>1. at[h].st = "cli" /\ at' = [at EXCEPT ![h].st = "over"] /\ consumed' = consumed
    BY <1>5 DEF CliEnds
  <2>2. at'[h].st = "over" /\ \A g \in Homes \ {h} : at'[g] = at[g]
    BY <1>0, <2>1 DEF RunAt, NoRun
  <2>3. at[h] # NoRun
    BY <2>1 DEF NoRun
  <2>4. /\ at[h].n \in DOMAIN consumed
        /\ consumed[at[h].n] = [cell |-> at[h].cell, used |-> at[h].used, by |-> "run"]
        /\ \A g \in Homes \ {h} : at[g].n # at[h].n
    BY <2>3 DEF Truthful, RunsInHand
  <2>5. CASE budget.scoped
    BY <1>4, <1>5, <2>2, <2>5 DEF CliEnds
  <2>6. CASE ~budget.scoped
    <3>1. PICK twice \in BOOLEAN :
            logs' = logs \cup {Log(at[h].cell, at[h].n, Family[at[h].cell], at[h].used, twice)}
      BY <1>5, <2>6 DEF CliEnds
    <3> DEFINE l == Log(at[h].cell, at[h].n, Family[at[h].cell], at[h].used, twice)
    <3>2. l.n = at[h].n
      BY DEF Log
    <3>3. FamilyOf(consumed[at[h].n]) = Family[at[h].cell]
      BY <2>4 DEF FamilyOf
    <3>4. l = Log(consumed[l.n].cell, l.n, FamilyOf(consumed[l.n]), consumed[l.n].used, twice)
      <4>1. consumed[l.n].cell = at[h].cell /\ consumed[l.n].used = at[h].used
        BY <2>4, <3>2
      <4> QED
        BY <3>2, <3>3, <4>1
    <3> HIDE DEF l
    <3>5. Logged(consumed, l)
      BY <2>4, <3>2, <3>4 DEF Logged
    <3>6. \A k \in logs : k.n # l.n
      BY <1>1, <2>1, <3>2
    <3>7. \A g \in Homes : at'[g].st = "cli" =>
               at'[g].n # l.n /\ (at[g].st = "cli" /\ at'[g].n = at[g].n)
      BY <2>2, <2>4, <3>2
    <3> QED
      BY <1>3, <2>1, <3>1, <3>5, <3>6, <3>7 DEF l
  <2> QED
    BY <2>5, <2>6
<1>6. ASSUME NEW c \in Cells, Visit(c) PROVE LogsTrue'
  <2>1. PICK used \in Truths :
          /\ consumed' = Append(consumed, [cell |-> c, used |-> used, by |-> "visitor"])
          /\ logs' = logs \cup {Log(c, sessions + 1, "codex", used, FALSE)}
    BY <1>6 DEF Visit
  <2> DEFINE x == [cell |-> c, used |-> used, by |-> "visitor"]
             l == Log(c, sessions + 1, "codex", used, FALSE)
  <2>2. at' = at
    BY <1>6 DEF Visit
  <2>3. x \in Session
    BY DEF Session
  <2>4. sessions + 1 \in DOMAIN consumed' /\ consumed'[sessions + 1] = x
    BY <1>0, <2>1, <2>3, Appended DEF sessions
  <2>5. l.n = sessions + 1
    BY DEF Log
  <2>6. FamilyOf(x) = "codex" /\ x.cell = c /\ x.used = used
    BY DEF FamilyOf
  <2> HIDE DEF x
  <2>7. l = Log(consumed'[l.n].cell, l.n, FamilyOf(consumed'[l.n]), consumed'[l.n].used, FALSE)
    BY <2>4, <2>5, <2>6
  <2> HIDE DEF l
  <2>8. Logged(consumed', l)
    BY <2>4, <2>5, <2>7 DEF Logged
  <2>9. logs' = logs \cup {l}
    BY <2>1 DEF l
  <2>10. \A k \in logs : k.n # l.n
    BY <2>5, NewSession
  <2>11. \A h \in Homes : at'[h].st = "cli" =>
           at'[h].n # l.n /\ (at[h].st = "cli" /\ at'[h].n = at[h].n)
    BY <2>2, <2>5, NewSession
  <2> QED
    BY <1>3, <2>8, <2>9, <2>10, <2>11
<1>7. ASSUME NEW h \in Homes, NEW c \in Cells, Run(h, c) PROVE LogsTrue'
  <2>1. PICK r : at' = [at EXCEPT ![h] = r] /\ r.n = sessions + 1
    <3>1. PICK used \in Truths, killed \in BOOLEAN :
            at' = [at EXCEPT ![h] = [st |-> "cli", cell |-> c, n |-> sessions + 1, used |-> used,
                                     killed |-> killed]]
      BY <1>7 DEF Run
    <3>2. [st |-> "cli", cell |-> c, n |-> sessions + 1, used |-> used, killed |-> killed].n
            = sessions + 1
      OBVIOUS
    <3> QED
      BY <3>1, <3>2
  <2>2. logs' = logs
    BY <1>7 DEF Run
  <2> QED
    BY <1>0, <1>4, <2>1, <2>2
<1>8. ASSUME NEW h \in Homes, Record(h) \/ Die(h) PROVE LogsTrue'
  <2>1. at' = [at EXCEPT ![h] = NoRun] /\ logs' = logs
    BY <1>8 DEF Record, Die, records
  <2> QED
    BY <1>0, <1>4, <2>1 DEF NoRun
<1>9. ASSUME logs' \subseteq logs, at' = at PROVE LogsTrue'
  BY <1>4, <1>9
<1> QED
  BY <1>5, <1>6, <1>7, <1>8, <1>9, Frames

LEMMA StepTranscripts ==
  ASSUME Truthful, [Next]_vars
  PROVE  TranscriptsTrue'
<1>1. \A n \in DOMAIN consumed : n \in DOMAIN consumed' /\ consumed'[n] = consumed[n]
  BY SessionsStay DEF Truthful
<1>2. \A c \in Cells : transcripts[c] # 0 =>
        /\ transcripts[c] \in DOMAIN consumed
        /\ consumed[transcripts[c]].by = "run" /\ consumed[transcripts[c]].cell = c
  BY DEF Truthful, TranscriptsTrue
<1>3. ASSUME NEW h \in Homes, Record(h) PROVE TranscriptsTrue'
  <2>1. PICK b \in BOOLEAN :
          transcripts' = [transcripts EXCEPT ![at[h].cell] = IF b THEN at[h].n ELSE 0]
    BY <1>3 DEF Record
  <2>2. at[h].st = "over"
    BY <1>3 DEF Record
  <2>3. at[h] # NoRun
    BY <2>2 DEF NoRun
  <2>4. /\ at[h].n \in DOMAIN consumed /\ consumed[at[h].n].by = "run"
        /\ consumed[at[h].n].cell = at[h].cell
    <3>1. /\ at[h].n \in DOMAIN consumed
          /\ consumed[at[h].n] = [cell |-> at[h].cell, used |-> at[h].used, by |-> "run"]
      BY <2>3 DEF Truthful, RunsInHand
    <3> QED
      BY <3>1
  <2>5. transcripts \in [Cells -> Nat]
    BY DEF Truthful, Types
  <2>6. ASSUME NEW c \in Cells
        PROVE  transcripts'[c] = IF c = at[h].cell THEN (IF b THEN at[h].n ELSE 0)
                                 ELSE transcripts[c]
    BY <2>1, <2>5
  <2>7. ASSUME NEW c \in Cells, transcripts'[c] # 0
        PROVE  /\ transcripts'[c] \in DOMAIN consumed
               /\ consumed[transcripts'[c]].by = "run" /\ consumed[transcripts'[c]].cell = c
    <3>1. CASE transcripts'[c] = transcripts[c]
      BY <1>2, <2>7, <3>1
    <3>2. CASE transcripts'[c] # transcripts[c]
      <4>1. c = at[h].cell /\ transcripts'[c] = at[h].n
        BY <2>6, <2>7, <3>2
      <4> QED
        BY ZenonT(30), <2>4, <4>1
    <3> QED
      BY <3>1, <3>2
  <2> QED
    BY <1>1, <2>7 DEF TranscriptsTrue
<1>4. ASSUME transcripts' = transcripts PROVE TranscriptsTrue'
  BY <1>1, <1>2, <1>4 DEF TranscriptsTrue
<1> QED
  BY <1>3, <1>4, Frames

LEMMA StepLedger ==
  ASSUME Truthful, [Next]_vars
  PROVE  LedgerTrue'
<1>0. ledger \in Seq(LedgerRow) /\ todo \in Seq(LedgerRow) /\ done \in 0..Len(todo)
  BY DEF Truthful, Types
<1>1. \A n \in DOMAIN consumed : n \in DOMAIN consumed' /\ consumed'[n] = consumed[n]
  BY SessionsStay DEF Truthful
<1>2. /\ \A i \in DOMAIN ledger : Filed(consumed', ledger[i])
      /\ \A i \in DOMAIN todo : Filed(consumed', todo[i])
  BY <1>1 DEF Truthful, LedgerTrue, Filed
<1>3. \A i \in DOMAIN ledger' : Filed(consumed', ledger'[i])
  <2>1. ASSUME NEW h \in Homes, Record(h) PROVE \A i \in DOMAIN ledger' : Filed(consumed', ledger'[i])
    <3>1. PICK row \in LedgerRow : ledger' = Append(ledger, row) /\ Filed(consumed, row)
      BY <2>1, RecordedRow
    <3>2. Filed(consumed', row)
      BY <1>1, <3>1 DEF Filed
    <3>3. \A i \in DOMAIN ledger' : (i \in DOMAIN ledger /\ ledger'[i] = ledger[i]) \/ ledger'[i] = row
      BY <1>0, <3>1, Appended
    <3> QED
      BY <1>2, <3>2, <3>3
  <2> QED
    BY <1>2, <2>1, Frames
<1>4. \A i \in DOMAIN todo' : Filed(consumed', todo'[i])
  <2>1. CASE Snapshot
    BY <1>2, <2>1 DEF Snapshot
  <2>2. CASE SnapshotRow
    BY <1>2, <2>2 DEF SnapshotRow
  <2>3. CASE SnapshotDies
    <3>1. todo' = SubSeq(todo, 1, done)
      BY <2>3 DEF SnapshotDies
    <3>2. \A i \in DOMAIN todo' : i \in DOMAIN todo /\ todo'[i] = todo[i]
      BY <1>0, <3>1
    <3> QED
      BY <1>2, <3>2
  <2>4. CASE UNCHANGED snapshotVars
    BY <1>2, <2>4 DEF snapshotVars
  <2> QED
    BY <2>1, <2>2, <2>3, <2>4, Frames
<1> QED
  BY <1>3, <1>4 DEF LedgerTrue

LEMMA StepVisitors ==
  ASSUME Truthful, [Next]_vars
  PROVE  VisitorsAfter'
<1>0. consumed \in Seq(Session)
  BY DEF Truthful, Types
<1>1. \A i, j \in DOMAIN consumed :
        consumed[i].cell = consumed[j].cell /\ consumed[i].by = "visitor" /\ consumed[j].by = "run"
          => j < i
  BY DEF Truthful, VisitorsAfter
<1>2. ASSUME NEW x \in Session, consumed' = Append(consumed, x),
             x.by = "run" => \A n \in DOMAIN consumed :
               ~(consumed[n].cell = x.cell /\ consumed[n].by = "visitor")
      PROVE  VisitorsAfter'
  <2>1. /\ DOMAIN consumed' = DOMAIN consumed \cup {Len(consumed) + 1}
        /\ consumed'[Len(consumed) + 1] = x
        /\ \A n \in DOMAIN consumed : consumed'[n] = consumed[n]
    BY <1>0, <1>2, Appended
  <2>2. \A n \in DOMAIN consumed : n < Len(consumed) + 1
    BY <1>0
  <2>3. ASSUME NEW i \in DOMAIN consumed', NEW j \in DOMAIN consumed',
               consumed'[i].cell = consumed'[j].cell, consumed'[i].by = "visitor",
               consumed'[j].by = "run"
        PROVE  j < i
    <3>1. CASE i \in DOMAIN consumed /\ j \in DOMAIN consumed
      BY <1>1, <2>1, <2>3, <3>1
    <3>2. CASE j \notin DOMAIN consumed
      <4>1. consumed'[j] = x /\ i \in DOMAIN consumed
        BY <2>1, <2>3, <3>2
      <4> QED
        BY <1>2, <2>1, <2>3, <4>1
    <3>3. CASE i \notin DOMAIN consumed /\ j \in DOMAIN consumed
      BY <2>1, <2>2, <3>3
    <3> QED
      BY <3>1, <3>2, <3>3
  <2> QED
    BY <2>3 DEF VisitorsAfter
<1>3. ASSUME NEW h \in Homes, NEW c \in Cells, Run(h, c) PROVE VisitorsAfter'
  <2>1. PICK used \in Truths : consumed' = Append(consumed, [cell |-> c, used |-> used, by |-> "run"])
    BY <1>3 DEF Run
  <2>2. ~Visited(c)
    BY <1>3 DEF Run
  <2>3. [cell |-> c, used |-> used, by |-> "run"] \in Session
    BY DEF Session
  <2> QED
    BY <1>2, <2>1, <2>2, <2>3 DEF Visited
<1>4. ASSUME NEW c \in Cells, Visit(c) PROVE VisitorsAfter'
  <2>1. PICK used \in Truths : consumed' = Append(consumed, [cell |-> c, used |-> used, by |-> "visitor"])
    BY <1>4 DEF Visit
  <2>2. [cell |-> c, used |-> used, by |-> "visitor"] \in Session
    BY DEF Session
  <2> QED
    BY <1>2, <2>1, <2>2
<1>5. ASSUME consumed' = consumed PROVE VisitorsAfter'
  BY <1>1, <1>5 DEF VisitorsAfter
<1> QED
  BY <1>3, <1>4, <1>5, Frames

LEMMA LogIsOfSession ==
  ASSUME Truthful, NEW l \in logs
  PROVE  /\ l.n \in DOMAIN consumed /\ l.n \in Nat \ {0} /\ l.cell = consumed[l.n].cell
         /\ l.kind = SESSION_LOG_FAMILIES[FamilyOf(consumed[l.n])]
         /\ l.dir = IF l.kind = CLAUDE_SESSION_LOG THEN Slug[l.cell] ELSE l.cell
         /\ consumed[l.n] \in Session /\ consumed[l.n].used \in Truths /\ l.lines # <<>>
         /\ l.kind = CLAUDE_SESSION_LOG => Same(claude_series(l.lines), consumed[l.n].used)
         /\ l.kind = CODEX_SESSION_LOG => Same(codex_series(l.lines), consumed[l.n].used)
<1>1. Logged(consumed, l) /\ consumed \in Seq(Session)
  BY DEF Truthful, LogsTrue, Types
<1>2. l.n \in DOMAIN consumed
  BY <1>1 DEF Logged
<1>3. l.n \in Nat \ {0} /\ consumed[l.n] \in Session
  BY <1>1, <1>2, Elements
<1> DEFINE used == consumed[l.n].used
           family == FamilyOf(consumed[l.n])
<1>4. used \in Truths /\ consumed[l.n].cell \in Cells
  BY <1>3 DEF Session
<1>5. PICK twice \in BOOLEAN : l = Log(consumed[l.n].cell, l.n, family, used, twice)
  BY <1>1 DEF Logged
<1>6. /\ l.cell = consumed[l.n].cell /\ l.kind = SESSION_LOG_FAMILIES[family]
      /\ l.dir = IF l.kind = CLAUDE_SESSION_LOG THEN Slug[l.cell] ELSE l.cell
      /\ l.lines = Lines(family, used, twice)
  BY <1>5 DEF Log
<1>7. used \in Seq(Request) /\ used # <<>>
  BY <1>4, SessionsAre
<1>8. family \in DOMAIN SESSION_LOG_FAMILIES
  <2>1. Family[consumed[l.n].cell] \in DOMAIN SESSION_LOG_FAMILIES
    BY <1>4, TokenUnitsAssumption
  <2> QED
    BY <2>1 DEF FamilyOf, SESSION_LOG_FAMILIES
<1>9. SESSION_LOG_FAMILIES[family] = CODEX_SESSION_LOG <=> family = "codex"
  BY <1>8 DEF SESSION_LOG_FAMILIES, CODEX_SESSION_LOG, CLAUDE_SESSION_LOG
<1>10. CLAUDE_SESSION_LOG # CODEX_SESSION_LOG
  BY DEF CODEX_SESSION_LOG, CLAUDE_SESSION_LOG
<1> HIDE DEF used, family
<1>11. l.kind = CLAUDE_SESSION_LOG => Same(claude_series(l.lines), used)
  BY <1>6, <1>7, <1>9, <1>10, ClaudeSeries
<1>12. l.kind = CODEX_SESSION_LOG => Same(codex_series(l.lines), used)
  BY <1>6, <1>7, <1>9, CodexSeries
<1>13. l.lines # <<>>
  <2>1. PICK m, k : Goes(k, m, Len(used)) /\ l.lines = [i \in 1..m |-> Once(family, used)[k[i]]]
    BY <1>6, <1>7, LinesGo
  <2>2. 1 \in DOMAIN l.lines
    BY <2>1 DEF Goes
  <2> QED
    BY <2>2
<1> QED
  BY <1>2, <1>3, <1>4, <1>6, <1>11, <1>12, <1>13 DEF used, family

LEMMA EarliestOne ==
  ASSUME NEW S, S # {}, \A l \in S : l.n \in Nat
  PROVE  \E l \in S : \A k \in S : l.n <= k.n
<1> DEFINE T == {l.n : l \in S}
<1>1. T # {} /\ T \subseteq Nat
  OBVIOUS
<1>2. \E x \in T : \A y \in T : ~(<<y, x>> \in OpToRel(<, Nat))
  BY <1>1, NatLessThanWellFounded, WFMin
<1>3. PICK x \in T : \A y \in T : ~(<<y, x>> \in OpToRel(<, Nat))
  BY <1>2
<1>4. PICK l \in S : l.n = x
  BY <1>3
<1>5. ASSUME NEW k \in S PROVE l.n <= k.n
  <2>1. k.n \in T /\ k.n \in Nat /\ l.n \in Nat
    OBVIOUS
  <2>2. ~(k.n < l.n)
    BY <1>3, <1>4, <2>1 DEF OpToRel
  <2> QED
    BY <2>1, <2>2
<1> QED
  BY <1>4, <1>5

(* The line a snapshot writes.                                              *)
Written(c, s) == [cell |-> c, n |-> s.n, requests |-> s.requests, alternates |-> s.alternates]

(* What series_for_run finds: of claude the session the transcript names,   *)
(* of codex the earliest there is.                                          *)
LEMMA FoundByTranscript ==
  ASSUME Truthful, NEW c \in Cells
  PROVE  \/ OfTranscript(c) = NoSeries /\ ~\E l \in LogsOf(c, CLAUDE_SESSION_LOG) : l.n = transcripts[c]
         \/ /\ Written(c, OfTranscript(c)) \in SeriesRow
            /\ Derived(consumed, Written(c, OfTranscript(c)))
            /\ OfTranscript(c).n = transcripts[c]
<1> DEFINE named == {l \in LogsOf(c, CLAUDE_SESSION_LOG) : l.n = transcripts[c]}
           log == CHOOSE l \in named : TRUE
           s == [n |-> log.n, requests |-> claude_series(log.lines), alternates |-> {}]
<1>1. CASE named = {}
  BY <1>1 DEF OfTranscript
<1>2. CASE named # {}
  <2>1. log \in named
    BY <1>2
  <2>2. OfTranscript(c) = s
    BY <1>2 DEF OfTranscript
  <2> HIDE DEF log
  <2>3. log \in logs /\ log.kind = CLAUDE_SESSION_LOG /\ log.n = transcripts[c]
    BY <2>1 DEF LogsOf
  <2>4. /\ log.n \in DOMAIN consumed /\ log.n \in Nat \ {0} /\ consumed[log.n].cell = c
        /\ Same(claude_series(log.lines), consumed[log.n].used)
    BY <2>3, LogIsOfSession DEF Truthful, TranscriptsTrue
  <2> DEFINE w == Written(c, s)
  <2>5. /\ w = [cell |-> c, n |-> log.n, requests |-> claude_series(log.lines), alternates |-> {}]
        /\ w.cell = c /\ w.n = log.n /\ w.requests = claude_series(log.lines) /\ w.alternates = {}
    BY DEF Written
  <2> HIDE DEF w
  <2>6. w \in SeriesRow
    BY <2>4, <2>5 DEF SeriesRow, Same
  <2>7. Derived(consumed, w)
    BY <2>4, <2>5 DEF Derived, Same
  <2> QED
    BY <2>2, <2>3, <2>6, <2>7 DEF w
<1> QED
  BY <1>1, <1>2

LEMMA FoundInRollouts ==
  ASSUME Truthful, NEW c \in Cells
  PROVE  \/ OfRollouts(c) = NoSeries /\ LogsOf(c, CODEX_SESSION_LOG) = {}
         \/ /\ Written(c, OfRollouts(c)) \in SeriesRow
            /\ Derived(consumed, Written(c, OfRollouts(c)))
            /\ \A l \in LogsOf(c, CODEX_SESSION_LOG) : OfRollouts(c).n <= l.n
<1> DEFINE found == LogsOf(c, CODEX_SESSION_LOG)
           first == CHOOSE l \in found : \A k \in found : l.n <= k.n
           others == {codex_series(l.lines) : l \in found \ {first}}
           s == [n |-> first.n, requests |-> codex_series(first.lines), alternates |-> others]
<1>1. CASE found = {}
  BY <1>1 DEF OfRollouts
<1>2. CASE found # {}
  <2>1. ASSUME NEW l \in found
        PROVE  /\ l \in logs /\ l.n \in DOMAIN consumed /\ l.n \in Nat \ {0}
               /\ consumed[l.n].cell = c /\ Same(codex_series(l.lines), consumed[l.n].used)
    <3>1. l \in logs /\ l.dir = c /\ l.kind = CODEX_SESSION_LOG
      BY DEF LogsOf
    <3>2. CLAUDE_SESSION_LOG # CODEX_SESSION_LOG
      BY DEF CODEX_SESSION_LOG, CLAUDE_SESSION_LOG
    <3> QED
      BY <3>1, <3>2, LogIsOfSession
  <2>2. \E l \in found : \A k \in found : l.n <= k.n
    BY <1>2, <2>1, EarliestOne
  <2>3. first \in found /\ \A k \in found : first.n <= k.n
    BY <2>2
  <2>4. OfRollouts(c) = s
    BY <1>2 DEF OfRollouts
  <2> HIDE DEF first
  <2>5. ASSUME NEW other \in others
        PROVE  /\ other \in Seq(Request)
               /\ \E n \in DOMAIN consumed \ {first.n} :
                    consumed[n].cell = c /\ figures(other) = figures(consumed[n].used)
    <3>1. PICK l \in found \ {first} : other = codex_series(l.lines)
      OBVIOUS
    <3>2. l.n # first.n
      BY <2>1, <2>3 DEF Truthful, LogsTrue
    <3> QED
      BY <2>1, <3>1, <3>2 DEF Same
  <2> HIDE DEF found, others
  <2> DEFINE w == Written(c, s)
  <2>6. /\ w = [cell |-> c, n |-> first.n, requests |-> codex_series(first.lines),
                alternates |-> others]
        /\ w.cell = c /\ w.n = first.n /\ w.requests = codex_series(first.lines)
        /\ w.alternates = others
    BY DEF Written
  <2> HIDE DEF w
  <2>7. others \in SUBSET Seq(Request)
    BY <2>5
  <2>8. w \in SeriesRow
    BY <2>1, <2>3, <2>6, <2>7 DEF SeriesRow, Same
  <2>9. Derived(consumed, w)
    BY <2>1, <2>3, <2>5, <2>6 DEF Derived, Same
  <2>10. \A l \in found : s.n <= l.n
    BY <2>3
  <2> QED
    BY <2>4, <2>8, <2>9, <2>10 DEF w, found
<1> QED
  BY <1>1, <1>2

LEMMA FoundForRun ==
  ASSUME Truthful, NEW c \in Cells, series_for_run(c) # NoSeries
  PROVE  Written(c, series_for_run(c)) \in SeriesRow /\ Derived(consumed, Written(c, series_for_run(c)))
BY FoundByTranscript, FoundInRollouts DEF series_for_run

LEMMA NextLine ==
  ASSUME Truthful, SnapshotRow
  PROVE  /\ todo[done'] \in LedgerRow /\ Filed(consumed, todo[done'])
         /\ done' = done + 1 /\ done' \in 0..Len(todo)
         /\ LET c == todo[done'].cell
                s == series_for_run(c)
            IN \/ s = NoSeries /\ series' = series
               \/ /\ s # NoSeries /\ series' = Append(series, Written(c, s))
                  /\ Written(c, s) \in SeriesRow /\ Derived(consumed, Written(c, s))
<1> DEFINE c == todo[done'].cell
           s == series_for_run(c)
<1>1. done < Len(todo) /\ done' = done + 1 /\ done \in 0..Len(todo) /\ todo \in Seq(LedgerRow)
  BY DEF SnapshotRow, Truthful, Types
<1>2. done' \in DOMAIN todo /\ done' \in 0..Len(todo)
  BY <1>1
<1>3. todo[done'] \in LedgerRow
  BY <1>1, <1>2, Elements
<1>4. Filed(consumed, todo[done'])
  BY <1>2 DEF Truthful, LedgerTrue
<1>5. c \in Cells
  BY <1>3 DEF LedgerRow
<1>6. series' = IF s = NoSeries THEN series ELSE Append(series, Written(c, s))
  BY DEF SnapshotRow, Written
<1> HIDE DEF c, s
<1>7. \/ s = NoSeries /\ series' = series
      \/ /\ s # NoSeries /\ series' = Append(series, Written(c, s))
         /\ Written(c, s) \in SeriesRow /\ Derived(consumed, Written(c, s))
  BY <1>5, <1>6, FoundForRun DEF s
<1> QED
  BY <1>1, <1>2, <1>3, <1>4, <1>7 DEF c, s

LEMMA StepSeries ==
  ASSUME Truthful, [Next]_vars
  PROVE  SeriesTrue'
<1>0. /\ series \in Seq(SeriesRow) /\ Len(series) <= done
      /\ done \in 0..Len(todo) /\ todo \in Seq(LedgerRow)
      /\ \A i \in DOMAIN series : Derived(consumed, series[i])
  BY DEF Truthful, SeriesTrue, Types
<1>1. \A n \in DOMAIN consumed : n \in DOMAIN consumed' /\ consumed'[n] = consumed[n]
  BY SessionsStay DEF Truthful
<1>2. ASSUME NEW s, Derived(consumed, s) PROVE Derived(consumed', s)
  BY <1>1, <1>2 DEF Derived
<1>3. CASE Snapshot
  <2>1. series' = <<>> /\ done' = 0
    BY <1>3 DEF Snapshot
  <2>2. series' \in Seq(SeriesRow) /\ Len(series') <= done' /\ DOMAIN series' = {}
    BY <2>1
  <2> QED
    BY <2>2 DEF SeriesTrue
<1>4. CASE SnapshotRow
  <2> DEFINE w == Written(todo[done'].cell, series_for_run(todo[done'].cell))
  <2>1. /\ done' = done + 1
        /\ series' = series \/ (series' = Append(series, w) /\ w \in SeriesRow /\ Derived(consumed, w))
    BY <1>4, NextLine
  <2> HIDE DEF w
  <2>2. CASE series' = series
    BY <1>0, <1>2, <2>1, <2>2 DEF SeriesTrue
  <2>3. CASE series' = Append(series, w) /\ w \in SeriesRow /\ Derived(consumed, w)
    <3>1. /\ series' \in Seq(SeriesRow) /\ Len(series') = Len(series) + 1
          /\ \A i \in DOMAIN series' : (i \in DOMAIN series /\ series'[i] = series[i]) \/ series'[i] = w
      BY <1>0, <2>3, Appended
    <3>2. Len(series') <= done'
      BY <1>0, <2>1, <3>1
    <3>3. \A i \in DOMAIN series' : Derived(consumed', series'[i])
      BY <1>0, <1>2, <2>3, <3>1
    <3> QED
      BY <3>1, <3>2, <3>3 DEF SeriesTrue
  <2> QED
    BY <2>1, <2>2, <2>3
<1>5. CASE SnapshotDies
  <2>1. series' = series /\ done' = done
    BY <1>5 DEF SnapshotDies
  <2> QED
    BY <1>0, <1>2, <2>1 DEF SeriesTrue
<1>6. CASE UNCHANGED snapshotVars
  BY <1>0, <1>2, <1>6 DEF SeriesTrue, snapshotVars
<1> QED
  BY <1>3, <1>4, <1>5, <1>6, Frames

LEMMA StepTruthful ==
  ASSUME Truthful, [Next]_vars
  PROVE  Truthful'
<1>1. [HomesNext]_homeVars
  BY StepOfTheHomes DEF vars, homeVars
<1>2. HomesInv'
  BY <1>1, StepHomes DEF Truthful
<1> QED
  BY <1>2, StepTypes, StepInHand, StepLogs, StepTranscripts, StepLedger, StepSeries, StepVisitors
  DEF Truthful

LEMMA TruthfulAlways == Spec => []Truthful
<1>1. Truthful /\ [Next]_vars => Truthful'
  BY StepTruthful
<1> QED
  BY <1>1, InitTruthful, PTL DEF Spec

-----------------------------------------------------------------------------
LEMMA TruthfulIsTyped == Truthful => TypeOK
<1> SUFFICES ASSUME Truthful PROVE TypeOK
  OBVIOUS
<1>1. /\ consumed \in Seq(Session) /\ at \in [Homes -> {NoRun} \cup RunAt]
      /\ transcripts \in [Cells -> Nat]
      /\ ledger \in Seq(LedgerRow) /\ todo \in Seq(LedgerRow) /\ done \in 0..Len(todo)
  BY DEF Truthful, Types
<1>2. DOMAIN consumed = 1..sessions /\ sessions \in Nat
  BY <1>1, Elements DEF sessions
<1>3. ASSUME NEW h \in Homes, at[h] # NoRun
      PROVE  at[h].cell \in Cells /\ at[h].n \in 1..sessions /\ at[h].st \in {"cli", "over"}
  <2>1. at[h] \in RunAt
    BY <1>1, <1>3
  <2>2. at[h].n \in DOMAIN consumed
    BY <1>3 DEF Truthful, RunsInHand
  <2> QED
    BY <1>2, <2>1, <2>2 DEF RunAt
<1>4. /\ \A h \in Homes : at[h].st = "cli" /\ budget.scoped => homes[h].st # "none"
      /\ \A h \in Homes : homes[h].st # "none" => at[h].st \in {"cli", "over"}
  BY <1>3 DEF Truthful, RunsInHand
<1>5. \A l \in logs : l.n \in 1..sessions /\ l.lines # <<>>
  BY <1>2, LogIsOfSession
<1>6. transcripts \in [Cells -> 0..sessions]
  <2>1. ASSUME NEW c \in Cells PROVE transcripts[c] \in 0..sessions
    <3>1. transcripts[c] # 0 => transcripts[c] \in 1..sessions
      BY <1>2 DEF Truthful, TranscriptsTrue
    <3> QED
      BY <1>2, <3>1
  <2> QED
    BY <1>1, <2>1
<1>7. \A i \in DOMAIN ledger : ledger[i].cell \in Cells /\ ledger[i].ti \in Nat
  <2>1. \A i \in DOMAIN ledger : ledger[i] \in LedgerRow
    BY <1>1, Elements
  <2> QED
    BY <2>1 DEF LedgerRow
<1>8. done \in 0..Len(todo) /\ Len(series) <= done
  BY <1>1 DEF Truthful, SeriesTrue
<1> QED
  BY <1>3, <1>4, <1>5, <1>6, <1>7, <1>8 DEF TypeOK

(* A set of positions that is not empty has a last one.                     *)
LEMMA LastOne ==
  ASSUME NEW n \in Nat, NEW S, S \subseteq 1..n, S # {}
  PROVE  Max(S) \in S /\ \A j \in S : j <= Max(S)
<1> DEFINE Below == {m \in Nat : \E x \in S : x + m = n}
           T == Below
<1>1. T # {} /\ T \subseteq Nat
  <2>1. PICK x \in S : x \in 1..n
    OBVIOUS
  <2>2. n - x \in Nat /\ x + (n - x) = n
    BY <2>1
  <2> QED
    BY <2>2
<1>2. \E m \in T : \A y \in T : ~(<<y, m>> \in OpToRel(<, Nat))
  BY <1>1, NatLessThanWellFounded, WFMin
<1>3. PICK m \in T : \A y \in T : ~(<<y, m>> \in OpToRel(<, Nat))
  BY <1>2
<1>30. m \in Nat
  BY <1>1, <1>3
<1>4. PICK x \in S : x + m = n
  BY <1>3
<1>5. ASSUME NEW j \in S PROVE j <= x
  <2>0. j \in 1..n /\ x \in 1..n
    OBVIOUS
  <2>1. j \in Int /\ x \in Int /\ m \in Nat /\ j <= n
    BY <1>30, <2>0
  <2>2. CASE j > x
    <3>1. n - j \in Nat /\ j + (n - j) = n /\ n - j < m
      BY <1>4, <2>1, <2>2
    <3>2. n - j \in T
      BY <3>1
    <3>3. <<n - j, m>> \in OpToRel(<, Nat)
      BY <2>1, <3>1 DEF OpToRel
    <3> QED
      BY <1>3, <3>2, <3>3
  <2> QED
    BY <2>1, <2>2
<1>6. x \in S /\ \A j \in S : x >= j
  <2>1. \A j \in S : j \in Int
    OBVIOUS
  <2> QED
    BY <1>5, <2>1
<1>7. Max(S) \in S /\ \A j \in S : Max(S) >= j
  BY <1>6 DEF Max
<1>8. \A j \in S : j \in Int
  OBVIOUS
<1> QED
  BY <1>7, <1>8

(* What the check compares a row with.                                      *)
LEMMA LoadedLine ==
  ASSUME Truthful, NEW c
  PROVE  \/ Loaded(c) = NoSeries
         \/ /\ Loaded(c) \in SeriesRow /\ Loaded(c).cell = c
            /\ Derived(consumed, Loaded(c)) /\ consumed[Loaded(c).n] \in Session
<1> DEFINE lines == {i \in DOMAIN series : series[i].cell = c}
<1>1. /\ series \in Seq(SeriesRow) /\ \A i \in DOMAIN series : Derived(consumed, series[i])
      /\ consumed \in Seq(Session)
  BY DEF Truthful, SeriesTrue, Types
<1>2. DOMAIN series = 1..Len(series) /\ Len(series) \in Nat
  BY <1>1, Elements
<1>3. CASE lines = {}
  BY <1>3 DEF Loaded
<1>4. CASE lines # {}
  <2>1. Max(lines) \in lines
    BY <1>2, <1>4, LastOne
  <2>2. Loaded(c) = series[Max(lines)]
    BY <1>4 DEF Loaded
  <2>3. Max(lines) \in DOMAIN series /\ series[Max(lines)].cell = c
    BY <2>1
  <2>4. Loaded(c) \in SeriesRow /\ Loaded(c).cell = c /\ Derived(consumed, Loaded(c))
    BY <1>1, <2>2, <2>3, Elements
  <2>5. Loaded(c).n \in DOMAIN consumed
    BY <2>4 DEF Derived
  <2> QED
    BY <1>1, <2>4, <2>5, Elements
<1> QED
  BY <1>3, <1>4

(* What the check says of a row it can compare.                             *)
LEMMA Verdicts ==
  ASSUME Truthful, NEW i \in DOMAIN ledger
  PROVE  LET row == ledger[i]
             s == Loaded(row.cell)
             Consumed(n) ==
               /\ consumed[n].cell = row.cell
               /\ figures(consumed[n].used) = [session_total |-> row.ti, tokens_out |-> row.to]
         IN /\ crosscheck(row) = "agree" => ~row.killed /\ Consumed(s.n)
            /\ crosscheck(row) = "agree_after_attribution" =>
                 ~row.killed /\ \E n \in DOMAIN consumed \ {s.n} : Consumed(n)
            /\ s.n = row.n /\ ~row.killed => crosscheck(row) = "agree"
<1> DEFINE row == ledger[i]
           s == Loaded(row.cell)
           said == [session_total |-> row.ti, tokens_out |-> row.to]
           Consumed(n) == consumed[n].cell = row.cell /\ figures(consumed[n].used) = said
<1>1. /\ row \in LedgerRow /\ row.n \in DOMAIN consumed
      /\ said = IF row.killed THEN Zero ELSE figures(consumed[row.n].used)
      /\ consumed \in Seq(Session)
  BY Elements DEF Truthful, Types, LedgerTrue, Filed
<1>2. row.n \in Nat \ {0} /\ row.killed \in BOOLEAN
  BY <1>1 DEF LedgerRow
<1>3. ASSUME NEW n \in DOMAIN consumed
      PROVE  figures(consumed[n].used) \in FiguresType /\ figures(consumed[n].used).session_total > 0
  <2>1. consumed[n] \in Session
    BY <1>1, Elements
  <2>2. consumed[n].used \in Truths
    BY <2>1 DEF Session
  <2> QED
    BY <2>2, SessionsAre
<1>4. ASSUME NEW n \in DOMAIN consumed, figures(consumed[n].used) = said
      PROVE  ~row.killed
  BY <1>1, <1>3, <1>4 DEF Zero
<1>5. ASSUME NEW requests, NEW n \in DOMAIN consumed, figures(requests) = figures(consumed[n].used)
      PROVE  Reproduces(requests, row) <=> figures(consumed[n].used) = said
  BY <1>3, <1>5 DEF Reproduces, FiguresType
<1>6. crosscheck(row) =
        IF s.requests = <<>> THEN "no_independent_record"
        ELSE IF Reproduces(s.requests, row) THEN "agree"
        ELSE IF \E other \in s.alternates : Reproduces(other, row)
        THEN "agree_after_attribution" ELSE "DISCREPANCY"
  BY DEF crosscheck
<1>7. CASE s = NoSeries
  <2>1. s.requests = <<>> /\ s.n = 0
    BY <1>7 DEF NoSeries
  <2>2. crosscheck(row) = "no_independent_record"
    BY <1>6, <2>1
  <2> QED
    BY <1>2, <2>1, <2>2
<1>8. CASE s.cell = row.cell /\ Derived(consumed, s)
  <2>1. /\ s.n \in DOMAIN consumed /\ consumed[s.n].cell = row.cell
        /\ s.requests # <<>> /\ figures(s.requests) = figures(consumed[s.n].used)
        /\ \A other \in s.alternates : \E n \in DOMAIN consumed \ {s.n} :
             consumed[n].cell = row.cell /\ figures(other) = figures(consumed[n].used)
    BY <1>8 DEF Derived
  <2>2. crosscheck(row) = "agree" <=> Reproduces(s.requests, row)
    BY <1>6, <2>1
  <2>3. crosscheck(row) = "agree" <=> figures(consumed[s.n].used) = said
    BY <1>5, <2>1, <2>2
  <2>4. ASSUME crosscheck(row) = "agree_after_attribution"
        PROVE  ~row.killed /\ \E n \in DOMAIN consumed \ {s.n} : Consumed(n)
    <3>1. PICK other \in s.alternates : Reproduces(other, row)
      BY <1>6, <2>4
    <3>2. PICK n \in DOMAIN consumed \ {s.n} :
            consumed[n].cell = row.cell /\ figures(other) = figures(consumed[n].used)
      BY <2>1
    <3>3. figures(consumed[n].used) = said
      BY <1>5, <3>1, <3>2
    <3> QED
      BY <1>4, <3>2, <3>3
  <2>5. crosscheck(row) = "agree" => ~row.killed /\ Consumed(s.n)
    BY <1>4, <2>1, <2>3
  <2>6. s.n = row.n /\ ~row.killed => crosscheck(row) = "agree"
    BY <1>1, <2>3
  <2> QED
    BY <2>4, <2>5, <2>6
<1> QED
  BY <1>7, <1>8, LoadedLine

(* Whatever the check confirms was consumed, and no row of a run that was   *)
(* killed is confirmed; a row compared with the log of its own session      *)
(* agrees with it, however often the CLI repeated a line of the log, and    *)
(* whatever was pruned or snapshotted since (crosscheck of token_units.py). *)
THEOREM CheckIsHonestHolds == Spec => []CheckIsHonest
<1>1. ASSUME Truthful PROVE AgreementIsReal
  BY <1>1, Verdicts DEF AgreementIsReal
<1>2. ASSUME Truthful PROVE OwnRecordAgrees
  BY <1>2, Verdicts DEF OwnRecordAgrees
<1>3. Truthful => CheckIsHonest
  BY <1>1, <1>2, TruthfulIsTyped DEF CheckIsHonest
<1> QED
  BY <1>3, TruthfulAlways, PTL

-----------------------------------------------------------------------------
LEMMA ListedLog ==
  ASSUME Truthful, NEW l \in logs, Listed(l), consumed[l.n].by = "run",
         ClaudeShaped(l.cell) => Slug[l.cell] = l.cell
  PROVE  l \in LogsOf(l.cell, SESSION_LOG_FAMILIES[Family[l.cell]])
<1>1. /\ l.cell = consumed[l.n].cell /\ l.kind = SESSION_LOG_FAMILIES[FamilyOf(consumed[l.n])]
      /\ l.dir = IF l.kind = CLAUDE_SESSION_LOG THEN Slug[l.cell] ELSE l.cell
  BY LogIsOfSession
<1> QED
  BY <1>1 DEF LogsOf, FamilyOf, ClaudeShaped

(* The kinds of log a run leaves are two.                                   *)
LEMMA Kinds ==
  ASSUME NEW c \in Cells
  PROVE  SESSION_LOG_FAMILIES[Family[c]] \in {CLAUDE_SESSION_LOG, CODEX_SESSION_LOG}
<1>1. Family[c] \in DOMAIN SESSION_LOG_FAMILIES
  BY TokenUnitsAssumption
<1> QED
  BY <1>1 DEF SESSION_LOG_FAMILIES

LEMMA NotPassedOver ==
  ASSUME Truthful, [Next]_vars, done' = done + 1
  PROVE  LET r == todo[done']
         IN OnDisk(r) /\ (ClaudeShaped(r.cell) => Slug[r.cell] = r.cell)
              => Len(series') = Len(series) + 1
<1> DEFINE r == todo[done']
           c == r.cell
           kind == SESSION_LOG_FAMILIES[Family[c]]
           s == series_for_run(c)
<1>1. done \in Nat /\ series \in Seq(SeriesRow)
  BY DEF Truthful, Types, SeriesTrue
<1>2. SnapshotRow
  <2>1. ~Snapshot /\ ~SnapshotDies /\ ~UNCHANGED snapshotVars
    BY <1>1 DEF Snapshot, SnapshotDies, snapshotVars
  <2> QED
    BY <2>1, Frames
<1>3. /\ r \in LedgerRow /\ Filed(consumed, r)
      /\ s = NoSeries \/ series' = Append(series, Written(c, s))
  BY <1>2, NextLine
<1>4. c \in Cells /\ consumed[r.n].cell = c /\ consumed[r.n].by = "run"
  BY <1>3 DEF LedgerRow, Filed
<1>5. ASSUME NEW l \in logs, l.n = r.n, Listed(l),
             kind = CLAUDE_SESSION_LOG => transcripts[c] = r.n /\ Slug[c] = c
      PROVE  Len(series') = Len(series) + 1
  <2>1. l.cell = c
    BY <1>4, <1>5, LogIsOfSession
  <2>2. l \in LogsOf(c, kind)
    BY <1>4, <1>5, <2>1, ListedLog DEF ClaudeShaped
  <2>3. Written(c, s) \in SeriesRow
    <3>1. CASE kind = CLAUDE_SESSION_LOG
      <4>1. s = OfTranscript(c)
        BY <3>1 DEF series_for_run
      <4> QED
        BY <1>4, <1>5, <2>2, <3>1, <4>1, FoundByTranscript
    <3>2. CASE kind # CLAUDE_SESSION_LOG
      <4>1. s = OfRollouts(c) /\ kind = CODEX_SESSION_LOG
        BY <1>4, <3>2, Kinds DEF series_for_run
      <4> QED
        BY <1>4, <2>2, <4>1, FoundInRollouts
    <3> QED
      BY <3>1, <3>2
  <2>4. s.n # 0
    BY <2>3 DEF Written, SeriesRow
  <2>5. series' = Append(series, Written(c, s))
    BY <1>3, <2>4 DEF NoSeries
  <2> QED
    BY <1>1, <2>3, <2>5, Appended
<1> QED
  BY <1>5 DEF OnDisk, ClaudeShaped

LEMMA LastIsTheRuns ==
  ASSUME Truthful, [Next]_vars, Len(series') > Len(series)
  PROVE  LET s == series'[Len(series')]
         IN (\E l \in logs : l.cell = s.cell /\ Listed(l) /\ consumed[l.n].by = "run")
            => consumed[s.n].by = "run"
<1> DEFINE r == todo[done']
           c == r.cell
           kind == SESSION_LOG_FAMILIES[Family[c]]
           s == series_for_run(c)
           w == Written(c, s)
<1>1. series \in Seq(SeriesRow) /\ Len(series) \in Nat
  BY DEF Truthful, SeriesTrue
<1>2. SnapshotRow
  <2>1. ~Snapshot /\ ~SnapshotDies /\ ~UNCHANGED snapshotVars
    BY <1>1 DEF Snapshot, SnapshotDies, snapshotVars
  <2> QED
    BY <2>1, Frames
<1>3. /\ r \in LedgerRow /\ series' = Append(series, w)
      /\ w \in SeriesRow /\ Derived(consumed, w)
  BY <1>1, <1>2, NextLine
<1>4. c \in Cells /\ w.cell = c /\ w.n = s.n /\ w.n \in DOMAIN consumed /\ w.n # 0
      /\ consumed[w.n].cell = c
  BY <1>3 DEF LedgerRow, Written, Derived, SeriesRow
<1>5. series'[Len(series')] = w
  BY <1>1, <1>3, Appended
<1>6. ASSUME NEW l \in logs, l.cell = c, Listed(l), consumed[l.n].by = "run"
      PROVE  consumed[w.n].by = "run"
  <2>1. kind # CLAUDE_SESSION_LOG => l \in LogsOf(c, kind)
    BY <1>6, ListedLog DEF ClaudeShaped
  <2>2. CASE kind = CLAUDE_SESSION_LOG
    <3>1. s = OfTranscript(c)
      BY <2>2 DEF series_for_run
    <3>2. w.n = transcripts[c]
      BY <1>4, <3>1, FoundByTranscript DEF NoSeries
    <3> QED
      BY <1>4, <3>2 DEF Truthful, TranscriptsTrue
  <2>3. CASE kind # CLAUDE_SESSION_LOG
    <3>1. s = OfRollouts(c) /\ kind = CODEX_SESSION_LOG
      BY <1>4, <2>3, Kinds DEF series_for_run
    <3>2. w.n <= l.n
      BY <1>4, <2>1, <2>3, <3>1, FoundInRollouts
    <3>3. l.n \in DOMAIN consumed /\ consumed[l.n].cell = c /\ l.n \in Nat
      BY <1>6, LogIsOfSession
    <3>4. consumed[w.n] \in Session /\ w.n \in Nat
      BY <1>4, Elements DEF Truthful, Types
    <3>5. consumed[w.n].by # "visitor"
      BY <1>4, <1>6, <3>2, <3>3, <3>4 DEF Truthful, VisitorsAfter
    <3> QED
      BY <3>4, <3>5 DEF Session
  <2> QED
    BY <2>2, <2>3
<1> QED
  BY <1>4, <1>5, <1>6

(* A snapshot writes a line for every row whose log is on disk and known to *)
(* its index, of a claude-shaped run if the run_id is also the name of its  *)
(* directory, whoever else has a directory of that name; and the line is of *)
(* the run itself, not of a visitor to its directory, when a log of a run   *)
(* is there (series_for_run: the transcript names the session of a claude   *)
(* run, the earliest rollout is the one of a codex run).                    *)
THEOREM RecordsAreFoundHolds == Spec => RecordsAreFound
<1>1. ASSUME Truthful, [Next]_vars
      PROVE  done' = done + 1 =>
               LET r == todo[done']
               IN OnDisk(r) /\ (ClaudeShaped(r.cell) => Slug[r.cell] = r.cell)
                  => Len(series') = Len(series) + 1
  BY <1>1, NotPassedOver
<1>2. ASSUME Truthful, [Next]_vars
      PROVE  Len(series') > Len(series) =>
               LET s == series'[Len(series')]
               IN (\E l \in logs : l.cell = s.cell /\ Listed(l) /\ consumed[l.n].by = "run")
                  => consumed[s.n].by = "run"
  BY <1>2, LastIsTheRuns
<1> QED
  BY <1>1, <1>2, TruthfulAlways, PTL DEF Spec, RecordsAreFound, NoRecordIsPassedOver, VisitorsComeLast
=============================================================================
