----------------------------- MODULE TokenUnits -----------------------------
(***************************************************************************)
(* runner/token_units.py: is what the ledger says of a run also what the   *)
(* session log of its CLI says?  The logs are in the home of the CLI; a    *)
(* snapshot reduces them to a series of requests per run_id, before they   *)
(* are pruned, and the check compares the ledger with the series.          *)
(*                                                                         *)
(* The runs whose logs it finds are those of the corpus, before the homes  *)
(* were scoped; a home of CredentialHomes takes the logs in it along when  *)
(* it goes.  A session is the requests it made, and is numbered.           *)
(*                                                                         *)
(* Left out: the averages per model of the report, and what is printed.    *)
(***************************************************************************)
EXTENDS CredentialHomes, Integers, Sequences, FiniteSetsExt

CONSTANTS
  Cells,       \* run_ids
  Family,      \* their families
  Slug,        \* what the claude CLI makes of a run_id in the name of a directory
  Truths,      \* what a session may consume: sequences of requests
  Budgets      \* bounds: runs, sessions of others, snapshots; and whether scoped

CLAUDE_SESSION_LOG == "claude_session_log"
CODEX_SESSION_LOG == "codex_rollout"

SESSION_LOG_FAMILIES ==
  [f \in {"claude", "kimi", "local", "codex"} |->
     IF f = "codex" THEN CODEX_SESSION_LOG ELSE CLAUDE_SESSION_LOG]

Request == [fresh : Nat, creation : Nat, read : Nat, out : Nat]
Context(r) == r.fresh + r.creation + r.read

(* A session put something to its model.                                    *)
ASSUME TokenUnitsAssumption ==
  /\ Family \in [Cells -> DOMAIN SESSION_LOG_FAMILIES]
  /\ Slug \in [Cells -> STRING]
  /\ \A t \in Truths : t \in Seq(Request) /\ \E i \in DOMAIN t : Context(t[i]) > 0
  /\ Budgets \subseteq [runs : Nat, visits : Nat, snapshots : Nat, scoped : BOOLEAN]

VARIABLES
  at,          \* the run in each home
  logs,        \* the session logs in the operator's home
  transcripts, \* the session a run's transcript names, or 0
  ledger,      \* the worker rows of usage.jsonl
  series,      \* context_series.jsonl
  todo, done, index,  \* snapshot: the rows it goes through, how many it has,
               \* and the logs it knows
  consumed,    \* history: the sessions, of which cell, by whom
  spent, budget

records == <<logs, transcripts, ledger, consumed>>
sessions == Len(consumed)
snapshotVars == <<series, todo, done, index>>
vars == <<homeVars, at, records, snapshotVars, spent, budget>>

NoRun == [st |-> "none", cell |-> "none", n |-> 0, used |-> <<>>, killed |-> FALSE]

(* Types.  A run that has a home of its own is in it until it is recorded.  *)
TypeOK ==
  /\ \A h \in Homes : at[h] # NoRun => at[h].cell \in Cells /\ at[h].n \in 1..sessions
  /\ \A h \in Homes : at[h].st = "cli" /\ budget.scoped => homes[h].st # "none"
  /\ \A h \in Homes : homes[h].st # "none" => at[h].st \in {"cli", "over"}
  /\ \A l \in logs : l.n \in 1..sessions /\ l.lines # <<>>
  /\ transcripts \in [Cells -> 0..sessions]
  /\ \A i \in DOMAIN ledger : ledger[i].cell \in Cells /\ ledger[i].ti \in Nat
  /\ done \in 0..Len(todo) /\ Len(series) <= done

Init ==
  /\ HomesInit
  /\ at = [h \in Homes |-> NoRun]
  /\ logs = {} /\ transcripts = [c \in Cells |-> 0] /\ ledger = <<>> /\ consumed = <<>>
  /\ series = <<>> /\ todo = <<>> /\ done = 0 /\ index = [rollouts |-> {}, directories |-> {}]
  /\ spent = [runs |-> 0, visits |-> 0, snapshots |-> 0] /\ budget \in Budgets

Spend(what) ==
  /\ spent[what] < budget[what]
  /\ spent' = [spent EXCEPT ![what] = @ + 1]
  /\ UNCHANGED budget

-----------------------------------------------------------------------------
(* What is in a log, and what is made of it.                                *)

(* What the first requests of a session add up to.                          *)
RunningTotal(s) ==
  LET upto[i \in 0..Len(s)] ==
        IF i = 0 THEN [session_total |-> 0, tokens_out |-> 0]
        ELSE [session_total |-> upto[i - 1].session_total + Context(s[i]),
              tokens_out |-> upto[i - 1].tokens_out + s[i].out]
  IN upto

figures(s) == RunningTotal(s)[Len(s)]

(* A claude log has a line per block of a response, with the usage of the   *)
(* response on each; a codex rollout an event per request, or two, with the *)
(* request and the running total.  The cached are part of codex's input.    *)
Lines(family, used, twice) ==
  LET once ==
        [i \in DOMAIN used |->
           IF family = "codex"
           THEN [last |-> [input |-> Context(used[i]), cached |-> used[i].read, out |-> used[i].out],
                 total |-> RunningTotal(used)[i]]
           ELSE [id |-> i, usage |-> used[i]]]
  IN IF twice THEN [j \in 1..(2 * Len(once)) |-> once[(j + 1) \div 2]] ELSE once

(* The elements at some places of a sequence, in their order.               *)
Picked(s, places) ==
  LET upto[i \in 0..Len(s)] ==
        IF i = 0 THEN <<>>
        ELSE IF i \in places THEN Append(upto[i - 1], s[i]) ELSE upto[i - 1]
  IN upto[Len(s)]

(* The first line of each message id.                                       *)
claude_series(lines) ==
  Picked([i \in DOMAIN lines |-> lines[i].usage],
         {i \in DOMAIN lines : \A j \in 1..(i - 1) : lines[j].id # lines[i].id})

CodexRequest(event) ==
  [fresh |-> event.last.input - event.last.cached, creation |-> 0,
   read |-> event.last.cached, out |-> event.last.out]

(* An event that does not advance the total is no request.                  *)
codex_series(lines) ==
  Picked([i \in DOMAIN lines |-> CodexRequest(lines[i])],
         {i \in DOMAIN lines : i = 1 \/ lines[i].total # lines[i - 1].total})

-----------------------------------------------------------------------------
(* The runs.                                                                *)

Visited(c) == \E n \in DOMAIN consumed : consumed[n].cell = c /\ consumed[n].by = "visitor"

(* run_cli, in a home of its own or in the operator's.                      *)
Run(h, c) ==
  /\ at[h] = NoRun /\ ~Visited(c) /\ \A g \in Homes : at[g].cell # c
  /\ Spend("runs")
  /\ IF budget.scoped THEN Open(h) ELSE UNCHANGED homeVars
  /\ \E used \in Truths, killed \in BOOLEAN :
       /\ consumed' = Append(consumed, [cell |-> c, used |-> used, by |-> "run"])
       /\ at' = [at EXCEPT ![h] = [st |-> "cli", cell |-> c, n |-> sessions + 1, used |-> used,
                                   killed |-> killed]]
  /\ UNCHANGED <<logs, transcripts, ledger, snapshotVars>>

(* A claude CLI keeps the log in a directory named for the scratch          *)
(* directory, with a dash for what is no letter or digit; a rollout names   *)
(* the scratch directory itself.                                            *)
Log(c, n, family, used, twice) ==
  LET kind == SESSION_LOG_FAMILIES[family]
  IN [cell |-> c, dir |-> IF kind = CLAUDE_SESSION_LOG THEN Slug[c] ELSE c,
      n |-> n, kind |-> kind, lines |-> Lines(family, used, twice)]

(* The CLI prints its summary and is gone; its log stays in its home.       *)
CliEnds(h) ==
  /\ at[h].st = "cli"
  /\ at' = [at EXCEPT ![h].st = "over"]
  /\ IF budget.scoped THEN UNCHANGED logs
     ELSE \E twice \in BOOLEAN :
            logs' = logs \cup {Log(at[h].cell, at[h].n, Family[at[h].cell], at[h].used, twice)}
  /\ UNCHANGED <<homeVars, transcripts, ledger, consumed, snapshotVars, spent, budget>>

TearDown(h) ==
  /\ at[h].st = "over"
  /\ CloseLink(h) \/ CopyBack(h) \/ Close(h)
  /\ UNCHANGED <<at, records, snapshotVars, spent, budget>>

(* execute_run: the transcript of the cell is overwritten, and a row goes   *)
(* to the ledger.  A CLI that was killed printed no summary: its transcript *)
(* names no session, and its row says that nothing was consumed.            *)
Record(h) ==
  /\ at[h].st = "over" /\ homes[h] = None
  /\ LET r == at[h]
         f == figures(r.used)
         claude == SESSION_LOG_FAMILIES[Family[r.cell]] = CLAUDE_SESSION_LOG
     IN /\ transcripts' = [transcripts EXCEPT ![r.cell] =
                             IF claude /\ ~r.killed THEN r.n ELSE 0]
        /\ ledger' = Append(ledger,
             [cell |-> r.cell, n |-> r.n, killed |-> r.killed,
              ti |-> IF r.killed THEN 0 ELSE f.session_total,
              to |-> IF r.killed THEN 0 ELSE f.tokens_out])
  /\ at' = [at EXCEPT ![h] = NoRun]
  /\ UNCHANGED <<homeVars, logs, consumed, snapshotVars, spent, budget>>

(* The runner is killed, and with it the run.                               *)
Die(h) ==
  /\ at[h] # NoRun
  /\ at' = [at EXCEPT ![h] = NoRun]
  /\ IF homes[h] = None THEN UNCHANGED homeVars ELSE Leave(h)
  /\ UNCHANGED <<records, snapshotVars, spent, budget>>

TokenIsRefreshed ==
  /\ budget.scoped
  /\ OperatorRefreshes \/ \E h \in Homes : at[h].st = "cli" /\ Refresh(h)
  /\ UNCHANGED <<at, records, snapshotVars, spent, budget>>

(* Somebody else's codex session in the scratch directory, after the last   *)
(* run ("the judge runs in the same directory afterwards": it is shown what *)
(* passed, and that is not run again).                                      *)
Visit(c) ==
  /\ \E i \in DOMAIN ledger : ledger[i].cell = c
  /\ \A h \in Homes : at[h].cell # c
  /\ Spend("visits")
  /\ \E used \in Truths :
       /\ consumed' = Append(consumed, [cell |-> c, used |-> used, by |-> "visitor"])
       /\ logs' = logs \cup {Log(c, sessions + 1, "codex", used, FALSE)}
  /\ UNCHANGED <<homeVars, at, transcripts, ledger, snapshotVars>>

(* The CLIs prune their logs on a schedule of their own.                    *)
Prune ==
  /\ \E l \in logs : logs' = logs \ {l}
  /\ UNCHANGED <<homeVars, at, transcripts, ledger, consumed, snapshotVars, spent, budget>>

-----------------------------------------------------------------------------
(* The snapshot.                                                            *)

(* The rollouts are listed once, and so are the directories of the claude   *)
(* sessions.                                                                *)
Listed(l) ==
  IF l.kind = CLAUDE_SESSION_LOG THEN l.dir \in index.directories ELSE l.n \in index.rollouts

(* They are looked up by the run_id as it is, dots and all.                 *)
LogsOf(c, kind) == {l \in logs : l.dir = c /\ l.kind = kind /\ Listed(l)}

NoSeries == [n |-> 0, requests |-> <<>>, alternates |-> {}]

(* The session the transcript names.                                        *)
OfTranscript(c) ==
  LET named == {l \in LogsOf(c, CLAUDE_SESSION_LOG) : l.n = transcripts[c]}
      log == CHOOSE l \in named : TRUE
  IN IF named = {} THEN NoSeries
     ELSE [n |-> log.n, requests |-> claude_series(log.lines), alternates |-> {}]

(* "The worker run is the EARLIEST rollout."                                *)
OfRollouts(c) ==
  LET found == LogsOf(c, CODEX_SESSION_LOG)
      first == CHOOSE l \in found : \A k \in found : l.n <= k.n
  IN IF found = {} THEN NoSeries
     ELSE [n |-> first.n, requests |-> codex_series(first.lines),
           alternates |-> {codex_series(l.lines) : l \in found \ {first}}]

(* Mutant: issue #14, whoever is not claude or kimi is codex.               *)
series_for_runByElse(c) ==
  IF Family[c] \in {"claude", "kimi"} THEN OfTranscript(c) ELSE OfRollouts(c)

series_for_run(c) ==
  IF SESSION_LOG_FAMILIES[Family[c]] = CLAUDE_SESSION_LOG THEN OfTranscript(c)
  ELSE OfRollouts(c)

(* The file is emptied, the ledger read.                                    *)
Snapshot ==
  /\ done = Len(todo)
  /\ Spend("snapshots")
  /\ todo' = ledger /\ done' = 0
  /\ series' = <<>>
  /\ index' = [rollouts |-> {l.n : l \in {k \in logs : k.kind = CODEX_SESSION_LOG}},
               directories |-> {l.dir : l \in {k \in logs : k.kind = CLAUDE_SESSION_LOG}}]
  /\ UNCHANGED <<homeVars, at, records>>

SnapshotRow ==
  /\ done < Len(todo)
  /\ done' = done + 1
  /\ LET c == todo[done'].cell
         s == series_for_run(c)
     IN series' = IF s = NoSeries THEN series
                  ELSE Append(series, [cell |-> c, n |-> s.n, requests |-> s.requests,
                                       alternates |-> s.alternates])
  /\ UNCHANGED <<homeVars, at, records, todo, index, spent, budget>>

(* A snapshot that is killed leaves the lines it wrote.                     *)
SnapshotDies ==
  /\ done < Len(todo)
  /\ todo' = SubSeq(todo, 1, done)
  /\ UNCHANGED <<homeVars, at, records, series, done, index, spent, budget>>

-----------------------------------------------------------------------------
(* The check.                                                               *)

(* load_snapshot: the last line of a run_id.                                *)
Loaded(c) ==
  LET lines == {i \in DOMAIN series : series[i].cell = c}
  IN IF lines = {} THEN NoSeries ELSE series[Max(lines)]

(* Mutant: the tokens put in are enough.                                    *)
ReproducesIn(s, row) == figures(s).session_total = row.ti

Reproduces(s, row) == figures(s).session_total = row.ti /\ figures(s).tokens_out = row.to

crosscheck(row) ==
  LET s == Loaded(row.cell)
  IN IF s.requests = <<>> THEN "no_independent_record"
     ELSE IF Reproduces(s.requests, row) THEN "agree"
     ELSE IF \E other \in s.alternates : Reproduces(other, row)
     THEN "agree_after_attribution" ELSE "DISCREPANCY"

-----------------------------------------------------------------------------
Next ==
  \/ \E h \in Homes : CliEnds(h) \/ TearDown(h) \/ Record(h) \/ Die(h)
  \/ \E h \in Homes, c \in Cells : Run(h, c)
  \/ \E c \in Cells : Visit(c)
  \/ TokenIsRefreshed \/ Prune \/ Snapshot \/ SnapshotRow \/ SnapshotDies

Spec == Init /\ [][Next]_vars

-----------------------------------------------------------------------------
(* Safety.  LoginSurvives is one of CredentialHomes.                        *)

(* When the check says that a session reproduces a row, the session it     *)
(* looked at, or another in that run's directory, consumed exactly what the *)
(* row says, whoever ran in it, whatever was pruned and however old the     *)
(* snapshot is.  So no row of a run that was killed is ever confirmed.      *)
AgreementIsReal ==
  \A i \in DOMAIN ledger :
    LET row == ledger[i]
        verdict == crosscheck(row)
        Consumed(n) == /\ consumed[n].cell = row.cell
                       /\ figures(consumed[n].used) = [session_total |-> row.ti, tokens_out |-> row.to]
    IN verdict \in {"agree", "agree_after_attribution"} =>
         /\ ~row.killed
         /\ verdict = "agree" => Consumed(Loaded(row.cell).n)
         /\ verdict = "agree_after_attribution" =>
              \E n \in DOMAIN consumed \ {Loaded(row.cell).n} : Consumed(n)

(* A run that is compared with its own log agrees with it, however often    *)
(* the CLI wrote the same request down.                                     *)
OwnRecordAgrees ==
  \A i \in DOMAIN ledger :
    Loaded(ledger[i].cell).n = ledger[i].n /\ ~ledger[i].killed
      => crosscheck(ledger[i]) = "agree"

ClaudeShaped(c) == SESSION_LOG_FAMILIES[Family[c]] = CLAUDE_SESSION_LOG

(* There is an independent record of a row: the log of its run is on disk,  *)
(* and its transcript, if it takes one, was not overwritten by a later      *)
(* attempt.                                                                 *)
OnDisk(row) ==
  /\ \E l \in logs : l.n = row.n /\ Listed(l)
  /\ ClaudeShaped(row.cell) => transcripts[row.cell] = row.n

(* A record that is there is not passed over, of whatever family the run is *)
(* (issue #14, F2), if its run_id is also the name of its directory; that   *)
(* another run_id has the same name makes no difference.  (The log of a     *)
(* claude-shaped run whose run_id has a dot is passed over.)                *)
NoRecordIsPassedOver ==
  [][done' = done + 1 =>
       LET r == todo[done']
       IN OnDisk(r) /\ (ClaudeShaped(r.cell) => Slug[r.cell] = r.cell)
          => Len(series') = Len(series) + 1]_vars

(* Somebody else's session in the directory is not taken for the run's as   *)
(* long as a log of the run itself is there.                                *)
VisitorsComeLast ==
  [][Len(series') > Len(series) =>
       LET s == series'[Len(series')]
       IN (\E l \in logs : l.cell = s.cell /\ Listed(l) /\ consumed[l.n].by = "run")
          => consumed[s.n].by = "run"]_vars

(* The check is honest in both directions: what it confirms was consumed,   *)
(* and what it can compare with the run's own record it confirms.  TypeOK:  *)
(* a home is there as long as its run and no longer.                        *)
CheckIsHonest == TypeOK /\ AgreementIsReal /\ OwnRecordAgrees

(* A snapshot finds the record of a run if there is one, and prefers it to  *)
(* anybody else's.                                                          *)
RecordsAreFound == NoRecordIsPassedOver /\ VisitorsComeLast
=============================================================================
