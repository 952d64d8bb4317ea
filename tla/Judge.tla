-------------------------------- MODULE Judge --------------------------------
(***************************************************************************)
(* runner/judge.py: every passing run is shown, as a diff of its scratch   *)
(* directory, to two paid judges, and a row goes to judgments.jsonl.       *)
(*                                                                         *)
(* An invocation works off the passing runs that have no judgment yet, or  *)
(* one run_id it is given.  Meanwhile a sweep goes on: it runs the cells   *)
(* that have no scored row, each attempt in a fresh scratch directory.     *)
(* Invocations are killed, or die of a judge that takes over 900 s, and    *)
(* another one takes over from what is on file.                            *)
(*                                                                         *)
(* Left out: --mock, which writes other files, the text of the rubric, and *)
(* cut appends to usage.jsonl, which Upkeep has.                           *)
(***************************************************************************)
EXTENDS Jsonl, RunStatus, FiniteSets, SequencesExt

CONSTANTS
  Runs,            \* run_ids
  Outcomes,        \* how an attempt ends: reason and pass
  Answers,         \* what a judge may print
  Single,          \* run_ids given on the command line
  MaxAttempts, MaxInvocations, MaxTears   \* bounds

ASSUME JudgeAssumption ==
  /\ \A id \in Runs : id # Garbled.id
  /\ Outcomes \subseteq [why : SUBSET KnownReasons, pass : BOOLEAN]
  /\ Answers \subseteq [scores : BOOLEAN, usage : BOOLEAN]
  /\ Single \subseteq Runs
  /\ MaxAttempts \in Nat /\ MaxInvocations \in Nat /\ MaxTears \in Nat

VARIABLES
  results,      \* results.jsonl, as a sequence of rows
  scratch,      \* the attempt whose tree is in .scratch/<run_id>, or 0
  running,      \* the attempt under way, or 0
  attempts,     \* history: the run_id of each attempt
  judgments,    \* judgments.jsonl
  usage,        \* the judge rows of usage.jsonl
  pc, mode, todo, seen, missed, raw,  \* the invocation
  found,        \* history: the passing runs the invocation found
  called,       \* history: calls of each head about each run, all of them paid for
  mute,         \* history: those of them whose usage could not be read
  invoked, died \* history: invocations, and those that did not end by themselves

sweep == <<results, scratch, running, attempts>>
files == <<judgments, usage>>
memory == <<mode, todo, seen, missed, raw>>
history == <<found, called, mute, invoked, died>>
vars == <<sweep, files, pc, memory, history>>

Heads == {"claude", "codex"}
Ended == {"idle", "exit 0", "exit 1"}
Silent == [scores |-> FALSE, usage |-> FALSE]

JudgmentType == [id : Runs, scores : [Heads -> BOOLEAN], readable : SUBSET Heads, of : Nat,
                 by : {"results", "single"}] \cup {Garbled}
UsageType == [id : Runs, head : Heads]

(* Types.  An invocation past its choice of work is about a run.            *)
TypeOK ==
  /\ results \in Seq([id : Runs, why : SUBSET KnownReasons, pass : BOOLEAN, attempt : Nat])
  /\ attempts \in Seq(Runs)
  /\ scratch \in [Runs -> 0..Len(attempts)] /\ running \in 0..Len(attempts)
  /\ judgments \in Files(JudgmentType) /\ usage \in Seq(UsageType)
  /\ found \subseteq Runs
  /\ pc \in {"idle", "choose", "look", "call claude", "call codex", "meter claude",
             "meter codex", "append", "exit 0", "exit 1"}
  /\ mode \in {"results", "single"}
  /\ todo \in Seq(Runs) /\ seen \in 0..Len(attempts) /\ missed \in BOOLEAN
  /\ raw \in [Heads -> [scores : BOOLEAN, usage : BOOLEAN]]
  /\ called \in [Runs \X Heads -> Nat] /\ mute \in [Runs \X Heads -> Nat]
  /\ invoked \in Nat /\ died \in 0..invoked
  /\ pc \notin Ended \cup {"choose", "look"} => todo # <<>>

Init ==
  /\ results = <<>> /\ scratch = [id \in Runs |-> 0] /\ running = 0 /\ attempts = <<>>
  /\ judgments = Empty /\ usage = <<>>
  /\ pc = "idle" /\ mode = "results" /\ todo = <<>> /\ seen = 0
  /\ missed = FALSE
  /\ raw = [h \in Heads |-> Silent]
  /\ found = {} /\ called = [x \in Runs \X Heads |-> 0] /\ mute = called
  /\ invoked = 0 /\ died = 0

-----------------------------------------------------------------------------
(* The sweep, as far as the judge sees it: prepare_scratch, and the row.    *)

Attempt(id) ==
  /\ running = 0
  /\ Len(attempts) < MaxAttempts
  /\ \A i \in DOMAIN results : results[i].id = id => ~InDenominator(results[i].why)
  /\ attempts' = Append(attempts, id)
  /\ running' = Len(attempts')
  /\ scratch' = [scratch EXCEPT ![id] = Len(attempts')]
  /\ UNCHANGED <<results, files, pc, memory, history>>

Recorded ==
  /\ running # 0
  /\ \E o \in Outcomes :
       results' = Append(results, [id |-> attempts[running], why |-> o.why, pass |-> o.pass,
                                   attempt |-> running])
  /\ running' = 0
  /\ UNCHANGED <<scratch, attempts, files, pc, memory, history>>

(* The scratch trees are not kept for ever.                                 *)
Cleaned(id) ==
  /\ scratch[id] # 0 /\ scratch[id] # running
  /\ scratch' = [scratch EXCEPT ![id] = 0]
  /\ UNCHANGED <<results, running, attempts, files, pc, memory, history>>

-----------------------------------------------------------------------------
(* The work.                                                                *)

(* Mutant: what was read before ticket 34, any row that says pass.          *)
PassingUngated(row) == row.pass

Passing(row) == row.why = {"ok"} /\ row.pass

(* The elements of a list at some positions of it, in order.                *)
Picked(list, positions) ==
  LET upto[n \in 0..Len(list)] ==
        IF n = 0 THEN <<>>
        ELSE IF n \in positions THEN Append(upto[n - 1], list[n]) ELSE upto[n - 1]
  IN upto[Len(list)]

PassingRunIds ==
  Picked([i \in DOMAIN results |-> results[i].id],
         {i \in DOMAIN results : Passing(results[i])})

(* Mutant: only a judgment with scores counts.                              *)
AlreadyJudgedWithScores ==
  {j.id : j \in {x \in Parsed(judgments) : \E h \in Heads : x.scores[h]}}

AlreadyJudged == {j.id : j \in Parsed(judgments)}

Invoke ==
  /\ pc \in Ended
  /\ invoked < MaxInvocations
  /\ invoked' = invoked + 1
  /\ missed' = FALSE
  /\ found' = {}
  /\ \/ mode' = "results" /\ pc' = "choose" /\ todo' = <<>>
     \/ \E id \in Single : mode' = "single" /\ pc' = "look" /\ todo' = <<id>>
  /\ UNCHANGED <<sweep, files, seen, raw, called, mute, died>>

(* passing_run_ids and already_judged, one read of each file.               *)
Choose ==
  /\ pc = "choose"
  /\ LET ids == PassingRunIds
         done == AlreadyJudged
     IN todo' = Picked(ids, {i \in DOMAIN ids : ids[i] \notin done})
  /\ found' = ToSet(PassingRunIds)
  /\ pc' = "look"
  /\ UNCHANGED <<sweep, files, mode, seen, missed, raw, called, mute, invoked, died>>

(* judge_one: without a scratch directory the run is skipped.               *)
Skip ==
  /\ pc = "look" /\ todo # <<>>
  /\ scratch[Head(todo)] = 0
  /\ todo' = Tail(todo)
  /\ missed' = TRUE
  /\ UNCHANGED <<sweep, files, pc, mode, seen, raw, history>>

(* The diff is taken of what is in the directory now.                       *)
Look ==
  /\ pc = "look" /\ todo # <<>>
  /\ scratch[Head(todo)] # 0
  /\ seen' = scratch[Head(todo)]
  /\ pc' = "call claude"
  /\ UNCHANGED <<sweep, files, mode, todo, missed, raw, history>>

Call(head, then) ==
  /\ \E answer \in Answers :
       /\ raw' = [raw EXCEPT ![head] = answer]
       /\ called' = [called EXCEPT ![<<Head(todo), head>>] = @ + 1]
       /\ mute' = IF answer.usage THEN mute
                  ELSE [mute EXCEPT ![<<Head(todo), head>>] = @ + 1]
  /\ pc' = then
  /\ UNCHANGED <<sweep, files, mode, todo, seen, missed, found, invoked, died>>

CallClaude == pc = "call claude" /\ Call("claude", "call codex")
CallCodex == pc = "call codex" /\ Call("codex", "meter claude")

MayTear(cut) == cut = "whole" \/ judgments.torn < MaxTears

(* Mutant: judges that gave no scores are not metered.                      *)
MeterScored(head, then) ==
  /\ IF raw[head].usage /\ raw[head].scores
     THEN usage' = Append(usage, [id |-> Head(todo), head |-> head])
     ELSE UNCHANGED usage
  /\ pc' = then
  /\ UNCHANGED <<sweep, judgments, memory, history>>

(* meter_judge_call: a call whose usage cannot be read gets no row.         *)
Meter(head, then) ==
  /\ IF raw[head].usage
     THEN usage' = Append(usage, [id |-> Head(todo), head |-> head])
     ELSE UNCHANGED usage
  /\ pc' = then
  /\ UNCHANGED <<sweep, judgments, memory, history>>

MeterClaude == pc = "meter claude" /\ Meter("claude", "meter codex")
MeterCodex == pc = "meter codex" /\ Meter("codex", "append")

(* extract_json gives no scores for an answer without a JSON object; the    *)
(* row is written all the same.                                             *)
Judgment ==
  [id |-> Head(todo), scores |-> [h \in Heads |-> raw[h].scores],
   readable |-> {h \in Heads : raw[h].usage}, of |-> seen, by |-> mode]

AppendJudgment ==
  /\ pc = "append"
  /\ \E cut \in Cuts : MayTear(cut) /\ judgments' = Written(judgments, Judgment, cut)
  /\ todo' = Tail(todo)
  /\ raw' = [h \in Heads |-> Silent]
  /\ seen' = 0
  /\ pc' = "look"
  /\ UNCHANGED <<sweep, usage, mode, missed, history>>

Exit ==
  /\ pc = "look" /\ todo = <<>>
  /\ pc' = IF missed THEN "exit 1" ELSE "exit 0"
  /\ UNCHANGED <<sweep, files, memory, history>>

(* A kill, or a judge that takes over 900 s.                                *)
Die ==
  /\ pc \notin Ended
  /\ pc' = "idle" /\ todo' = <<>> /\ seen' = 0 /\ raw' = [h \in Heads |-> Silent]
  /\ died' = died + 1
  /\ UNCHANGED <<sweep, files, mode, missed, found, called, mute, invoked>>

-----------------------------------------------------------------------------
Sweep == (\E id \in Runs : Attempt(id) \/ Cleaned(id)) \/ Recorded

Step == Choose \/ Skip \/ Look \/ CallClaude \/ CallCodex \/ MeterClaude \/ MeterCodex
          \/ AppendJudgment \/ Exit

Next == Sweep \/ Invoke \/ Step \/ Die

Spec == Init /\ [][Next]_vars

-----------------------------------------------------------------------------
(* Safety.                                                                  *)

(* Whatever the sweep does meanwhile and whoever dies where, a judgment of  *)
(* --from-results is of the very attempt that ended by itself and passed    *)
(* (passing_run_ids: "a run that never finished is not a subject").         *)
JudgesTheAttemptThatPassed ==
  \A j \in Parsed(judgments) : j.by = "results" =>
    \E i \in DOMAIN results :
      /\ results[i].id = j.id /\ results[i].attempt = j.of
      /\ results[i].why = {"ok"} /\ results[i].pass

(* A passing run is judged once; only a cut append, or somebody who asks    *)
(* for that run by name, judges it again.                                   *)
JudgedOnce ==
  judgments.torn = 0 =>
    \A i, j \in DOMAIN judgments.lines :
      /\ judgments.lines[i].id = judgments.lines[j].id
      /\ judgments.lines[i].by = "results" /\ judgments.lines[j].by = "results"
      => i = j

(* The answer of a head that can be metered and has not been yet.           *)
InHand(id, head) ==
  IF todo # <<>> /\ Head(todo) = id /\ raw[head].usage
       /\ pc \in {"call codex", "meter claude"} \cup
                 (IF head = "codex" THEN {"meter codex"} ELSE {})
  THEN 1 ELSE 0

Ledgered(id, head) ==
  Cardinality({i \in DOMAIN usage : usage[i].id = id /\ usage[i].head = head})

(* What was paid for and is not in the ledger: every call whose usage could *)
(* not be read, of which nothing but a warning is left (meter_judge_call:   *)
(* "an unreadable call is not a free call"), and of the others one call of  *)
(* each head per death at most.  So the ledger never runs ahead of what was *)
(* paid, and whether the scores could be read makes no difference.          *)
UnledgeredCallsAreMuteOrDied ==
  \A id \in Runs, h \in Heads :
    called[<<id, h>>] - Ledgered(id, h) - InHand(id, h)
      \in mute[<<id, h>>]..(mute[<<id, h>>] + died)

(* An invocation that says it succeeded has left a judgment of every run    *)
(* that passed when it looked ("FAIL: ... run(s) skipped" otherwise).       *)
SuccessLeavesNoneOut ==
  pc = "exit 0" /\ mode = "results" /\ judgments.torn = 0
    => \A id \in found : \E j \in Parsed(judgments) : j.id = id

(* Of the runs it found passing, the judge judges each once and, if it says *)
(* it succeeded, leaves none out: no one appears twice in a mean of         *)
(* qualities and none is missing from it.  TypeOK: it never holds a run in  *)
(* hand that is not on its list.                                            *)
JudgedExactlyOnce == TypeOK /\ JudgedOnce /\ SuccessLeavesNoneOut
=============================================================================
