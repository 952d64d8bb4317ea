-------------------------------- MODULE Stage0 --------------------------------
(***************************************************************************)
(* runner/stage0_probe.py: five reps of one cell are run, and what they    *)
(* say about noise goes to the row of their model in models.yaml.          *)
(*                                                                         *)
(* An invocation looks at the live server, starts run.py and waits for it, *)
(* reads the corpus back, rewrites it with a tag on its own rows, derives  *)
(* the numbers, and rewrites the registry.  Meanwhile a human adds models  *)
(* to the registry with add-model, another sweep appends to the corpus,    *)
(* and processes are killed: both rewrites truncate the file first.        *)
(*                                                                         *)
(* Left out: dates, the text of the comment, and wall times, which decide  *)
(* nothing.  Killed appends are in Sweep.                                  *)
(***************************************************************************)
EXTENDS ServingRegistry, RunStatus, SequencesExt

CONSTANTS
  Reps,           \* the cells of the probe's sweep: --expected-reps of them
  Endings,        \* how each rep may end: reason, pass, turns, acceptance requests
  Model,          \* the model that is probed
  Configs,        \* what a probe's config may say: driver, level, serving
  Requests,       \* what a human may ask add-model for
  Servers,        \* what `lms ps` may show
  Before,         \* the registry to begin with
  MaxInvocations, MaxAttempts, MaxForeign, MaxKills   \* bounds

(* A row of models.yaml.  "torn" is the name of no model (see Torn).        *)
RegistryRow ==
  [model : STRING, driver : STRING, serving : [SERVING_FIELDS -> Int],
   noise_probe : [identical : Nat, of : Nat], deterministic_loops : BOOLEAN]

(* The registry to begin with is one that add-model could have left: of     *)
(* each pair one row, of models in the roster, and nothing recorded.        *)
ASSUME RegistryAssumption ==
  /\ Before \in Seq(RegistryRow)
  /\ \A i \in DOMAIN Before :
       /\ Before[i].model \in {r.model : r \in Requests} \ {"torn"}
       /\ Before[i].noise_probe = NoProbe /\ ~Before[i].deterministic_loops
       /\ \A j \in DOMAIN Before :
            i # j => <<Before[i].model, Before[i].driver>> # <<Before[j].model, Before[j].driver>>
  /\ \A r \in Requests :
       /\ r.model \in STRING \ {"torn"} /\ r.driver \in STRING
       /\ \A f \in DOMAIN r.serving \cap SERVING_FIELDS : r.serving[f] \in Int

ASSUME Stage0Assumption ==
  /\ Configs # {} /\ \A s \in Servers : s.state \in {"up", "unloaded", "unreadable"}
  /\ IsFiniteSet(Reps) /\ Reps # {}
  /\ Reps \subseteq Nat \ {0}
  /\ Endings \in [Reps -> SUBSET [why : SUBSET KnownReasons, pass : BOOLEAN, turns : Nat,
                                  acceptance_requests : Int]]
  /\ MaxInvocations \in Nat /\ MaxAttempts \in Nat /\ MaxForeign \in Nat /\ MaxKills \in Nat

VARIABLES
  registry,     \* models.yaml, as the sequence of its rows
  results,      \* the corpus, as a sequence of rows
  live,         \* the server
  pc,           \* where the probe is
  config, mock, \* its --config and --mock
  ran,          \* the reps its run.py has run
  rows,         \* the corpus it has read back, tagged after its rewrite
  known,        \* the registry it has read, with its result recorded
  summary,      \* the numbers of its comment
  adder,        \* add-model: where it is, what it read and what it adds
  attempts,     \* history: every rep that was run
  foreign,      \* history: rows other sweeps appended
  exposed,      \* history: rows a rewrite may have cost
  overlapped,   \* history: two rewrites of the registry met, or one was killed
  added,        \* history: pairs add-model wrote
  invoked, kills

files == <<registry, results>>
probe == <<pc, config, mock, ran, rows, known, summary>>
history == <<attempts, foreign, exposed, overlapped, added, invoked, kills>>
vars == <<files, live, probe, adder, history>>

Exits == {"idle", "exit 0", "exit 2", "preflight", "run.py failed", "wrong count"}
NoSummary == [of |-> 0, produced |-> 0, identical |-> 0, n_cap |-> 0, k_flip |-> FALSE]
Idle == [at |-> "idle", rows |-> <<>>, request |-> {}]

Probing == pc \in {"truncate", "write"}
Adding == adder.at # "idle"

Init ==
  /\ registry = Before /\ results = <<>> /\ live \in Servers
  /\ pc = "idle" /\ config = (CHOOSE c \in Configs : TRUE) /\ mock = FALSE
  /\ ran = {} /\ rows = <<>> /\ known = <<>>
  /\ summary = NoSummary
  /\ adder = Idle
  /\ attempts = <<>> /\ foreign = {} /\ exposed = {}
  /\ overlapped = FALSE /\ added = {} /\ invoked = 0 /\ kills = 0

-----------------------------------------------------------------------------
(* The files.                                                               *)

(* A writer that truncated earlier writes from the start of the file: what  *)
(* another one wrote in the meantime shows behind it if it is longer.       *)
Torn == [model |-> "torn"]
Readable == \A i \in DOMAIN registry : registry[i].model # "torn"

Overwritten(rowsOf, by) ==
  IF Len(rowsOf) < Len(by) THEN {by}
  ELSE IF Len(rowsOf) > Len(by) THEN {Append(by, Torn)} ELSE {by, Append(by, Torn)}

-----------------------------------------------------------------------------
(* The world: a human sets the server, and another sweep appends.           *)

(* A human changes the server between probes, not under them.               *)
SetServer ==
  /\ pc \in Exits
  /\ live' \in Servers \ {live}
  /\ UNCHANGED <<files, probe, adder, history>>

(* Rows of other sweeps are numbered below zero.                            *)
ForeignAppend ==
  /\ Cardinality(foreign) < MaxForeign
  /\ LET n == -(Cardinality(foreign) + 1)
         row == [sweep |-> "other", rep |-> 0, why |-> {"ok"}, attempt |-> n, tagged |-> FALSE]
     IN /\ results' = Append(results, row)
        /\ foreign' = foreign \cup {n}
        /\ exposed' = IF pc \in {"tag", "retag"} THEN exposed \cup {n} ELSE exposed
  /\ UNCHANGED <<registry, live, probe, adder, attempts, overlapped, added, invoked, kills>>

-----------------------------------------------------------------------------
(* cmd_add_model: read, refuse or truncate, write.                          *)

(* Mutant: a pair that is there is added again.                             *)
AddModelAnyway ==
  /\ adder.at = "idle" /\ Readable
  /\ \E r \in Requests :
       /\ ~NewRowRefused(r)
       /\ adder' = [at |-> "truncate", rows |-> registry, request |-> r]
  /\ overlapped' = (overlapped \/ Probing)
  /\ UNCHANGED <<files, live, probe, attempts, foreign, exposed, added, invoked, kills>>

AddModel ==
  /\ adder.at = "idle" /\ Readable
  /\ \E r \in Requests :
       /\ ~Has(registry, r.model, r.driver) /\ ~NewRowRefused(r)
       /\ adder' = [at |-> "truncate", rows |-> registry, request |-> r]
  /\ overlapped' = (overlapped \/ Probing)
  /\ UNCHANGED <<files, live, probe, attempts, foreign, exposed, added, invoked, kills>>

TruncateToAdd ==
  /\ adder.at = "truncate"
  /\ registry' = <<>>
  /\ adder' = [adder EXCEPT !.at = "write"]
  /\ UNCHANGED <<results, live, probe, history>>

WriteAdded ==
  /\ adder.at = "write"
  /\ registry' \in Overwritten(registry, Append(adder.rows, NewRow(adder.request)))
  /\ added' = added \cup {<<adder.request.model, adder.request.driver>>}
  /\ adder' = Idle
  /\ UNCHANGED <<results, live, probe, attempts, foreign, exposed, overlapped, invoked, kills>>

KillAdder ==
  /\ Adding /\ kills < MaxKills
  /\ kills' = kills + 1
  /\ overlapped' = TRUE
  /\ adder' = Idle
  /\ UNCHANGED <<files, live, probe, attempts, foreign, exposed, added, invoked>>

-----------------------------------------------------------------------------
(* main of the probe.                                                       *)

Quiet == UNCHANGED <<files, live, config, mock, ran, rows, known, summary, adder, history>>

(* --mock neither looks at the server nor may write the live registry.      *)
Invoke ==
  /\ pc \in Exits /\ invoked < MaxInvocations
  /\ invoked' = invoked + 1
  /\ config' \in Configs /\ mock' \in BOOLEAN
  /\ pc' = IF mock' THEN "gate" ELSE "look"
  /\ ran' = {} /\ rows' = <<>> /\ known' = <<>> /\ summary' = NoSummary
  /\ UNCHANGED <<files, live, adder, attempts, foreign, exposed, overlapped, added, kills>>

(* run_preflight; a registry that cannot be parsed ends the probe too.      *)
Look ==
  /\ pc = "look"
  /\ pc' = IF Readable /\ Preflight(registry, Model, config.driver, live) = 0
           THEN "gate" ELSE "preflight"
  /\ Quiet

(* The gate of run.py, which reads the registry itself.                     *)
GateAnswer ==
  IF Readable THEN Dispatch(registry, Model, config.driver, config.serving, config.level)
  ELSE "rejected"

Rejected ==
  /\ pc = "gate" /\ GateAnswer = "rejected"
  /\ pc' = "run.py failed"
  /\ Quiet

Dispatched ==
  /\ pc = "gate" /\ GateAnswer \in {"gated", "ungated"}
  /\ pc' = GateAnswer
  /\ Quiet

(* Cells that cannot be run get one row each, once.                         *)
Undispatched ==
  /\ pc = "gate" /\ GateAnswer \in {"structurally_impossible", "driver_unsupported"}
  /\ LET missing == {r \in Reps : \A i \in DOMAIN results :
                       results[i].rep = r => results[i].why # {GateAnswer}}
     IN results' = results \o [i \in 1..Cardinality(missing) |->
                      [sweep |-> "probe", rep |-> SetToSeq(missing)[i], why |-> {GateAnswer},
                       attempt |-> 0, tagged |-> FALSE]]
  /\ pc' = "read"
  /\ UNCHANGED <<registry, live, config, mock, ran, rows, known, summary, adder, history>>

(* existing_ids: these reps are not run again.                              *)
Done(rep) ==
  \E i \in DOMAIN results :
    results[i].rep = rep /\ results[i].why \in {{"ok"}, {"cap_exhausted"}}

Waiting == {r \in Reps \ ran : ~Done(r)}

(* The reps are run in order.  A mock run applies the solution.             *)
RunRep ==
  /\ pc \in {"gated", "ungated"} /\ Len(attempts) < MaxAttempts
  /\ \E r \in Waiting : \E e \in Endings[r] :
       /\ \A s \in Waiting : r <= s
       /\ mock <=> e.why = {"mock"}
       /\ attempts' = Append(attempts, [rep |-> r, end |-> e, live |-> live, gate |-> pc])
       /\ results' = Append(results, [sweep |-> "probe", rep |-> r, why |-> e.why,
                                      attempt |-> Len(attempts'), tagged |-> FALSE])
       /\ ran' = ran \cup {r}
  /\ UNCHANGED <<registry, live, pc, config, mock, rows, known, summary, adder, foreign, exposed,
                 overlapped, added, invoked, kills>>

(* run_stage0 once run.py is through: read_jsonl, then write_jsonl.         *)
Read ==
  /\ pc = "read" \/ (pc \in {"gated", "ungated"} /\ Waiting = {})
  /\ rows' = results
  /\ pc' = "tag"
  /\ UNCHANGED <<files, live, config, mock, ran, known, summary, adder, history>>

TruncateToTag ==
  /\ pc = "tag"
  /\ results' = <<>>
  /\ pc' = "retag"
  /\ UNCHANGED <<registry, live, config, mock, ran, rows, known, summary, adder, history>>

(* Mutant: only the probe's own rows are written back.                      *)
TagOwn(corpus) ==
  LET own == SelectSeq(corpus, LAMBDA row : row.sweep = "probe")
  IN [i \in DOMAIN own |-> [own[i] EXCEPT !.tagged = TRUE]]

TagStage0(corpus) ==
  [i \in DOMAIN corpus |->
     IF corpus[i].sweep = "probe" THEN [corpus[i] EXCEPT !.tagged = TRUE] ELSE corpus[i]]

(* What was appended since the truncation is written over.                  *)
WriteTagged ==
  /\ pc = "retag"
  /\ results' = TagStage0(rows)
  /\ rows' = TagStage0(rows)
  /\ pc' = "count"
  /\ UNCHANGED <<registry, live, config, mock, ran, known, summary, adder, history>>

(* Where the rows of the probe are: what is counted, and derived from.      *)
Own(corpus) == {i \in DOMAIN corpus : corpus[i].sweep = "probe"}

WrongCount ==
  /\ pc = "count" /\ Cardinality(Own(rows)) # Cardinality(Reps)
  /\ pc' = "wrong count"
  /\ Quiet

-----------------------------------------------------------------------------
(* derive_stage0.                                                           *)

End(row) == attempts[row.attempt].end

(* Mutant: what is not a scored row is a failed one.                        *)
ScoredOfAll(sample) == {i \in Own(sample) : sample[i].attempt # 0}

ScoredOf(sample) == {i \in Own(sample) : InDenominator(sample[i].why)}

Derivable(sample) ==
  LET scored == ScoredOf(sample)
  IN scored # {} /\ \E i \in scored : End(sample[i]).turns # 0

(* 3 x max(turns), up to the next ten; the count of the majority; K is      *)
(* registered anew when a rep asked for ten looks.                          *)
Derived(sample) ==
  LET scored == ScoredOf(sample)
      turns == Max({End(sample[i]).turns : i \in scored})
      passes == Cardinality({i \in scored : End(sample[i]).pass})
  IN [of |-> Cardinality(scored), produced |-> Cardinality(Own(sample)),
      identical |-> Max({passes, Cardinality(scored) - passes}),
      n_cap |-> ((3 * turns + 9) \div 10) * 10,
      k_flip |-> \E i \in scored : End(sample[i]).acceptance_requests >= 10]

(* Nothing scored, or no turns: the probe could not determine anything.     *)
Refuse ==
  /\ pc = "count" /\ Cardinality(Own(rows)) = Cardinality(Reps)
  /\ ~Derivable(rows)
  /\ pc' = "exit 2"
  /\ Quiet

(* finalize_stage0.                                                         *)
Provisional ==
  /\ pc = "count" /\ Cardinality(Own(rows)) = Cardinality(Reps) /\ Derivable(rows)
  /\ Derived(rows).of < Cardinality(Own(rows))
  /\ summary' = Derived(rows)
  /\ pc' = "exit 0"
  /\ UNCHANGED <<files, live, config, mock, ran, rows, known, adder, history>>

(* A --mock probe over a finished corpus records to a registry of its own.  *)
RecordElsewhere ==
  /\ pc = "count" /\ Cardinality(Own(rows)) = Cardinality(Reps) /\ Derivable(rows)
  /\ Derived(rows).of = Cardinality(Own(rows)) /\ mock
  /\ summary' = Derived(rows)
  /\ pc' = "exit 0"
  /\ UNCHANGED <<files, live, config, mock, ran, rows, known, adder, history>>

(* Without its row, or with a registry it cannot read, the probe refuses    *)
(* after the fact.                                                          *)
Record ==
  /\ pc = "count" /\ Cardinality(Own(rows)) = Cardinality(Reps) /\ Derivable(rows)
  /\ Derived(rows).of = Cardinality(Own(rows)) /\ ~mock
  /\ IF Readable /\ Has(registry, Model, config.driver)
     THEN LET row == FindRow(registry, Model, config.driver)
              d == Derived(rows)
          IN /\ known' = [i \in DOMAIN registry |->
                            IF registry[i] = row
                            THEN RecordNoiseProbe(row, d.identical, d.of) ELSE registry[i]]
             /\ summary' = d
             /\ pc' = "truncate"
     ELSE pc' = "exit 2" /\ UNCHANGED <<known, summary>>
  /\ overlapped' = (overlapped \/ Adding)
  /\ UNCHANGED <<files, live, config, mock, ran, rows, adder, attempts, foreign, exposed, added,
                 invoked, kills>>

TruncateToRecord ==
  /\ pc = "truncate"
  /\ registry' = <<>>
  /\ pc' = "write"
  /\ UNCHANGED <<results, live, config, mock, ran, rows, known, summary, adder, history>>

WriteRecorded ==
  /\ pc = "write"
  /\ registry' \in Overwritten(registry, known)
  /\ pc' = "exit 0"
  /\ UNCHANGED <<results, live, config, mock, ran, rows, known, summary, adder, history>>

(* A kill of the probe, and of the run.py it waits for.                     *)
KillProbe ==
  /\ pc \notin Exits /\ kills < MaxKills
  /\ kills' = kills + 1
  /\ exposed' = IF pc = "retag" THEN exposed \cup {rows[i].attempt : i \in DOMAIN rows}
                ELSE exposed
  /\ overlapped' = (overlapped \/ Probing)
  /\ pc' = "idle"
  /\ UNCHANGED <<files, live, config, mock, ran, rows, known, summary, adder, attempts, foreign,
                 added, invoked>>

-----------------------------------------------------------------------------
Adder == AddModel \/ TruncateToAdd \/ WriteAdded \/ KillAdder

Probe ==
  \/ Look \/ Rejected \/ Dispatched \/ Undispatched \/ RunRep
  \/ Read \/ TruncateToTag \/ WriteTagged
  \/ WrongCount \/ Refuse \/ Provisional \/ RecordElsewhere
  \/ Record \/ TruncateToRecord \/ WriteRecorded

Next == SetServer \/ ForeignAppend \/ Adder \/ Invoke \/ Probe \/ KillProbe

Spec == Init /\ [][Next]_vars

-----------------------------------------------------------------------------
(* Safety.                                                                  *)

Pairs(rowsOf) == {<<rowsOf[i].model, rowsOf[i].driver>> : i \in DOMAIN rowsOf}

(* Types.  The probe holds a corpus from its read to its count, and the     *)
(* registry it is about to write.                                           *)
TypeOK ==
  /\ registry \in Seq(RegistryRow \cup {Torn})
  /\ results \in Seq([sweep : {"probe", "other"}, rep : Reps \cup {0},
                      why : SUBSET KnownReasons, attempt : -MaxForeign..Len(attempts),
                      tagged : BOOLEAN])
  /\ live \in Servers /\ config \in Configs /\ mock \in BOOLEAN /\ ran \subseteq Reps
  /\ pc \in Exits \cup {"look", "gate", "gated", "ungated", "read", "tag", "retag", "count",
                        "truncate", "write"}
  /\ Probing => Has(known, Model, config.driver) /\ ~mock
  /\ pc = "count" => \A i \in Own(rows) : rows[i].tagged
  /\ adder.at \in {"idle", "truncate", "write"} /\ (Adding => adder.request \in Requests)
  /\ overlapped \in BOOLEAN /\ invoked \in 0..MaxInvocations /\ kills \in 0..MaxKills

(* A sample of attempts that a recorded probe may be of: each rep once,     *)
(* scored, and run while the server showed what the row pins.               *)
Backs(sample, row) ==
  /\ {attempts[i].rep : i \in sample} = Reps /\ Cardinality(sample) = Cardinality(Reps)
  /\ \A i \in sample :
       /\ InDenominator(attempts[i].end.why)
       /\ attempts[i].live.state = "up"
       /\ \A f \in PREFLIGHT_FIELDS : attempts[i].live[f] = row.serving[f]

Probed == {i \in DOMAIN registry :
             registry[i].model # "torn" /\ registry[i].noise_probe # NoProbe}

(* What the registry says of noise was measured: by as many scored reps as  *)
(* it says, under the server the row pins, with that majority, whatever was *)
(* killed, lost, retried or mocked on the way.                              *)
NoiseProbeIsMeasured ==
  \A i \in Probed :
    \E sample \in SUBSET DOMAIN attempts :
      LET passes == Cardinality({a \in sample : attempts[a].end.pass})
      IN /\ Backs(sample, registry[i])
         /\ registry[i].noise_probe =
              [identical |-> Max({passes, Cardinality(sample) - passes}),
               of |-> Cardinality(sample)]

(* A row asserts determinism only if at least five reps of it ended alike   *)
(* (new_row's rule 1), and validate finds no fault with it.                 *)
DeterminismIsEarned ==
  /\ \A i \in Probed : registry[i].deterministic_loops =>
       \E sample \in SUBSET DOMAIN attempts :
         /\ Backs(sample, registry[i]) /\ Cardinality(sample) >= 5
         /\ \A a, b \in sample : attempts[a].end.pass = attempts[b].end.pass
  /\ Readable => Validate(registry, {r.model : r \in Requests}) # 1

(* add-model never makes a second row of a pair, also when it runs beside   *)
(* the probe: find_row would serve the first and hide the other.            *)
OneRowPerPair ==
  \A i, j \in DOMAIN registry : i # j /\ Readable =>
    <<registry[i].model, registry[i].driver>> # <<registry[j].model, registry[j].driver>>

(* A row is missing from the registry only if two rewrites met or one was   *)
(* killed.                                                                  *)
RowsLostOnlyInARace ==
  overlapped \/ Pairs(Before) \cup added \subseteq
    Pairs(registry) \cup (IF adder.at = "write" THEN Pairs(adder.rows) ELSE {})
      \cup (IF pc = "write" THEN Pairs(known) ELSE {})

(* A row is missing from the corpus only if it was appended between the     *)
(* probe's read and its rewrite, or the rewrite was killed.                 *)
CorpusLostOnlyInARewrite ==
  LET inHand == IF pc = "retag" THEN ToSet(rows) ELSE {}
  IN foreign \cup DOMAIN attempts \subseteq
       exposed \cup {row.attempt : row \in ToSet(results) \cup inHand}

(* All the registry says of noise and determinism was earned by reps of the *)
(* probe under the server it pins.                                          *)
RegistryIsEarned == NoiseProbeIsMeasured /\ DeterminismIsEarned

(* The registry has one row of each pair anybody added, whoever writes it   *)
(* beside whom, unless two rewrites met or one was killed.  TypeOK: what is *)
(* torn is seen as torn, and what the probe counts has its tag.             *)
RegistryIsWhole == TypeOK /\ OneRowPerPair /\ RowsLostOnlyInARace
=============================================================================
