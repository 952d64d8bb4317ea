-------------------------------- MODULE Usage --------------------------------
(***************************************************************************)
(* runner/usage_ledger.py without its files: what is read off the output   *)
(* of a model CLI, which rows carry a number that can be trusted, and the  *)
(* row of usage.jsonl that is made of them.                                *)
(*                                                                         *)
(* An output is the sequence of the JSON objects on its lines; "text" is   *)
(* anything else.  A session is the requests the CLI made of its model.    *)
(***************************************************************************)
EXTENDS Integers, Sequences, FiniteSets, FiniteSetsExt

FAMILY_PARSE_BRANCH == [f \in {"claude", "kimi", "local", "codex"} |->
                          IF f = "codex" THEN "codex_jsonl" ELSE "claude_json"]

(* parse_branch raises on a family nobody declared.                         *)
Routed(family) == family \in DOMAIN FAMILY_PARSE_BRANCH

ParsesClaudeJson(family) ==
  Routed(family) /\ FAMILY_PARSE_BRANCH[family] = "claude_json"

Request == [fresh : Nat, created : Nat, read : Nat, out : Nat]

(* A field, added up over some of the elements of a sequence.               *)
Sum(s, at, field) ==
  LET upto[n \in 0..Len(s)] ==
        IF n = 0 THEN 0 ELSE upto[n - 1] + (IF n \in at THEN s[n][field] ELSE 0)
  IN upto[Len(s)]

(* What a session consumed.                                                 *)
Total(session, field) == Sum(session, DOMAIN session, field)
Consumed(session) ==
  Total(session, "fresh") + Total(session, "created") + Total(session, "read")

(* The CLIs.  `claude -p` prints one result at the end, with three disjoint *)
(* sums; `codex exec` one turn.completed, whose input includes the cached.  *)
(* A CLI that is cut off prints text only.                                  *)
Emitted(family, session) ==
  << [type |-> "text"],
     IF ParsesClaudeJson(family)
     THEN [type |-> "result", fresh |-> Total(session, "fresh"),
           created |-> Total(session, "created"), read |-> Total(session, "read"),
           out |-> Total(session, "out"), turns |-> Len(session)]
     ELSE [type |-> "turn.completed", fresh |-> Consumed(session),
           read |-> Total(session, "read"), out |-> Total(session, "out")] >>

CutOff == << [type |-> "text"] >>

Detail(ti, to, read, created, turns) ==
  [tokens_in |-> ti, tokens_out |-> to, cache_read |-> read,
   cache_creation |-> created, turns |-> turns]

OfType(out, type) == {i \in DOMAIN out : out[i].type = type}

(* Mutant: the formula of parser version 1, the fresh tokens alone.         *)
FromResultFreshOnly(out) ==
  LET results == OfType(out, "result")
      u == out[Max(results)]
  IN IF results = {} THEN Detail(0, 0, 0, 0, 0)
     ELSE Detail(u.fresh, u.out, u.read, u.created, u.turns)

(* The last result; none at all reads as nothing consumed.                  *)
FromResult(out) ==
  LET results == OfType(out, "result")
      u == out[Max(results)]
  IN IF results = {} THEN Detail(0, 0, 0, 0, 0)
     ELSE Detail(u.fresh + u.created + u.read, u.out, u.read, u.created, u.turns)

FromTurns(out) ==
  LET turns == OfType(out, "turn.completed")
  IN Detail(Sum(out, turns, "fresh"), Sum(out, turns, "out"), Sum(out, turns, "read"), 0,
            Cardinality(turns))

ParseUsageDetailed(family, out) ==
  IF ParsesClaudeJson(family) THEN FromResult(out) ELSE FromTurns(out)

-----------------------------------------------------------------------------
(* Labels of a results row.                                                 *)

PRE_CACHE_FIX == 1
USAGE_PARSER_VERSION == 2
UNAFFECTED_PARSE_BRANCHES == {"codex"}

FAMILY_INVOCATION_MODE == [f \in {"claude", "kimi", "local", "codex"} |->
                             IF f = "codex" THEN "single_shot" ELSE "multi_turn"]

InvocationMode(family) ==
  IF family \in DOMAIN FAMILY_INVOCATION_MODE THEN FAMILY_INVOCATION_MODE[family]
  ELSE "unknown"

TokensInStatus(family, version, ledgered) ==
  IF version >= USAGE_PARSER_VERSION \/ family \in UNAFFECTED_PARSE_BRANCHES THEN "measured"
  ELSE IF ledgered = "measured" THEN "recovered_in_ledger" ELSE "quarantined"

(* A row from before the fix of the formula is labelled by its date.        *)
ParserVersionAt(old) == IF old THEN PRE_CACHE_FIX ELSE USAGE_PARSER_VERSION

-----------------------------------------------------------------------------
(* The ledger row.                                                          *)

(* List prices in units of a tenth of a dollar per million; families stand  *)
(* for their one priced id.                                                 *)
PRICING == [f \in {"kimi"} |-> [in_fresh |-> 30, in_cache_read |-> 3,
                                in_cache_write |-> 30, out |-> 150]]
Unpriced == -1

UsdEstimate(family, d) ==
  LET p == PRICING[family]
      rest == d.tokens_in - d.cache_read - d.cache_creation
      fresh == IF rest > 0 THEN rest ELSE 0
  IN IF family \notin DOMAIN PRICING THEN Unpriced
     ELSE fresh * p.in_fresh + d.cache_read * p.in_cache_read
            + d.cache_creation * p.in_cache_write + d.tokens_out * p.out

NoDetail == Detail(-1, 0, 0, 0, 0)

RetrofitStatus(family, detail, stored) ==
  CASE detail # NoDetail -> "measured"
    [] detail = NoDetail /\ stored = 0 -> "not_applicable_zero_tokens"
    [] detail = NoDetail /\ stored # 0 /\ family = "codex" -> "measured"
    [] OTHER -> "unfixable_floor_only"

(* stored is the tokens_in of the results row.                              *)
BuildUsageRow(id, kind, family, detail, stored) ==
  LET d == IF detail = NoDetail THEN Detail(stored, 0, 0, 0, 0) ELSE detail
  IN [id |-> id, kind |-> kind, tokens_in |-> d.tokens_in,
      usd |-> UsdEstimate(family, d),
      status |-> RetrofitStatus(family, detail, stored)]
=============================================================================
