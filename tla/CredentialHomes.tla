--------------------------- MODULE CredentialHomes ---------------------------
(***************************************************************************)
(* scoped_codex_home and scoped_claude_home of runner/run.py: every run    *)
(* gets a home of its own, in which the operator's credential is a link.   *)
(*                                                                         *)
(* A refresh token is good for one refresh: the CLI writes the next one to *)
(* a file beside the credential and renames it over what is there, in a    *)
(* scoped home over the link.  So the file a run leaves in its home is the *)
(* operator's login, and teardown copies it back; runs of several sweeps   *)
(* do so at once.  One of the two credentials; they are handled alike.     *)
(***************************************************************************)
EXTENDS Naturals

CONSTANTS
  Homes,       \* the scoped homes there can be at once
  MaxToken     \* bound: refreshes, plus one

ASSUME HomesAssumption == MaxToken \in Nat \ {0}

VARIABLES
  token,       \* the refresh token the service would take
  source,      \* the one in CODEX_AUTH_SOURCE; 0 while the file is half written
  homes,       \* of each home: is it there, and the real file in it, 0 a link
  lost         \* history: a run was killed, and its home left behind

homeVars == <<token, source, homes, lost>>

None == [st |-> "none", held |-> 0]
Link == [st |-> "live", held |-> 0]

HomesInit ==
  /\ token = 1 /\ source = 1
  /\ homes = [h \in Homes |-> None]
  /\ lost = FALSE

(* What the CLI reads through the link, or in its own file.                 *)
Reads(h) == IF homes[h].held = 0 THEN source ELSE homes[h].held

(* Mutant: the credential is copied into the home.                          *)
OpenCopying(h) ==
  /\ homes[h] = None
  /\ homes' = [homes EXCEPT ![h] = [st |-> "live", held |-> source]]
  /\ UNCHANGED <<token, source, lost>>

Open(h) ==
  /\ homes[h] = None
  /\ homes' = [homes EXCEPT ![h] = Link]
  /\ UNCHANGED <<token, source, lost>>

(* A CLI whose token was spent by somebody else is not served.              *)
Refresh(h) ==
  /\ homes[h].st = "live"
  /\ Reads(h) = token /\ token < MaxToken
  /\ token' = token + 1
  /\ homes' = [homes EXCEPT ![h].held = token + 1]
  /\ UNCHANGED <<source, lost>>

(* The operator's own CLI, or a run with GAUNTLET_INHERIT_HOME=1.           *)
OperatorRefreshes ==
  /\ source = token /\ token < MaxToken
  /\ token' = token + 1
  /\ source' = token + 1
  /\ UNCHANGED <<homes, lost>>

(* A link that still is a link is dropped with the home.                    *)
CloseLink(h) ==
  /\ homes[h] = Link
  /\ homes' = [homes EXCEPT ![h] = None]
  /\ UNCHANGED <<token, source, lost>>

(* copyfile empties the source, and then writes it.                         *)
CopyBack(h) ==
  /\ homes[h].st = "live" /\ homes[h].held # 0
  /\ homes' = [homes EXCEPT ![h].st = "closing"]
  /\ source' = 0
  /\ UNCHANGED <<token, lost>>

Close(h) ==
  /\ homes[h].st = "closing"
  /\ source' = homes[h].held
  /\ homes' = [homes EXCEPT ![h] = None]
  /\ UNCHANGED <<token, lost>>

(* SIGKILL runs no finally: what was refreshed stays where nobody looks.    *)
Leave(h) ==
  /\ homes[h].st \in {"live", "closing"}
  /\ homes' = [homes EXCEPT ![h] = None]
  /\ lost' = TRUE
  /\ UNCHANGED <<token, source>>

HomesNext ==
  \/ OperatorRefreshes
  \/ \E h \in Homes : Open(h) \/ Refresh(h) \/ CloseLink(h) \/ CopyBack(h) \/ Close(h) \/ Leave(h)

HomesSpec == HomesInit /\ [][HomesNext]_homeVars

-----------------------------------------------------------------------------
(* Until a run is killed, the login is never lost, whichever runs overlap   *)
(* and whoever refreshes: the one good token is the operator's, or in a     *)
(* home that will copy it back; between runs it is the operator's.  ("A     *)
(* refresh that lands in a directory about to be deleted breaks the         *)
(* operator's login, not just the run's.")                                  *)
LoginSurvives ==
  ~lost => \/ source = token
           \/ \E h \in Homes : homes[h].st # "none" /\ homes[h].held = token
=============================================================================
