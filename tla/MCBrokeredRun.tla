--------------------------- MODULE MCBrokeredRun ---------------------------
(* Model-checking instance of BrokeredRun.                                  *)
EXTENDS BrokeredRun, TLC

(* Shims of one kind are interchangeable.                                   *)
Symmetry == Permutations(Detached) \cup Permutations(Clients \ Detached)
=============================================================================
