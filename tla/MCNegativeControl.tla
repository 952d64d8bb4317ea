-------------------------- MODULE MCNegativeControl --------------------------
(* Edits and bounds for TLC.                                               *)
EXTENDS NegativeControl

(* The source, both tests, the script and its environment.                  *)
AllEdits ==
  {<<"src", "linear">>, <<"src", "right">>, <<"verify.sh", "other">>,
   <<"tests/test", "absent">>, <<"tests/test", "directory">>, <<"tests/test", "other">>,
   <<"tests/own", "failing">>, <<"conftest.py", "other">>, <<"lock", "other">>,
   <<".venv", "other">>}

Sources == {<<"src", "linear">>, <<"src", "right">>}

(* One run in depth; a retry and a re-grade; the same with a repair on the  *)
(* way; a repair on the way to one of two re-grades; and the arms.          *)
Bounds ==
  {[attempts |-> 1, edits |-> 2, looks |-> 1, regrades |-> 0, arms |-> 0,
    of |-> AllEdits, first |-> 1, last |-> 2],
   [attempts |-> 2, edits |-> 1, looks |-> 0, regrades |-> 1, arms |-> 0,
    of |-> Sources, first |-> 3, last |-> 3],
   [attempts |-> 2, edits |-> 0, looks |-> 0, regrades |-> 1, arms |-> 0,
    of |-> {}, first |-> 2, last |-> 3],
   [attempts |-> 1, edits |-> 1, looks |-> 0, regrades |-> 2, arms |-> 0,
    of |-> {<<"src", "linear">>}, first |-> 1, last |-> 3],
   [attempts |-> 0, edits |-> 0, looks |-> 0, regrades |-> 0, arms |-> 2,
    of |-> {}, first |-> 1, last |-> 3]}
=============================================================================
