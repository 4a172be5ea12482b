----------------------------- MODULE MCTaskQueue -----------------------------
(* Bounded instances of TaskQueue: two tasks, so at most two workers, that *)
(* are both planning runs or of two of the other kinds.                    *)
EXTENDS TaskQueue

Pairs == {<<"plan", "plan">>, <<"command", "dataset">>, <<"unknown", "dataset">>}
=============================================================================
