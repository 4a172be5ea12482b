----------------------------- MODULE MCSolverDemand -----------------------------
(* Solvers for TLC: see the README for why these.                          *)
EXTENDS SolverDemand

CONSTANTS d1, d2

Replan ==
  [autocommit |-> TRUE, planType |-> 1, constrained |-> TRUE, allowSplits |-> TRUE, threshold |-> 1,
   excess |-> 0, failures |-> FALSE, demands |-> {d1}, maxQuantity |-> 4, maxLateness |-> 2]

Incremental ==
  [autocommit |-> FALSE, planType |-> 1, constrained |-> TRUE, allowSplits |-> FALSE, threshold |-> 1,
   excess |-> 1, failures |-> TRUE, demands |-> {d1, d2}, maxQuantity |-> 2, maxLateness |-> 1]

(* The operation comes in lots of two.                                     *)
InLots == [Replan EXCEPT !.excess = 1, !.maxLateness = 1]

(* Plan type 2, planned by a user: constrainedPlanning is TRUE then.       *)
OnTime ==
  [Incremental EXCEPT !.planType = 2, !.allowSplits = TRUE, !.excess = 0, !.demands = {d1},
                      !.maxQuantity = 3, !.maxLateness = 2]

(* Two demands share the journal, and either of them may fail.             *)
Failing ==
  [Replan EXCEPT !.failures = TRUE, !.demands = {d1, d2}, !.maxQuantity = 2, !.maxLateness = 1]

Solvers == {Replan, Incremental, InLots, OnTime, Failing}

FailingReplan == {[Failing EXCEPT !.demands = {d1}]}
=================================================================================
