---------------------------- MODULE MCCommandManager ----------------------------
(* Bounded instances of CommandManager: the .cfg files choose the switches. *)
EXTENDS CommandManager, TLC

OperationPlanSymmetry == Permutations(OperationPlan)
=============================================================================
