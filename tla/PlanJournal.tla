------------------------------ MODULE PlanJournal ------------------------------
(***************************************************************************)
(* What a solver expects of the journal of its decisions: a plan with      *)
(* nested savepoints.  It may set a savepoint at any moment, return to one *)
(* of them (which forgets the later ones and keeps this one), accept all   *)
(* changes, or give all of them up.  CommandManager implements it.         *)
(*                                                                         *)
(* The plan is the quantity each operationplan contributes to the material *)
(* and capacity of the model; 0 stands for one that contributes nothing.   *)
(***************************************************************************)
EXTENDS Integers, Sequences

CONSTANTS
  OperationPlan,   (* identities of the operationplans                     *)
  SizeMaximum,     (* the largest quantity                                 *)
  Consolidate      (* accepting may merge operationplans of equal dates    *)

VARIABLES
  plan,            (* the current plan                                     *)
  saved            (* the plans at the savepoints; the first is the one    *)
                   (* the transaction started from                         *)

vars == <<plan, saved>>

Plan == [OperationPlan -> 0..SizeMaximum]

Init == plan \in Plan /\ saved = <<plan>>

Change ==
  /\ \E x \in OperationPlan, q \in 0..SizeMaximum : plan' = [plan EXCEPT ![x] = q]
  /\ UNCHANGED saved

SetSavepoint == saved' = Append(saved, plan) /\ UNCHANGED plan

RollbackTo(k) ==
  /\ k \in 2..Len(saved)
  /\ plan' = saved[k]
  /\ saved' = SubSeq(saved, 1, k)

(* An accepted operationplan keeps its contribution; where operationplans  *)
(* are consolidated it may also absorb another one or be absorbed.         *)
Settled(p) ==
  {q \in Plan : \A x \in OperationPlan :
                  q[x] = p[x] \/ (Consolidate /\ (q[x] = 0 \/ q[x] > p[x]))}

Commit == plan' \in Settled(plan) /\ saved' = <<plan'>>

Rollback == plan' = saved[1] /\ saved' = <<saved[1]>>

Next == \/ Change \/ SetSavepoint \/ Commit \/ Rollback
        \/ \E k \in 2..Len(saved) : RollbackTo(k)

Spec == Init /\ [][Next]_vars
=============================================================================
