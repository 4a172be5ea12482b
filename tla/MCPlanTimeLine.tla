-------------------------- MODULE MCPlanTimeLine --------------------------
(* The model-checking module of PlanTimeLine: flowplans that consume one   *)
(* unit, produce one or two, or do neither.                                *)
EXTENDS PlanTimeLine

Quantities == -1..2
=============================================================================
