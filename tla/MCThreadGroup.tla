----------------------------- MODULE MCThreadGroup -----------------------------
(* Bounded instances of ThreadGroup: the numbers are chosen in each .cfg.   *)
(* The system stops when execute() has been left and no worker is running,  *)
(* so TLC does not look for deadlocks; Terminates does.                     *)
EXTENDS ThreadGroup
================================================================================
