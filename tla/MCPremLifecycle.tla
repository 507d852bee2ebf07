-------------------------- MODULE MCPremLifecycle ---------------------------
(* Instances of PremLifecycle. *)
EXTENDS PremLifecycle

CONSTANTS t1, t2, t3, none

(* The requests of the applications: a display (main_prem.c), a display with  *)
(* a new size (execution-prem-measurement), a deletion (main_legacy.c), and   *)
(* the deletion with a change of size that prem_task.c:230 mentions. *)
AppRequests == {{}, {"display"}, {"display", "change"}, {"kill"}, {"kill", "change"}}
=============================================================================
