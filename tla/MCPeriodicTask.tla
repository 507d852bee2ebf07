--------------------------- MODULE MCPeriodicTask ---------------------------
(* Instances of PeriodicTask for TLC. *)
EXTENDS PeriodicTask, TLC

CONSTANTS t1, t2, t3

(* 5 counts for 2 ticks: every conversion truncates.  The periods are 5, 2     *)
(* and 0 counts.                                                              *)
MixedPeriods  == (t1 :> 2) @@ (t2 :> 1) @@ (t3 :> 0)
MixedPriority == (t1 :> 1) @@ (t2 :> 2) @@ (t3 :> 1)

(* One task with a period of 15 counts, for the two statements that do not     *)
(* hold: LateRunsAtOnce, DelayUnderestimates (Tasks = {t1}, Stalls = FALSE,    *)
(* Horizon = 40). *)
SoloPeriods  == t1 :> 6
SoloPriority == t1 :> 1
=============================================================================
