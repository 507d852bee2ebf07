-------------------------- MODULE MCPremMeasurement --------------------------
(* Instances of PremMeasurement: sizes 1, 3 and 5 with four tests each. *)
EXTENDS PremMeasurement
=============================================================================
