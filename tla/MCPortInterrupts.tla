-------------------------- MODULE MCPortInterrupts --------------------------
(* Instances of PortInterrupts. *)
EXTENDS PortInterrupts

CONSTANTS t1, t2, main
=============================================================================
