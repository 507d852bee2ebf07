---------------------------- MODULE MCMicroBench -----------------------------
(* Instances of MicroBench. *)
EXTENDS MicroBench

CONSTANTS c1, c2, none

(* The other core takes the token from the one that measures. *)
OtherFirst == {<<c2, c1>>}
=============================================================================
