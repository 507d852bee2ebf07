---------------------------- MODULE MCFpschedApp -----------------------------
(* Instances of FpschedApp. *)
EXTENDS FpschedApp

CONSTANTS c1, c2, c3, none

(* Each core outranks those before it. *)
InOrder == {<<c2, c1>>, <<c3, c1>>, <<c3, c2>>}
=============================================================================
