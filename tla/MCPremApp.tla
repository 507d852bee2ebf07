------------------------------ MODULE MCPremApp ------------------------------
(* Instances of PremApp. *)
EXTENDS PremApp

CONSTANTS c1, c2, c3, none

TwoLines == [c \in Cores |-> IF c = c1 THEN 1 ELSE 2]

(* The order of the cores before the priority of the first one rises (main.c: *)
(* 41, 169). *)
AtStart == {<<c2, c1>>, <<c3, c1>>, <<c3, c2>>}
=============================================================================
