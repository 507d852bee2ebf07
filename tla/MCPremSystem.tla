---------------------------- MODULE MCPremSystem ----------------------------
(* Instances of PremSystem for TLC. *)
EXTENDS PremSystem, TLC

CONSTANTS c1, c2, c3, t1, t2, t3

(* One core with two tasks, another with one; either may preempt the other. *)
PairCoreOf   == (t1 :> c1) @@ (t2 :> c1) @@ (t3 :> c2)
PairLines    == (t1 :> 2) @@ (t2 :> 1) @@ (t3 :> 2)
PairOutranks == {<<c1, c2>>, <<c2, c1>>}

(* Three cores with a task each in a priority order.  (With OrderedIPIs FALSE  *)
(* PrefetchNeedsToken does not hold of it.) *)
TrioCoreOf   == (t1 :> c1) @@ (t2 :> c2) @@ (t3 :> c3)
TrioLines    == (t1 :> 1) @@ (t2 :> 1) @@ (t3 :> 1)
TrioOutranks == {<<c1, c2>>, <<c1, c3>>, <<c2, c3>>}

(* Two cores with a task each, no preemption; and a core of its own. *)
DuoCoreOf   == (t1 :> c1) @@ (t2 :> c2)
DuoLines    == (t1 :> 1) @@ (t2 :> 2)
DuoOutranks == {<<c1, c2>>}
SoloCoreOf  == t1 :> c1
SoloLines   == t1 :> 2
=============================================================================
