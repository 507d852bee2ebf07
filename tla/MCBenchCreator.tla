--------------------------- MODULE MCBenchCreator ----------------------------
(* Instances of BenchCreator: a tick is 4 ns or half a us, words of 16 bits. *)
EXTENDS BenchCreator
=============================================================================
