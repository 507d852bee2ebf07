---------------------------- MODULE MCCacheLines -----------------------------
(* Instances of CacheLines: 8-bit addresses, lines of 8 bytes. *)
EXTENDS CacheLines

(* Whole lines and others, of at least a line: the loop of prefetch_data does *)
(* not end at 0 when its count begins there. *)
AnyAddress == 0 .. 9 \cup {40}
AnySize    == 8 .. 26 \cup {40}
=============================================================================
